SPECIFICATION Spec
CONSTANTS
    home = home
    away = away
    clear = clear
    rain = rain
    None = None
    Temp <- ColdAndWarm
    Kelvin <- Outside
    Place = {home, away}
    Home = home
    Sky = {clear}
    MaxReadings = 2
    MaxMoves = 0
INVARIANT
    GifMatchesMood
CHECK_DEADLOCK FALSE
