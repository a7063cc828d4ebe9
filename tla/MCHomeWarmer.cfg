SPECIFICATION Spec
CONSTANTS
    home = home
    away = away
    clear = clear
    rain = rain
    None = None
    Temp <- Borders
    Kelvin <- Outside
    Place = {home, away}
    Home = home
    Sky = {clear}
    MaxReadings = 1
    MaxMoves = 0
PROPERTY
    WarmerMeansWarmer
CHECK_DEADLOCK FALSE
