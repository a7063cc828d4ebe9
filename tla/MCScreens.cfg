SPECIFICATION ScreensSpec
CONSTANTS
    DocId = {d1, d2, d3}
    Content = {"early", "late"}
    WellFormed = {"early", "late"}
    MayEdit = FALSE
    MaxWrites = 3
    MaxLaunches = 2
    Listener = {"home", "colour", "history"}
    Time <- MCTime
    Numbers <- MCNumbers
    NoReading <- MCNoReading
    Swatches = 1
    MaxTouches = 3
SYMMETRY MCSymmetry
CHECK_DEADLOCK FALSE
INVARIANTS
    ScreensTypeOK
    VisibleNewest
    SwatchesAreNextNewest
    TableIsHistory
    GaugesSettled
    DiesOfTextOnly
