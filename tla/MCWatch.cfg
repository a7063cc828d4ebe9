SPECIFICATION TimedSpec
CONSTANTS
    DocId = {i1, i2}
    Content = {a, b}
    MayEdit = TRUE
    MaxWrites = 2
    Address = {p1, p2}
    Nowhere = Nowhere
    InitialDelay = 1000
    MaxDelay = 60000
    MaxCloses = 2
    MaxLaunches = 2
INVARIANTS
    ConnectionTypeOK
    NeverGivesUp
    OnlineStateHonest
PROPERTIES
    AssertionsHold
    ImplementsClient
    FirstEventComes
    CatchesUp
CHECK_DEADLOCK FALSE
