SPECIFICATION FairSpec
CONSTANTS
    d1 = d1
    d2 = d2
    d3 = d3
    good = good
    changed = changed
    bad = bad
    home = home
    history = history
    DocId = {d1, d2, d3}
    Content = {good, bad}
    WellFormed = {good}
    Listener = {home, history}
    MayEdit = FALSE
    MaxWrites = 3
    MaxLaunches = 2
INVARIANTS
    RegisteredCurrent
    NothingMissing
    ExactlyOnce
    HistoryMatchesCollection
PROPERTIES
    ImplementsLiveReadings
    EventuallyListed
CHECK_DEADLOCK FALSE
