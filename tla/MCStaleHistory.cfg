SPECIFICATION Spec
CONSTANTS
    d1 = d1
    d2 = d2
    d3 = d3
    good = good
    changed = changed
    bad = bad
    home = home
    history = history
    DocId = {d1, d2}
    Content = {good, changed, bad}
    WellFormed = {good, changed}
    Listener = {home, history}
    MayEdit = TRUE
    MaxWrites = 3
    MaxLaunches = 2
INVARIANT
    HistoryMatchesCollection
CHECK_DEADLOCK FALSE
