SPECIFICATION FairWholeSpec
CONSTANTS
    MaxSamples = 2
    MaxStarts = 3
    MaxFaults = 1
    DocId = {d1, d2}
    Listener = {screen}
    MaxLaunches = 2
INVARIANTS
    RecordedIsStored
    StoredOnceInOrder
    LossPerRun
    SampleListedOnce
    FilesExplainList
PROPERTIES
    RecordedIsListed
    ImplementsJourney
CHECK_DEADLOCK FALSE
