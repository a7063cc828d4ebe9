SPECIFICATION Spec
CONSTANTS
    MaxMessages = 3
    MaxWrites = 3
INVARIANTS
    AssertionsHold
    ReleasedSafely
    OneAtATimeInOrder
    AlwaysReading
PROPERTIES
    KeepsPromise
    NeverStuck
    FailureReported
CHECK_DEADLOCK FALSE
