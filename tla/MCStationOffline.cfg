SPECIFICATION Spec
CONSTANTS
    MaxSamples = 2
    MaxStarts = 1
    MaxFaults = 0
INVARIANT
    EverySampleStored
CHECK_DEADLOCK FALSE
