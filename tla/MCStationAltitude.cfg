SPECIFICATION Spec
CONSTANTS
    MaxSamples = 3
    MaxStarts = 1
    MaxFaults = 0
INVARIANT
    AltitudeFromAltimeter
CHECK_DEADLOCK FALSE
