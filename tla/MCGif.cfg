SPECIFICATION FairSpec
CONSTANTS
    Centiseconds = {0, 15, 24, 201}
    MaxPictures = 3
CHECK_DEADLOCK FALSE
INVARIANTS
    GcdIsGreatest
    EachShownForItsDelay
    TrapsOnBadPicture
PROPERTIES
    Terminates
