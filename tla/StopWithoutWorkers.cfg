\* No worker, one connection, one signal.
SPECIFICATION FairSpec
CONSTANTS
    ThreadNums = {0}
    IntMax = 0
    SizeMax = 3
    NConns = 1
    Leaving = {}
    MaxSignals = 1
    Loads <- AnyLoad
CHECK_DEADLOCK FALSE
PROPERTY
    StopClosesAll
