\* Both signals, each on any thread, with up to one worker; two connections on two workers.
SPECIFICATION FairSpec
CONSTANTS
    ThreadNums = {0, 1, 2}
    IntMax = 0
    SizeMax = 3
    NConns = 2
    Leaving = {1}
    MaxSignals = 2
    Loads <- MCLoads
CHECK_DEADLOCK FALSE
INVARIANTS
    TypeOK
    ExitJoinsAll
    StopsOnce
    SpreadEvenly
PROPERTIES
    StopEndsServer
