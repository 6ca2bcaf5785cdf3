\* Two connections on one worker: the second may get the descriptor of the first.
SPECIFICATION FairSpec
CONSTANTS
    NConns = 2
    NWorkers = 1
    MaxRemovals = 2
CHECK_DEADLOCK FALSE
INVARIANTS
    TypeOK
    EventsReachTheirConnection
    ConnectedHasHandler
    ConnectedIsTracked
PROPERTIES
    ClosedLeavesMap
