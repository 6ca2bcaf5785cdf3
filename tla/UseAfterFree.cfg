\* What becomes of a connection that closes in the ordinary way.
SPECIFICATION Spec
CONSTANTS
    NConns = 2
    NWorkers = 1
    MaxRemovals = 2
CHECK_DEADLOCK FALSE
INVARIANTS
    NoUseAfterFree
