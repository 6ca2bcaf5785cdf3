\* send() and then shutdown() from one application thread.
SPECIFICATION Spec
CONSTANTS
    Users = {u1}
    Peer = peer
    MaxBytes = 2
    MaxCalls = 2
    SndCap = 1
CHECK_DEADLOCK FALSE
INVARIANTS
    GracefulShutdown
