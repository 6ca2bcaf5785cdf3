\* One connection, one line, one pool thread.
SPECIFICATION Spec
CONSTANTS
    Workers = {w1}
    Capacity = 1
    SockCap = 1
    NConns = 1
    MaxLines = 1
CHECK_DEADLOCK FALSE
INVARIANT
    SendsOnLiveConnection
