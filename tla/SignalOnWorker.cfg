\* One worker, no connection, and one signal, on either thread.
SPECIFICATION Spec
CONSTANTS
    ThreadNums = {1}
    IntMax = 0
    SizeMax = 3
    NConns = 0
    Leaving = {}
    MaxSignals = 1
    Loads <- AnyLoad
CHECK_DEADLOCK FALSE
INVARIANT
    WorkersEndFirst
