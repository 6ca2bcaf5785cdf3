\* Two connections, two lines, two pool threads, one place in the queue, and room for one reply.
\* The system stops when every peer has finished, or in undefined behaviour.
SPECIFICATION FairSpec
CONSTANTS
    Workers = {w1, w2}
    Capacity = 1
    SockCap = 1
    NConns = 2
    MaxLines = 2
INVARIANTS
    TypeOK
    RepliesSignalled
    WatchedIsMapped
    EachLineOnce
PROPERTIES
    ImplementsTaskPool
    LineAnswered
    ClosedIsDestroyed
CHECK_DEADLOCK FALSE
