\* One application thread; the peer sends two bytes through a send buffer of one.
SPECIFICATION FairSpec
CONSTANTS
    Users = {u1}
    Peer = peer
    MaxBytes = 2
    MaxCalls = 2
    SndCap = 1
CHECK_DEADLOCK FALSE
INVARIANTS
    TypeOK
    WriteArmed
    FinAfterDrain
    ConnectedKeepsAll
PROPERTIES
    ImplementsPipe
    ClosedIsSilent
    ShutdownSendsFin
    PeerEndCloses
