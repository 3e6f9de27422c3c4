\* Clients that wait for each answer; no failures.
CONSTANTS
    c1 = c1
    c2 = c2
    c3 = c3
    Listener = Listener
    NoData = NoData
    Conn <- MCConn
    Request <- MCValidRequest
    Sampled <- MCSampled
    MaxEvents = 1
    SndBuf = 1
    MaxReq = 2
    Window = 1
    MaxFail = 0
    MaySignal = FALSE
SPECIFICATION FairSpec
INVARIANTS
    NoLostEdge
PROPERTIES
    ServesEveryone
    ClosedIsReaped
CHECK_DEADLOCK FALSE
