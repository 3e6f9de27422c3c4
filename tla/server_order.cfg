\* Pipelining clients, failures, a signal.
CONSTANTS
    c1 = c1
    c2 = c2
    c3 = c3
    Listener = Listener
    NoData = NoData
    Conn <- MCConn
    Request <- MCRequest
    Sampled <- MCSampled
    MaxEvents = 2
    SndBuf = 1
    MaxReq = 2
    Window = 2
    MaxFail = 1
    MaySignal = TRUE
SPECIFICATION Spec
SYMMETRY ConnSymmetry
INVARIANTS
    TypeOK
    EventsAreCurrent
    OnlyPipelinersKill
PROPERTIES
    ServesInOrder
    NoLostConnection
CHECK_DEADLOCK FALSE
