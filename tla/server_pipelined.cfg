\* One client that sends two requests in a row.
CONSTANTS
    c1 = c1
    c2 = c2
    c3 = c3
    Listener = Listener
    NoData = NoData
    Conn <- MCConn
    Request <- MCDataRequest
    Sampled <- MCSampled
    MaxEvents = 2
    SndBuf = 1
    MaxReq = 2
    Window = 2
    MaxFail = 0
    MaySignal = FALSE
SPECIFICATION FairSpec
PROPERTIES
    EveryRequestAnswered
CHECK_DEADLOCK FALSE
