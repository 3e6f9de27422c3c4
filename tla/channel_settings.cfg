\* Settings, socket events and samples, with no event between OK and Apply.
CONSTANTS
    Host = {h1, h2}
    FirstHost = h1
    ChannelText = {0, 1, 2}
    Channels = 2
    WindowEvents = FALSE
    MaxBuf = 2
SPECIFICATION FairSpec
INVARIANTS
    TypeOK
    ConnectedToConfigured
    DownCanReconnect
    SignalsTellState
PROPERTIES
    ShowsConfigured
    DisallowedEnds
