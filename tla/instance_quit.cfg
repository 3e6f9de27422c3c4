\* A server and one run of -x.
CONSTANTS
    s1 = s1
    s2 = s2
    s3 = s3
    q1 = q1
    q2 = q2
    None = None
    Server <- MCTwoServers
    Quitter <- MCOneQuitter
    CleanStack = TRUE
    MayFailListen = FALSE
SPECIFICATION FairSpec
PROPERTIES
    QuitEndsServer
CHECK_DEADLOCK FALSE
