\* Servers that start, fail, crash and restart beside two runs of -x.
CONSTANTS
    s1 = s1
    s2 = s2
    s3 = s3
    q1 = q1
    q2 = q2
    None = None
    Server <- MCServer
    Quitter <- MCTwoQuitters
    CleanStack = TRUE
    MayFailListen = TRUE
SPECIFICATION FairSpec
INVARIANTS
    OneServer
    FileNamesServer
    StaleOnlyAfterCrash
PROPERTIES
    QuitFromWaitCleansUp
CHECK_DEADLOCK FALSE
