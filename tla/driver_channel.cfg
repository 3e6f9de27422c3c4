\* One file per channel at a time, over any number of sessions.
CONSTANTS
    f1 = f1
    f2 = f2
    f3 = f3
    NoFile = NoFile
    File <- MCFile
    Channel <- MCChannel
    MaxOpen <- MCOneAtATime
SPECIFICATION Spec
SYMMETRY FileSymmetry
INVARIANTS
    ReadsOwnChannel
CHECK_DEADLOCK FALSE
