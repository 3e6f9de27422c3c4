\* Three processes; a channel they all share, one of a user at a time, one of
\* two; the module is loaded twice.
CONSTANTS
    f1 = f1
    f2 = f2
    f3 = f3
    NoFile = NoFile
    File <- MCFile
    Channel <- MCChannel
    MaxOpen <- MCMaxOpen
    MaxLoads = 2
SPECIFICATION ModuleSpec
SYMMETRY FileSymmetry
INVARIANTS
    ModuleTypeOK
    RefImpliesClient
    PointerTracksCore
    ReadKeepsClient
    SoleUserHasClient
    NodesBacked
    NothingLeft
CHECK_DEADLOCK FALSE
