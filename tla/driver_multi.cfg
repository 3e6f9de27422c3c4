\* Two processes on a channel.
CONSTANTS
    f1 = f1
    f2 = f2
    f3 = f3
    NoFile = NoFile
    File <- MCFile
    Channel <- MCChannel
    MaxOpen <- MCTwoAtATime
SPECIFICATION Spec
SYMMETRY FileSymmetry
INVARIANTS
    OpenFileHasClient
CHECK_DEADLOCK FALSE
