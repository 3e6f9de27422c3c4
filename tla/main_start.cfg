\* Every command line of a few options and operands, with every answer of the
\* kernel to each of a few addresses.
CONSTANTS
    MaxAdc = 2
    MaxOptions = 2
    MaxOperands = 3
    MaxAddrs = 3
SPECIFICATION Spec
INVARIANTS
    TypeOK
    ServesChosen
    HandlesReturned
    FaultsOnlyAfterFailure
    SocketIsSound
    FindsLaterAddress
    FileAsNamed
CHECK_DEADLOCK FALSE
