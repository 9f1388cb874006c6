\* Seven phases on two threads; every contract runs beside every other.
SPECIFICATION Spec
CONSTANTS
    Threads = {t1, t2}
    Messages <- MCMessages
    Accounts <- MCAccounts
    Source <- MCSource
    Target <- MCTarget
    StatusOf <- MCStatus
    Contracts <- MCContracts
    Known = {"x", "y", "z", "w", "v"}
    InitialPages = 1
    IntLimit = 393216
    Growth = 5
    MaxText = 32768
    MaxBlocks = 2
    NodeKey = "node key"
    Genesis <- MCGenesis
    GenesisParent = GenesisParent
    None = None
\* Every message is processed or has failed at the end.
CHECK_DEADLOCK FALSE
SYMMETRY ThreadSymmetry
INVARIANTS OwnData StringsApart BlocksSealed
PROPERTY ImplementsSerial
