SPECIFICATION PartSpec
CONSTANTS
    Commands = {"p", "x", "f"}
    OperationOf <- MCOperation
    OwnerOf <- MCOwner
    AccountOf <- MCAccount
    InstrumentOf <- MCInstrument
    TargetOf <- MCTarget
    Owners = {"o1"}
    Accounts = {"a1"}
    Reserving = FALSE
    SendAttemptLimit = 1
    MaxIngress = 1
    MaxLog = 6
CHECK_DEADLOCK FALSE
INVARIANTS
    MemoryMatchesReplay
    FailedBlocks
    QuietFences
    IngressAdvances
    ReplayAgrees
    SendAtMostOnce
    SendIsDurable
PROPERTY
    FencesStopSends
