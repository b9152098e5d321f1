SPECIFICATION UnfencedSpec
CONSTANTS
    Commands = {"p", "g"}
    OperationOf <- MCOperation
    OwnerOf <- MCOwner
    AccountOf <- MCAccount
    InstrumentOf <- MCInstrument
    TargetOf <- MCTarget
    Owners = {"o1"}
    Accounts = {"a1"}
    Reserving = FALSE
    SendAttemptLimit = 1
    MaxIngress = 1
    MaxLog = 7
CHECK_DEADLOCK FALSE
INVARIANT
    UncertainFencesRisk
