SPECIFICATION UnfencedSpec
CONSTANTS
    Commands = {"p", "q", "x"}
    OperationOf <- MCOperation
    OwnerOf <- MCOwner
    AccountOf <- MCAccount
    InstrumentOf <- MCInstrument
    TargetOf <- MCTarget
    Owners = {"o1", "o2"}
    Accounts = {"a1"}
    Reserving = TRUE
    SendAttemptLimit = 1
    MaxIngress = 1
    MaxLog = 8
CHECK_DEADLOCK FALSE
INVARIANTS
    ActivatedHasReceipt
    SendBudget
    
