SPECIFICATION Spec
CONSTANTS
    Configs <- OnlyDirect
    MaxPendingRecords = 2
    ReplayMaxRecords = 5
    MaxAppends = 4
    EventTypes <- MCEventTypes
INVARIANTS
    AckedFenceDurable
CHECK_DEADLOCK FALSE
