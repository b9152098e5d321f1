SPECIFICATION MCSpec
CONSTANTS
    Configs <- AllConfigs
    MaxPendingRecords = 2
    ReplayMaxRecords = 5
    MaxAppends = 6
    EventTypes <- MCEventTypes
INVARIANTS
    AckedCriticalDurable
    JournalWellFormed
PROPERTIES
    NothingDropped
    
    ImplementsLedger
    QueuedEventuallyWritten
\* A torn journal is refused at startup until an operator repairs it.
CHECK_DEADLOCK FALSE
