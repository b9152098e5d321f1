SPECIFICATION Spec
CHECK_DEADLOCK FALSE
INVARIANTS
    OpenOnlyAsObserved
    LeaseHandedOnce
    ReceiptTellsLane
    LaneAccounted
    ReleaseAsTested
