SPECIFICATION Spec
CHECK_DEADLOCK FALSE
INVARIANTS
    TrialsHonest
    AdvisoryFounded
    
