SPECIFICATION Spec
CHECK_DEADLOCK FALSE
INVARIANTS
    
    CampaignReceipts
    NoTradeInEvent
    
    
PROPERTY
    ResultFinal
