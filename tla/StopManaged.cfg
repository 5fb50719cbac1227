SPECIFICATION FairSpec
CONSTANTS
    Bids <- MCBids
    Proposals <- MCProposals
    Entry = 10
    Risk = 2
    Spread = 1
    Cushion = 1
    MinDistance = 2
    IgDistance = 1
    Noise = 1
    Events = {"refusal", "no_buffer", "lost_reply", "close_hour"}
CHECK_DEADLOCK FALSE
INVARIANTS
    TypeOK
    
PROPERTIES
    RatchetOnly
    
    
    BackstopFires
