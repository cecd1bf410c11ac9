CONSTANTS
    FeedSeq <- MCFeedSeq
    Offer <- MCOffer
    Timer = timer
    Extra = {page}
    Batches = 2
    Faults <- MCFaults
    Down_ = 2
    Garbage_ = 1
    Disk_ = 1
    Cut_ = 1
    Db_ = 1
    Stop_ = 1
    Call_ = 1
    MaxFaults = 2
SPECIFICATION FairSpec
INVARIANTS
    TypeOK
    HitsAreListed
    DumpIsWhole
PROPERTIES
    NoAmnesia
    EventuallyIndexed
