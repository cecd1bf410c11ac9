CONSTANTS
    Msg = {m1}
    Worker = {w1, w2}
    RowId = {1, 2, 3}
    MaxSlots = 1
    Inner = 1
    Outer = 2
    Class = {"parses"}
    Route = {"scan"}
    Decision = {"pass", "flag", "quarantine", "delete"}
    Faults <- MCFaults
    Crash_ = 2
    Stop_ = 1
    Db_ = 1
    Imap_ = 2
    Reply_ = 1
    Uid_ = 0
    Mark_ = 2
    Dup_ = 0
    Backfill_ = 0
SPECIFICATION FairSpec
INVARIANTS
    FalseClaimsAreRetried
    NeverSilent

    
