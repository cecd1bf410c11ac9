CONSTANTS
    Msg = {m1}
    Worker = {w1, w2}
    RowId = {1, 2, 3}
    MaxSlots = 1
    Inner = 1
    Outer = 2
    Class = {"unparseable", "parses"}
    Route = {"blocklist", "scan"}
    Decision = {"pass", "quarantine", "delete"}
    Faults <- MCFaults
    Crash_ = 1
    Stop_ = 1
    Db_ = 1
    Imap_ = 2
    Reply_ = 1
    Uid_ = 1
    Mark_ = 1
    Dup_ = 1
    Backfill_ = 1
SPECIFICATION Spec
SYMMETRY MCSymmetry
INVARIANTS
    RecordedBeforeTouched
    NoFalseSafety
    StatusInSync
