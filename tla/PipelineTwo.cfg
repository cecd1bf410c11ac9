CONSTANTS
    Msg = {m1, m2}
    Worker = {w1, w2}
    RowId = {1, 2, 3}
    MaxSlots = 1
    Inner = 1
    Outer = 1
    Class = {"panics", "unparseable", "parses"}
    Route = {"blocklist", "bypass", "scan"}
    Decision = {"pass", "flag", "quarantine", "delete"}
    Faults <- MCFaults
    Crash_ = 1
    Stop_ = 0
    Db_ = 0
    Imap_ = 0
    Reply_ = 1
    Uid_ = 1
    Mark_ = 0
    Dup_ = 1
    Backfill_ = 0
SPECIFICATION Spec
SYMMETRY MCSymmetry
INVARIANTS
    KeyTruthful
    QuarantineKeyExact
    SlotsReturned
