\* Two messages, two actors, two requests or sweeps, one failure of each kind.
CONSTANTS
    Msg = {m1, m2}
    Actor = {a1, a2}
    Faults <- MCFaults
    Imap_ = 1
    Uid_ = 1
    Db_ = 1
    Ask_ = 2
SPECIFICATION Spec
SYMMETRY MCSymmetry
INVARIANTS
    HitsOwnMessage
    OutOfSyncOnlyAfterMiss
    EveryMoveIsLogged
PROPERTIES
    UserDecisionStands
