CONSTANTS
    Token = {t1, t2}
    Ip = {i1}
    Client = {c1, c2}
    MaxAttempts = 1
    MaxPassword = 2
    Faults <- MCFaults
    Crash_ = 1
    Db_ = 1
    Drain_ = 1
    Restart_ = 2
    MaxFaults = 2
SYMMETRY MCSymmetry
SPECIFICATION Spec
INVARIANTS
    EndedStaysEnded
    SessionsOnCurrentPassword
    FailuresBounded
PROPERTY
    ImplementsAccess
