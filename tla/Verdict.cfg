CONSTANTS
    Admin = {a1, a2}
    Email <- MCEmail
    ResultSet <- MCResultSet
    Request <- MCRequest
    Initial <- MCInitial
    None = None
SPECIFICATION Spec
SYMMETRY MCSymmetry
INVARIANTS
    CriticalErrorNeverPasses
    MoreEvidenceNeverLowers
    PassIsEarned
    TornReadStaysBetween
    
