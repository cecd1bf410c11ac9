CONSTANTS
    Engine = {"virustotal", "nrdcheck", "ipreputation", "clamav", "rspamd"}
    x = x
    y = y
    Items <- MCItems
    Scan = {s1, s2}
    MaxLearnt = 1
    Faults <- MCFaults
    Down_ = 1
    Odd_ = 1
    Db_ = 1
SYMMETRY MCSymmetry
SPECIFICATION EngineSpec
INVARIANTS
    EngineTypeOK
    WordIsBacked
    CacheIsLastAnswer
