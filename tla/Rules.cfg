CONSTANTS
    Watcher = w
    Admin = {a1}
    Scan = {s1}
    ScanTimeout = 1
    DestroyDelay = 3
    MaxParts = 3
    MaxEdits = 2
    MaxReloads = 1
    MaxFailures = 1
    MaxRules = 6
SPECIFICATION FairSpec
INVARIANTS
    InUseWithinDelay

    
