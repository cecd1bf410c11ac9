CONSTANTS
    Account = {a1, a2}
    Yaml = {a1}
    Request = {h1, h2}
    MaxVersion = 3
    MaxScans = 1
    Faults <- MCFaults
    Db_ = 1
    Crash_ = 1
    Stop_ = 1
SPECIFICATION FairSpec
INVARIANTS
    EveryListenerCanBeStopped
    PlacesAgree
    
PROPERTY
    ShutdownEnds
