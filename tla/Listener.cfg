\* One message, two goroutines, channels of one, and up to three faults on its way.
CONSTANTS
    Uid = {u1}
    Goroutine = {g1, g2}
    Sweeper = {r1}
    SeenCap = 1
    ConfirmCap = 1
    None = None
    MaxFaults = 3
SPECIFICATION FairSpec
INVARIANTS
    NothingForgotten
    InFlightIsLive
PROPERTIES
    Delivers
    
