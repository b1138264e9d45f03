\* Four calls of one lane, as wide as three and as narrow as one.
CONSTANTS
    o1 = o1  o2 = o2  o3 = o3  o4 = o4  k1 = k1  k2 = k2
    Ops = {o1, o2, o3, o4}
    Keys = {k1}
    KeyOf  <- OneLane
    Levels <- PaceLevels
    WidthAt <- WiderWidths
    GapAt  <- SomeGaps
SPECIFICATION LiveSpec
INVARIANTS LanesAgree NoLostWakeup
PROPERTIES FirstComeFirstServed EveryWaiterRuns
