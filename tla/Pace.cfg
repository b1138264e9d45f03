\* Three groups joined one after the other through two image servers.
CONSTANTS
    cdn = cdn  img = img
    Groups <- ThreeGroups
    Servers = {cdn, img}
    PACE_MAX_LEVEL = 2
    PACE_HOLD_MS = 1
    PACE_STEADY_RUN = 1
    PACE_IDLE_MS = 1
    MAX_SERVERS = 2
    Rests = {1}
SPECIFICATION PaceLiveSpec
INVARIANTS OneServerOneKey RefusalIsHeld RestIsKept
PROPERTIES BackToFullSpeed
