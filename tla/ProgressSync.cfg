\* Two people and one device: two pages, two failures, one change of hands, one restart.
CONSTANTS
    a = a
    b = b
    None = None
    Accounts = {a, b}
    Reader = a
    LastPages = {1}
    MaxReads = 2
    MaxFails = 2
    MaxSwitches = 1
    MaxCloses = 1
SPECIFICATION Spec
INVARIANTS NothingLost BackOnlyByALateQueue FinishedStands
PROPERTIES Delivered
\* Everything that may happen is bounded.
CHECK_DEADLOCK FALSE
