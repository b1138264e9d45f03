\* A ping that fails after another device has read on.
CONSTANTS
    a = a
    b = b
    None = None
    Accounts = {a, b}
    Reader = a
    LastPages = {1}
    MaxReads = 2
    MaxFails = 1
    MaxSwitches = 0
    MaxCloses = 0
SPECIFICATION Spec
INVARIANT NewestWins
\* Everything that may happen is bounded.
CHECK_DEADLOCK FALSE
