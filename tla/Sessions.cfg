\* Two requests at once, two rotations, two losses.
CONSTANTS
    c1 = c1
    c2 = c2
    Calls = {c1, c2}
    MaxRotations = 2
    MaxLosses = 2
SPECIFICATION Spec
INVARIANTS JarStands SignOutHolds
PROPERTIES CatchesUp
\* A browser that is signed out has nothing left to do.
CHECK_DEADLOCK FALSE
