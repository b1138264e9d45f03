\* Two chapters, one download that lands beside those that fail, two restarts.
CONSTANTS
    Chapters = {c1, c2}
    MaxCopies = 2
    MaxCrashes = 2
    Faults = TRUE
SPECIFICATION Spec
SYMMETRY Symmetry
INVARIANTS NoCopyLost FailedKeepsOld WholeAgain
