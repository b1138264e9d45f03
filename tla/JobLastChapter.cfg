\* A chapter no lane was begun for, with nothing running.
CONSTANTS
    a = a
    b = b
    None = None
    Chapters = {1, 2, 3}
    Given <- MCGiven
    Pinned = {1}
    OnDisk = {2}
    Sources = {a, b}
    Key <- MCKey
    Listing <- MCListing
    Rotas <- MCRotas
    JobLanes = 2
    MaxAlternates = 2
    MaxChanges = 1
    MaxThrows = 1
SPECIFICATION Spec
INVARIANT EveryChapterBegun
\* A job ends.
CHECK_DEADLOCK FALSE
