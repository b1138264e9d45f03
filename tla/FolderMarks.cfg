CONSTANTS
    Checks = {c1}
    Confirmation = c1
    Marking = {m1}
    Impatient = {m1}
    Jobs = {j1}
    Owners = {o1, o2}
    AskJobs = {o1}
    Archives = {a1}
    Completions = {p1}
    Nobody = Nobody
SPECIFICATION LiveSpec
INVARIANTS OwnerAlone MarkKept RenamesAlone
PROPERTY JobGetsItsTurn
