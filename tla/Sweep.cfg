CONSTANTS
    a = a  b = b  c = c  d = d
    s1 = s1  s2 = s2  s3 = s3
    NoSource = NoSource
    Sources <- MCSources  Askable <- MCAskable  Kinds <- MCKinds
    KeyAt <- MCKeyAt  CanJoin <- MCCanJoin
    Rows <- MCRows  Route <- MCRoute
    CanCool <- MCCanCool  CanHold <- MCCanHold
    FINISH_LANES = 2
    MaxNew = 2
    SweepMax = 3
    MaxPartials = 1
SPECIFICATION LiveSpec
INVARIANTS EachSeriesOnce BudgetHolds LeftOnlyParked
PROPERTIES SweepEnds
