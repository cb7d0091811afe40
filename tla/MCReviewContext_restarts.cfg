CONSTANTS
    Diffs <- MCDiffs
    Models = {m1, m2}
    NoModel = NoModel
    Cost <- MCCost
    Scores = {1, 2}
    TopK = 2
    Budget = 3
    NearBy = 2
    MaxRange = 3
    MaxWindows = 2
    MaxPasses = 2
SPECIFICATION Spec
CHECK_DEADLOCK FALSE
SYMMETRY ModelSymmetry
INVARIANT TypeOK
INVARIANT ContextIsComparable
INVARIANT ContextIsTheBest
INVARIANT FindingsGetTheirHistory
