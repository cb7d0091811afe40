CONSTANTS
    Jobs = {j1, j2}
    Cap = 2
    RepoIdTarget = "repos"
    ReportsUsage = TRUE
    MaxFaults = 1
    MaxDeletes = 1
SPECIFICATION Spec
CHECK_DEADLOCK FALSE
SYMMETRY JobSymmetry
INVARIANT SuccessIsStored
