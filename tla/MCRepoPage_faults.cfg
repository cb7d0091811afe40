CONSTANTS
    Repos = {a}
    MaxJobs = 3
    MaxLists = 2
    PageFaults = {"refuse", "drop", "error", "reorder"}
SPECIFICATION PageSpec
CHECK_DEADLOCK FALSE
INVARIANT PageTypeOK
INVARIANT FollowsOneChannel
PROPERTY PollingCatchesUp
