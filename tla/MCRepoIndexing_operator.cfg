CONSTANTS
    Posts = {p1, p2, p3}
    Deletes = {d1, d2}
    NoRepo = NoRepo
    Overlapping = FALSE
    Faults = {"pool", "enqueue", "api_crash", "timeout", "raise"}
    MaxTries = 1
SPECIFICATION FairSpec
CHECK_DEADLOCK FALSE
INVARIANT OneInFlight
INVARIANT IndexingIsOwed
PROPERTY IndexingSettles
PROPERTY ImplementsLifecycle
