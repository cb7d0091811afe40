CONSTANTS
    Posts = {p1, p2, p3}
    Deletes = {}
    NoRepo = NoRepo
    Overlapping = FALSE
    Faults = {"enqueue"}
    MaxTries = 1
SPECIFICATION Spec
CHECK_DEADLOCK FALSE
INVARIANT RollbackDropsNoIndex
