CONSTANTS
    Sources = {r1, r2, r3}
    Lookups = {l1, l2, l3}
    Nobody = Nobody
    Cap = 1
    StaleAge = 1
    MaxTime = 2
    Faults = {"clone", "fetch", "log", "crash"}
SPECIFICATION FairSpec
CHECK_DEADLOCK FALSE
INVARIANT TypeOK
INVARIANT CacheBounded
INVARIANT HalfClonesAreBeingMade
PROPERTY LookupsEnd
