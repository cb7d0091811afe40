CONSTANTS
    Posts = {p1, p2}
    Deletes = {d1}
    NoRepo = NoRepo
    Overlapping = TRUE
    Faults = {"pool", "enqueue", "lost_ack", "api_crash", "crash", "timeout", "raise"}
    MaxTries = 2
SYMMETRY Symmetry
SPECIFICATION Spec
CHECK_DEADLOCK FALSE
INVARIANT TypeOK
INVARIANT NoStrayChunks
INVARIANT AdvertisedIndexStored
PROPERTY ChunksAppearWithTheirRow
