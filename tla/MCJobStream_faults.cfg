CONSTANTS
    Conns = {c1}
    Guarded = FALSE
    Faults = {"publish", "dies", "crash", "expire", "redis", "drop"}
    MaxTries = 2
    MaxFrames = 2
SPECIFICATION FairSpec
CHECK_DEADLOCK FALSE
INVARIANT TypeOK
INVARIANT FrameOrder
INVARIANT QueuedSubscriberMissesNothing
PROPERTY QueuedSubscriberEnds
