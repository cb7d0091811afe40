CONSTANTS
    Findings = {1, 2}
    Located = {1, 2}
    Stored = {{1}}
    InlineCap = 1
    MaxObjects = 2
    MaxRequests = 3
    Faults = {"timeout", "lost", "garbled"}
SPECIFICATION Spec
CHECK_DEADLOCK FALSE
INVARIANT TypeOK
INVARIANT AnswersAreTrue
INVARIANT NoSilentDouble
