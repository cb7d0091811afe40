CONSTANTS
    Posts = {s1, s2}
    Fields = {provider, apikey}
    Secrets = {apikey}
    None = None
    Overlapping = FALSE
    Faults = {"api_crash", "worker_crash", "db"}
    MaxBoots = 2
SYMMETRY Symmetry
SPECIFICATION Spec
CHECK_DEADLOCK FALSE
INVARIANT TypeOK
INVARIANT SecretsStayReadable
INVARIANT ApiRunsOnStoredSettings
