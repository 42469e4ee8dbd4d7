\* Liveness: two callers, no symmetry.
SPECIFICATION FairSpec
CONSTANTS
    FailureThreshold = 1
    ResetTimeout = 1
    HalfOpenRequests = 1
    Callers = {c1, c2}
    Versions = {v1, v2}
    Private = Private
    None = None
    Mutable = TRUE
    Described = FALSE
    Transforms = FALSE
    AllowMissingRemote = FALSE
    MaxRetries = 1
    Healths = {"up", "conn"}
    Events = {}
PROPERTIES
    EveryCallReturns
    Converges
