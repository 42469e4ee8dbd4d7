\* What is stored: an upstream that answers 206 and 304 unasked, a version published
\* between fetches, failing lookups and storage calls, a remote that comes and goes.
SPECIFICATION Spec
CONSTANTS
    FailureThreshold = 1
    ResetTimeout = 1
    HalfOpenRequests = 1
    Callers = {c1, c2}
    Versions = {v1, v2}
    Private = Private
    None = None
    Mutable = TRUE
    Described = TRUE
    Transforms = TRUE
    AllowMissingRemote = FALSE
    MaxRetries = 1
    Healths = {"up", "s500", "s403"}
    Events = {"remove", "odd", "error", "remote", "quietly"}
SYMMETRY Symmetry
INVARIANTS
    
    InternalIsKept
