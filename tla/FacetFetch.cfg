\* Two callers, a mutable document that changes, fails and disappears upstream.
SPECIFICATION Spec
CONSTANTS
    FailureThreshold = 1
    ResetTimeout = 1
    HalfOpenRequests = 1
    Callers = {c1, c2}
    Versions = {v1, v2}
    Private = Private
    None = None
    Mutable = TRUE
    Described = FALSE
    Transforms = FALSE
    AllowMissingRemote = FALSE
    MaxRetries = 1
    Healths = {"up", "conn", "dns", "s503", "s429"}
    Events = {"remove", "cancel", "airgap"}
SYMMETRY Symmetry
INVARIANTS
    FacetInv
    WarmNeverFails
    NoBare304
PROPERTY
    NeverRefetchesFresh
