\* Four fetches race through a breaker with threshold 2, two probe slots and a
\* reset timeout of two ticks; no symmetry, for the liveness properties.
SPECIFICATION FairSpec
CONSTANTS
    FailureThreshold = 2
    ResetTimeout = 2
    HalfOpenRequests = 2
    Fetches = {f1, f2, f3, f4}
INVARIANTS
    BreakerInv
    ProbeBudget
PROPERTIES
    ShieldsUpstream
    NeverRefusesForever
    ClosesOnceHealthy
