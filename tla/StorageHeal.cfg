\* Liveness without a tier: concurrent requests on two replicas, invalidations may be lost.
SPECIFICATION FairSpec
CONSTANTS
    Replicas = {r1, r2}
    Slots = {s1}
    Orgs = {default}
    DefaultOrg = default
    Legacy = legacy
    Digests = {d1}
    Absent = Absent
    Unhashed = Unhashed
    HasTier = FALSE
    Faults = {"loss"}
    MaxActive = 2
    MaxWrites = 1
PROPERTY
    GhostsHeal
