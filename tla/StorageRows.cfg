\* One request at a time on either of two replicas; calls may fail, no tier.
SPECIFICATION TornSpec
CONSTANTS
    Replicas = {r1, r2}
    Slots = {s1}
    Orgs = {default}
    DefaultOrg = default
    Legacy = legacy
    Digests = {d1, d2}
    Absent = Absent
    Unhashed = Unhashed
    HasTier = FALSE
    Faults = {"error", "evict"}
    MaxActive = 1
    MaxWrites = 2
SYMMETRY Symmetry
INVARIANTS
    RowNamesBlob
    CacheCoherent
