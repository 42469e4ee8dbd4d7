\* Two tenants, two concurrent requests on one replica; calls fail, the process crashes, the tier evicts.
SPECIFICATION OldRowsSpec
CONSTANTS
    Replicas = {r1}
    Slots = {s1, s2}
    Orgs = {default, tenant}
    DefaultOrg = default
    Legacy = legacy
    Digests = {d1}
    Absent = Absent
    Unhashed = Unhashed
    HasTier = TRUE
    Faults = {"error", "crash", "evictTier"}
    MaxActive = 2
    MaxWrites = 1
SYMMETRY SlotSymmetry
INVARIANTS
    IsolationInv
    TenantIsolation
