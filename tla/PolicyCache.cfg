\* Two requests of one client, listing or evaluating, while one edit goes through;
\* its invalidation may be lost and loads may fail.
SPECIFICATION FairSpec
CONSTANTS
    Replicas = {r1}
    Slots = {s1, s2}
    c1 = c1
    c2 = c2
    Clients = {c1}
    Scripts <- MCScripts
    Today <- MCToday
    Lists <- MCLists
    FactSets <- MCFactSets
    Ops = {"list", "evaluate"}
    Faults = {"loss", "error"}
    None = None
    Flat = Flat
    MaxEdits = 1
    MaxFlushes = 1
INVARIANTS
    PolicyInv
    DeniesByRank
PROPERTIES
    
    ImplementsFreshReads
