CONSTANTS
    a = a
    b = b
    k = k
    Threads = {t1, t2}
    Names = {a, b}
    BlobKeys = {k}
    KeyOf <- MCKeyOf
    Size <- MCSize
    MaxBytes = 10
    None = None
    Faults = {"full", "damage", "restart"}
    MaxFills = 3
    MaxDrops = 1
    MaxFaults = 2
SPECIFICATION Spec
INVARIANTS TierInv CapHolds
PROPERTY HealsWhenRead
