\* Every operation on three keys and three values, limits of every kind.
SPECIFICATION HSpec
CONSTANTS
    ka = ka
    kb = kb
    kc = kc
    empty = empty
    short = short
    long = long
    Keys <- MCKeys
    Values <- MCValues
    KeyLen <- MCKeyLen
    ValLen <- MCValLen
    Capacities <- MCCapacities
    IntMod = 16
    HasEvictedFunc = TRUE
INVARIANTS
    LRUTypeOK
    BytesExact
    WithinLimit
    RecencyOrder
    CallbacksTellAll
