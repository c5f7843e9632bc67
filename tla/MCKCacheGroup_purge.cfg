\* A Delete or an invalidation while a Get of the key is under way.
SPECIFICATION HGSpec
CONSTANTS
    Threads = {t1, t2}
    Keys = {k1}
    Calls = {c1, c2}
    NoCall = NoCall
    Pending = Pending
    MayThrow = FALSE
    Values = {v1}
    KeyLen <- MCKeyLen
    ValLen <- MCValLen
    Capacities <- All
    IntMod = 16
    None = None

INVARIANT PurgeReloads
