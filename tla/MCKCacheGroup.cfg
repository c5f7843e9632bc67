\* Two threads and two keys that evict each other, deletions and a changing source.
\* The getter may throw, which can leave both threads waiting for ever; the
\* other operations go on, so nothing deadlocks.
SPECIFICATION HGSpec
CONSTANTS
    Threads = {t1, t2}
    Keys = {k1, k2}
    Calls = {c1, c2, c3}
    NoCall = NoCall
    Pending = Pending
    MayThrow = TRUE
    Values = {v1}
    KeyLen <- MCKeyLen
    ValLen <- MCValLen
    Capacities <- OneEntry
    IntMod = 16
    None = None
SYMMETRY Symmetry
VIEW View
INVARIANTS
    GroupTypeOK
    NothingInvented
    SettledPurgeReloads
