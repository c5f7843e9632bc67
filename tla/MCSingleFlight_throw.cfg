\* func may throw: the entry of its Call then stays in the map for ever.
SPECIFICATION FairSpec
CONSTANTS
    Threads = {t1, t2}
    Keys = {k1}
    Calls = {c1, c2, c3}
    Results = {v1}
    NoCall = NoCall
    Pending = Pending
    MayThrow = TRUE
PROPERTY EntryEventuallyRemoved
CHECK_DEADLOCK FALSE
