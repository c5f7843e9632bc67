\* Three threads, two keys, func may throw.  An exception can leave every
\* thread waiting for ever, so the system really may stop.
SPECIFICATION FairSpec
CONSTANTS
    Threads = {t1, t2, t3}
    Keys = {k1, k2}
    Calls = {c1, c2, c3, c4}
    Results = {v1}
    NoCall = NoCall
    Pending = Pending
    MayThrow = TRUE
INVARIANTS
    TypeOK
    AtMostOneExecution
    WaiterHasLeader
PROPERTIES
    Coalesces
    DoReturns
CHECK_DEADLOCK FALSE
