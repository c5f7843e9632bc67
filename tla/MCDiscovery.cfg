\* Crashes, restarts, shutdowns and lost leases, seen by one client.  In the
\* end every node may be down with its starts used up.
SPECIFICATION FairDHSpec
CONSTANTS
    n1 = n1
    n2 = n2
    Nodes <- MCNodes
    MaxStarts <- MCMaxStarts
    NoLease = NoLease
    LeaseLost = TRUE
    WatchFails = TRUE
INVARIANTS
    DiscoveryTypeOK
    KeysAreLeased
    ViewCatchesUp
PROPERTIES
    GoneNodesLeave
    DestructorReturns
CHECK_DEADLOCK FALSE
