\* Two getters, GetStats and the balancer.  In the end the map is destroyed,
\* or every Get was made.
SPECIFICATION HashSpec
CONSTANTS
    na = na
    nb = nb
    nc = nc
    k1 = k1
    k2 = k2
    Nodes <- MCNodes
    Keys <- MCKeys
    VHash <- MCVHash
    KeyHash <- MCKeyHash
    Replicas = 2
    MinReplicas = 1
    MaxReplicas = 3
    ThresholdNum = 1
    ThresholdDen = 4
    MinSamples = 3
    ReAdd = FALSE
    Getters = {g1, g2}
    NoNode = NoNode
    MaxRequests = 4
INVARIANTS
    HashTypeOK
    RingIsComplete
    VNodesAreOwned
    TotalCoversCounts
PROPERTY MinimalMovement
CHECK_DEADLOCK FALSE
