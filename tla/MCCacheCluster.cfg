\* In the end the watch of a client may be behind on events while all nodes
\* are gone; nothing else is left to do.
SPECIFICATION CHSpec
CONSTANTS
    Nodes = {a, b}
    Clients = {c1}
    Callers = {t1, t2}
    NoNode = NoNode
    NoCaller = NoCaller
    Empty = Empty
    Source = Source
    None = None
    MaxWrites = 2
    MaxUpsets = 1
    MaxBehind = 1
SYMMETRY Symmetry
INVARIANTS
    ClusterTypeOK
    NoSupersededCopy
    LoneWriteIsRead
CHECK_DEADLOCK FALSE
