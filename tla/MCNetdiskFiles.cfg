\* The clicks are used up in the end, and undefined behaviour ends a run.
SPECIFICATION FHSpec
CONSTANTS
    ann = ann
    bob = bob
    c1 = c1
    c2 = c2
    c3 = c3
    Users = {ann, bob}
    Acting = {ann}
    MaxName = 2
    Dir = Dir
    Contents = {c1, c2, c3}
    Trees <- MCTrees
    Beyond <- MCBeyond
    NoPath = NoPath
    MaxDepth = 3
    MaxActs = 5
    MaxPending = 2
    MaxFaults = 1
INVARIANTS
    FilesTypeOK
    ShownIsReal
    PatientUsersAreSafe
PROPERTY SharesCopy
CHECK_DEADLOCK FALSE
