--------------------------- MODULE ConsistentHash ---------------------------
(***************************************************************************)
(* kcache::ConsistentHashMap (src/src/include/kcache/consistent_hash.h,    *)
(* src/src/consistent_hash/consistent_hash.cpp): a ring of virtual nodes   *)
(* under a shared_mutex, atomic request counters that Get bumps under the  *)
(* shared lock, and a balancer thread that resizes the nodes by their      *)
(* load.                                                                   *)
(*                                                                         *)
(* An operation under the unique lock is one action and waits for the      *)
(* readers; Get and GetStats hold the shared lock over several steps, so   *)
(* they interleave with each other.  keys_ is sorted by every writer       *)
(* before it unlocks, and every removal erases all copies of a hash, so    *)
(* the vector is modelled by the set of its elements.  Add of a list is    *)
(* one unlocking after several single additions; nobody sees the states    *)
(* between, and the model adds one node at a time.                         *)
(***************************************************************************)
EXTENDS Integers, FiniteSets

CONSTANTS
    Nodes, Keys,
    VHash,          \* VHash[n][i]: the hash of virtual node "n-i"
    KeyHash,        \* KeyHash[k]: the hash of key k
    Replicas, MinReplicas, MaxReplicas,     \* of HashConfig
    ThresholdNum, ThresholdDen,             \* load_balance_threshold
    MinSamples,     \* requests before the balancer looks: 1000 in the code
    ReAdd,          \* whether a caller may Add a node that is a member
    Getters,        \* the threads that call Get
    NoNode,
    MaxRequests     \* bound: no Get starts once this many were counted

ASSUME ReplicasAssumption ==
    /\ Replicas \in Nat /\ MinReplicas \in Nat \ {0}
    /\ MaxReplicas \in Nat /\ MinReplicas <= MaxReplicas
ASSUME HashAssumption ==
    /\ \A n \in Nodes, i \in (0..Replicas - 1) \cup (0..MaxReplicas - 1) :
           VHash[n][i] \in Nat
    /\ KeyHash \in [Keys -> Nat]
ASSUME BalanceAssumption ==
    /\ ThresholdNum \in Nat /\ ThresholdDen \in Nat \ {0}
    /\ MinSamples \in Nat \ {0} /\ MaxRequests \in Nat
ASSUME NodeAssumption ==
    IsFiniteSet(Nodes) /\ NoNode \notin Nodes /\ ReAdd \in BOOLEAN
ASSUME GetterAssumption == IsFiniteSet(Getters)

VARIABLES
    keys_,              \* the hashes of the ring
    hash_map_,          \* the node of each hash
    node_replicas_,     \* the members, with their numbers of virtual nodes
    node_counts_,       \* requests counted per node
    total_requests_,    \* requests counted in all
    is_balancer_stop_,
    balancer,           \* where the balancer thread is
    get, node,          \* where getter g is, and the node it found
    curr_total, stats   \* GetStats: the total it read (0: not running), its result

ringVars == <<keys_, hash_map_, node_replicas_>>
countVars == <<node_counts_, total_requests_>>
balancerVars == <<is_balancer_stop_, balancer>>
getVars == <<get, node>>
statsVars == <<curr_total, stats>>
hashVars == <<ringVars, countVars, balancerVars, getVars, statsVars>>

Members == DOMAIN node_replicas_
VNodes(n, r) == {VHash[n][i] : i \in 0..r - 1}

\* Nobody holds the shared lock.
NoReaders == (\A g \in Getters : get[g] = "idle") /\ curr_total = 0

HashInit ==
    /\ keys_ = {}
    /\ hash_map_ = [h \in {} |-> NoNode]
    /\ node_replicas_ = [n \in {} |-> 0]
    /\ node_counts_ = [n \in {} |-> 0]
    /\ total_requests_ = 0
    /\ is_balancer_stop_ = FALSE
    /\ balancer = "sleep"
    /\ get = [g \in Getters |-> "idle"]
    /\ node = [g \in Getters |-> NoNode]
    /\ curr_total = 0
    /\ stats = [n \in {} |-> 0]

-----------------------------------------------------------------------------
(* Add, with AddNode: the virtual nodes are put in, taking over the hashes *)
(* they collide with; the count of a node that has one is kept.            *)
Add(n) ==
    /\ NoReaders /\ ~is_balancer_stop_
    /\ ReAdd \/ n \notin Members
    /\ keys_' = keys_ \cup VNodes(n, Replicas)
    /\ hash_map_' = [h \in DOMAIN hash_map_ \cup VNodes(n, Replicas) |->
                        IF h \in VNodes(n, Replicas) THEN n ELSE hash_map_[h]]
    /\ node_replicas_' = [m \in Members \cup {n} |->
                            IF m = n THEN Replicas ELSE node_replicas_[m]]
    /\ node_counts_' = [m \in DOMAIN node_counts_ \cup {n} |->
                          IF m \in DOMAIN node_counts_ THEN node_counts_[m] ELSE 0]
    /\ UNCHANGED <<total_requests_, balancerVars, getVars, statsVars>>

\* A bug: the hashes are given to nobody instead of being erased.
TakeOutBlank(n) ==
    /\ keys_' = keys_ \ VNodes(n, node_replicas_[n])
    /\ hash_map_' = [h \in DOMAIN hash_map_ |->
                        IF h \in VNodes(n, node_replicas_[n]) THEN NoNode ELSE hash_map_[h]]

\* A bug: config_.replicas virtual nodes are taken out, whatever n has by now.
TakeOutConfigured(n) ==
    /\ keys_' = keys_ \ VNodes(n, Replicas)
    /\ hash_map_' = [h \in DOMAIN hash_map_ \ VNodes(n, Replicas) |-> hash_map_[h]]

\* Remove, lines 95-105: the hashes of as many virtual nodes as node_replicas_
\* says are erased, whoever owns them by now.
TakeOut(n) ==
    LET gone == VNodes(n, node_replicas_[n])
    IN  /\ keys_' = keys_ \ gone
        /\ hash_map_' = [h \in DOMAIN hash_map_ \ gone |-> hash_map_[h]]

(* Remove of a member; its requests stay in the total.                     *)
Remove(n) ==
    /\ NoReaders /\ ~is_balancer_stop_
    /\ n \in Members
    /\ TakeOut(n)
    /\ node_replicas_' = [m \in Members \ {n} |-> node_replicas_[m]]
    /\ node_counts_' = [m \in DOMAIN node_counts_ \ {n} |-> node_counts_[m]]
    /\ UNCHANGED <<total_requests_, balancerVars, getVars, statsVars>>

\* A bug: plain hashing, the key's hash modulo the size of the ring.
SuccessorByModulo(h, x) ==
    /\ h \in keys_
    /\ Cardinality({j \in keys_ : j < h}) = x % Cardinality(keys_)

\* h is where lower_bound, wrapping at the end, finds hash x on the ring.
Successor(h, x) ==
    /\ h \in keys_
    /\ IF \E j \in keys_ : j >= x
       THEN h >= x /\ \A j \in keys_ : j >= x => h <= j
       ELSE \A j \in keys_ : h <= j

(* Get, lines 117-132: under the shared lock the key's node is found.      *)
GetLookup(g, k) ==
    /\ get[g] = "idle" /\ ~is_balancer_stop_
    /\ total_requests_ + Cardinality({f \in Getters : get[f] # "idle"}) < MaxRequests
    /\ \E h \in keys_ :
        /\ Successor(h, KeyHash[k])
        /\ node' = [node EXCEPT ![g] = hash_map_[h]]
    /\ get' = [get EXCEPT ![g] = "count"]
    /\ UNCHANGED <<ringVars, countVars, balancerVars, statsVars>>

(* Get, line 134: operator[] puts in a counter for a node that has none.   *)
GetCount(g) ==
    /\ get[g] = "count"
    /\ node_counts_' = [m \in DOMAIN node_counts_ \cup {node[g]} |->
                          IF m # node[g] THEN node_counts_[m]
                          ELSE IF m \in DOMAIN node_counts_ THEN node_counts_[m] + 1
                          ELSE 1]
    /\ get' = [get EXCEPT ![g] = "total"]
    /\ UNCHANGED <<ringVars, total_requests_, balancerVars, node, statsVars>>

\* A bug: the total is not counted.
GetTotalLost(g) ==
    /\ get[g] = "total"
    /\ get' = [get EXCEPT ![g] = "idle"]
    /\ node' = [node EXCEPT ![g] = NoNode]
    /\ UNCHANGED <<ringVars, countVars, balancerVars, statsVars>>

(* Get, lines 135-137: the total follows, and the lock is released.        *)
GetTotal(g) ==
    /\ get[g] = "total"
    /\ total_requests_' = total_requests_ + 1
    /\ get' = [get EXCEPT ![g] = "idle"]
    /\ node' = [node EXCEPT ![g] = NoNode]
    /\ UNCHANGED <<ringVars, node_counts_, balancerVars, statsVars>>

(* GetStats, lines 141-147: the total is read first.                       *)
StatsTotal ==
    /\ curr_total = 0 /\ total_requests_ # 0 /\ ~is_balancer_stop_
    /\ curr_total' = total_requests_
    /\ UNCHANGED <<ringVars, countVars, balancerVars, getVars, stats>>

(* GetStats, lines 149-151: each counter is read on its own.               *)
StatsCount(n) ==
    /\ curr_total # 0
    /\ n \in DOMAIN node_counts_ \ DOMAIN stats
    /\ stats' = [m \in DOMAIN stats \cup {n} |->
                    IF m = n THEN node_counts_[n] ELSE stats[m]]
    /\ UNCHANGED <<ringVars, countVars, balancerVars, getVars, curr_total>>

(* GetStats, line 152: all are read.                                       *)
StatsDone ==
    /\ curr_total # 0
    /\ DOMAIN node_counts_ \subseteq DOMAIN stats
    /\ curr_total' = 0
    /\ stats' = [n \in {} |-> 0]
    /\ UNCHANGED <<ringVars, countVars, balancerVars, getVars>>

-----------------------------------------------------------------------------
\* CheckAndRebalance, lines 199-213: some node is further from the average
\* than the threshold allows.  With S the total and N the members the average
\* is S/N; all is multiplied by N and by ThresholdDen.
Abs(x) == IF x < 0 THEN -x ELSE x
Imbalanced ==
    \E n \in DOMAIN node_counts_ :
        Abs(node_counts_[n] * Cardinality(Members) - total_requests_) * ThresholdDen
            > ThresholdNum * total_requests_

\* std::round of a/b, for a >= 0 and b > 0.
RoundDiv(a, b) == (2 * a + b) \div (2 * b)

Clamp(r) ==
    IF r < MinReplicas THEN MinReplicas ELSE IF r > MaxReplicas THEN MaxReplicas ELSE r

\* The replicas a node has for RebalanceNodes: operator[] makes it 0 for a
\* node that is counted and no member.
OldReplicas(n) == IF n \in Members THEN node_replicas_[n] ELSE 0

\* RebalanceNodes, lines 237-262: fewer replicas above the average load, more
\* below it.
NewReplicas(n) ==
    LET old == OldReplicas(n)
        load == node_counts_[n] * Cardinality(Members)
    IN  Clamp(IF total_requests_ = 0
              THEN IF node_counts_[n] > 0 THEN RoundDiv(old, 2) ELSE old
              ELSE IF load > total_requests_
              THEN RoundDiv(old * total_requests_, load)
              ELSE RoundDiv(old * (2 * total_requests_ - load), total_requests_))

Resized == {n \in DOMAIN node_counts_ : NewReplicas(n) # OldReplicas(n)}
Touched(n) == VNodes(n, OldReplicas(n)) \cup VNodes(n, NewReplicas(n))

\* The nodes are taken in the order of the unordered_map, here rank; of those
\* that touch a hash the last one decides what becomes of it.
LastToucher(n, h, rank) ==
    /\ n \in Resized /\ h \in Touched(n)
    /\ \A m \in Resized : h \in Touched(m) => rank[m] <= rank[n]
Placed(n, h, rank) == LastToucher(n, h, rank) /\ h \in VNodes(n, NewReplicas(n))

(* The balancer thread wakes up, and leaves its loop if it was stopped.    *)
BalancerWakes ==
    /\ balancer = "sleep"
    /\ balancer' = IF is_balancer_stop_ THEN "done" ELSE "awake"
    /\ UNCHANGED <<ringVars, countVars, is_balancer_stop_, getVars, statsVars>>

(* It checks the loads, under the shared lock, and releases it.            *)
CheckAndRebalance ==
    /\ balancer = "awake"
    /\ balancer' = IF total_requests_ >= MinSamples /\ Members # {} /\ Imbalanced
                   THEN "rebalance" ELSE "sleep"
    /\ UNCHANGED <<ringVars, countVars, is_balancer_stop_, getVars, statsVars>>

(* RebalanceNodes, under the unique lock, taken anew: all is read again.   *)
RebalanceNodes ==
    /\ balancer = "rebalance" /\ Members # {}
    /\ NoReaders
    /\ \E rank \in [Resized -> 1..Cardinality(Resized)] :
        /\ \A m, n \in Resized : rank[m] = rank[n] => m = n
        /\ LET untouched == {h \in DOMAIN hash_map_ : \A n \in Resized : h \notin Touched(n)}
               placed == {h \in UNION {Touched(n) : n \in Resized} :
                             \E n \in Resized : Placed(n, h, rank)}
           IN  /\ keys_' = {h \in keys_ : \A n \in Resized : h \notin Touched(n)} \cup placed
               /\ hash_map_' = [h \in untouched \cup placed |->
                      IF h \in untouched THEN hash_map_[h]
                      ELSE CHOOSE n \in Resized : Placed(n, h, rank)]
    /\ node_replicas_' = [n \in Members \cup Resized |->
                            IF n \in Resized THEN NewReplicas(n) ELSE node_replicas_[n]]
    /\ node_counts_' = [n \in DOMAIN node_counts_ |-> 0]
    /\ total_requests_' = 0
    /\ balancer' = "sleep"
    /\ UNCHANGED <<is_balancer_stop_, getVars, statsVars>>

(* RebalanceNodes finds that the last member has gone since the check.     *)
RebalanceNothing ==
    /\ balancer = "rebalance" /\ Members = {}
    /\ NoReaders
    /\ balancer' = "sleep"
    /\ UNCHANGED <<ringVars, countVars, is_balancer_stop_, getVars, statsVars>>

(* The destructor, called when nobody uses the map any more, raises the    *)
(* flag and joins the balancer thread.                                     *)
Destroy ==
    /\ NoReaders /\ ~is_balancer_stop_
    /\ is_balancer_stop_' = TRUE
    /\ UNCHANGED <<ringVars, countVars, balancer, getVars, statsVars>>

Balance == BalancerWakes \/ CheckAndRebalance \/ RebalanceNodes \/ RebalanceNothing

HashNext ==
    \/ \E n \in Nodes : Add(n) \/ Remove(n) \/ StatsCount(n)
    \/ \E g \in Getters :
        \/ \E k \in Keys : GetLookup(g, k)
        \/ GetCount(g) \/ GetTotal(g)
    \/ StatsTotal \/ StatsDone
    \/ Balance
    \/ Destroy

HashSpec == HashInit /\ [][HashNext]_hashVars

-----------------------------------------------------------------------------
(* The type invariant.                                                     *)
HashTypeOK ==
    /\ keys_ \subseteq Nat
    /\ hash_map_ \in [DOMAIN hash_map_ -> Nodes] /\ DOMAIN hash_map_ \subseteq Nat
    /\ node_replicas_ \in [Members -> Nat] /\ Members \subseteq Nodes
    /\ node_counts_ \in [DOMAIN node_counts_ -> Nat] /\ DOMAIN node_counts_ \subseteq Nodes
    /\ total_requests_ \in Nat
    /\ is_balancer_stop_ \in BOOLEAN
    /\ balancer \in {"sleep", "awake", "rebalance", "done"}
    /\ get \in [Getters -> {"idle", "count", "total"}]
    /\ node \in [Getters -> Nodes \cup {NoNode}]
    /\ curr_total \in Nat
    /\ stats \in [DOMAIN stats -> Nat]

(* The vector of the ring and the map from hashes to nodes hold the same   *)
(* hashes, so that hash_map_[*it] in Get never inserts under a shared      *)
(* lock.                                                                   *)
RingIsMapped == keys_ = DOMAIN hash_map_

(* Every hash of the ring belongs to a virtual node its owner still has:   *)
(* no virtual node outlives the size node_replicas_ records, which is all  *)
(* that Remove and RebalanceNodes take out again.                          *)
VNodesAreOwned ==
    \A h \in DOMAIN hash_map_ :
        /\ hash_map_[h] \in Members
        /\ h \in VNodes(hash_map_[h], node_replicas_[hash_map_[h]])

(* Members and counters are the same nodes: ++node_counts_[node] under the *)
(* shared lock never inserts into the map other threads are reading.       *)
CountersAreMembers == DOMAIN node_counts_ = Members

(* src/test/test_consistent_hash.cpp:106: a node that was removed is no    *)
(* longer returned; what Get returns is a member as long as Get holds the  *)
(* lock.                                                                   *)
RemovedIsNotRouted == \A g \in Getters : get[g] # "idle" => node[g] \in Members

\* The nodes none of whose virtual nodes collides with one of another node.
Lone ==
    LET all(n) == VNodes(n, Replicas) \cup VNodes(n, MaxReplicas)
    IN  {n \in Nodes : \A m \in Nodes \ {n} : all(n) \cap all(m) = {}}

(* The ring is complete for a node whose virtual nodes collide with no     *)
(* other's, whatever happens to those that do: as a member it has exactly  *)
(* as many virtual nodes as node_replicas_ records, and then none.         *)
RingIsComplete ==
    \A n \in Lone :
        {h \in keys_ : hash_map_[h] = n} =
            IF n \in Members THEN VNodes(n, node_replicas_[n]) ELSE {}

\* The requests the counters stand for, told apart.
Counted == UNION {{n} \X (1..node_counts_[n]) : n \in DOMAIN node_counts_}

(* The total covers what the counters sum up to, but for the Gets between  *)
(* their two increments.                                                   *)
TotalCoversCounts ==
    Cardinality(Counted) <= total_requests_ + Cardinality({g \in Getters : get[g] = "total"})

\* The node Get returns for k.
Route(k) == hash_map_[CHOOSE h \in keys_ : Successor(h, KeyHash[k])]

(* Consistent hashing: a node that joins takes keys only to itself, and a  *)
(* node that leaves gives up its own keys and no other; a node, that is,   *)
(* whose virtual nodes collide with no other's.                            *)
MinimalMovement ==
    [][Members' # Members /\ keys_ # {} /\ keys_' # {} =>
        \A n \in Lone, k \in Keys :
            /\ Members' = Members \cup {n} => Route(k)' \in {Route(k), n}
            /\ Members' = Members \ {n} => Route(k) \in {Route(k)', n}]_hashVars
=============================================================================
