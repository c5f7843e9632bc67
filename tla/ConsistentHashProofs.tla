----------------------- MODULE ConsistentHashProofs ------------------------
(***************************************************************************)
(* Proofs about ConsistentHash for any nodes, hashes (colliding or not),   *)
(* replica limits, getters and thresholds, as long as no caller adds a     *)
(* node that is a member, which is what KCacheClient sees to.              *)
(***************************************************************************)
EXTENDS ConsistentHash, FiniteSetTheorems, WellFoundedInduction, TLAPS

\* The part of the type invariant the ring needs.
RingTypes ==
    /\ node_replicas_ \in [Members -> Nat]
    /\ hash_map_ \in [DOMAIN hash_map_ -> Nodes]
    /\ node_counts_ \in [DOMAIN node_counts_ -> Nat]
    /\ get \in [Getters -> {"idle", "count", "total"}]
    /\ node \in [Getters -> Nodes \cup {NoNode}]
    /\ total_requests_ \in Nat
    /\ Members \subseteq Nodes

RingInv ==
    /\ RingTypes
    /\ RingIsMapped
    /\ VNodesAreOwned
    /\ CountersAreMembers
    /\ RemovedIsNotRouted

-----------------------------------------------------------------------------
\* Clamp keeps an integer within the limits on replicas.
LEMMA ClampInLimits ==
    ASSUME NEW r \in Int
    PROVE  Clamp(r) \in MinReplicas..MaxReplicas
BY ReplicasAssumption DEF Clamp

\* The new number of replicas is within the limits, whatever r the load makes.
LEMMA RoundDivIsInt ==
    ASSUME NEW a \in Int, NEW b \in Int, b > 0
    PROVE  RoundDiv(a, b) \in Int
<1>1. 2 * a + b \in Int /\ 2 * b \in Int /\ 2 * b > 0
  OBVIOUS
<1> QED BY <1>1 DEF RoundDiv

\* A rebalancing gives every node between MinReplicas and MaxReplicas.
LEMMA NewReplicasInLimits ==
    ASSUME RingInv, NEW n \in DOMAIN node_counts_
    PROVE  NewReplicas(n) \in MinReplicas..MaxReplicas
<1> DEFINE old == OldReplicas(n)
           load == node_counts_[n] * Cardinality(Members)
<1>1. old \in Nat /\ node_counts_[n] \in Nat /\ total_requests_ \in Nat
  BY DEF RingInv, RingTypes, OldReplicas
<1>2. load \in Nat
  <2>1. Cardinality(Members) \in Nat
    BY NodeAssumption, FS_Subset, FS_CardinalityType DEF RingInv, RingTypes
  <2> QED BY <1>1, <2>1
<1> HIDE DEF old, load
<1>3. RoundDiv(old, 2) \in Int
  BY <1>1, RoundDivIsInt
<1>4. load > total_requests_ => RoundDiv(old * total_requests_, load) \in Int
  <2>1. old * total_requests_ \in Int /\ load \in Int /\ total_requests_ \in Nat
    BY <1>1, <1>2
  <2> QED BY <2>1, RoundDivIsInt
<1>5. total_requests_ # 0 =>
          RoundDiv(old * (2 * total_requests_ - load), total_requests_) \in Int
  <2>1. old * (2 * total_requests_ - load) \in Int
    BY <1>1, <1>2
  <2> QED BY <1>1, <2>1, RoundDivIsInt
<1> DEFINE r == IF total_requests_ = 0
                THEN IF node_counts_[n] > 0 THEN RoundDiv(old, 2) ELSE old
                ELSE IF load > total_requests_
                THEN RoundDiv(old * total_requests_, load)
                ELSE RoundDiv(old * (2 * total_requests_ - load), total_requests_)
<1>6. r \in Int
  BY <1>1, <1>3, <1>4, <1>5
<1>7. NewReplicas(n) = Clamp(r)
  BY DEF NewReplicas, old, load
<1> HIDE DEF r
<1> QED BY <1>6, <1>7, ClampInLimits

-----------------------------------------------------------------------------
\* The empty map satisfies the invariant.
LEMMA InitRing == HashInit => RingInv
BY DEF HashInit, RingInv, RingTypes, RingIsMapped, VNodesAreOwned,
       CountersAreMembers, RemovedIsNotRouted, Members

\* Adding a node that is no member preserves it, also when its virtual nodes
\* take over the hashes of others.
LEMMA AddRing ==
    ASSUME RingInv, ~ReAdd, NEW n \in Nodes, Add(n)
    PROVE  RingInv'
<1>1. n \notin Members /\ node_replicas_' = [m \in Members \cup {n} |->
                            IF m = n THEN Replicas ELSE node_replicas_[m]]
  BY DEF Add
<1>2. RingTypes'
  BY ReplicasAssumption DEF Add, RingInv, RingTypes, Members, getVars
<1>3. RingIsMapped' /\ CountersAreMembers'
  BY DEF Add, RingInv, RingIsMapped, CountersAreMembers, Members
<1>4. VNodesAreOwned'
  BY <1>1 DEF Add, RingInv, VNodesAreOwned, VNodes, Members
<1>5. RemovedIsNotRouted'
  BY DEF Add, RingInv, RingTypes, RemovedIsNotRouted, NoReaders, getVars
<1> QED BY <1>2, <1>3, <1>4, <1>5 DEF RingInv

\* Removing a member takes every hash it owns with it.
LEMMA RemoveRing ==
    ASSUME RingInv, NEW n \in Nodes, Remove(n)
    PROVE  RingInv'
<1>1. RingTypes'
  BY DEF Remove, TakeOut, RingInv, RingTypes, Members, getVars
<1>2. RingIsMapped' /\ CountersAreMembers'
  BY DEF Remove, TakeOut, RingInv, RingIsMapped, CountersAreMembers, Members
<1>3. VNodesAreOwned'
  BY DEF Remove, TakeOut, RingInv, VNodesAreOwned, VNodes, Members
<1>4. RemovedIsNotRouted'
  BY DEF Remove, TakeOut, RingInv, RingTypes, RemovedIsNotRouted, NoReaders, getVars
<1> QED BY <1>1, <1>2, <1>3, <1>4 DEF RingInv

\* A lookup returns a member, for the ring holds no hash that is not mapped.
LEMMA LookupRing ==
    ASSUME RingInv, NEW g \in Getters, NEW k \in Keys, GetLookup(g, k)
    PROVE  RingInv'
<1> PICK h \in keys_ : node' = [node EXCEPT ![g] = hash_map_[h]]
  BY DEF GetLookup
<1>1. hash_map_[h] \in Members
  BY DEF RingInv, RingIsMapped, VNodesAreOwned
<1>2. RingTypes'
  BY <1>1 DEF GetLookup, RingInv, RingTypes, Members, ringVars, countVars
<1>3. RingIsMapped' /\ CountersAreMembers' /\ VNodesAreOwned'
  BY DEF GetLookup, RingInv, RingIsMapped, CountersAreMembers, VNodesAreOwned,
         VNodes, Members, ringVars, countVars
<1>4. RemovedIsNotRouted'
  BY <1>1 DEF GetLookup, RingInv, RingTypes, RemovedIsNotRouted, Members, ringVars
<1> QED BY <1>2, <1>3, <1>4 DEF RingInv

\* Counting a request never adds a counter.
LEMMA CountRing ==
    ASSUME RingInv, NEW g \in Getters, GetCount(g)
    PROVE  RingInv'
<1>1. node[g] \in DOMAIN node_counts_
  BY DEF GetCount, RingInv, RemovedIsNotRouted, CountersAreMembers
<1>2. RingTypes'
  BY <1>1 DEF GetCount, RingInv, RingTypes, Members, ringVars
<1>3. RingIsMapped' /\ CountersAreMembers' /\ VNodesAreOwned'
  BY <1>1 DEF GetCount, RingInv, RingIsMapped, CountersAreMembers, VNodesAreOwned,
         VNodes, Members, ringVars
<1>4. RemovedIsNotRouted'
  BY DEF GetCount, RingInv, RingTypes, RemovedIsNotRouted, Members, ringVars
<1> QED BY <1>2, <1>3, <1>4 DEF RingInv

\* The last step of Get lets go of the node.
LEMMA TotalRing ==
    ASSUME RingInv, NEW g \in Getters, GetTotal(g)
    PROVE  RingInv'
<1>1. RingTypes'
  BY DEF GetTotal, RingInv, RingTypes, Members, ringVars
<1>2. RingIsMapped' /\ CountersAreMembers' /\ VNodesAreOwned'
  BY DEF GetTotal, RingInv, RingIsMapped, CountersAreMembers, VNodesAreOwned,
         VNodes, Members, ringVars
<1>3. RemovedIsNotRouted'
  BY DEF GetTotal, RingInv, RingTypes, RemovedIsNotRouted, Members, ringVars
<1> QED BY <1>1, <1>2, <1>3 DEF RingInv

\* Resizing the nodes, in whatever order, leaves each hash with a node that
\* still has the virtual node there.
LEMMA RebalanceRing ==
    ASSUME RingInv, RebalanceNodes
    PROVE  RingInv'
<1> DEFINE untouched == {h \in DOMAIN hash_map_ : \A n \in Resized : h \notin Touched(n)}
           placed(rank) == {h \in UNION {Touched(n) : n \in Resized} :
                               \E n \in Resized : Placed(n, h, rank)}
<1> PICK rank \in [Resized -> 1..Cardinality(Resized)] :
        /\ keys_' = {h \in keys_ : \A n \in Resized : h \notin Touched(n)} \cup placed(rank)
        /\ hash_map_' = [h \in untouched \cup placed(rank) |->
               IF h \in untouched THEN hash_map_[h]
               ELSE CHOOSE n \in Resized : Placed(n, h, rank)]
  BY DEF RebalanceNodes
<1>1. Resized \subseteq Members
  BY DEF Resized, RingInv, CountersAreMembers
<1>2. node_replicas_' = [n \in Members |->
                            IF n \in Resized THEN NewReplicas(n) ELSE node_replicas_[n]]
  BY <1>1 DEF RebalanceNodes
<1>3. Members' = Members
  BY <1>2 DEF Members
<1>4. \A n \in Resized : NewReplicas(n) \in Nat
  BY NewReplicasInLimits, ReplicasAssumption DEF Resized
<1>5. ASSUME NEW h \in DOMAIN hash_map_'
      PROVE  hash_map_'[h] \in Members /\ h \in VNodes(hash_map_'[h], node_replicas_'[hash_map_'[h]])
  <2>1. CASE h \in untouched
    <3>1. hash_map_'[h] = hash_map_[h]
      BY <2>1
    <3>2. hash_map_[h] \in Members /\ h \in VNodes(hash_map_[h], node_replicas_[hash_map_[h]])
      BY <2>1 DEF RingInv, VNodesAreOwned
    <3>3. hash_map_[h] \notin Resized
      BY <2>1, <3>2 DEF Touched, OldReplicas
    <3> QED BY <3>1, <3>2, <3>3, <1>2
  <2>2. CASE h \notin untouched
    <3>1. \E n \in Resized : Placed(n, h, rank)
      BY <2>2
    <3>2. hash_map_'[h] = CHOOSE n \in Resized : Placed(n, h, rank)
      BY <2>2
    <3>3. hash_map_'[h] \in Resized /\ Placed(hash_map_'[h], h, rank)
      BY <3>1, <3>2
    <3> QED BY <3>3, <1>1, <1>2 DEF Placed
  <2> QED BY <2>1, <2>2
<1>6. RingTypes'
  <2>1. node_replicas_' \in [Members' -> Nat]
    BY <1>2, <1>3, <1>4 DEF RingInv, RingTypes
  <2>2. \A h \in DOMAIN hash_map_' : hash_map_'[h] \in Nodes
    BY <1>5 DEF RingInv, RingTypes
  <2>3. hash_map_' \in [DOMAIN hash_map_' -> Nodes]
    BY <2>2
  <2> QED BY <1>3, <2>1, <2>3 DEF RebalanceNodes, RingInv, RingTypes, getVars
<1>7. RingIsMapped'
  BY DEF RingInv, RingIsMapped
<1>8. VNodesAreOwned'
  BY <1>3, <1>5 DEF VNodesAreOwned, VNodes
<1>9. CountersAreMembers' /\ RemovedIsNotRouted'
  BY <1>3 DEF RebalanceNodes, RingInv, CountersAreMembers, RemovedIsNotRouted, getVars
<1> QED BY <1>6, <1>7, <1>8, <1>9 DEF RingInv

\* Steps that touch neither the ring nor the counters preserve it.
LEMMA OtherRing ==
    ASSUME RingInv, UNCHANGED <<ringVars, countVars, getVars>>
    PROVE  RingInv'
BY DEF ringVars, countVars, getVars, RingInv, RingTypes, RingIsMapped,
       VNodesAreOwned, CountersAreMembers, RemovedIsNotRouted, Members, VNodes

\* Every step preserves the invariant of the ring.
LEMMA NextRing == ~ReAdd /\ RingInv /\ [HashNext]_hashVars => RingInv'
<1> SUFFICES ASSUME ~ReAdd, RingInv, [HashNext]_hashVars PROVE RingInv'
  OBVIOUS
<1>1. ASSUME NEW n \in Nodes, Add(n) \/ Remove(n) \/ StatsCount(n) PROVE RingInv'
  BY <1>1, AddRing, RemoveRing, OtherRing DEF StatsCount
<1>2. ASSUME NEW g \in Getters, (\E k \in Keys : GetLookup(g, k)) \/ GetCount(g) \/ GetTotal(g)
      PROVE RingInv'
  BY <1>2, LookupRing, CountRing, TotalRing
<1>3. CASE StatsTotal \/ StatsDone \/ Destroy
  BY <1>3, OtherRing DEF StatsTotal, StatsDone, Destroy
<1>4. CASE Balance
  BY <1>4, RebalanceRing, OtherRing
     DEF Balance, BalancerWakes, CheckAndRebalance, RebalanceNothing
<1>5. CASE UNCHANGED hashVars
  BY <1>5, OtherRing DEF hashVars
<1> QED BY <1>1, <1>2, <1>3, <1>4, <1>5 DEF HashNext

\* The invariant of the ring holds in every reachable state.
THEOREM RingInvariant == ASSUME ~ReAdd PROVE HashSpec => []RingInv
<1> QED BY InitRing, NextRing, PTL DEF HashSpec

\* keys_ and hash_map_ never part: Get under the shared lock finds every hash.
THEOREM RingMapped == ASSUME ~ReAdd PROVE HashSpec => []RingIsMapped
<1>1. RingInv => RingIsMapped
  BY DEF RingInv
<1> QED BY <1>1, RingInvariant, PTL

\* No virtual node outlives its owner's membership or its shrinking, whatever
\* hashes collide and in whatever order RebalanceNodes takes the nodes.
THEOREM RingOwned == ASSUME ~ReAdd PROVE HashSpec => []VNodesAreOwned
<1>1. RingInv => VNodesAreOwned
  BY DEF RingInv
<1> QED BY <1>1, RingInvariant, PTL

\* node_counts_ has exactly the members, so that Get inserts no counter into a
\* map that other holders of the shared lock are reading.
THEOREM CountersMatch == ASSUME ~ReAdd PROVE HashSpec => []CountersAreMembers
<1>1. RingInv => CountersAreMembers
  BY DEF RingInv
<1> QED BY <1>1, RingInvariant, PTL

\* Get never returns a node that was removed.
THEOREM RemovedNotRouted == ASSUME ~ReAdd PROVE HashSpec => []RemovedIsNotRouted
<1>1. RingInv => RemovedIsNotRouted
  BY DEF RingInv
<1> QED BY <1>1, RingInvariant, PTL

-----------------------------------------------------------------------------
\* Virtual nodes within the limits have natural hashes.
LEMMA VNodesAreHashes ==
    ASSUME NEW n \in Nodes, NEW r \in Nat, r <= Replicas \/ r <= MaxReplicas
    PROVE  VNodes(n, r) \subseteq Nat
BY HashAssumption, ReplicasAssumption DEF VNodes

\* The types of the variables RingInv does not speak of.
LEMMA NextTypes == ~ReAdd /\ RingInv /\ HashTypeOK /\ [HashNext]_hashVars => HashTypeOK'
<1> SUFFICES ASSUME ~ReAdd, RingInv, HashTypeOK, [HashNext]_hashVars PROVE HashTypeOK'
  OBVIOUS
<1>1. RingInv'
  BY NextRing
<1>2. keys_' \subseteq Nat
  <2>1. ASSUME NEW n \in Nodes, Add(n) PROVE keys_' \subseteq Nat
    BY <2>1, VNodesAreHashes, ReplicasAssumption DEF Add, HashTypeOK
  <2>2. ASSUME NEW n \in Nodes, Remove(n) PROVE keys_' \subseteq Nat
    BY <2>2 DEF Remove, TakeOut, HashTypeOK
  <2>3. CASE RebalanceNodes
    <3>1. ASSUME NEW n \in Resized PROVE VNodes(n, NewReplicas(n)) \subseteq Nat
      <4>1. n \in Nodes /\ NewReplicas(n) \in MinReplicas..MaxReplicas
        BY NewReplicasInLimits DEF Resized, HashTypeOK
      <4> QED BY <4>1, VNodesAreHashes, ReplicasAssumption
    <3> QED BY <2>3, <3>1 DEF RebalanceNodes, Placed, HashTypeOK
  <2>4. CASE UNCHANGED ringVars
    BY <2>4 DEF ringVars, HashTypeOK
  <2> QED BY <2>1, <2>2, <2>3, <2>4
          DEF HashNext, hashVars, StatsCount, GetLookup, GetCount, GetTotal,
              StatsTotal, StatsDone, Balance, BalancerWakes, CheckAndRebalance,
              RebalanceNothing, Destroy
<1>3. is_balancer_stop_' \in BOOLEAN /\ balancer' \in {"sleep", "awake", "rebalance", "done"}
  <2>1. UNCHANGED balancerVars \/ Balance \/ Destroy
    BY DEF HashNext, hashVars, Add, Remove, StatsCount, GetLookup, GetCount,
           GetTotal, StatsTotal, StatsDone
  <2>2. CASE UNCHANGED balancerVars
    BY <2>2 DEF balancerVars, HashTypeOK
  <2>3. CASE Balance
    BY <2>3 DEF Balance, BalancerWakes, CheckAndRebalance, RebalanceNodes,
                RebalanceNothing, HashTypeOK
  <2>4. CASE Destroy
    BY <2>4 DEF Destroy, HashTypeOK
  <2> QED BY <2>1, <2>2, <2>3, <2>4
<1>4. curr_total' \in Nat /\ stats' \in [DOMAIN stats' -> Nat]
  <2>1. \/ UNCHANGED statsVars
        \/ StatsTotal \/ StatsDone \/ \E n \in Nodes : StatsCount(n)
    BY DEF HashNext, hashVars, Add, Remove, GetLookup, GetCount, GetTotal,
           Balance, BalancerWakes, CheckAndRebalance, RebalanceNodes,
           RebalanceNothing, Destroy
  <2>2. CASE UNCHANGED statsVars
    BY <2>2 DEF statsVars, HashTypeOK
  <2>3. CASE StatsTotal
    BY <2>3 DEF StatsTotal, HashTypeOK
  <2>4. CASE StatsDone
    BY <2>4 DEF StatsDone, HashTypeOK
  <2>5. ASSUME NEW n \in Nodes, StatsCount(n)
        PROVE  curr_total' \in Nat /\ stats' \in [DOMAIN stats' -> Nat]
    <3>1. node_counts_[n] \in Nat
      BY <2>5 DEF StatsCount, RingInv, RingTypes
    <3>2. \A m \in DOMAIN stats : stats[m] \in Nat
      BY DEF HashTypeOK
    <3>3. \A m \in DOMAIN stats' : stats'[m] \in Nat
      BY <2>5, <3>1, <3>2 DEF StatsCount
    <3>4. stats' = [m \in DOMAIN stats' |-> stats'[m]]
      BY <2>5 DEF StatsCount
    <3>5. stats' \in [DOMAIN stats' -> Nat]
      BY <3>3, <3>4, Zenon
    <3> QED BY <2>5, <3>5 DEF StatsCount, HashTypeOK
  <2> QED BY <2>1, <2>2, <2>3, <2>4, <2>5
<1>5. DOMAIN hash_map_' \subseteq Nat /\ DOMAIN node_counts_' \subseteq Nodes
  BY <1>1, <1>2 DEF RingInv, RingTypes, RingIsMapped, CountersAreMembers, Members
<1> QED BY <1>1, <1>2, <1>3, <1>4, <1>5 DEF HashTypeOK, RingInv, RingTypes, Members

\* Type correctness of ConsistentHashMap.
THEOREM HashTypeCorrect == ASSUME ~ReAdd PROVE HashSpec => []HashTypeOK
<1>1. HashInit => HashTypeOK
  <2> SUFFICES ASSUME HashInit PROVE HashTypeOK
    OBVIOUS
  <2>1. RingTypes
    BY InitRing DEF RingInv
  <2>2. keys_ \subseteq Nat /\ DOMAIN hash_map_ \subseteq Nat /\ DOMAIN node_counts_ \subseteq Nodes
    BY DEF HashInit
  <2>3. is_balancer_stop_ \in BOOLEAN /\ balancer \in {"sleep", "awake", "rebalance", "done"}
    BY DEF HashInit
  <2>4. curr_total \in Nat /\ stats \in [DOMAIN stats -> Nat]
    BY DEF HashInit
  <2> QED BY <2>1, <2>2, <2>3, <2>4 DEF HashTypeOK, RingTypes
<1>2. RingInv /\ HashTypeOK /\ [HashNext]_hashVars => HashTypeOK'
  BY NextTypes
<1> QED BY <1>1, <1>2, RingInvariant, PTL DEF HashSpec

-----------------------------------------------------------------------------
\* What the ring needs beyond RingInv to be complete: no node has more virtual
\* nodes than Lone looks at, and none that is due to a lone node is missing.
Within(r) == r \in Nat /\ (r = Replicas \/ r <= MaxReplicas)

ReplicasWithin == \A n \in Members : Within(node_replicas_[n])

NoneMissing ==
    \A n \in Lone : n \in Members =>
        \A h \in VNodes(n, node_replicas_[n]) : h \in keys_ /\ hash_map_[h] = n

CompleteInv == RingInv /\ ReplicasWithin /\ NoneMissing

\* A lone node's hashes are no other node's, whatever sizes the two have.
LEMMA LoneIsApart ==
    ASSUME NEW n \in Lone, NEW m \in Nodes, m # n, NEW r, NEW q, Within(r), Within(q),
           NEW h \in VNodes(n, r)
    PROVE  h \notin VNodes(m, q)
<1> DEFINE all(x) == VNodes(x, Replicas) \cup VNodes(x, MaxReplicas)
<1>1. \A x, t : Within(t) => VNodes(x, t) \subseteq all(x)
  BY ReplicasAssumption DEF VNodes, Within
<1>2. h \in all(n)
  BY <1>1
<1>3. \A x \in all(n) : x \notin all(m)
  BY DEF Lone
<1> HIDE DEF all
<1> QED BY <1>1, <1>2, <1>3

\* A node that joins takes no hash from a lone node, and gets all its own.
LEMMA AddComplete ==
    ASSUME CompleteInv, ~ReAdd, NEW a \in Nodes, Add(a)
    PROVE  CompleteInv'
<1>1. RingInv'
  BY AddRing DEF CompleteInv
<1>2. /\ keys_' = keys_ \cup VNodes(a, Replicas)
      /\ hash_map_' = [h \in DOMAIN hash_map_ \cup VNodes(a, Replicas) |->
                          IF h \in VNodes(a, Replicas) THEN a ELSE hash_map_[h]]
      /\ node_replicas_' = [m \in Members \cup {a} |->
                              IF m = a THEN Replicas ELSE node_replicas_[m]]
  BY DEF Add
<1>3. Members' = Members \cup {a} /\ Within(Replicas) /\ keys_ = DOMAIN hash_map_
  BY <1>2, ReplicasAssumption DEF Members, Within, CompleteInv, RingInv, RingIsMapped
<1>4. ReplicasWithin'
  BY <1>2, <1>3 DEF CompleteInv, ReplicasWithin, Within
<1>5. ASSUME NEW n \in Lone, n \in Members', NEW h \in VNodes(n, node_replicas_'[n])
      PROVE  h \in keys_' /\ hash_map_'[h] = n
  <2>1. CASE n = a
    BY <1>2, <1>3, <1>5, <2>1
  <2>2. CASE n # a
    <3>1. n \in Members /\ node_replicas_'[n] = node_replicas_[n]
      BY <1>2, <1>3, <1>5, <2>2
    <3>2. h \in keys_ /\ hash_map_[h] = n /\ Within(node_replicas_[n])
      BY <1>5, <3>1 DEF CompleteInv, NoneMissing, ReplicasWithin
    <3>3. h \notin VNodes(a, Replicas)
      BY <1>3, <1>5, <2>2, <3>1, <3>2, LoneIsApart
    <3> QED BY <1>2, <1>3, <3>2, <3>3
  <2> QED BY <2>1, <2>2
<1>6. NoneMissing'
  BY <1>5 DEF NoneMissing, Lone, VNodes
<1> QED BY <1>1, <1>4, <1>6 DEF CompleteInv

\* A node that leaves takes no hash of a lone node with it.
LEMMA RemoveComplete ==
    ASSUME CompleteInv, NEW a \in Nodes, Remove(a)
    PROVE  CompleteInv'
<1>1. RingInv'
  BY RemoveRing DEF CompleteInv
<1> DEFINE gone == VNodes(a, node_replicas_[a])
<1>2. /\ keys_' = keys_ \ gone
      /\ hash_map_' = [h \in DOMAIN hash_map_ \ gone |-> hash_map_[h]]
      /\ node_replicas_' = [m \in Members \ {a} |-> node_replicas_[m]]
      /\ a \in Members
  BY DEF Remove, TakeOut
<1>3. Members' = Members \ {a} /\ keys_ = DOMAIN hash_map_
  BY <1>2 DEF Members, CompleteInv, RingInv, RingIsMapped
<1>4. ReplicasWithin'
  BY <1>2, <1>3 DEF CompleteInv, ReplicasWithin, Within
<1>5. ASSUME NEW n \in Lone, n \in Members', NEW h \in VNodes(n, node_replicas_'[n])
      PROVE  h \in keys_' /\ hash_map_'[h] = n
  <2>1. n \in Members /\ n # a /\ node_replicas_'[n] = node_replicas_[n]
    BY <1>2, <1>3, <1>5
  <2>2. /\ h \in keys_ /\ hash_map_[h] = n
        /\ Within(node_replicas_[n]) /\ Within(node_replicas_[a])
    BY <1>2, <1>5, <2>1 DEF CompleteInv, NoneMissing, ReplicasWithin
  <2>3. h \notin gone
    BY <1>5, <2>1, <2>2, LoneIsApart
  <2> HIDE DEF gone
  <2> QED BY <1>2, <1>3, <2>2, <2>3
<1>6. NoneMissing'
  BY <1>5 DEF NoneMissing, Lone, VNodes
<1> QED BY <1>1, <1>4, <1>6 DEF CompleteInv

\* Rebalancing gives a lone node exactly the hashes of its new size, in
\* whatever order it takes the nodes.
LEMMA RebalanceComplete ==
    ASSUME CompleteInv, RebalanceNodes
    PROVE  CompleteInv'
<1> DEFINE untouched == {h \in DOMAIN hash_map_ : \A n \in Resized : h \notin Touched(n)}
           placed(rank) == {h \in UNION {Touched(n) : n \in Resized} :
                               \E n \in Resized : Placed(n, h, rank)}
<1> PICK rank \in [Resized -> 1..Cardinality(Resized)] :
        /\ keys_' = {h \in keys_ : \A n \in Resized : h \notin Touched(n)} \cup placed(rank)
        /\ hash_map_' = [h \in untouched \cup placed(rank) |->
               IF h \in untouched THEN hash_map_[h]
               ELSE CHOOSE n \in Resized : Placed(n, h, rank)]
  BY DEF RebalanceNodes
<1>1. RingInv /\ RingInv' /\ keys_ = DOMAIN hash_map_
  BY RebalanceRing DEF CompleteInv, RingInv, RingIsMapped
<1>2. Resized \subseteq Members /\ Members \subseteq Nodes
  BY <1>1 DEF Resized, RingInv, RingTypes, CountersAreMembers
<1>3. node_replicas_' = [n \in Members |->
                            IF n \in Resized THEN NewReplicas(n) ELSE node_replicas_[n]]
  BY <1>2 DEF RebalanceNodes
<1>4. Members' = Members
  BY <1>3 DEF Members
<1>5. \A n \in Resized : Within(NewReplicas(n)) /\ Within(OldReplicas(n))
  <2> SUFFICES ASSUME NEW n \in Resized
               PROVE  Within(NewReplicas(n)) /\ Within(OldReplicas(n))
    OBVIOUS
  <2>1. NewReplicas(n) \in MinReplicas..MaxReplicas
    BY <1>1, NewReplicasInLimits DEF Resized
  <2>2. Within(NewReplicas(n))
    BY <2>1, ReplicasAssumption DEF Within
  <2> QED BY <1>2, <2>2 DEF CompleteInv, ReplicasWithin, OldReplicas
<1>6. ReplicasWithin'
  BY <1>3, <1>4, <1>5 DEF CompleteInv, ReplicasWithin, Within
<1>7. ASSUME NEW n \in Lone, n \in Members, NEW r, Within(r), NEW h \in VNodes(n, r),
             NEW m \in Resized, h \in Touched(m)
      PROVE  m = n
  <2>1. m \in Nodes /\ Within(OldReplicas(m)) /\ Within(NewReplicas(m))
    BY <1>2, <1>5
  <2> QED BY <1>7, <2>1, LoneIsApart DEF Touched
<1>8. ASSUME NEW n \in Lone, n \in Members, NEW h \in VNodes(n, node_replicas_'[n])
      PROVE  h \in keys_' /\ hash_map_'[h] = n
  <2>1. CASE n \in Resized
    <3>1. h \in VNodes(n, NewReplicas(n)) /\ h \in Touched(n)
      BY <1>3, <1>8, <2>1 DEF Touched
    <3>2. \A m \in Resized : h \in Touched(m) => m = n
      BY <1>5, <1>7, <1>8, <2>1, <3>1
    <3>3. rank[n] <= rank[n]
      BY <2>1
    <3>4. Placed(n, h, rank)
      BY <2>1, <3>1, <3>2, <3>3 DEF Placed, LastToucher
    <3>5. h \in placed(rank) /\ h \notin untouched
      BY <2>1, <3>1, <3>4
    <3>6. hash_map_'[h] = CHOOSE m \in Resized : Placed(m, h, rank)
      BY <3>5
    <3>7. hash_map_'[h] \in Resized /\ Placed(hash_map_'[h], h, rank)
      BY <2>1, <3>4, <3>6
    <3>8. hash_map_'[h] = n
      BY <3>2, <3>7 DEF Placed, LastToucher
    <3> HIDE DEF placed
    <3> QED BY <3>5, <3>8
  <2>2. CASE n \notin Resized
    <3>1. node_replicas_'[n] = node_replicas_[n] /\ Within(node_replicas_[n])
      BY <1>3, <1>8, <2>2 DEF CompleteInv, ReplicasWithin
    <3>2. h \in keys_ /\ hash_map_[h] = n
      BY <1>8, <3>1 DEF CompleteInv, NoneMissing
    <3>3. \A m \in Resized : h \notin Touched(m)
      BY <1>7, <1>8, <2>2, <3>1
    <3> HIDE DEF placed
    <3> QED BY <1>1, <3>2, <3>3
  <2> QED BY <2>1, <2>2
<1>9. NoneMissing'
  BY <1>4, <1>8 DEF NoneMissing, Lone, VNodes
<1> QED BY <1>1, <1>6, <1>9 DEF CompleteInv

\* Steps that leave the ring alone.
LEMMA OtherComplete ==
    ASSUME CompleteInv, RingInv', UNCHANGED ringVars
    PROVE  CompleteInv'
BY DEF ringVars, CompleteInv, ReplicasWithin, NoneMissing, Members, VNodes, Lone, Within

\* Every step keeps the ring complete.
LEMMA NextComplete ==
    ASSUME ~ReAdd, CompleteInv, [HashNext]_hashVars
    PROVE  CompleteInv'
<1>1. RingInv'
  BY NextRing DEF CompleteInv
<1>2. \/ UNCHANGED ringVars \/ RebalanceNodes
      \/ \E n \in Nodes : Add(n) \/ Remove(n)
  BY DEF HashNext, hashVars, StatsCount, GetLookup, GetCount, GetTotal, StatsTotal,
         StatsDone, Balance, BalancerWakes, CheckAndRebalance, RebalanceNothing, Destroy
<1> QED BY <1>1, <1>2, AddComplete, RemoveComplete, RebalanceComplete, OtherComplete

\* A node whose virtual nodes collide with no other's has all of them on the
\* ring as long as it is a member, and none afterwards, through resizings and
\* whatever happens to the nodes whose hashes do collide.
THEOREM RingStaysComplete == ASSUME ~ReAdd PROVE HashSpec => []RingIsComplete
<1>1. HashInit => CompleteInv
  BY InitRing DEF HashInit, CompleteInv, ReplicasWithin, NoneMissing, Members
<1>2. CompleteInv => RingIsComplete
  <2> SUFFICES ASSUME CompleteInv, NEW n \in Lone
               PROVE  {h \in keys_ : hash_map_[h] = n} =
                          IF n \in Members THEN VNodes(n, node_replicas_[n]) ELSE {}
    BY DEF RingIsComplete
  <2>1. \A h \in keys_ : hash_map_[h] = n =>
            n \in Members /\ h \in VNodes(n, node_replicas_[n])
    BY DEF CompleteInv, RingInv, RingIsMapped, VNodesAreOwned
  <2>2. n \in Members =>
            \A h \in VNodes(n, node_replicas_[n]) : h \in keys_ /\ hash_map_[h] = n
    BY DEF CompleteInv, NoneMissing
  <2> QED BY <2>1, <2>2
<1>3. CompleteInv /\ [HashNext]_hashVars => CompleteInv'
  BY NextComplete
<1> QED BY <1>1, <1>2, <1>3, PTL DEF HashSpec

-----------------------------------------------------------------------------
\* A set of natural numbers that is not empty has a least element: of the
\* finite sets 0..n one is minimal.
LEMMA LeastNatural ==
    ASSUME NEW S \in SUBSET Nat, S # {}
    PROVE  \E m \in S : \A n \in S : m <= n
<1> DEFINE below == {0..n : n \in S}
<1>1. below \subseteq FiniteSubsetsOf(Nat) /\ below # {}
  <2>1. \A n \in S : IsFiniteSet(0..n) /\ 0..n \in SUBSET Nat
    BY FS_Interval
  <2> QED BY <2>1 DEF FiniteSubsetsOf
<1>2. \E b \in below : \A c \in below : <<c, b>> \notin StrictSubsetOrdering(Nat)
  <2> HIDE DEF below
  <2> QED BY <1>1, WFMin, FS_StrictSubsetOrderingWellFounded
<1>3. PICK m \in S : \A n \in S : <<0..n, 0..m>> \notin StrictSubsetOrdering(Nat)
  BY <1>2
<1>4. \A n \in S : n < m => <<0..n, 0..m>> \in StrictSubsetOrdering(Nat)
  BY DEF StrictSubsetOrdering
<1>5. \A n \in S : ~(n < m) /\ n \in Nat /\ m \in Nat
  BY <1>3, <1>4
<1> QED BY <1>5

\* Successor on the ring S.
SuccessorOn(S, h, x) ==
    /\ h \in S
    /\ IF \E j \in S : j >= x
       THEN h >= x /\ \A j \in S : j >= x => h <= j
       ELSE \A j \in S : h <= j

\* On a ring that is not empty every hash has one successor.
LEMMA SuccessorIsUnique ==
    ASSUME NEW S \in SUBSET Nat, S # {}, NEW x \in Nat
    PROVE  \E h \in S : \A j : SuccessorOn(S, j, x) <=> j = h
<1> DEFINE T == IF \E j \in S : j >= x THEN {j \in S : j >= x} ELSE S
<1>1. T \in SUBSET Nat /\ T # {}
  OBVIOUS
<1>2. PICK h \in T : \A j \in T : h <= j
  <2> HIDE DEF T
  <2> QED BY <1>1, LeastNatural
<1>3. h \in S /\ SuccessorOn(S, h, x)
  BY <1>2 DEF SuccessorOn
<1>4. ASSUME NEW j, SuccessorOn(S, j, x) PROVE j = h
  <2>1. j \in T /\ \A i \in T : j <= i
    BY <1>4 DEF SuccessorOn
  <2>2. j \in Nat /\ h \in Nat /\ j <= h /\ h <= j
    BY <1>1, <1>2, <2>1
  <2> QED BY <2>2
<1> QED BY <1>3, <1>4

\* What Route returns, now and in the next state.
LEMMA RouteIs ==
    ASSUME NEW k \in Keys, NEW h,
           \A j : SuccessorOn(keys_, j, KeyHash[k]) <=> j = h
    PROVE  Route(k) = hash_map_[h]
<1>1. \A j : Successor(j, KeyHash[k]) <=> SuccessorOn(keys_, j, KeyHash[k])
  BY DEF Successor, SuccessorOn
<1>2. h \in keys_
  BY DEF SuccessorOn
<1>3. (CHOOSE j \in keys_ : Successor(j, KeyHash[k])) = h
  BY <1>1, <1>2
<1> QED BY <1>3 DEF Route

\* See RouteIs.
LEMMA RouteWillBe ==
    ASSUME NEW k \in Keys, NEW h,
           \A j : SuccessorOn(keys_', j, KeyHash[k]) <=> j = h
    PROVE  Route(k)' = hash_map_'[h]
<1>1. \A j : Successor(j, KeyHash[k])' <=> SuccessorOn(keys_', j, KeyHash[k])
  BY DEF Successor, SuccessorOn
<1>2. h \in keys_'
  BY DEF SuccessorOn
<1>3. (CHOOSE j \in keys_' : Successor(j, KeyHash[k])') = h
  BY <1>1, <1>2
<1> QED BY <1>3 DEF Route

\* A hash that is the successor on a ring is it on a smaller one as well.
LEMMA SuccessorStays ==
    ASSUME NEW S, NEW T, T \subseteq S, NEW h \in T, NEW x, SuccessorOn(S, h, x)
    PROVE  SuccessorOn(T, h, x)
BY DEF SuccessorOn

\* A node that joins takes keys only to itself.
LEMMA JoinMoves ==
    ASSUME CompleteInv, HashTypeOK, HashTypeOK', NEW n \in Nodes, NEW k \in Keys, Add(n),
           keys_ # {}, keys_' # {}
    PROVE  Route(k)' \in {Route(k), n}
<1>1. /\ keys_' = keys_ \cup VNodes(n, Replicas)
      /\ hash_map_' = [h \in DOMAIN hash_map_ \cup VNodes(n, Replicas) |->
                          IF h \in VNodes(n, Replicas) THEN n ELSE hash_map_[h]]
  BY DEF Add
<1>2. keys_ \in SUBSET Nat /\ keys_' \in SUBSET Nat /\ KeyHash[k] \in Nat
  BY HashAssumption DEF HashTypeOK
<1>3. keys_ = DOMAIN hash_map_
  BY DEF CompleteInv, RingInv, RingIsMapped
<1>4. PICK h \in keys_' : \A j : SuccessorOn(keys_', j, KeyHash[k]) <=> j = h
  BY <1>2, SuccessorIsUnique
<1>5. PICK g \in keys_ : \A j : SuccessorOn(keys_, j, KeyHash[k]) <=> j = g
  BY <1>2, SuccessorIsUnique
<1>6. Route(k)' = hash_map_'[h] /\ Route(k) = hash_map_[g]
  BY <1>4, <1>5, RouteIs, RouteWillBe
<1>7. CASE h \in VNodes(n, Replicas)
  BY <1>1, <1>6, <1>7
<1>8. CASE h \notin VNodes(n, Replicas)
  <2>1. h \in keys_ /\ hash_map_'[h] = hash_map_[h]
    BY <1>1, <1>3, <1>4, <1>8
  <2>2. h = g
    BY <1>1, <1>4, <1>5, <2>1, SuccessorStays
  <2> QED BY <1>6, <2>1, <2>2
<1> QED BY <1>7, <1>8

\* A lone node that leaves gives up only its own keys.
LEMMA LeaveMoves ==
    ASSUME CompleteInv, HashTypeOK, HashTypeOK', NEW n \in Lone, NEW k \in Keys, Remove(n),
           keys_ # {}, keys_' # {}
    PROVE  Route(k) \in {Route(k)', n}
<1> DEFINE gone == VNodes(n, node_replicas_[n])
<1>1. /\ keys_' = keys_ \ gone
      /\ hash_map_' = [h \in DOMAIN hash_map_ \ gone |-> hash_map_[h]]
      /\ n \in Members
  BY DEF Remove, TakeOut
<1>2. keys_ \in SUBSET Nat /\ keys_' \in SUBSET Nat /\ KeyHash[k] \in Nat
  BY HashAssumption DEF HashTypeOK
<1>3. keys_ = DOMAIN hash_map_ /\ \A h \in gone : hash_map_[h] = n
  BY <1>1 DEF CompleteInv, RingInv, RingIsMapped, NoneMissing
<1> HIDE DEF gone
<1>4. PICK h \in keys_' : \A j : SuccessorOn(keys_', j, KeyHash[k]) <=> j = h
  BY <1>2, SuccessorIsUnique
<1>5. PICK g \in keys_ : \A j : SuccessorOn(keys_, j, KeyHash[k]) <=> j = g
  BY <1>2, SuccessorIsUnique
<1>6. Route(k)' = hash_map_'[h] /\ Route(k) = hash_map_[g]
  BY <1>4, <1>5, RouteIs, RouteWillBe
<1>7. CASE g \in gone
  BY <1>3, <1>6, <1>7
<1>8. CASE g \notin gone
  <2>1. g \in keys_' /\ hash_map_'[g] = hash_map_[g] /\ keys_' \subseteq keys_
    BY <1>1, <1>3, <1>5, <1>8
  <2>2. h = g
    BY <1>4, <1>5, <2>1, SuccessorStays
  <2> QED BY <1>6, <2>1, <2>2
<1> QED BY <1>7, <1>8

\* The members change only when one joins or leaves.
LEMMA MembersChange ==
    ASSUME RingInv, [HashNext]_hashVars, Members' # Members
    PROVE  \E n \in Nodes :
              \/ Add(n) /\ Members' = Members \cup {n}
              \/ Remove(n) /\ Members' = Members \ {n}
<1>1. UNCHANGED node_replicas_ => FALSE
  BY DEF Members
<1>2. RebalanceNodes => FALSE
  BY DEF RebalanceNodes, Resized, Members, RingInv, CountersAreMembers
<1>3. \E n \in Nodes : Add(n) \/ Remove(n)
  BY <1>1, <1>2
     DEF HashNext, hashVars, ringVars, StatsCount, GetLookup, GetCount, GetTotal,
         StatsTotal, StatsDone, Balance, BalancerWakes, CheckAndRebalance,
         RebalanceNothing, Destroy
<1> QED BY <1>3 DEF Add, Remove, Members

\* Consistent hashing, for every ring and every key: who joins takes keys only
\* to itself, who leaves gives up no key that was another's.
THEOREM MovementIsMinimal == ASSUME ~ReAdd PROVE HashSpec => MinimalMovement
<1> DEFINE Moves ==
        Members' # Members /\ keys_ # {} /\ keys_' # {} =>
            \A n \in Lone, k \in Keys :
                /\ Members' = Members \cup {n} => Route(k)' \in {Route(k), n}
                /\ Members' = Members \ {n} => Route(k) \in {Route(k)', n}
<1>1. HashInit => CompleteInv
  BY InitRing DEF HashInit, CompleteInv, ReplicasWithin, NoneMissing, Members
<1>2. CompleteInv /\ [HashNext]_hashVars => CompleteInv'
  BY NextComplete
<1>3. ASSUME CompleteInv, HashTypeOK, HashTypeOK', [HashNext]_hashVars PROVE Moves
  <2> SUFFICES ASSUME Members' # Members, keys_ # {}, keys_' # {},
                      NEW n \in Lone, NEW k \in Keys
               PROVE  /\ Members' = Members \cup {n} => Route(k)' \in {Route(k), n}
                      /\ Members' = Members \ {n} => Route(k) \in {Route(k)', n}
    OBVIOUS
  <2>1. PICK m \in Nodes : \/ Add(m) /\ Members' = Members \cup {m}
                           \/ Remove(m) /\ Members' = Members \ {m}
    BY <1>3, MembersChange DEF CompleteInv
  <2>2. CASE Members' = Members \cup {n}
    <3>1. n \notin Members /\ Add(m) /\ m = n
      BY <2>1, <2>2
    <3>2. Route(k)' \in {Route(k), n}
      BY <1>3, <3>1, JoinMoves
    <3>3. Members' # Members \ {n}
      BY <2>2
    <3> QED BY <3>2, <3>3
  <2>3. CASE Members' = Members \ {n}
    <3>1. n \in Members /\ Remove(m) /\ m = n
      BY <2>1, <2>3
    <3>2. Route(k) \in {Route(k)', n}
      BY <1>3, <3>1, LeaveMoves
    <3>3. Members' # Members \cup {n}
      BY <2>3
    <3> QED BY <3>2, <3>3
  <2> QED BY <2>2, <2>3
<1>4. HashSpec => []HashTypeOK
  BY HashTypeCorrect
<1> HIDE DEF Moves
<1>5. HashSpec => [][Moves]_hashVars
  BY <1>1, <1>2, <1>3, <1>4, PTL DEF HashSpec
<1> QED BY <1>5 DEF MinimalMovement, Moves

-----------------------------------------------------------------------------
\* The Gets between their two increments.
InBetween == {g \in Getters : get[g] = "total"}

CountInv ==
    /\ RingInv
    /\ IsFiniteSet(Counted)
    /\ TotalCoversCounts

\* They are finitely many, as the getters are.
LEMMA FewInBetween ==
    /\ IsFiniteSet(InBetween) /\ Cardinality(InBetween) \in Nat
    /\ IsFiniteSet(InBetween') /\ Cardinality(InBetween') \in Nat
<1>1. InBetween \subseteq Getters /\ InBetween' \subseteq Getters
  BY DEF InBetween
<1> QED BY <1>1, GetterAssumption, FS_Subset, FS_CardinalityType

\* When the counters lose requests and nothing else changes, the total covers
\* them as before.
LEMMA FewerCounted ==
    ASSUME CountInv, RingInv', Counted' \subseteq Counted,
           total_requests_' = total_requests_, get' = get
    PROVE  CountInv'
<1>1. IsFiniteSet(Counted') /\ Cardinality(Counted') <= Cardinality(Counted)
  BY FS_Subset DEF CountInv
<1>2. Cardinality(Counted) \in Nat /\ Cardinality(Counted') \in Nat
  BY <1>1, FS_CardinalityType DEF CountInv
<1>3. InBetween' = InBetween
  BY DEF InBetween
<1>4. total_requests_ \in Nat
  BY DEF CountInv, RingInv, RingTypes
<1>5. Cardinality(Counted') <= total_requests_' + Cardinality(InBetween')
  BY <1>1, <1>2, <1>3, <1>4, FewInBetween DEF CountInv, TotalCoversCounts, InBetween
<1> QED BY <1>1, <1>5 DEF CountInv, TotalCoversCounts, InBetween

\* The first increment of a Get is one more request, and one more Get in
\* between.
LEMMA CountCovered ==
    ASSUME CountInv, RingInv', NEW g \in Getters, GetCount(g)
    PROVE  CountInv'
<1> DEFINE n == node[g]
<1>1. n \in DOMAIN node_counts_ /\ node_counts_[n] \in Nat
  BY DEF GetCount, CountInv, RingInv, RingTypes, RemovedIsNotRouted, CountersAreMembers
<1> DEFINE new == <<n, node_counts_[n] + 1>>
<1>2. node_counts_' = [m \in DOMAIN node_counts_ |->
                          IF m = n THEN node_counts_[n] + 1 ELSE node_counts_[m]]
  BY <1>1 DEF GetCount
<1>3. Counted' = Counted \cup {new}
  <2>1. ASSUME NEW m \in DOMAIN node_counts_, m # n
        PROVE  {m} \X (1..node_counts_'[m]) = {m} \X (1..node_counts_[m])
    BY <1>2, <2>1
  <2>2. {n} \X (1..node_counts_'[n]) = ({n} \X (1..node_counts_[n])) \cup {new}
    BY <1>1, <1>2
  <2>3. DOMAIN node_counts_' = DOMAIN node_counts_
    BY <1>2
  <2>4. \A c : c \in Counted' <=> \E m \in DOMAIN node_counts_ : c \in {m} \X (1..node_counts_'[m])
    BY <2>3 DEF Counted
  <2>5. \A c : c \in Counted <=> \E m \in DOMAIN node_counts_ : c \in {m} \X (1..node_counts_[m])
    BY DEF Counted
  <2> HIDE DEF n, new
  <2>6. \A c : c \in Counted' <=> c \in Counted \/ c = new
    BY <1>1, <2>1, <2>2, <2>4, <2>5
  <2> QED BY <2>6
<1>4. IsFiniteSet(Counted') /\ Cardinality(Counted') <= Cardinality(Counted) + 1
  <2>1. IsFiniteSet(Counted) /\ Cardinality(Counted) \in Nat
    BY FS_CardinalityType DEF CountInv
  <2> HIDE DEF new
  <2>2. /\ IsFiniteSet(Counted \cup {new})
        /\ Cardinality(Counted \cup {new}) =
              IF new \in Counted THEN Cardinality(Counted) ELSE Cardinality(Counted) + 1
    BY <2>1, FS_AddElement
  <2> QED BY <1>3, <2>1, <2>2
<1>5. InBetween' = InBetween \cup {g} /\ g \notin InBetween
  BY DEF GetCount, InBetween, CountInv, RingInv, RingTypes
<1>6. Cardinality(InBetween') = Cardinality(InBetween) + 1
  BY <1>5, FewInBetween, FS_AddElement
<1>7. /\ Cardinality(Counted) \in Nat /\ Cardinality(Counted') \in Nat
      /\ total_requests_' = total_requests_ /\ total_requests_ \in Nat
      /\ Cardinality(Counted) <= total_requests_ + Cardinality(InBetween)
  BY <1>4, FS_CardinalityType
     DEF GetCount, CountInv, RingInv, RingTypes, TotalCoversCounts, InBetween
<1>8. Cardinality(Counted') <= total_requests_' + Cardinality(InBetween')
  BY <1>4, <1>6, <1>7, FewInBetween
<1> QED BY <1>4, <1>8 DEF CountInv, TotalCoversCounts, InBetween

\* The second increment ends it.
LEMMA TotalCovered ==
    ASSUME CountInv, RingInv', NEW g \in Getters, GetTotal(g)
    PROVE  CountInv'
<1>1. Counted' = Counted /\ IsFiniteSet(Counted)
  BY DEF GetTotal, Counted, CountInv
<1>2. InBetween' = InBetween \ {g} /\ g \in InBetween
  BY DEF GetTotal, InBetween, CountInv, RingInv, RingTypes
<1>3. Cardinality(InBetween') = Cardinality(InBetween) - 1
  BY <1>2, FewInBetween, FS_RemoveElement
<1>4. /\ Cardinality(Counted) \in Nat
      /\ total_requests_' = total_requests_ + 1 /\ total_requests_ \in Nat
      /\ Cardinality(Counted) <= total_requests_ + Cardinality(InBetween)
  BY <1>1, FS_CardinalityType
     DEF GetTotal, CountInv, RingInv, RingTypes, TotalCoversCounts, InBetween
<1>5. Cardinality(Counted) <= total_requests_' + Cardinality(InBetween')
  BY <1>3, <1>4, FewInBetween
<1> QED BY <1>1, <1>5 DEF CountInv, TotalCoversCounts, InBetween

\* Rebalancing, when no Get is under way, starts the counting anew.
LEMMA RebalanceCovered ==
    ASSUME CountInv, RingInv', RebalanceNodes
    PROVE  CountInv'
<1>1. Counted' = {} /\ total_requests_' = 0
  BY DEF RebalanceNodes, Counted
<1>2. Cardinality(Counted') <= total_requests_' + Cardinality(InBetween')
  BY <1>1, FewInBetween, FS_EmptySet
<1> QED BY <1>1, <1>2, FS_EmptySet DEF CountInv, TotalCoversCounts, InBetween

\* Every step keeps the total covering the counters.
LEMMA NextCovered ==
    ASSUME ~ReAdd, CountInv, [HashNext]_hashVars
    PROVE  CountInv'
<1>1. RingInv'
  BY NextRing DEF CountInv
<1>2. ASSUME NEW n \in Nodes, Add(n) PROVE CountInv'
  <2>1. n \notin DOMAIN node_counts_
    BY <1>2 DEF Add, CountInv, RingInv, CountersAreMembers
  <2>2. node_counts_' = [m \in DOMAIN node_counts_ \cup {n} |->
                            IF m \in DOMAIN node_counts_ THEN node_counts_[m] ELSE 0]
    BY <1>2 DEF Add
  <2>3. \A m \in DOMAIN node_counts_' : \A c \in {m} \X (1..node_counts_'[m]) :
            m \in DOMAIN node_counts_ /\ c \in {m} \X (1..node_counts_[m])
    BY <2>1, <2>2
  <2>4. Counted' \subseteq Counted
    BY <2>3 DEF Counted
  <2> QED BY <1>1, <1>2, <2>4, FewerCounted DEF Add, getVars
<1>3. ASSUME NEW n \in Nodes, Remove(n) PROVE CountInv'
  <2>1. Counted' \subseteq Counted
    BY <1>3 DEF Remove, Counted
  <2> QED BY <1>1, <1>3, <2>1, FewerCounted DEF Remove, getVars
<1>4. ASSUME NEW g \in Getters, GetCount(g) \/ GetTotal(g) PROVE CountInv'
  BY <1>1, <1>4, CountCovered, TotalCovered
<1>5. CASE RebalanceNodes
  BY <1>1, <1>5, RebalanceCovered
<1>6. ASSUME NEW g \in Getters, NEW k \in Keys, GetLookup(g, k) PROVE CountInv'
  <2>1. InBetween' = InBetween /\ Counted' = Counted /\ total_requests_' = total_requests_
    BY <1>6 DEF GetLookup, InBetween, Counted, countVars, CountInv, RingInv, RingTypes
  <2> QED BY <1>1, <2>1 DEF CountInv, TotalCoversCounts, InBetween
<1>7. CASE UNCHANGED <<countVars, getVars>>
  BY <1>1, <1>7, FewerCounted DEF countVars, getVars, Counted
<1> QED BY <1>2, <1>3, <1>4, <1>5, <1>6, <1>7
           DEF HashNext, hashVars, StatsCount, StatsTotal, StatsDone, Balance,
               BalancerWakes, CheckAndRebalance, RebalanceNothing, Destroy

\* The atomic counters of Get, incremented one after the other, never let the
\* loads the balancer computes add up to more than the total it divides by,
\* but for the Gets that are in between.
THEOREM TotalCovers == ASSUME ~ReAdd PROVE HashSpec => []TotalCoversCounts
<1>1. HashInit => CountInv
  <2> SUFFICES ASSUME HashInit PROVE CountInv
    OBVIOUS
  <2>1. Counted = {} /\ total_requests_ = 0
    BY DEF HashInit, Counted
  <2>2. Cardinality(Counted) <= total_requests_ + Cardinality(InBetween)
    BY <2>1, FewInBetween, FS_EmptySet
  <2> QED BY <2>1, <2>2, InitRing, FS_EmptySet DEF CountInv, TotalCoversCounts, InBetween
<1>2. CountInv => TotalCoversCounts
  BY DEF CountInv
<1>3. CountInv /\ [HashNext]_hashVars => CountInv'
  BY NextCovered
<1> QED BY <1>1, <1>2, <1>3, PTL DEF HashSpec
=============================================================================
