------------------------- MODULE CacheClusterProofs -------------------------
(***************************************************************************)
(* Proofs about CacheCluster for any set of nodes, clients and callers:    *)
(* what true means to who called Set or Delete, and who reads a Set that   *)
(* nothing disturbed.                                                      *)
(***************************************************************************)
EXTENDS ClusterHistory, TLAPS

\* The variables that ClusterTypeOK leaves out.
LocalsOK ==
    /\ client \in [Callers -> Clients]
    /\ ring \in [Clients -> Nodes \cup {NoNode}]
    /\ nodes_mutex_ \in [Clients -> Callers \cup {NoCaller}]
    /\ target_addr \in [Callers -> Nodes \cup {NoNode}]
    /\ all_success \in [Callers -> BOOLEAN]
    /\ writes \in 0..MaxWrites

\* A call that has a target sent its request to a node; a load runs in a
\* process that is ready; only a Set under way has a value.
CallsOK ==
    \A t \in Callers :
        /\ pc[t] \in {"get", "load", "set", "lock"} => target_addr[t] \in Nodes
        /\ pc[t] = "load" => process[target_addr[t]] = "ready"
        /\ pc[t] \in {"idle", "get", "load"} => value[t] = 0
        /\ pc[t] = "set" => value[t] \in Writes

ClusterInv == ClusterTypeOK /\ LocalsOK /\ CallsOK

\* The Sets that are done are over: no call has their value any more.
DoneIsOver ==
    /\ done \subseteq 1..writes /\ superseded \subseteq done
    /\ \A t \in Callers :
        /\ before[t] \subseteq done
        /\ value[t] # 0 => value[t] \in 1..writes /\ value[t] \notin done
        /\ \A s \in Callers : s # t /\ value[s] = value[t] => value[s] = 0

\* What was done before the call of t began is gone from the target of its
\* Set and from the nodes it has told, as long as none has failed.
ToldIsGone ==
    \A t \in Callers :
        /\ pc[t] = "lock" => copy[target_addr[t]] \notin before[t]
        /\ pc[t] = "tell" =>
               \A n \in cache_nodes_[client[t]] \ todo[t] : copy[n] \notin before[t]

\* A Set that failed and may be executed late is never done.
LateIsNotDone ==
    \A l \in late :
        \/ l[2] \in {Empty, Source}
        \/ /\ l[2] \in 1..writes /\ l[2] \notin done
           /\ \A t \in Callers : value[t] # l[2]

SupersededInv == DoneIsOver /\ LateIsNotDone /\ ToldIsGone /\ NoSupersededCopy

\* While a node is heir, every Set goes to it, nobody tells it and nothing
\* is loaded in it; so its copy is of one of those Sets, or will be.
HeirIsSpared ==
    heir # None =>
        /\ heir.node \in Nodes
        /\ \A t \in Callers :
            /\ pc[t] \in {"set", "lock"} => target_addr[t] = heir.node
            /\ pc[t] = "set" => value[t] \in heir.writes
            /\ pc[t] = "load" => target_addr[t] # heir.node
            /\ pc[t] = "tell" => heir.node \notin todo[t]
        /\ copy[heir.node] \in heir.writes \/ \E t \in Callers : pc[t] = "set"

-----------------------------------------------------------------------------
\* The initial states satisfy the invariant on types.
LEMMA InitClusterInv == ClusterInit => ClusterInv
<1> SUFFICES ASSUME ClusterInit PROVE ClusterInv
  OBVIOUS
<1> USE ClusterAssumption DEF ClusterInit
<1>1. LocalsOK /\ CallsOK
  BY DEF LocalsOK, CallsOK
<1>2. ClusterTypeOK
  BY DEF ClusterTypeOK
<1> QED BY <1>1, <1>2 DEF ClusterInv

\* Notify appends an event for every client in use.
LEMMA NotifyType ==
    ASSUME ClusterTypeOK, NEW type \in {"PUT", "DELETE"}, NEW n \in Nodes,
           Notify(type, n)
    PROVE  events' \in [Clients -> Seq({"PUT", "DELETE"} \X Nodes)]
<1>1. \A c \in Clients : events[c] \in Seq({"PUT", "DELETE"} \X Nodes)
  BY DEF ClusterTypeOK
<1>2. <<type, n>> \in {"PUT", "DELETE"} \X Nodes
  OBVIOUS
<1>3. \A c \in Clients : Append(events[c], <<type, n>>) \in Seq({"PUT", "DELETE"} \X Nodes)
  BY <1>1, <1>2
<1>4. <<>> \in Seq({"PUT", "DELETE"} \X Nodes)
  OBVIOUS
<1> QED BY <1>3, <1>4 DEF Notify

\* Nodes preserve the invariant on types.
LEMMA NodeClusterInv ==
    ASSUME ClusterInv, NEW n \in Nodes,
           Start(n) \/ MakeCacheGroup(n) \/ Unlist(n) \/ End(n) \/ Evict(n)
    PROVE  ClusterInv'
<1> USE ClusterAssumption
    DEF ClusterInv, nodeVars, memberVars, callVars, localVars, RingOK
<1>1. CASE Start(n)
  <2>1. events' \in [Clients -> Seq({"PUT", "DELETE"} \X Nodes)]
    BY <1>1, NotifyType DEF Start
  <2>2. CallsOK' /\ LocalsOK'
    BY <1>1 DEF Start, ClusterTypeOK, LocalsOK, CallsOK
  <2>3. ClusterTypeOK'
    <3>1. /\ process' = [process EXCEPT ![n] = "starting"] /\ process[n] = "off"
          /\ listed' = listed \cup {n}
          /\ UNCHANGED copy
      BY <1>1 DEF Start
    <3>2. UNCHANGED <<late, cache_nodes_, ring, nodes_mutex_, client, pc, value, todo>>
      BY <1>1 DEF Start
    <3>3. process' \in [Nodes -> {"off", "starting", "ready"}] /\ listed' \subseteq Nodes
      BY <3>1 DEF ClusterTypeOK
    <3>4. \A m \in Nodes : copy'[m] # Empty => process'[m] = "ready"
      BY <3>1 DEF ClusterTypeOK
    <3>5. \A c \in Clients :
            /\ RingOK(c)'
            /\ \A t \in Callers : nodes_mutex_'[c] = t <=> pc'[t] = "tell" /\ client'[t] = c
      BY <3>2 DEF ClusterTypeOK
    <3> QED BY <2>1, <3>1, <3>2, <3>3, <3>4, <3>5 DEF ClusterTypeOK
  <2> QED BY <2>2, <2>3
<1>2. CASE MakeCacheGroup(n)
  BY <1>2 DEF MakeCacheGroup, ClusterTypeOK, LocalsOK, CallsOK
<1>3. CASE Unlist(n)
  <2>1. events' \in [Clients -> Seq({"PUT", "DELETE"} \X Nodes)]
    BY <1>3, NotifyType DEF Unlist
  <2>2. CallsOK' /\ LocalsOK'
    BY <1>3 DEF Unlist, LocalsOK, CallsOK
  <2>3. ClusterTypeOK'
    BY <1>3, <2>1, ZenonT(60) DEF Unlist, ClusterTypeOK
  <2> QED BY <2>2, <2>3
<1>4. CASE End(n)
  <2>1. CallsOK' /\ LocalsOK'
    BY <1>4 DEF End, BackIn, ClusterTypeOK, LocalsOK, CallsOK
  <2>2. ClusterTypeOK'
    BY <1>4 DEF End, BackIn, ClusterTypeOK, LocalsOK
  <2> QED BY <2>1, <2>2
<1>5. CASE Evict(n)
  BY <1>5 DEF Evict, ClusterTypeOK, LocalsOK, CallsOK
<1> QED BY <1>1, <1>2, <1>3, <1>4, <1>5

\* So does what a node executes late.
LEMMA LateClusterInv == ASSUME ClusterInv, ExecuteLate PROVE ClusterInv'
<1> USE DEF ClusterInv, memberVars, callVars, localVars, RingOK
<1>1. PICK l \in late : Leaves(l[1], l[2])
  BY DEF ExecuteLate
<1>2. /\ l[1] \in Nodes /\ l[2] \in {Empty, Source} \cup Writes
      /\ process[l[1]] = "ready"
  BY <1>1 DEF Leaves, ClusterTypeOK
<1>3. CallsOK' /\ LocalsOK'
  BY DEF ExecuteLate, LocalsOK, CallsOK
<1>4. /\ copy' \in [Nodes -> {Empty, Source} \cup Writes]
      /\ \A n \in Nodes : copy'[n] # Empty => process[n] = "ready"
  BY <1>1, <1>2 DEF Leaves, ClusterTypeOK
<1>5. ClusterTypeOK'
  BY <1>4 DEF ExecuteLate, ClusterTypeOK
<1> QED BY <1>3, <1>5

\* What is late stays typed, and whatever comes of a failed request keeps the
\* copies in processes that are ready.
LEMMA FailsType ==
    ASSUME ClusterTypeOK, NEW n \in Nodes, NEW v \in {Empty, Source} \cup Writes,
           \/ Fails(n, v)
           \/ (UNCHANGED late \/ GivenUp(n, v)) /\ UNCHANGED copy
    PROVE  /\ late' \subseteq Nodes \X ({Empty, Source} \cup Writes)
           /\ copy' \in [Nodes -> {Empty, Source} \cup Writes]
           /\ \A m \in Nodes : copy'[m] # Empty => process[m] = "ready"
BY DEF Fails, GivenUp, Leaves, ClusterTypeOK

\* The watch and the balancer of a client preserve the invariant on types.
LEMMA ClientClusterInv ==
    ASSUME ClusterInv, NEW c \in Clients,
           HandleWatchEvents(c) \/ HandleFailedResponse(c) \/ Rebalance(c)
    PROVE  ClusterInv'
<1> USE ClusterAssumption DEF ClusterInv, nodeVars, callVars, localVars
<1>1. LocalsOK /\ CallsOK /\ ClusterTypeOK
  OBVIOUS
<1>2. CallsOK'
  BY DEF HandleWatchEvents, HandleFailedResponse, Rebalance, CallsOK
<1>3. CASE HandleWatchEvents(c)
  <2> DEFINE n == Head(events[c])[2]
             known == IF Head(events[c])[1] = "PUT"
                      THEN cache_nodes_[c] \cup {n} ELSE cache_nodes_[c] \ {n}
  <2>1. /\ events[c] \in Seq({"PUT", "DELETE"} \X Nodes)
        /\ events[c] # <<>>
    BY <1>3 DEF HandleWatchEvents, ClusterTypeOK
  <2>2. /\ Head(events[c]) \in {"PUT", "DELETE"} \X Nodes
        /\ Tail(events[c]) \in Seq({"PUT", "DELETE"} \X Nodes)
    BY <2>1
  <2>3. known \in SUBSET Nodes
    BY <2>2 DEF ClusterTypeOK
  <2> HIDE DEF n
  <2>4. PICK r \in RoutesAfter(c, known) : ring' = [ring EXCEPT ![c] = r]
    BY <1>3 DEF HandleWatchEvents, n
  <2>5. cache_nodes_' = [cache_nodes_ EXCEPT ![c] = known]
    BY <1>3 DEF HandleWatchEvents, n
  <2> HIDE DEF known
  <2>6. r \in IF known = {} THEN {NoNode} ELSE known
    BY DEF RoutesAfter
  <2>7. LocalsOK'
    BY <1>3, <2>3, <2>4, <2>6 DEF HandleWatchEvents, LocalsOK
  <2>8. ClusterTypeOK'
    <3>1. \A d \in Clients : RingOK(d)'
      BY <1>3, <2>4, <2>5, <2>6 DEF ClusterTypeOK, LocalsOK, RingOK
    <3>2. events' \in [Clients -> Seq({"PUT", "DELETE"} \X Nodes)]
      BY <1>3, <2>2 DEF HandleWatchEvents, ClusterTypeOK
    <3>3. cache_nodes_' \in [Clients -> SUBSET Nodes]
      BY <2>3, <2>5 DEF ClusterTypeOK
    <3> QED BY <1>3, <3>1, <3>2, <3>3 DEF HandleWatchEvents, ClusterTypeOK
  <2> QED BY <1>2, <2>7, <2>8
<1>4. CASE Rebalance(c)
  <2>1. LocalsOK'
    BY <1>4 DEF Rebalance, LocalsOK, ClusterTypeOK
  <2>2. ClusterTypeOK'
    BY <1>4 DEF Rebalance, ClusterTypeOK, LocalsOK, RingOK
  <2> QED BY <1>2, <2>1, <2>2
<1>5. CASE HandleFailedResponse(c)
  <2>1. events[c] \in Seq({"PUT", "DELETE"} \X Nodes) /\ events[c] # <<>>
    BY <1>5 DEF HandleFailedResponse, ClusterTypeOK
  <2>2. events' \in [Clients -> Seq({"PUT", "DELETE"} \X Nodes)]
    BY <1>5, <2>1 DEF HandleFailedResponse, ClusterTypeOK
  <2>3. ClusterTypeOK' /\ LocalsOK'
    BY <1>5, <2>2 DEF HandleFailedResponse, ClusterTypeOK, LocalsOK, RingOK
  <2> QED BY <1>2, <2>3
<1> QED BY <1>3, <1>4, <1>5

\* Callers preserve the invariant on types.
LEMMA CallerClusterInv ==
    ASSUME ClusterInv, NEW t \in Callers, Get(t) \/ Set(t) \/ Delete(t) \/ Proceed(t)
    PROVE  ClusterInv'
<1> USE ClusterAssumption
    DEF ClusterInv, nodeVars, memberVars, localVars, RingOK, GoTo, Free
<1>1. CASE Get(t)
  BY <1>1 DEF Get, GetCacheNode, ClusterTypeOK, LocalsOK, CallsOK
<1>2. CASE GetAnswered(t)
  BY <1>2 DEF GetAnswered, BackIn, ClusterTypeOK, LocalsOK, CallsOK
<1>3. CASE GetMiss(t)
  BY <1>3 DEF GetMiss, ClusterTypeOK, LocalsOK, CallsOK
<1>4. CASE GetFill(t)
  BY <1>4 DEF GetFill, BackIn, ClusterTypeOK, LocalsOK, CallsOK
<1>5. CASE Set(t)
  BY <1>5 DEF Set, GetCacheNode, Writes, ClusterTypeOK, LocalsOK, CallsOK
<1>6. CASE SetDone(t)
  BY <1>6 DEF SetDone, Leaves, ClusterTypeOK, LocalsOK, CallsOK
<1>7. CASE SetFails(t)
  <2>1. LocalsOK' /\ CallsOK'
    BY <1>7 DEF SetFails, BackIn, ClusterTypeOK, LocalsOK, CallsOK
  <2>2. /\ late' \subseteq Nodes \X ({Empty, Source} \cup Writes)
        /\ copy' \in [Nodes -> {Empty, Source} \cup Writes]
        /\ \A n \in Nodes : copy'[n] # Empty => process[n] = "ready"
    <3>1. target_addr[t] \in Nodes /\ value[t] \in Writes
      BY <1>7 DEF SetFails, CallsOK
    <3> QED BY <1>7, <3>1, FailsType DEF SetFails
  <2>3. ClusterTypeOK'
    BY <1>7, <2>2 DEF SetFails, BackIn, ClusterTypeOK, LocalsOK
  <2> QED BY <2>1, <2>3
<1>8. CASE SetLocks(t)
  BY <1>8 DEF SetLocks, Tell, ClusterTypeOK, LocalsOK, CallsOK
<1>9. CASE Delete(t)
  BY <1>9 DEF Delete, Tell, ClusterTypeOK, LocalsOK, CallsOK
<1>10. CASE TellDone(t)
  BY <1>10 DEF TellDone, Leaves, ClusterTypeOK, LocalsOK, CallsOK
<1>11. CASE TellFails(t)
  <2>1. LocalsOK' /\ CallsOK'
    BY <1>11 DEF TellFails, ClusterTypeOK, LocalsOK, CallsOK
  <2>2. PICK n \in todo[t] : Fails(n, Empty) /\ todo' = [todo EXCEPT ![t] = @ \ {n}]
    BY <1>11 DEF TellFails
  <2>3. /\ late' \subseteq Nodes \X ({Empty, Source} \cup Writes)
        /\ copy' \in [Nodes -> {Empty, Source} \cup Writes]
        /\ \A m \in Nodes : copy'[m] # Empty => process[m] = "ready"
    <3>1. n \in Nodes
      BY <2>2 DEF ClusterTypeOK
    <3> QED BY <2>2, <3>1, FailsType
  <2>4. ClusterTypeOK'
    <3>1. todo' \in [Callers -> SUBSET Nodes]
      BY <2>2 DEF ClusterTypeOK
    <3>2. UNCHANGED <<process, listed, cache_nodes_, ring, events, nodes_mutex_,
                      client, pc, value>>
      BY <1>11 DEF TellFails
    <3>3. \A m \in Nodes : copy'[m] # Empty => process'[m] = "ready"
      BY <2>3, <3>2
    <3>4. \A c \in Clients :
            /\ RingOK(c)'
            /\ \A u \in Callers : nodes_mutex_'[c] = u <=> pc'[u] = "tell" /\ client'[u] = c
      BY <3>2 DEF ClusterTypeOK
    <3> QED BY <2>3, <3>1, <3>2, <3>3, <3>4 DEF ClusterTypeOK
  <2> QED BY <2>1, <2>4
<1>12. CASE Return(t)
  BY <1>12 DEF Return, BackIn, ClusterTypeOK, LocalsOK, CallsOK
<1>13. CASE GetFails(t)
  <2>1. LocalsOK' /\ CallsOK'
    BY <1>13 DEF GetFails, BackIn, ClusterTypeOK, LocalsOK, CallsOK
  <2>2. late' \subseteq Nodes \X ({Empty, Source} \cup Writes)
    <3>1. target_addr[t] \in Nodes
      BY <1>13 DEF GetFails, CallsOK
    <3> QED BY <1>13, <3>1, FailsType DEF GetFails
  <2>3. ClusterTypeOK'
    BY <1>13, <2>2 DEF GetFails, BackIn, ClusterTypeOK, LocalsOK
  <2> QED BY <2>1, <2>3
<1> QED
  BY <1>1, <1>2, <1>3, <1>4, <1>5, <1>6, <1>7, <1>8, <1>9, <1>10, <1>11, <1>12, <1>13
     DEF Proceed

\* Every step preserves the invariant on types.
LEMMA NextClusterInv == ClusterInv /\ [ClusterNext]_clusterVars => ClusterInv'
<1> SUFFICES ASSUME ClusterInv, [ClusterNext]_clusterVars
             PROVE  ClusterInv'
  OBVIOUS
<1>1. CASE UNCHANGED clusterVars
  BY <1>1 DEF clusterVars, nodeVars, memberVars, callVars, localVars, RingOK,
              ClusterInv, ClusterTypeOK, LocalsOK, CallsOK
<1>2. CASE Membership
  <2>1. ASSUME NEW c \in Used PROVE c \in Clients
    BY DEF Used, ClusterInv, LocalsOK
  <2> QED BY <1>2, <2>1, NodeClusterInv, LateClusterInv, ClientClusterInv DEF Membership
<1>3. CASE \E t \in Callers : Get(t) \/ Set(t) \/ Delete(t) \/ Proceed(t)
  BY <1>3, CallerClusterInv
<1> QED BY <1>1, <1>2, <1>3 DEF ClusterNext

\* The invariant on types holds in every reachable state.
LEMMA ClusterInvariant == ClusterSpec => []ClusterInv
BY InitClusterInv, NextClusterInv, PTL DEF ClusterSpec

(* The types of the cluster's state; that the ring of each client sends    *)
(* the key to a member at every moment a call may look; and that a         *)
(* client's mutex is held by the one caller that tells its nodes.          *)
THEOREM ClusterTypeCorrect == ClusterSpec => []ClusterTypeOK
<1>1. ClusterInv => ClusterTypeOK
  BY DEF ClusterInv
<1> QED BY <1>1, ClusterInvariant, PTL

-----------------------------------------------------------------------------
\* The call of t does not go on; if it tells nodes, they remain the members.
Stays(t) ==
    /\ UNCHANGED <<pc[t], target_addr[t], value[t], todo[t]>>
    /\ pc[t] = "tell" => UNCHANGED cache_nodes_[client[t]]

\* The call of t is over, or is a Get.
HasNoValue(t) ==
    /\ pc'[t] \in {"idle", "get", "load"} /\ value'[t] = 0
    /\ pc[t] = "tell" => todo[t] = {}
    /\ pc'[t] = "get" => pc[t] = "idle"
    /\ pc'[t] = "load" => pc[t] = "get" /\ UNCHANGED target_addr[t]

SetBegins(t) ==
    /\ Moves(t, "idle", "set")
    /\ value'[t] = writes + 1 /\ writes' = writes + 1
    /\ target_addr'[t] \in Nodes /\ UNCHANGED copy
    /\ \A s \in Callers \ {t} : Stays(s)

DeleteBegins(t) ==
    /\ Moves(t, "idle", "tell")
    /\ value'[t] = 0 /\ todo'[t] = cache_nodes_'[client[t]]

SetReached(t) ==
    /\ Moves(t, "set", "lock")
    /\ UNCHANGED <<value[t], target_addr[t]>>
    /\ copy'[target_addr[t]] = value[t]

TellingBegins(t) ==
    /\ Moves(t, "lock", "tell")
    /\ UNCHANGED <<value[t], copy, cache_nodes_>>
    /\ todo'[t] = cache_nodes_[client[t]] \ {target_addr[t]}

OneIsTold(t) ==
    /\ Moves(t, "tell", "tell")
    /\ UNCHANGED <<value[t], cache_nodes_>>
    /\ \E n \in todo[t] :
        /\ todo'[t] = todo[t] \ {n}
        /\ copy'[n] = Empty \/ ~all_success'[t]

\* What a step of the cluster may mean to the call of t.
CallStep(t) ==
    \/ Stays(t) \/ HasNoValue(t)
    \/ SetBegins(t) \/ SetReached(t)
    \/ DeleteBegins(t) \/ TellingBegins(t) \/ OneIsTold(t)

\* A step of a caller means one of these to its own call, and to the others
\* that they stay.
LEMMA CallerStep ==
    ASSUME ClusterInv, NEW t \in Callers, Get(t) \/ Set(t) \/ Delete(t) \/ Proceed(t),
           NEW s \in Callers
    PROVE  IF s = t THEN CallStep(s) ELSE Stays(s)
<1> USE DEF CallStep, Stays, HasNoValue, Moves, memberVars, localVars, GoTo, ClusterInv
<1>1. CASE Get(t)
  BY <1>1 DEF Get, GetCacheNode, ClusterTypeOK, LocalsOK, CallsOK
<1>2. CASE GetAnswered(t)
  BY <1>2 DEF GetAnswered, BackIn, ClusterTypeOK
<1>3. CASE GetMiss(t)
  BY <1>3 DEF GetMiss, ClusterTypeOK, CallsOK
<1>4. CASE GetFill(t)
  BY <1>4 DEF GetFill, BackIn, ClusterTypeOK
<1>5. CASE Set(t)
  <2>1. ring[client[t]] \in Nodes
    BY <1>5 DEF Set, GetCacheNode, RingOK, ClusterTypeOK, LocalsOK
  <2> QED BY <1>5, <2>1 DEF Set, GetCacheNode, SetBegins, nodeVars, ClusterTypeOK, LocalsOK
<1>6. CASE SetDone(t)
  BY <1>6 DEF SetDone, Leaves, SetReached, ClusterTypeOK, CallsOK
<1>7. CASE SetFails(t)
  BY <1>7 DEF SetFails, BackIn, ClusterTypeOK
<1>8. CASE SetLocks(t)
  BY <1>8 DEF SetLocks, Tell, TellingBegins, nodeVars, ClusterTypeOK, LocalsOK
<1>9. CASE Delete(t)
  BY <1>9 DEF Delete, Tell, DeleteBegins, ClusterTypeOK, LocalsOK
<1>10. CASE TellDone(t)
  BY <1>10 DEF TellDone, Leaves, OneIsTold, ClusterTypeOK
<1>11. CASE TellFails(t)
  BY <1>11 DEF TellFails, OneIsTold, ClusterTypeOK, LocalsOK
<1>12. CASE Return(t)
  BY <1>12 DEF Return, BackIn, ClusterTypeOK
<1>13. CASE GetFails(t)
  BY <1>13 DEF GetFails, BackIn, ClusterTypeOK
<1> QED
  BY <1>1, <1>2, <1>3, <1>4, <1>5, <1>6, <1>7, <1>8, <1>9, <1>10, <1>11, <1>12, <1>13
     DEF Proceed

\* Nodes and clients leave the calls alone, but for the loads of a process
\* that ends; the members do not change while a caller tells them.
LEMMA MembershipStep ==
    ASSUME ClusterInv, Membership, NEW s \in Callers
    PROVE  Stays(s) \/ HasNoValue(s)
<1> USE DEF Stays, HasNoValue, nodeVars, memberVars, callVars, localVars, ClusterInv
<1>1. ASSUME NEW n \in Nodes, Start(n) \/ MakeCacheGroup(n) \/ Unlist(n) \/ Evict(n)
      PROVE  Stays(s)
  BY <1>1 DEF Start, MakeCacheGroup, Unlist, Evict
<1>2. ASSUME NEW n \in Nodes, End(n)
      PROVE  Stays(s) \/ HasNoValue(s)
  BY <1>2 DEF End, BackIn
<1>3. ASSUME NEW c \in Used, HandleWatchEvents(c)
      PROVE  Stays(s)
  <2>1. c \in Clients
    BY DEF Used, LocalsOK
  <2>2. pc[s] = "tell" => client[s] # c
    BY <1>3, <2>1, ClusterAssumption DEF HandleWatchEvents, Free, ClusterTypeOK
  <2> QED BY <1>3, <2>1, <2>2 DEF HandleWatchEvents, ClusterTypeOK, LocalsOK
<1>4. ASSUME NEW c \in Used, HandleFailedResponse(c) \/ Rebalance(c)
      PROVE  Stays(s)
  BY <1>4 DEF HandleFailedResponse, Rebalance
<1>5. ASSUME ExecuteLate PROVE Stays(s)
  BY <1>5 DEF ExecuteLate
<1> QED BY <1>1, <1>2, <1>3, <1>4, <1>5 DEF Membership

\* Every step of the cluster means one of these to every call.
LEMMA EveryCallStep ==
    ASSUME ClusterInv, ClusterNext
    PROVE  \A s \in Callers : CallStep(s)
BY CallerStep, MembershipStep DEF ClusterNext, CallStep

\* A copy comes from the data source, by a load of the node, or from a Set
\* under way to it; and goes as the process ends, as somebody tells the node,
\* or without any call.  Either happens as well by a request that is late.
LEMMA CopyStep ==
    ASSUME ClusterInv, ClusterNext, NEW n \in Nodes
    PROVE  \/ copy'[n] = copy[n]
           \/ /\ copy'[n] = Empty
              /\ \/ callVars' = callVars \/ process'[n] # process[n]
                 \/ \E t \in Callers : pc[t] = "tell" /\ n \in todo[t]
           \/ /\ copy'[n] = Source
              /\ \E t \in Callers : pc[t] = "load" /\ target_addr[t] = n
           \/ \E t \in Callers :
                  pc[t] = "set" /\ target_addr[t] = n /\ copy'[n] = value[t]
           \/ callVars' = callVars /\ <<n, copy'[n]>> \in late
<1> USE DEF ClusterInv, nodeVars
<1>1. ASSUME NEW m \in Nodes, Start(m) \/ MakeCacheGroup(m) \/ Unlist(m)
      PROVE  copy' = copy
  BY <1>1 DEF Start, MakeCacheGroup, Unlist
<1>2. ASSUME NEW m \in Nodes, End(m)
      PROVE  copy'[n] = copy[n] \/ (copy'[n] = Empty /\ process'[n] # process[n])
  <2>1. n = m => copy'[n] = Empty /\ process'[n] # process[n]
    BY <1>2 DEF End, ClusterTypeOK
  <2>2. n # m => copy'[n] = copy[n]
    BY <1>2 DEF End, ClusterTypeOK
  <2> QED BY <2>1, <2>2
<1>3. ASSUME NEW m \in Nodes, Evict(m)
      PROVE  copy'[n] = copy[n] \/ (copy'[n] = Empty /\ callVars' = callVars)
  BY <1>3 DEF Evict, ClusterTypeOK
<1>4. ASSUME NEW c \in Used,
             HandleWatchEvents(c) \/ HandleFailedResponse(c) \/ Rebalance(c)
      PROVE  copy' = copy
  BY <1>4 DEF HandleWatchEvents, HandleFailedResponse, Rebalance
<1>5. ASSUME NEW t \in Callers, Get(t) \/ Set(t) \/ Delete(t)
      PROVE  copy' = copy
  BY <1>5 DEF Get, Set, Delete
<1>6. ASSUME NEW t \in Callers, GetAnswered(t) \/ GetFails(t) \/ GetMiss(t) \/ SetLocks(t) \/ Return(t)
      PROVE  copy' = copy
  BY <1>6 DEF GetAnswered, GetFails, GetMiss, SetLocks, Return
<1>7. ASSUME NEW t \in Callers, GetFill(t)
      PROVE  \/ copy'[n] = copy[n]
             \/ copy'[n] = Source /\ pc[t] = "load" /\ target_addr[t] = n
  BY <1>7 DEF GetFill, ClusterTypeOK
<1>8. ASSUME NEW t \in Callers, SetDone(t) \/ SetFails(t)
      PROVE  \/ copy'[n] = copy[n]
             \/ pc[t] = "set" /\ target_addr[t] = n /\ copy'[n] = value[t]
  BY <1>8 DEF SetDone, SetFails, Fails, Leaves, ClusterTypeOK
<1>9. ASSUME NEW t \in Callers, TellDone(t) \/ TellFails(t)
      PROVE  \/ copy'[n] = copy[n]
             \/ copy'[n] = Empty /\ pc[t] = "tell" /\ n \in todo[t]
  BY <1>9 DEF TellDone, TellFails, Fails, Leaves, ClusterTypeOK
<1>12. ASSUME ExecuteLate
       PROVE  copy'[n] = copy[n] \/ (callVars' = callVars /\ <<n, copy'[n]>> \in late)
  <2>1. PICK l \in late : Leaves(l[1], l[2])
    BY <1>12 DEF ExecuteLate
  <2>2. l \in Nodes \X ({Empty, Source} \cup Writes) /\ callVars' = callVars
    BY <1>12 DEF ExecuteLate, ClusterTypeOK
  <2>3. l = <<l[1], l[2]>>
    BY <2>2
  <2>4. copy'[n] = IF n = l[1] THEN l[2] ELSE copy[n]
    BY <2>1, <2>2 DEF Leaves, ClusterTypeOK
  <2> QED BY <2>1, <2>2, <2>3, <2>4
<1>10. CASE Membership
  BY <1>1, <1>2, <1>3, <1>4, <1>10, <1>12 DEF Membership
<1>11. ASSUME NEW t \in Callers, Get(t) \/ Set(t) \/ Delete(t) \/ Proceed(t)
       PROVE  \/ copy'[n] = copy[n]
              \/ copy'[n] = Empty /\ pc[t] = "tell" /\ n \in todo[t]
              \/ copy'[n] = Source /\ pc[t] = "load" /\ target_addr[t] = n
              \/ pc[t] = "set" /\ target_addr[t] = n /\ copy'[n] = value[t]
  BY <1>5, <1>6, <1>7, <1>8, <1>9, <1>11 DEF Proceed
<1> QED BY <1>10, <1>11 DEF ClusterNext

\* Set is counted; nothing else is, and no call changes its client.
LEMMA CountStep ==
    ASSUME ClusterInv, ClusterNext
    PROVE  writes' \in {writes, writes + 1} /\ client' = client
BY DEF ClusterNext, Proceed, Membership, ExecuteLate, Get, GetAnswered, GetFails, GetMiss, GetFill, Set,
       SetDone, SetFails, SetLocks, Delete, TellDone, TellFails, Return, Start,
       MakeCacheGroup, Unlist, End, Evict, HandleWatchEvents, HandleFailedResponse, Rebalance,
       BackIn,
       callVars

-----------------------------------------------------------------------------
\* Nothing is done at first.
LEMMA InitSupersededInv == CHInit => SupersededInv
BY DEF CHInit, ClusterInit, SupersededInv, DoneIsOver, LateIsNotDone, ToldIsGone,
       NoSupersededCopy

\* The sets that ObserveDone computes, element by element.
LEMMA ObserveDoneSets ==
    ASSUME ObserveDone
    PROVE  /\ \A w \in done' : w \in Writes
           /\ \A w \in done' : w \in done \/ \E t \in Acknowledged : w = value[t]
           /\ \A w \in done : w \in Alive => w \in done'
           /\ \A t \in Callers : \A w \in before'[t] :
                  w \in Alive /\ IF Begins(t) THEN w \in done ELSE w \in before[t]
           /\ \A t \in Callers :
                  ~Begins(t) /\ ~all_success'[t] => \A w \in before'[t] : FALSE
           /\ \A w \in superseded' : w \in Alive
           /\ \A w \in superseded' :
                  w \in superseded \/ \E t \in Acknowledged : w \in before[t]
           /\ \A n \in Nodes :
                  /\ copy'[n] \in superseded'
                  /\ n \in hidden \/ \E t \in Acknowledged : n \notin cache_nodes_[client[t]]
                  => n \in hidden'
<1> USE DEF ObserveDone
<1>1. \A w \in done' : w \in Writes
  BY DEF Alive
<1>2. \A w \in done' : w \in done \/ \E t \in Acknowledged : w = value[t]
  OBVIOUS
<1>3. \A w \in done : w \in Alive => w \in done'
  OBVIOUS
<1>4. ASSUME NEW t \in Callers
      PROVE  before'[t] = IF Begins(t) THEN done \cap Alive
                          ELSE IF pc'[t] = "idle" \/ ~all_success'[t] THEN {}
                          ELSE before[t] \cap Alive
  OBVIOUS
<1>5. \A w \in superseded' : w \in Alive
  OBVIOUS
<1>6. ASSUME NEW w \in superseded'
      PROVE  w \in superseded \/ \E t \in Acknowledged : w \in before[t]
  OBVIOUS
<1>7. ASSUME NEW n \in Nodes, copy'[n] \in superseded',
             n \in hidden \/ \E t \in Acknowledged : n \notin cache_nodes_[client[t]]
      PROVE  n \in hidden'
  BY <1>7
<1> HIDE DEF ObserveDone
<1> QED BY <1>1, <1>2, <1>3, <1>4, <1>5, <1>6, <1>7

\* What a call tells the nodes about stays what it was, while it goes on.
LEMMA CallValue ==
    ASSUME ClusterInv, DoneIsOver, NEW t \in Callers, CallStep(t)
    PROVE  \/ value'[t] = 0
           \/ value'[t] = value[t] /\ value[t] # 0
           \/ SetBegins(t) /\ value'[t] = writes + 1
BY DEF CallStep, Stays, HasNoValue, SetBegins, SetReached, DeleteBegins,
       TellingBegins, OneIsTold

\* Whoever returns true has told all the nodes of its client.
LEMMA AcknowledgedStep ==
    ASSUME NEW t \in Acknowledged, CallStep(t)
    PROVE  /\ t \in Callers /\ pc[t] = "tell" /\ todo[t] = {}
           /\ value'[t] = 0
BY DEF Acknowledged, Moves, CallStep, Stays, HasNoValue, SetBegins, SetReached,
       DeleteBegins, TellingBegins, OneIsTold

\* Sets are numbers, and not what else a node may have a copy of.
LEMMA DoneIsNumbers ==
    ASSUME ClusterInv, DoneIsOver
    PROVE  done \subseteq Nat /\ Empty \notin done /\ Source \notin done
<1>1. done \subseteq Nat
  BY ClusterAssumption DEF DoneIsOver, ClusterInv, LocalsOK
<1> QED BY <1>1, ClusterAssumption

\* No step gives a node a copy of a Set that is done.
LEMMA DoneCopyStep ==
    ASSUME ClusterInv, DoneIsOver, LateIsNotDone, ClusterNext,
           NEW n \in Nodes, copy'[n] \in done
    PROVE  copy'[n] = copy[n]
<1>1. \A t \in Callers : pc[t] = "set" => value[t] \notin done
  BY ClusterAssumption DEF DoneIsOver, ClusterInv, CallsOK, Writes
<1>2. <<n, copy'[n]>> \notin late
  BY DoneIsNumbers DEF LateIsNotDone
<1> QED BY <1>1, <1>2, DoneIsNumbers, CopyStep

\* Sets that are done stay over.
LEMMA DoneIsOverStep ==
    ASSUME ClusterInv, DoneIsOver, ClusterNext, ObserveDone
    PROVE  DoneIsOver'
<1>1. /\ writes \in Nat /\ writes' \in {writes, writes + 1}
  BY CountStep, ClusterAssumption DEF ClusterInv, LocalsOK
<1>2. \A t \in Callers : CallStep(t)
  BY EveryCallStep
<1>3. ASSUME NEW w \in done'
      PROVE  w \in 1..writes
  <2>1. w \in Writes /\ (w \in done \/ \E t \in Acknowledged : w = value[t])
    BY ObserveDoneSets
  <2>2. ASSUME NEW t \in Acknowledged, w = value[t]
        PROVE  w \in 1..writes
    BY <1>2, <2>1, <2>2 DEF DoneIsOver, Acknowledged, Writes
  <2> QED BY <2>1, <2>2 DEF DoneIsOver
<1>4. done' \subseteq 1..writes'
  BY <1>1, <1>3
<1>5. ASSUME NEW t \in Acknowledged, NEW w \in before[t]
      PROVE  w \in done
  BY <1>5 DEF DoneIsOver, Acknowledged
<1>6. superseded' \subseteq done'
  BY <1>5, ObserveDoneSets DEF DoneIsOver
<1>7. ASSUME NEW t \in Callers
      PROVE  before'[t] \subseteq done'
  BY ObserveDoneSets DEF DoneIsOver
<1>8. ASSUME NEW t \in Callers, value'[t] # 0
      PROVE  value'[t] \in 1..writes' /\ value'[t] \notin done'
  <2>1. CASE value'[t] = value[t] /\ value[t] # 0
    <3>1. value[t] \in 1..writes /\ value[t] \notin done
      BY <2>1 DEF DoneIsOver
    <3>2. ASSUME NEW s \in Acknowledged PROVE value[s] # value[t]
      <4>1. s \in Callers /\ value'[s] = 0
        BY <1>2, AcknowledgedStep DEF Acknowledged
      <4>2. s # t
        BY <1>8, <4>1
      <4> QED BY <2>1, <4>1, <4>2 DEF DoneIsOver
    <3> QED BY <1>1, <2>1, <3>1, <3>2, ObserveDoneSets
  <2>2. CASE SetBegins(t) /\ value'[t] = writes + 1
    BY <1>1, <1>3, <2>2 DEF SetBegins
  <2> QED BY <1>2, <1>8, <2>1, <2>2, CallValue
<1>9. ASSUME NEW t \in Callers, NEW s \in Callers, s # t, value'[s] = value'[t]
      PROVE  value'[s] = 0
  <2>1. CASE SetBegins(t)
    <3>1. value'[t] = writes + 1 /\ value'[s] = value[s]
      BY <1>9, <2>1 DEF SetBegins, Stays
    <3> QED BY <1>1, <1>9, <3>1 DEF DoneIsOver
  <2>2. CASE SetBegins(s)
    <3>1. value[t] = writes + 1
      BY <1>9, <2>2 DEF SetBegins, Stays
    <3> QED BY <1>1, <3>1 DEF DoneIsOver
  <2>3. CASE ~SetBegins(t) /\ ~SetBegins(s)
    BY <1>2, <1>9, <2>3, CallValue DEF DoneIsOver
  <2> QED BY <2>1, <2>2, <2>3
<1> QED BY <1>4, <1>6, <1>7, <1>8, <1>9 DEF DoneIsOver

\* What is late was so before, or is what a failed call leaves: no copy, that
\* of the data source, or that of a Set that ends with it.
LEMMA LateStep ==
    ASSUME ClusterInv, ClusterNext, NEW l \in late'
    PROVE  \/ l \in late \/ l[2] \in {Empty, Source}
           \/ \E t \in Callers :
                  pc[t] = "set" /\ value'[t] = 0 /\ l[2] = value[t]
<1> USE DEF ClusterInv, nodeVars
<1>1. CASE Membership
  BY <1>1 DEF Membership, Start, MakeCacheGroup, Unlist, End, Evict, ExecuteLate,
              HandleWatchEvents, HandleFailedResponse, Rebalance
<1>2. ASSUME NEW t \in Callers,
             \/ Get(t) \/ Set(t) \/ Delete(t) \/ GetAnswered(t) \/ GetMiss(t)
             \/ GetFill(t) \/ SetDone(t) \/ SetLocks(t) \/ TellDone(t) \/ Return(t)
      PROVE  late' = late
  BY <1>2 DEF Get, Set, Delete, GetAnswered, GetMiss, GetFill, SetDone, SetLocks,
              TellDone, Return
<1>3. ASSUME NEW t \in Callers, GetFails(t)
      PROVE  l \in late \/ l[2] = Source
  BY <1>3 DEF GetFails, GivenUp
<1>4. ASSUME NEW t \in Callers, TellFails(t)
      PROVE  l \in late \/ l[2] = Empty
  BY <1>4 DEF TellFails, Fails, GivenUp
<1>5. ASSUME NEW t \in Callers, SetFails(t)
      PROVE  l \in late \/ (pc[t] = "set" /\ value'[t] = 0 /\ l[2] = value[t])
  BY <1>5 DEF SetFails, Fails, GivenUp, BackIn
<1> QED BY <1>1, <1>2, <1>3, <1>4, <1>5 DEF ClusterNext, Proceed

\* No call gets the value of a Set that failed.
LEMMA LateIsNotDoneStep ==
    ASSUME ClusterInv, DoneIsOver, LateIsNotDone, ClusterNext, ObserveDone
    PROVE  LateIsNotDone'
<1>1. /\ writes \in Nat /\ writes' \in {writes, writes + 1}
  BY CountStep, ClusterAssumption DEF ClusterInv, LocalsOK
<1>2. \A t \in Callers : CallStep(t)
  BY EveryCallStep
<1>3. SUFFICES ASSUME NEW l \in late', l[2] \notin {Empty, Source}
               PROVE  /\ l[2] \in 1..writes' /\ l[2] \notin done'
                      /\ \A t \in Callers : value'[t] # l[2]
  BY DEF LateIsNotDone
<1>4. l[2] \in 1..writes /\ l[2] \notin done
  <2>1. CASE l \in late
    BY <1>3, <2>1 DEF LateIsNotDone
  <2>2. ASSUME NEW t \in Callers, pc[t] = "set", l[2] = value[t]
        PROVE  l[2] \in 1..writes /\ l[2] \notin done
    BY <2>2, ClusterAssumption DEF DoneIsOver, ClusterInv, CallsOK, Writes
  <2> QED BY <1>3, <2>1, <2>2, LateStep
<1>5. ASSUME NEW t \in Callers, value[t] = l[2]
      PROVE  pc[t] = "set" /\ value'[t] = 0
  <2>1. l \notin late
    BY <1>3, <1>5 DEF LateIsNotDone
  <2>2. PICK s \in Callers : pc[s] = "set" /\ value'[s] = 0 /\ l[2] = value[s]
    BY <1>3, <2>1, LateStep
  <2>3. value[s] # 0
    BY <2>2, ClusterAssumption DEF ClusterInv, CallsOK, Writes
  <2> QED BY <1>5, <2>2, <2>3 DEF DoneIsOver
<1>6. l[2] \notin done'
  <2>1. ASSUME NEW t \in Acknowledged PROVE value[t] # l[2]
    BY <1>2, <1>5, AcknowledgedStep DEF Acknowledged
  <2> QED BY <1>4, <2>1, ObserveDoneSets
<1>7. ASSUME NEW t \in Callers PROVE value'[t] # l[2]
  BY <1>1, <1>2, <1>4, <1>5, CallValue
<1> QED BY <1>1, <1>4, <1>6, <1>7

\* What a call has told its nodes stays gone from them.
LEMMA ToldIsGoneStep ==
    ASSUME ClusterInv, DoneIsOver, LateIsNotDone, ToldIsGone, ClusterNext, ObserveDone
    PROVE  ToldIsGone'
<1> SUFFICES ASSUME NEW t \in Callers
             PROVE  /\ pc'[t] = "lock" => copy'[target_addr'[t]] \notin before'[t]
                    /\ pc'[t] = "tell" =>
                           \A n \in cache_nodes_'[client'[t]] \ todo'[t] :
                               copy'[n] \notin before'[t]
  BY DEF ToldIsGone
<1>1. CallStep(t) /\ client' = client
  BY EveryCallStep, CountStep
<1>2. pc[t] = "lock" => target_addr[t] \in Nodes
  BY DEF ClusterInv, CallsOK
<1>3. ASSUME ~Begins(t), NEW n \in Nodes, copy[n] \notin before[t]
      PROVE  copy'[n] \notin before'[t]
  BY <1>3, DoneCopyStep, ObserveDoneSets DEF DoneIsOver
<1>4. CASE Stays(t)
  <2>1. ~Begins(t)
    BY <1>4 DEF Stays, Begins
  <2>2. CASE pc[t] = "lock"
    BY <1>2, <1>3, <1>4, <2>1, <2>2 DEF Stays, ToldIsGone
  <2>3. CASE pc[t] = "tell"
    <3>1. ASSUME NEW n \in cache_nodes_[client[t]] \ todo[t]
          PROVE  copy'[n] \notin before'[t]
      BY <1>3, <2>1, <2>3, ZenonT(60) DEF ToldIsGone, ClusterInv, ClusterTypeOK, LocalsOK
    <3> QED BY <1>1, <1>4, <2>3, <3>1 DEF Stays
  <2> QED BY <1>4, <2>2, <2>3 DEF Stays
<1>5. CASE HasNoValue(t)
  BY <1>5 DEF HasNoValue
<1>6. CASE SetBegins(t)
  BY <1>6 DEF SetBegins, Moves
<1>7. CASE DeleteBegins(t)
  BY <1>1, <1>7 DEF DeleteBegins, Moves
<1>8. CASE SetReached(t)
  <2>1. value[t] \notin done
    BY <1>8, ClusterAssumption
       DEF SetReached, Moves, DoneIsOver, ClusterInv, CallsOK, Writes
  <2>2. \A w \in before'[t] : w \in done
    BY ObserveDoneSets DEF DoneIsOver
  <2> QED BY <1>8, <2>1, <2>2 DEF SetReached, Moves
<1>9. CASE TellingBegins(t)
  <2>1. copy[target_addr[t]] \notin before[t] /\ ~Begins(t)
    BY <1>9 DEF TellingBegins, Moves, Begins, ToldIsGone
  <2> QED BY <1>1, <1>2, <1>3, <1>9, <2>1 DEF TellingBegins, Moves
<1>10. CASE OneIsTold(t)
  <2>1. ~Begins(t) /\ pc[t] = "tell" /\ pc'[t] = "tell" /\ cache_nodes_' = cache_nodes_
    BY <1>10 DEF OneIsTold, Moves, Begins
  <2>2. PICK m \in todo[t] :
            /\ todo'[t] = todo[t] \ {m}
            /\ copy'[m] = Empty \/ ~all_success'[t]
    BY <1>10 DEF OneIsTold
  <2>3. ASSUME NEW n \in cache_nodes_[client[t]], n \notin todo[t] \/ n = m
        PROVE  copy'[n] \notin before'[t]
    <3>1. CASE n # m
      BY <1>2, <1>3, <2>1, <2>3, <3>1, ZenonT(60)
         DEF ToldIsGone, ClusterInv, ClusterTypeOK, LocalsOK
    <3>2. CASE n = m /\ copy'[m] = Empty
      BY <2>1, <3>2, DoneIsNumbers, ObserveDoneSets DEF DoneIsOver
    <3>3. CASE ~all_success'[t]
      BY <2>1, <3>3, ObserveDoneSets
    <3> QED BY <2>2, <3>1, <3>2, <3>3
  <2> QED BY <1>1, <2>1, <2>2, <2>3
<1> QED
  BY <1>1, <1>4, <1>5, <1>6, <1>7, <1>8, <1>9, <1>10 DEF CallStep

\* A superseded copy is hidden from who superseded it, and stays so.
LEMMA NoSupersededStep ==
    ASSUME ClusterInv, SupersededInv, ClusterNext, ObserveDone
    PROVE  NoSupersededCopy'
<1> SUFFICES ASSUME NEW n \in Nodes, copy'[n] \in superseded'
             PROVE  n \in hidden'
  BY DEF NoSupersededCopy
<1>1. copy'[n] \in superseded \/ \E t \in Acknowledged : copy'[n] \in before[t]
  BY ObserveDoneSets
<1>2. CASE copy'[n] \in superseded
  <2>1. copy'[n] = copy[n]
    BY <1>2, DoneCopyStep DEF SupersededInv, DoneIsOver
  <2> QED BY <1>2, <2>1, ObserveDoneSets DEF SupersededInv, NoSupersededCopy
<1>3. ASSUME NEW t \in Acknowledged, copy'[n] \in before[t]
      PROVE  n \in hidden'
  <2>1. t \in Callers /\ pc[t] = "tell" /\ todo[t] = {}
    BY EveryCallStep, AcknowledgedStep DEF Acknowledged
  <2>2. copy'[n] = copy[n]
    BY <1>3, <2>1, DoneCopyStep DEF SupersededInv, DoneIsOver
  <2>3. n \notin cache_nodes_[client[t]]
    BY <1>3, <2>1, <2>2 DEF SupersededInv, ToldIsGone
  <2> QED BY <2>3, ObserveDoneSets
<1> QED BY <1>1, <1>2, <1>3

\* The variables of the history are functions of the step; one without a
\* step of the cluster changes nothing.
LEMMA NextSupersededInv ==
    ASSUME ClusterInv, SupersededInv, [CHNext]_chVars
    PROVE  SupersededInv'
<1>1. CASE UNCHANGED chVars
  BY <1>1 DEF chVars, clusterVars, nodeVars, memberVars, callVars, localVars,
              SupersededInv, DoneIsOver, LateIsNotDone, ToldIsGone, NoSupersededCopy
<1>2. CASE CHNext
  BY <1>2, DoneIsOverStep, LateIsNotDoneStep, ToldIsGoneStep, NoSupersededStep
     DEF CHNext, SupersededInv
<1> QED BY <1>1, <1>2

\* The history follows the cluster.
LEMMA HistoryIsCluster == CHSpec => ClusterSpec
<1>1. CHInit => ClusterInit
  BY DEF CHInit
<1>2. [CHNext]_chVars => [ClusterNext]_clusterVars
  BY DEF CHNext, chVars
<1> QED BY <1>1, <1>2, PTL DEF CHSpec, ClusterSpec

(* What true means to the caller of Set and Delete, for any number of      *)
(* nodes, clients and callers, failures and changes of the members: a      *)
(* value set before the call is cached nowhere any more but at nodes the   *)
(* client did not know when the call returned.                             *)
THEOREM TrueMeansSuperseded == CHSpec => []NoSupersededCopy
<1>1. CHSpec => []ClusterInv
  BY HistoryIsCluster, ClusterInvariant, PTL
<1>2. SupersededInv => NoSupersededCopy
  BY DEF SupersededInv
<1>3. ClusterInv /\ SupersededInv /\ [CHNext]_chVars => SupersededInv'
  BY NextSupersededInv
<1> QED BY <1>1, <1>2, <1>3, InitSupersededInv, PTL DEF CHSpec

-----------------------------------------------------------------------------
\* A Set that begins is heir to its node, alone or with those under way.
LEMMA SetBeginsHeir ==
    ASSUME ClusterInv, HeirIsSpared, NEW t \in Callers, SetBegins(t), ObserveSet(t)
    PROVE  HeirIsSpared'
<1> DEFINE node == target_addr'[t]
<1> USE DEF SetBegins, Moves
<1>1. /\ node \in Nodes /\ pc'[t] = "set" /\ value'[t] = writes' /\ copy' = copy
      /\ \A s \in Callers \ {t} :
            /\ pc'[s] = pc[s] /\ target_addr'[s] = target_addr[s]
            /\ value'[s] = value[s] /\ todo'[s] = todo[s]
  BY DEF Stays
<1>2. CASE \A s \in Callers : pc[s] = "idle"
  <2>1. heir' = [node |-> node, writes |-> {writes'}]
    BY <1>2 DEF ObserveSet
  <2>2. heir'.node = node /\ heir'.writes = {writes'}
    BY <2>1
  <2> QED BY <1>1, <1>2, <2>2 DEF HeirIsSpared
<1>3. CASE heir # None /\ heir.node = node /\ ~\A s \in Callers : pc[s] = "idle"
  <2>1. heir' = [node |-> node, writes |-> heir.writes \cup {writes'}]
    BY <1>3 DEF ObserveSet
  <2>2. heir'.node = node /\ heir'.writes = heir.writes \cup {writes'}
    BY <2>1
  <2> QED BY <1>1, <1>3, <2>2 DEF HeirIsSpared
<1>4. CASE heir' = None
  BY <1>4 DEF HeirIsSpared
<1> QED BY <1>2, <1>3, <1>4 DEF ObserveSet

\* A call that does not disturb the heir spares it.
LEMMA CallSparesHeir ==
    ASSUME HeirIsSpared, heir # None, ~Disturbed, NEW t \in Callers,
           CallStep(t), ~SetBegins(t)
    PROVE  /\ pc'[t] \in {"set", "lock"} => target_addr'[t] = heir.node
           /\ pc'[t] = "set" => value'[t] \in heir.writes
           /\ pc'[t] = "load" => target_addr'[t] # heir.node
           /\ pc'[t] = "tell" => heir.node \notin todo'[t]
           /\ pc[t] = "set" =>
                  pc'[t] = "set" \/ copy'[heir.node] \in heir.writes
<1> USE DEF HeirIsSpared, Disturbed, Moves
<1>1. CASE Stays(t)
  BY <1>1 DEF Stays
<1>2. CASE HasNoValue(t)
  BY <1>2 DEF HasNoValue
<1>3. CASE SetReached(t)
  BY <1>3 DEF SetReached
<1>4. CASE DeleteBegins(t)
  BY <1>4 DEF DeleteBegins
<1>5. CASE TellingBegins(t)
  BY <1>5 DEF TellingBegins
<1>6. CASE OneIsTold(t)
  BY <1>6 DEF OneIsTold
<1> QED BY <1>1, <1>2, <1>3, <1>4, <1>5, <1>6 DEF CallStep

\* What changes the heir's copy is a Set to it, or a disturbance.
LEMMA HeirCopyStep ==
    ASSUME ClusterInv, HeirIsSpared, heir # None, ~Disturbed, ClusterNext
    PROVE  copy'[heir.node] \in {copy[heir.node]} \cup heir.writes
<1>1. heir.node \in Nodes
  BY DEF HeirIsSpared
<1>2. CASE /\ copy'[heir.node] # copy[heir.node]
           /\ callVars' = callVars \/ process'[heir.node] # process[heir.node]
  BY <1>2 DEF Disturbed
<1> QED BY <1>1, <1>2, CopyStep DEF HeirIsSpared

\* Every step keeps the heir's node for its Sets.
LEMMA NextHeirIsSpared ==
    ASSUME ClusterInv, HeirIsSpared, [CHNext]_chVars
    PROVE  HeirIsSpared'
<1>1. CASE UNCHANGED chVars
  BY <1>1 DEF chVars, clusterVars, nodeVars, callVars, localVars, HeirIsSpared
<1>2. CASE CHNext
  <2>1. ClusterNext /\ ObserveHeir /\ \A t \in Callers : CallStep(t)
    BY <1>2, EveryCallStep DEF CHNext
  <2>2. \A t \in Callers : SetBegins(t) <=> Moves(t, "idle", "set")
    BY <2>1 DEF CallStep, Stays, HasNoValue, SetBegins, SetReached, DeleteBegins,
                TellingBegins, OneIsTold, Moves
  <2>3. CASE \E t \in Callers : Moves(t, "idle", "set")
    BY <2>1, <2>2, <2>3, SetBeginsHeir DEF ObserveHeir
  <2>4. CASE (\A t \in Callers : ~Moves(t, "idle", "set")) /\ heir' # None
    <3>1. heir' = heir /\ heir # None /\ ~Disturbed
      BY <2>1, <2>4 DEF ObserveHeir
    <3>2. ASSUME NEW t \in Callers
          PROVE  /\ pc'[t] \in {"set", "lock"} => target_addr'[t] = heir.node
                 /\ pc'[t] = "set" => value'[t] \in heir.writes
                 /\ pc'[t] = "load" => target_addr'[t] # heir.node
                 /\ pc'[t] = "tell" => heir.node \notin todo'[t]
                 /\ pc[t] = "set" =>
                        pc'[t] = "set" \/ copy'[heir.node] \in heir.writes
      BY <2>1, <2>2, <2>4, <3>1, CallSparesHeir
    <3>3. copy'[heir.node] \in heir.writes \/ \E t \in Callers : pc'[t] = "set"
      BY <2>1, <3>1, <3>2, HeirCopyStep DEF HeirIsSpared
    <3> QED BY <3>1, <3>2, <3>3 DEF HeirIsSpared
  <2>5. CASE heir' = None
    BY <2>5 DEF HeirIsSpared
  <2> QED BY <2>3, <2>4, <2>5
<1> QED BY <1>1, <1>2

(* The broadcast of a Set hits all copies but its own: a Set, or several   *)
(* at once to one node, is what that node has once no call is under way,   *)
(* unless something named in Disturbed came between or a Set to another    *)
(* node; whatever the members, the rings and the other callers do.         *)
THEOREM UndisturbedWriteIsRead == CHSpec => []LoneWriteIsRead
<1>1. CHSpec => []ClusterInv
  BY HistoryIsCluster, ClusterInvariant, PTL
<1>2. CHInit => HeirIsSpared
  BY DEF CHInit, HeirIsSpared
<1>3. ClusterInv /\ HeirIsSpared /\ [CHNext]_chVars => HeirIsSpared'
  BY NextHeirIsSpared
<1>4. HeirIsSpared => LoneWriteIsRead
  BY DEF HeirIsSpared, LoneWriteIsRead
<1> QED BY <1>1, <1>2, <1>3, <1>4, PTL DEF CHSpec
=============================================================================
