---------------------------- MODULE CacheCluster ----------------------------
(***************************************************************************)
(* One key in the caches of several nodes: KCacheClient::Get, Set and      *)
(* Delete (src/src/client/client_sdk.cpp) with the handlers they reach in  *)
(* the nodes (src/src/server/server.cpp).  The threads of a client share   *)
(* its set of nodes, its ring and nodes_mutex_; clients share nothing.     *)
(*                                                                         *)
(* From the models of the parts this one takes: a node's key in etcd and   *)
(* its process may go in either order, a process that lost its key never   *)
(* gets it back, and a watch may miss changes (Discovery); the ring        *)
(* returns a member, keeps to it when other nodes come or go, and may      *)
(* return any other after each client's own rebalancing (ConsistentHash);  *)
(* a group answers from its cache or loads and fills, with anything in     *)
(* between (KCacheGroup). The key is in the data source, which never       *)
(* changes (the db of main.cpp).                                           *)
(***************************************************************************)
EXTENDS Integers, Sequences, FiniteSets

CONSTANTS
    Nodes, Clients,
    Callers,        \* the threads that use the clients
    NoNode, NoCaller,
    Empty, Source,  \* a node has no copy; the copy it loaded from its data source
    MaxWrites,      \* bound: how often Set is called
    MaxUpsets,      \* bound: how often a node is started, and how many failed
                    \* requests may still be executed, together
    MaxBehind       \* bound: the events a client has yet to handle

Writes == 1..MaxWrites

ASSUME ClusterAssumption ==
    /\ NoNode \notin Nodes /\ NoCaller \notin Callers
    /\ MaxWrites \in Nat /\ MaxUpsets \in Nat /\ MaxBehind \in Nat
    /\ Empty # Source /\ {Empty, Source} \cap Nat = {}

VARIABLES
    process,        \* process[n]: off, starting (no group yet), or ready
    listed,         \* the nodes with a key in etcd
    copy,           \* copy[n]: what the group of n has cached for the key
    late,           \* <<n, v>>: a request was reported failed that n may still
                    \* execute, or is executing, and that leaves copy v
    starts,
    cache_nodes_,   \* cache_nodes_[c]: the nodes client c knows
    ring,           \* ring[c]: where the ring of c sends the key
    events,         \* events[c]: the events the watch of c has yet to handle
    nodes_mutex_,   \* nodes_mutex_[c]: the caller that holds it over its calls
    client,         \* client[t]: the client that caller t uses
    pc, target_addr, value, todo, all_success,  \* the call of t and its locals
    writes          \* how often Set was called; the last value

nodeVars == <<process, listed, copy, late, starts>>
memberVars == <<cache_nodes_, ring, events>>
localVars == <<target_addr, value, todo, all_success>>
callVars == <<nodes_mutex_, client, pc, localVars, writes>>
clusterVars == <<nodeVars, memberVars, callVars>>

\* The clients that exist, and what their rings are built to give.
Used == {client[t] : t \in Callers}

RingOK(c) == ring[c] \in IF cache_nodes_[c] = {} THEN {NoNode} ELSE cache_nodes_[c]

ClusterInit ==
    /\ client \in [Callers -> Clients]
    /\ \E up \in SUBSET Nodes :
        /\ process = [n \in Nodes |-> IF n \in up THEN "ready" ELSE "off"]
        /\ listed = up
        /\ cache_nodes_ = [c \in Clients |-> IF c \in Used THEN up ELSE {}]
        /\ ring \in [Clients -> up \cup {NoNode}]
        /\ \A c \in Clients : RingOK(c)
    /\ copy = [n \in Nodes |-> Empty]
    /\ late = {}
    /\ starts = 0
    /\ events = [c \in Clients |-> <<>>]
    /\ nodes_mutex_ = [c \in Clients |-> NoCaller]
    /\ pc = [t \in Callers |-> "idle"]
    /\ target_addr = [t \in Callers |-> NoNode]
    /\ value = [t \in Callers |-> 0]
    /\ todo = [t \in Callers |-> {}]
    /\ all_success = [t \in Callers |-> TRUE]
    /\ writes = 0

Notify(type, n) ==
    /\ \A c \in Used : Len(events[c]) < MaxBehind
    /\ events' = [c \in Clients |->
                      IF c \in Used THEN Append(events[c], <<type, n>>) ELSE <<>>]

\* The callers in ts are in no call any more, and have no locals.
BackIn(ts) ==
    /\ pc' = [t \in Callers |-> IF t \in ts THEN "idle" ELSE pc[t]]
    /\ target_addr' = [t \in Callers |-> IF t \in ts THEN NoNode ELSE target_addr[t]]
    /\ value' = [t \in Callers |-> IF t \in ts THEN 0 ELSE value[t]]
    /\ all_success' = [t \in Callers |-> t \in ts \/ all_success[t]]
    /\ UNCHANGED <<todo, client, writes>>

-----------------------------------------------------------------------------
(* A node registers when it is constructed, before it serves.              *)
Start(n) ==
    /\ process[n] = "off" /\ starts + Cardinality(late) < MaxUpsets
    /\ process' = [process EXCEPT ![n] = "starting"]
    /\ listed' = listed \cup {n}
    /\ starts' = starts + 1
    /\ Notify("PUT", n)
    /\ UNCHANGED <<copy, late, cache_nodes_, ring, callVars>>

(* main.cpp: the server serves, and five seconds later the group is made.  *)
MakeCacheGroup(n) ==
    /\ process[n] = "starting"
    /\ process' = [process EXCEPT ![n] = "ready"]
    /\ UNCHANGED <<listed, copy, late, starts, memberVars, callVars>>

(* Its key goes: a lease expired or was revoked.                           *)
Unlist(n) ==
    /\ n \in listed
    /\ listed' = listed \ {n}
    /\ Notify("DELETE", n)
    /\ UNCHANGED <<process, copy, late, starts, cache_nodes_, ring, callVars>>

(* The process ends, with its cache and the calls and loads in it.         *)
End(n) ==
    /\ process[n] # "off"
    /\ process' = [process EXCEPT ![n] = "off"]
    /\ copy' = [copy EXCEPT ![n] = Empty]
    /\ late' = {l \in late : l[1] # n}
    /\ BackIn({t \in Callers : pc[t] = "load" /\ target_addr[t] = n})
    /\ UNCHANGED <<listed, starts, memberVars, nodes_mutex_>>

(* Other keys push the copy out of n's cache.                              *)
Evict(n) ==
    /\ copy[n] # Empty
    /\ copy' = [copy EXCEPT ![n] = Empty]
    /\ UNCHANGED <<process, listed, late, starts, memberVars, callVars>>

\* Handlers Set, Delete and Invalidate of n leave copy v of the key.
Leaves(n, v) == process[n] = "ready" /\ copy' = [copy EXCEPT ![n] = v]

\* A request that leaves copy v is given up while n may have it.
GivenUp(n, v) ==
    /\ process[n] # "off"
    /\ late' = late \cup {<<n, v>>}
    /\ starts + Cardinality(late') <= MaxUpsets

\* What may come of such a request when its caller is told that it failed: the
\* node does it never, now or later.
Fails(n, v) ==
    \/ UNCHANGED <<copy, late>>
    \/ Leaves(n, v) /\ UNCHANGED late
    \/ GivenUp(n, v) /\ UNCHANGED copy

(* server.cpp, lines 27-71: a node executes a request whose caller was     *)
(* told that it failed.  What is late may be several such requests, and a  *)
(* Get may have found the cache empty at any time since.                   *)
ExecuteLate ==
    /\ \E l \in late : copy[l[1]] # l[2] /\ Leaves(l[1], l[2])
    /\ UNCHANGED <<process, listed, late, starts, memberVars, callVars>>

-----------------------------------------------------------------------------
Free(c) == nodes_mutex_[c] = NoCaller
GoTo(t, where) == pc' = [pc EXCEPT ![t] = where]

\* A bug: a node that was removed may stay where the key is sent.
RoutesAfterLazily(c, known) ==
    IF known = {} THEN {NoNode} ELSE {ring[c]} \cup known

\* Where the ring may send the key once the nodes are known: the successor is
\* a new node, or what it was before if that is still a member.
RoutesAfter(c, known) ==
    CASE known = {} -> {NoNode}
      [] ring[c] \in known -> {ring[c]} \cup (known \ cache_nodes_[c])
      [] OTHER -> known

(* HandleWatchEvents, lines 158-187, under the mutex.                      *)
HandleWatchEvents(c) ==
    /\ events[c] # <<>> /\ Free(c)
    /\ LET n == Head(events[c])[2]
           known == IF Head(events[c])[1] = "PUT"
                    THEN cache_nodes_[c] \cup {n} ELSE cache_nodes_[c] \ {n}
       IN  /\ cache_nodes_' = [cache_nodes_ EXCEPT ![c] = known]
           /\ \E r \in RoutesAfter(c, known) : ring' = [ring EXCEPT ![c] = r]
    /\ events' = [events EXCEPT ![c] = Tail(@)]
    /\ UNCHANGED <<nodeVars, callVars>>

(* HandleWatchEvents, lines 154-157: the response is a failure, and what   *)
(* it would have told is lost.                                             *)
HandleFailedResponse(c) ==
    /\ events[c] # <<>> /\ Free(c)
    /\ events' = [events EXCEPT ![c] = Tail(@)]
    /\ UNCHANGED <<cache_nodes_, ring, nodeVars, callVars>>

(* The balancer of c's ring resizes its members; it knows no nodes_mutex_. *)
Rebalance(c) ==
    /\ \E r \in cache_nodes_[c] : r # ring[c] /\ ring' = [ring EXCEPT ![c] = r]
    /\ UNCHANGED <<cache_nodes_, events, nodeVars, callVars>>

\* GetCacheNode, lines 217-230, on behalf of t; a call that finds no node
\* returns and has changed nothing.
GetCacheNode(t) ==
    /\ pc[t] = "idle" /\ Free(client[t])
    /\ cache_nodes_[client[t]] # {}
    /\ target_addr' = [target_addr EXCEPT ![t] = ring[client[t]]]

-----------------------------------------------------------------------------
(* Get, lines 25-46: the request is sent to the key's node.                *)
Get(t) ==
    /\ GetCacheNode(t)
    /\ GoTo(t, "get")
    /\ UNCHANGED <<nodeVars, memberVars, nodes_mutex_, client, value, todo, all_success,
                   writes>>

(* The node answers from its cache, or that it has no group.               *)
GetAnswered(t) ==
    /\ pc[t] = "get"
    /\ BackIn({t})
    /\ UNCHANGED <<nodeVars, memberVars, nodes_mutex_>>

(* Get, lines 47-54: the call failed; the node may load for it later, or   *)
(* is loading.                                                             *)
GetFails(t) ==
    /\ pc[t] \in {"get", "load"}
    /\ UNCHANGED late \/ GivenUp(target_addr[t], Source)
    /\ BackIn({t})
    /\ UNCHANGED <<process, listed, copy, starts, memberVars, nodes_mutex_>>

(* KCacheServer::Get, lines 27-31: nothing is cached, the group loads.     *)
GetMiss(t) ==
    /\ pc[t] = "get" /\ process[target_addr[t]] = "ready"
    /\ copy[target_addr[t]] = Empty
    /\ GoTo(t, "load")
    /\ UNCHANGED <<nodeVars, memberVars, nodes_mutex_, client, localVars, writes>>

(* KCacheServer::Get, lines 31-36: the group caches what it loaded,        *)
(* whatever is cached by now, and answers.                                 *)
GetFill(t) ==
    /\ pc[t] = "load"
    /\ copy' = [copy EXCEPT ![target_addr[t]] = Source]
    /\ BackIn({t})
    /\ UNCHANGED <<process, listed, late, starts, memberVars, nodes_mutex_>>

(* Set, lines 58-79: a new value is sent to the key's node.                *)
Set(t) ==
    /\ writes < MaxWrites
    /\ GetCacheNode(t)
    /\ writes' = writes + 1
    /\ value' = [value EXCEPT ![t] = writes + 1]
    /\ GoTo(t, "set")
    /\ UNCHANGED <<nodeVars, memberVars, nodes_mutex_, client, todo, all_success>>

(* Set, lines 79-81: the node has done it.                                 *)
SetDone(t) ==
    /\ pc[t] = "set" /\ Leaves(target_addr[t], value[t])
    /\ GoTo(t, "lock")
    /\ UNCHANGED <<process, listed, late, starts, memberVars, nodes_mutex_, client,
                   localVars, writes>>

(* Set, lines 81-84: the call failed, whatever the node makes of it; the   *)
(* other nodes are not told.                                               *)
SetFails(t) ==
    /\ pc[t] = "set"
    /\ Fails(target_addr[t], value[t])
    /\ BackIn({t})
    /\ UNCHANGED <<process, listed, starts, memberVars, nodes_mutex_>>

\* t locks the members and has the nodes in ns to tell.
Tell(t, ns) ==
    /\ Free(client[t])
    /\ nodes_mutex_' = [nodes_mutex_ EXCEPT ![client[t]] = t]
    /\ todo' = [todo EXCEPT ![t] = ns]
    /\ target_addr' = [target_addr EXCEPT ![t] = NoNode]
    /\ all_success' = [all_success EXCEPT ![t] = TRUE]
    /\ GoTo(t, "tell")

\* A bug: the target is told, too.
SetLocksAll(t) ==
    /\ pc[t] = "lock"
    /\ Tell(t, cache_nodes_[client[t]])
    /\ UNCHANGED <<nodeVars, memberVars, client, value, writes>>

(* Set, lines 87-91: the nodes that are members by now are told, except    *)
(* the target.                                                             *)
SetLocks(t) ==
    /\ pc[t] = "lock"
    /\ Tell(t, cache_nodes_[client[t]] \ {target_addr[t]})
    /\ UNCHANGED <<nodeVars, memberVars, client, value, writes>>

(* Delete, lines 109-122: all members are told; value 0 marks a deletion.  *)
Delete(t) ==
    /\ pc[t] = "idle" /\ cache_nodes_[client[t]] # {}
    /\ Tell(t, cache_nodes_[client[t]])
    /\ value' = [value EXCEPT ![t] = 0]
    /\ UNCHANGED <<nodeVars, memberVars, client, writes>>

(* Lines 92-98 and 123-129: the next node is told, and says that its copy  *)
(* is gone.                                                                *)
TellDone(t) ==
    /\ pc[t] = "tell"
    /\ \E n \in todo[t] :
        /\ Leaves(n, Empty)
        /\ todo' = [todo EXCEPT ![t] = @ \ {n}]
    /\ UNCHANGED <<process, listed, late, starts, memberVars, nodes_mutex_, client, pc,
                   target_addr, value, all_success, writes>>

\* A bug: a node that fails is passed over.
TellFailsUnnoticed(t) ==
    /\ pc[t] = "tell"
    /\ \E n \in todo[t] :
        /\ Fails(n, Empty)
        /\ todo' = [todo EXCEPT ![t] = @ \ {n}]
    /\ UNCHANGED <<process, listed, starts, memberVars, nodes_mutex_, client, pc,
                   target_addr, value, all_success, writes>>

(* Lines 98-101 and 129-132: the call fails, and the next one is made.     *)
TellFails(t) ==
    /\ pc[t] = "tell"
    /\ \E n \in todo[t] :
        /\ Fails(n, Empty)
        /\ todo' = [todo EXCEPT ![t] = @ \ {n}]
    /\ all_success' = [all_success EXCEPT ![t] = FALSE]
    /\ UNCHANGED <<process, listed, starts, memberVars, nodes_mutex_, client, pc,
                   target_addr, value, writes>>

(* Lines 104-106 and 134-135: the mutex is released; all_success is what   *)
(* the caller gets.                                                        *)
Return(t) ==
    /\ pc[t] = "tell" /\ todo[t] = {}
    /\ nodes_mutex_' = [nodes_mutex_ EXCEPT ![client[t]] = NoCaller]
    /\ BackIn({t})
    /\ UNCHANGED <<nodeVars, memberVars>>

\* A call under way goes on.
Proceed(t) ==
    \/ GetAnswered(t) \/ GetFails(t) \/ GetMiss(t) \/ GetFill(t)
    \/ SetDone(t) \/ SetFails(t) \/ SetLocks(t)
    \/ TellDone(t) \/ TellFails(t) \/ Return(t)

Membership ==
    \/ \E n \in Nodes : Start(n) \/ MakeCacheGroup(n) \/ Unlist(n) \/ End(n) \/ Evict(n)
    \/ ExecuteLate
    \/ \E c \in Used : HandleWatchEvents(c) \/ HandleFailedResponse(c) \/ Rebalance(c)

ClusterNext ==
    \/ \E t \in Callers : Get(t) \/ Set(t) \/ Delete(t) \/ Proceed(t)
    \/ Membership

ClusterSpec == ClusterInit /\ [][ClusterNext]_clusterVars

-----------------------------------------------------------------------------
(* The type invariant.  A ring sends the key to a node its client knows,   *)
(* if it knows any, at every moment a call may look; and the mutex of a    *)
(* client is held by the one caller that is telling its nodes.             *)
ClusterTypeOK ==
    /\ process \in [Nodes -> {"off", "starting", "ready"}]
    /\ listed \subseteq Nodes
    /\ copy \in [Nodes -> {Empty, Source} \cup Writes]
    /\ late \subseteq Nodes \X ({Empty, Source} \cup Writes)
    /\ cache_nodes_ \in [Clients -> SUBSET Nodes]
    /\ events \in [Clients -> Seq({"PUT", "DELETE"} \X Nodes)]
    /\ pc \in [Callers -> {"idle", "get", "load", "set", "lock", "tell"}]
    /\ value \in [Callers -> {0} \cup Writes]
    /\ todo \in [Callers -> SUBSET Nodes]
    /\ \A n \in Nodes : copy[n] # Empty => process[n] = "ready"
    /\ \A c \in Clients :
        /\ RingOK(c)
        /\ \A t \in Callers : nodes_mutex_[c] = t <=> pc[t] = "tell" /\ client[t] = c
=============================================================================
