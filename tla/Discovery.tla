----------------------------- MODULE Discovery ------------------------------
(***************************************************************************)
(* How the cache nodes come to be known to a client: a node's process      *)
(* (src/src/main.cpp, src/src/server/server.cpp) registers itself with     *)
(* EtcdRegistry (src/src/registry/registry.cpp) under a lease it keeps     *)
(* alive; KCacheClient (src/src/client/client_sdk.cpp) lists the services  *)
(* once and then follows the events of a watch.                            *)
(*                                                                         *)
(* etcd is external: a key is bound to the lease it was last put with and  *)
(* goes when that lease is revoked or expires, and a watch delivers every  *)
(* change made after it was created, in order.                             *)
(***************************************************************************)
EXTENDS Integers, Sequences

CONSTANTS
    Nodes,
    MaxStarts,      \* bound: MaxStarts[n] is how often n's process is started
    NoLease,
    LeaseLost,      \* whether a lease can expire although it is kept alive:
                    \* etcd was out of reach for longer than its ten seconds
    WatchFails      \* whether the watch can report an error or end by itself

\* The lease of n's i-th run, for every n and i.
Leases == UNION {{n} \X (1..MaxStarts[n]) : n \in Nodes}

ASSUME StartsAssumption ==
    MaxStarts \in [Nodes -> Nat] /\ NoLease \notin Leases
ASSUME LostAssumption == LeaseLost \in BOOLEAN /\ WatchFails \in BOOLEAN

VARIABLES
    starts,         \* starts[n]: how often n was started
    main,           \* main[n]: where the main thread of n is, Stop included
    server,         \* server[n]: where the thread that runs Start is
    leases,         \* the leases that etcd holds
    services,       \* services[n]: the lease n's key is bound to, or NoLease
    client,         \* how far the client's discovery is
    cache_nodes_,   \* the nodes the client knows; those of its ring
    events,         \* the events the client's watch has yet to handle
    destructor      \* KCacheClient's: not called, joining, having cancelled
                    \* the watch or not, or done

nodeVars == <<starts, main, server>>
etcdVars == <<leases, services>>
clientVars == <<client, cache_nodes_>>
watchVars == <<clientVars, events>>
discoveryVars == <<nodeVars, etcdVars, watchVars, destructor>>

lease_id_(n) == <<n, starts[n]>>
Listed == {n \in Nodes : services[n] # NoLease}

\* Lease l has a keep-alive thread.
KeptAlive(l) == main[l[1]] = "up" /\ l = lease_id_(l[1])

DiscoveryInit ==
    /\ starts = [n \in Nodes |-> 0]
    /\ main = [n \in Nodes |-> "down"]
    /\ server = [n \in Nodes |-> "none"]
    /\ leases = {}
    /\ services = [n \in Nodes |-> NoLease]
    /\ client = "new"
    /\ cache_nodes_ = {}
    /\ events = <<>>
    /\ destructor = "none"

GoTo(n, where) == main' = [main EXCEPT ![n] = where]

\* A change of n's key is an event for a watch that exists already.
Notify(type, n) ==
    events' = IF client = "watching" THEN Append(events, <<type, n>>) ELSE events

\* etcd drops lease l and the key that is bound to it.
Drop(l) ==
    /\ leases' = leases \ {l}
    /\ IF services[l[1]] = l
       THEN /\ services' = [services EXCEPT ![l[1]] = NoLease]
            /\ Notify("DELETE", l[1])
       ELSE UNCHANGED <<services, events>>

-----------------------------------------------------------------------------
(* The process of n starts; Register, lines 28-34, is granted a lease.     *)
(* When etcd refuses, the process ends, and nothing has changed.           *)
GrantLease(n) ==
    /\ main[n] = "down" /\ starts[n] < MaxStarts[n]
    /\ starts' = [starts EXCEPT ![n] = @ + 1]
    /\ leases' = leases \cup {<<n, starts[n] + 1>>}
    /\ GoTo(n, "granted")
    /\ UNCHANGED <<server, services, watchVars, destructor>>

\* A bug: the key is put without the lease.
PutUnleased(n) ==
    /\ main[n] = "granted"
    /\ services' = [services EXCEPT ![n] = <<n, 0>>]
    /\ Notify("PUT", n)
    /\ GoTo(n, "up")
    /\ server' = [server EXCEPT ![n] = "starting"]
    /\ UNCHANGED <<starts, leases, clientVars, destructor>>

(* Register, lines 37-46: the key is put under the lease and the           *)
(* keep-alive thread started; main then starts the thread that runs Start. *)
PutKey(n) ==
    /\ main[n] = "granted" /\ lease_id_(n) \in leases
    /\ services' = [services EXCEPT ![n] = lease_id_(n)]
    /\ Notify("PUT", n)
    /\ GoTo(n, "up")
    /\ server' = [server EXCEPT ![n] = "starting"]
    /\ UNCHANGED <<starts, leases, clientVars, destructor>>

(* Register, lines 38-41: etcd refuses the put; the constructor throws and *)
(* the process ends, with its lease left to expire.                        *)
PutFails(n) ==
    /\ main[n] = "granted"
    /\ GoTo(n, "down")
    /\ UNCHANGED <<starts, server, etcdVars, watchVars, destructor>>

(* Start, lines 77-118: grpc_server_ is built, and serves.                 *)
BuildAndStart(n) ==
    /\ server[n] = "starting"
    /\ server' = [server EXCEPT ![n] = "serving"]
    /\ UNCHANGED <<starts, main, etcdVars, watchVars, destructor>>

(* SIGINT calls Stop.  Unregister, lines 50-53: the keep-alive thread is   *)
(* told to stop and joined.                                                *)
StopKeepAlive(n) ==
    /\ main[n] = "up"
    /\ GoTo(n, "revoke")
    /\ UNCHANGED <<starts, server, etcdVars, watchVars, destructor>>

(* Unregister, lines 54-61: the lease is revoked.  What is tested is the   *)
(* status of the task and not the answer, so a refusal goes unnoticed.     *)
Revoke(n) ==
    /\ main[n] = "revoke"
    /\ Drop(lease_id_(n)) \/ UNCHANGED <<etcdVars, events>>
    /\ GoTo(n, "shutdown")
    /\ UNCHANGED <<starts, server, clientVars, destructor>>

(* Stop, lines 133-136: the server, if there is one, is shut down; then    *)
(* main joins its thread and the process ends.                             *)
Shutdown(n) ==
    /\ main[n] = "shutdown" /\ server[n] = "serving"
    /\ GoTo(n, "down")
    /\ server' = [server EXCEPT ![n] = "none"]
    /\ UNCHANGED <<starts, etcdVars, watchVars, destructor>>

(* Stop before Start has built the server finds none to shut down: the     *)
(* server starts all the same and main waits for it.  Another SIGINT is    *)
(* needed; its Stop has no registry any more.                              *)
ShutdownNothing(n) ==
    /\ main[n] = "shutdown" /\ server[n] = "starting"
    /\ GoTo(n, "stopped")
    /\ UNCHANGED <<starts, server, etcdVars, watchVars, destructor>>

StopAgain(n) ==
    /\ main[n] = "stopped"
    /\ GoTo(n, "shutdown")
    /\ UNCHANGED <<starts, server, etcdVars, watchVars, destructor>>

(* The process is killed, or Start throws and the process exits.           *)
Crash(n) ==
    /\ main[n] # "down"
    /\ GoTo(n, "down")
    /\ server' = [server EXCEPT ![n] = "none"]
    /\ UNCHANGED <<starts, etcdVars, watchVars, destructor>>

(* A lease expires.  A running KeepAliveLoop prevents that, lines 86-101,  *)
(* unless etcd was out of reach; its Check then throws every three seconds *)
(* and nothing is granted or put again.                                    *)
Expire(l) ==
    /\ l \in leases
    /\ LeaseLost \/ ~KeptAlive(l)
    /\ Drop(l)
    /\ UNCHANGED <<nodeVars, clientVars, destructor>>

-----------------------------------------------------------------------------
(* FetchAllServices, lines 189-207: the services are listed once.          *)
FetchAllServices ==
    /\ client = "new"
    /\ client' = "listed"
    /\ cache_nodes_' = Listed
    /\ UNCHANGED <<nodeVars, etcdVars, events, destructor>>

(* It fails: the constructor ignores it, and discovery never starts.       *)
FetchFails ==
    /\ client = "new"
    /\ client' = "blind"
    /\ UNCHANGED <<nodeVars, etcdVars, cache_nodes_, events, destructor>>

(* StartServiceDiscovery, lines 142-147: the new thread creates the watch, *)
(* which begins with what changes from now on.                             *)
Watch ==
    /\ client = "listed"
    /\ client' = "watching"
    /\ UNCHANGED <<nodeVars, etcdVars, cache_nodes_, events, destructor>>

\* A bug: only additions are handled.
HandleWatchEventsAddOnly ==
    /\ events # <<>>
    /\ cache_nodes_' = IF Head(events)[1] = "PUT"
                       THEN cache_nodes_ \cup {Head(events)[2]} ELSE cache_nodes_
    /\ events' = Tail(events)
    /\ UNCHANGED <<nodeVars, etcdVars, client, destructor>>

(* HandleWatchEvents, lines 152-187: a PUT adds the node unless it is      *)
(* known, a DELETE removes it if it is.                                    *)
HandleWatchEvents ==
    /\ events # <<>>
    /\ LET n == Head(events)[2]
       IN  cache_nodes_' = IF Head(events)[1] = "PUT" THEN cache_nodes_ \cup {n}
                           ELSE cache_nodes_ \ {n}
    /\ events' = Tail(events)
    /\ UNCHANGED <<nodeVars, etcdVars, client, destructor>>

(* Lines 154-157: the response is an error.  It is logged, and what it     *)
(* should have told is lost.                                               *)
HandleFailedResponse ==
    /\ WatchFails /\ events # <<>>
    /\ events' = Tail(events)
    /\ UNCHANGED <<nodeVars, etcdVars, clientVars, destructor>>

\* A bug: the thread is joined before its watch is cancelled.
CancelLate ==
    /\ destructor = "none" /\ client = "watching"
    /\ destructor' = "join"
    /\ UNCHANGED <<nodeVars, etcdVars, watchVars>>

(* The destructor, lines 17-20: the watch is cancelled, also one that has  *)
(* ended.                                                                  *)
Cancel ==
    /\ destructor = "none" /\ client \in {"watching", "ended"}
    /\ destructor' = "cancelled"
    /\ UNCHANGED <<nodeVars, etcdVars, watchVars>>

(* It finds no watch: discovery failed, or the new thread has yet to       *)
(* create it or to assign etcd_watcher_, which is read without a lock.     *)
CancelNothing ==
    /\ destructor = "none" /\ client \in {"blind", "listed"}
    /\ destructor' = "join"
    /\ UNCHANGED <<nodeVars, etcdVars, watchVars>>

(* Line 147: Wait returns, because the watch was cancelled or has ended by *)
(* itself, and the thread ends.  Nothing makes another watch.              *)
WatchEnds ==
    /\ client = "watching" /\ (destructor = "cancelled" \/ WatchFails)
    /\ client' = "ended"
    /\ events' = <<>>
    /\ UNCHANGED <<nodeVars, etcdVars, cache_nodes_, destructor>>

(* The destructor, lines 20-22.                                            *)
JoinReturns ==
    /\ destructor \in {"join", "cancelled"} /\ client \in {"blind", "ended"}
    /\ destructor' = "done"
    /\ UNCHANGED <<nodeVars, etcdVars, watchVars>>

Stop(n) ==
    StopKeepAlive(n) \/ Revoke(n) \/ Shutdown(n) \/ ShutdownNothing(n)

\* All steps but the one that loses an event.
DiscoveryStep ==
    \/ \E n \in Nodes :
        \/ GrantLease(n) \/ PutKey(n) \/ PutFails(n)
        \/ BuildAndStart(n)
        \/ Stop(n) \/ StopAgain(n)
        \/ Crash(n)
    \/ \E l \in leases : Expire(l)
    \/ FetchAllServices \/ FetchFails
    \/ Watch
    \/ HandleWatchEvents
    \/ Cancel \/ CancelNothing \/ WatchEnds \/ JoinReturns

DiscoveryNext == DiscoveryStep \/ HandleFailedResponse

DiscoverySpec == DiscoveryInit /\ [][DiscoveryNext]_discoveryVars

(* etcd takes back the leases that nobody keeps alive, and the watch       *)
(* thread of the client goes on, as does who joins it.                     *)
DiscoveryFairness ==
    /\ \A l \in Leases : WF_discoveryVars(~KeptAlive(l) /\ Expire(l))
    /\ WF_discoveryVars(HandleWatchEvents)
    /\ WF_discoveryVars(destructor = "cancelled" /\ WatchEnds)
    /\ WF_discoveryVars(JoinReturns)

-----------------------------------------------------------------------------
(* The type invariant.                                                     *)
DiscoveryTypeOK ==
    /\ starts \in [Nodes -> Nat] /\ \A n \in Nodes : starts[n] <= MaxStarts[n]
    /\ main \in [Nodes -> {"down", "granted", "up", "revoke", "shutdown", "stopped"}]
    /\ server \in [Nodes -> {"none", "starting", "serving"}]
    /\ leases \subseteq Leases
    /\ services \in [Nodes -> Leases \cup {NoLease}]
    /\ client \in {"new", "blind", "listed", "watching", "ended"}
    /\ destructor \in {"none", "join", "cancelled", "done"}
    /\ destructor = "done" => client \in {"blind", "ended"}
    /\ cache_nodes_ \subseteq Nodes
    /\ events \in Seq({"PUT", "DELETE"} \X Nodes)
    /\ \A n \in Nodes : main[n] \in {"down", "granted"} <=> server[n] = "none"

(* No key outlives its lease, so that a node that crashed goes by itself;  *)
(* and a node that is up is listed under its own lease for as long as etcd *)
(* holds that one, whatever leases of its earlier runs still expire.       *)
KeysAreLeased ==
    \A n \in Nodes :
        /\ services[n] # NoLease => services[n] \in leases
        /\ main[n] = "up" /\ lease_id_(n) \in leases => services[n] = lease_id_(n)
=============================================================================
