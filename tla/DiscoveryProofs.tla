-------------------------- MODULE DiscoveryProofs ---------------------------
(***************************************************************************)
(* Proofs about Discovery for any set of nodes, started any number of      *)
(* times: keys never outlive their leases, and the client's view follows   *)
(* etcd except in the gap between its list and its watch.                  *)
(***************************************************************************)
EXTENDS DiscoveryHistory, TLAPS

\* A key is bound to a lease of its own node, and a node that runs was started.
OwnLease ==
    \A n \in Nodes :
        /\ services[n] # NoLease => services[n][1] = n
        /\ main[n] # "down" => starts[n] >= 1

LeaseInv == DiscoveryTypeOK /\ OwnLease /\ KeysAreLeased

\* No event exists before the watch and after it; and up to the watch, what
\* was listed is right about every node that has not changed since.
ListedIsRight ==
    /\ client # "watching" => events = <<>>
    /\ client = "listed" =>
           \A n \in Nodes \ missed : n \in cache_nodes_ <=> n \in Listed

ViewInv == ListedIsRight /\ ViewCatchesUp

-----------------------------------------------------------------------------
\* Every lease that a node can be given is one of Leases.
LEMMA LeaseOfRun ==
    ASSUME NEW n \in Nodes, NEW i \in Nat, i >= 1, i <= MaxStarts[n]
    PROVE  <<n, i>> \in Leases /\ <<n, i>> # NoLease
BY StartsAssumption DEF Leases

\* A lease is a node and a number of a run.
LEMMA LeaseParts ==
    ASSUME NEW l \in Leases
    PROVE  l[1] \in Nodes /\ l # NoLease
BY StartsAssumption DEF Leases

\* Notify appends one event, or none.
LEMMA NotifyType ==
    ASSUME events \in Seq({"PUT", "DELETE"} \X Nodes),
           NEW type \in {"PUT", "DELETE"}, NEW n \in Nodes, Notify(type, n)
    PROVE  events' \in Seq({"PUT", "DELETE"} \X Nodes)
BY DEF Notify

\* Dropping a lease, with the key that is bound to it, keeps the types and
\* leaves no key without its lease.
LEMMA DropKeepsKeys ==
    ASSUME LeaseInv, NEW l \in Leases, Drop(l)
    PROVE  /\ leases' = leases \ {l}
           /\ services' \in [Nodes -> Leases \cup {NoLease}]
           /\ events' \in Seq({"PUT", "DELETE"} \X Nodes)
           /\ \A n \in Nodes :
                  IF services[n] = l THEN services'[n] = NoLease
                  ELSE services'[n] = services[n]
<1>1. l[1] \in Nodes /\ l # NoLease
  BY LeaseParts
<1>2. events' \in Seq({"PUT", "DELETE"} \X Nodes)
  BY <1>1, NotifyType DEF Drop, LeaseInv, DiscoveryTypeOK
<1>3. services' \in [Nodes -> Leases \cup {NoLease}]
  BY <1>1 DEF Drop, LeaseInv, DiscoveryTypeOK
<1>4. ASSUME NEW n \in Nodes
      PROVE  IF services[n] = l THEN services'[n] = NoLease
             ELSE services'[n] = services[n]
  BY <1>1 DEF Drop, LeaseInv, DiscoveryTypeOK, OwnLease
<1> QED BY <1>2, <1>3, <1>4 DEF Drop

-----------------------------------------------------------------------------
\* The initial states satisfy the invariant on leases.
LEMMA InitLeaseInv == DiscoveryInit => LeaseInv
BY StartsAssumption
   DEF DiscoveryInit, LeaseInv, DiscoveryTypeOK, OwnLease, KeysAreLeased

\* Steps of a node preserve the invariant on leases.
LEMMA NodeLeaseInv ==
    ASSUME LeaseInv, NEW n \in Nodes,
           \/ GrantLease(n) \/ PutKey(n) \/ PutFails(n) \/ BuildAndStart(n)
           \/ Stop(n) \/ StopAgain(n) \/ Crash(n)
    PROVE  LeaseInv'
<1> USE DEF LeaseInv, GoTo, nodeVars, etcdVars, clientVars, watchVars, lease_id_
<1>1. CASE GrantLease(n)
  <2>1. starts[n] + 1 <= MaxStarts[n] /\ starts[n] + 1 \in Nat
    <3>1. starts[n] \in Nat /\ MaxStarts[n] \in Nat /\ starts[n] < MaxStarts[n]
      BY <1>1, StartsAssumption DEF GrantLease, DiscoveryTypeOK
    <3> QED BY <3>1
  <2>2. <<n, starts[n] + 1>> \in Leases
    BY <2>1, LeaseOfRun DEF DiscoveryTypeOK
  <2>3. DiscoveryTypeOK'
    BY <1>1, <2>1, <2>2 DEF GrantLease, DiscoveryTypeOK
  <2>4. OwnLease'
    BY <1>1, <2>1 DEF GrantLease, DiscoveryTypeOK, OwnLease
  <2>5. main' = [main EXCEPT ![n] = "granted"] /\ UNCHANGED services
    BY <1>1 DEF GrantLease
  <2>6. \A m \in Nodes \ {n} : starts'[m] = starts[m]
    BY <1>1 DEF GrantLease, DiscoveryTypeOK
  <2>7. KeysAreLeased'
    <3>1. leases \subseteq leases' /\ leases' \subseteq leases \cup {<<n, starts[n] + 1>>}
      BY <1>1 DEF GrantLease
    <3> QED BY <2>5, <2>6, <3>1 DEF DiscoveryTypeOK, KeysAreLeased
  <2> QED BY <2>3, <2>4, <2>7
<1>2. CASE PutKey(n)
  <2>1. <<n, starts[n]>> \in leases /\ <<n, starts[n]>> \in Leases
    BY <1>2 DEF PutKey, DiscoveryTypeOK
  <2>2. events' \in Seq({"PUT", "DELETE"} \X Nodes)
    BY <1>2, NotifyType DEF PutKey, DiscoveryTypeOK
  <2>3. DiscoveryTypeOK'
    BY <1>2, <2>1, <2>2 DEF PutKey, DiscoveryTypeOK
  <2>4. OwnLease' /\ KeysAreLeased'
    BY <1>2, <2>1 DEF PutKey, DiscoveryTypeOK, OwnLease, KeysAreLeased
  <2> QED BY <2>3, <2>4
<1>3. CASE PutFails(n)
  BY <1>3 DEF PutFails, DiscoveryTypeOK, OwnLease, KeysAreLeased
<1>4. CASE BuildAndStart(n)
  BY <1>4 DEF BuildAndStart, DiscoveryTypeOK, OwnLease, KeysAreLeased
<1>5. CASE StopKeepAlive(n)
  BY <1>5 DEF StopKeepAlive, DiscoveryTypeOK, OwnLease, KeysAreLeased
<1>6. CASE Revoke(n)
  <2>1. CASE UNCHANGED <<etcdVars, events>>
    BY <1>6, <2>1 DEF Revoke, DiscoveryTypeOK, OwnLease, KeysAreLeased
  <2>2. CASE Drop(lease_id_(n))
    <3> DEFINE l == <<n, starts[n]>>
    <3>1. l \in Leases
      BY <1>6, LeaseOfRun DEF Revoke, DiscoveryTypeOK, OwnLease
    <3>2. Drop(l)
      BY <2>2
    <3> HIDE DEF l
    <3>3. /\ leases' = leases \ {l}
          /\ services' \in [Nodes -> Leases \cup {NoLease}]
          /\ events' \in Seq({"PUT", "DELETE"} \X Nodes)
          /\ \A m \in Nodes :
                 IF services[m] = l THEN services'[m] = NoLease
                 ELSE services'[m] = services[m]
      BY <3>1, <3>2, DropKeepsKeys
    <3>4. DiscoveryTypeOK'
      BY <1>6, <3>3 DEF Revoke, DiscoveryTypeOK
    <3>5. OwnLease' /\ KeysAreLeased'
      BY <1>6, <3>3 DEF Revoke, DiscoveryTypeOK, OwnLease, KeysAreLeased
    <3> QED BY <3>4, <3>5
  <2> QED BY <1>6, <2>1, <2>2 DEF Revoke
<1>7. CASE Shutdown(n)
  BY <1>7 DEF Shutdown, DiscoveryTypeOK, OwnLease, KeysAreLeased
<1>8. CASE ShutdownNothing(n)
  BY <1>8 DEF ShutdownNothing, DiscoveryTypeOK, OwnLease, KeysAreLeased
<1>9. CASE StopAgain(n)
  BY <1>9 DEF StopAgain, DiscoveryTypeOK, OwnLease, KeysAreLeased
<1>10. CASE Crash(n)
  BY <1>10 DEF Crash, DiscoveryTypeOK, OwnLease, KeysAreLeased
<1> QED BY <1>1, <1>2, <1>3, <1>4, <1>5, <1>6, <1>7, <1>8, <1>9, <1>10 DEF Stop

\* The expiry of a lease preserves the invariant on leases.
LEMMA ExpireLeaseInv ==
    ASSUME LeaseInv, NEW l \in leases, Expire(l)
    PROVE  LeaseInv'
<1> USE DEF LeaseInv, nodeVars, clientVars, lease_id_
<1>1. l \in Leases
  BY DEF DiscoveryTypeOK
<1>2. /\ leases' = leases \ {l}
      /\ services' \in [Nodes -> Leases \cup {NoLease}]
      /\ events' \in Seq({"PUT", "DELETE"} \X Nodes)
      /\ \A m \in Nodes :
             IF services[m] = l THEN services'[m] = NoLease
             ELSE services'[m] = services[m]
  BY <1>1, DropKeepsKeys DEF Expire
<1>3. DiscoveryTypeOK'
  BY <1>2 DEF Expire, DiscoveryTypeOK
<1>4. OwnLease' /\ KeysAreLeased'
  BY <1>2 DEF Expire, DiscoveryTypeOK, OwnLease, KeysAreLeased
<1> QED BY <1>3, <1>4

\* Steps of the client preserve the invariant on leases.
LEMMA ClientLeaseInv ==
    ASSUME LeaseInv,
           \/ FetchAllServices \/ FetchFails \/ Watch
           \/ HandleWatchEvents \/ HandleFailedResponse
           \/ Cancel \/ CancelNothing \/ WatchEnds \/ JoinReturns
    PROVE  LeaseInv'
<1> USE DEF LeaseInv, nodeVars, etcdVars, clientVars, watchVars, lease_id_
<1>1. OwnLease' /\ KeysAreLeased'
  BY DEF FetchAllServices, FetchFails, Watch, HandleWatchEvents, HandleFailedResponse,
         Cancel, CancelNothing, WatchEnds, JoinReturns, OwnLease, KeysAreLeased
<1>2. CASE HandleWatchEvents
  <2>1. /\ Head(events) \in {"PUT", "DELETE"} \X Nodes
        /\ Tail(events) \in Seq({"PUT", "DELETE"} \X Nodes)
    BY <1>2 DEF HandleWatchEvents, DiscoveryTypeOK
  <2>2. DiscoveryTypeOK'
    BY <1>2, <2>1 DEF HandleWatchEvents, DiscoveryTypeOK
  <2> QED BY <1>1, <2>2
<1>3. CASE FetchAllServices \/ FetchFails \/ Watch
  BY <1>1, <1>3 DEF FetchAllServices, FetchFails, Watch, Listed, DiscoveryTypeOK
<1>4. CASE Cancel \/ CancelNothing \/ JoinReturns
  BY <1>1, <1>4 DEF Cancel, CancelNothing, JoinReturns, DiscoveryTypeOK
<1>5. CASE WatchEnds
  <2>1. events' \in Seq({"PUT", "DELETE"} \X Nodes)
    BY <1>5 DEF WatchEnds
  <2> QED BY <1>1, <1>5, <2>1 DEF WatchEnds, DiscoveryTypeOK
<1>6. CASE HandleFailedResponse
  <2>1. Tail(events) \in Seq({"PUT", "DELETE"} \X Nodes)
    BY <1>6 DEF HandleFailedResponse, DiscoveryTypeOK
  <2> QED BY <1>1, <1>6, <2>1 DEF HandleFailedResponse, DiscoveryTypeOK
<1> QED BY <1>2, <1>3, <1>4, <1>5, <1>6

\* Every step preserves the invariant on leases.
LEMMA NextLeaseInv == LeaseInv /\ [DiscoveryNext]_discoveryVars => LeaseInv'
<1> SUFFICES ASSUME LeaseInv, [DiscoveryNext]_discoveryVars
             PROVE  LeaseInv'
  OBVIOUS
<1>1. CASE UNCHANGED discoveryVars
  BY <1>1 DEF discoveryVars, nodeVars, etcdVars, clientVars, watchVars, lease_id_,
              LeaseInv, DiscoveryTypeOK, OwnLease, KeysAreLeased
<1>2. CASE DiscoveryNext
  BY <1>2, NodeLeaseInv, ExpireLeaseInv, ClientLeaseInv
     DEF DiscoveryNext, DiscoveryStep
<1> QED BY <1>1, <1>2

\* The invariant on leases holds in every reachable state.
LEMMA LeaseInvariant == DiscoverySpec => []LeaseInv
BY InitLeaseInv, NextLeaseInv, PTL DEF DiscoverySpec

(* Discovery keeps the types of its state; a server thread exists exactly  *)
(* between Register and the end of the process.                            *)
THEOREM DiscoveryTypeCorrect == DiscoverySpec => []DiscoveryTypeOK
<1>1. LeaseInv => DiscoveryTypeOK
  BY DEF LeaseInv
<1> QED BY <1>1, LeaseInvariant, PTL

(* For any number of nodes and restarts: no key outlives its lease, and a  *)
(* node that is up is listed under its own lease while etcd holds that.    *)
THEOREM KeysFollowLeases == DiscoverySpec => []KeysAreLeased
<1>1. LeaseInv => KeysAreLeased
  BY DEF LeaseInv
<1> QED BY <1>1, LeaseInvariant, PTL

-----------------------------------------------------------------------------
\* Before the first event the client knows whom it was told of.
LEMMA InitViewInv == DHInit => ViewInv
BY DEF DHInit, DiscoveryInit, ViewInv, ListedIsRight, ViewCatchesUp

\* A step that changes neither the keys nor the client's side of the watch
\* preserves the invariant on the view.
LEMMA QuietViewInv ==
    ASSUME ViewInv, UNCHANGED <<services, client, cache_nodes_, events>>, ObserveChange
    PROVE  ViewInv'
BY DEF ObserveChange, Changed, ViewInv, ListedIsRight, ViewCatchesUp, WillKnow, Listed

\* A change of n's key with the event that tells it, if there is a watch,
\* preserves the invariant on the view.
LEMMA ChangeViewInv ==
    ASSUME DiscoveryTypeOK, ViewInv, ObserveChange,
           NEW n \in Nodes, NEW type \in {"PUT", "DELETE"}, Notify(type, n),
           type = "PUT" <=> services'[n] # NoLease,
           \A m \in Nodes \ {n} : services'[m] = services[m],
           UNCHANGED <<client, cache_nodes_>>
    PROVE  ViewInv'
<1>1. CASE client # "watching"
  <2>1. events' = events
    BY <1>1 DEF Notify
  <2>2. ASSUME client = "listed", NEW m \in Nodes \ missed'
        PROVE  m \in Nodes \ missed /\ services'[m] = services[m]
    BY <2>2 DEF ObserveChange, Changed
  <2> QED BY <1>1, <2>1, <2>2 DEF ViewInv, ListedIsRight, ViewCatchesUp, Listed
<1>2. CASE client = "watching"
  <2>1. /\ Len(events) \in Nat /\ DOMAIN events = 1..Len(events)
        /\ DOMAIN events' = 1..(Len(events) + 1)
        /\ events'[Len(events) + 1] = <<type, n>>
        /\ \A i \in 1..Len(events) : events'[i] = events[i]
    BY <1>2 DEF Notify, DiscoveryTypeOK
  <2>2. WillKnow(n)' <=> type = "PUT"
    BY <1>2, <2>1 DEF WillKnow
  <2>3. ASSUME NEW m \in Nodes \ {n}
        PROVE  WillKnow(m)' <=> WillKnow(m)
    BY <1>2, <2>1, <2>3 DEF WillKnow
  <2>4. \A m \in Nodes \ missed' : m # n => m \in Nodes \ missed
    BY <1>2 DEF ObserveChange, Changed
  <2> QED
    BY <1>2, <2>2, <2>3, <2>4 DEF ViewInv, ListedIsRight, ViewCatchesUp, Listed
<1> QED BY <1>1, <1>2

\* The loss of a lease preserves the invariant on the view.
LEMMA DropViewInv ==
    ASSUME LeaseInv, ViewInv, ObserveChange, NEW l \in Leases, Drop(l),
           UNCHANGED <<client, cache_nodes_>>
    PROVE  ViewInv'
<1>1. CASE services[l[1]] = l
  <2>1. l[1] \in Nodes /\ l # NoLease
    BY LeaseParts
  <2>2. services' = [services EXCEPT ![l[1]] = NoLease] /\ Notify("DELETE", l[1])
    BY <1>1 DEF Drop
  <2>3. services'[l[1]] = NoLease
    BY <2>1, <2>2 DEF LeaseInv, DiscoveryTypeOK
  <2>4. \A m \in Nodes \ {l[1]} : services'[m] = services[m]
    BY <2>2 DEF LeaseInv, DiscoveryTypeOK
  <2> QED BY <2>1, <2>2, <2>3, <2>4, ChangeViewInv DEF LeaseInv
<1>2. CASE services[l[1]] # l
  BY <1>2, QuietViewInv DEF Drop
<1> QED BY <1>1, <1>2

\* Steps of a node preserve the invariant on the view.
LEMMA NodeViewInv ==
    ASSUME LeaseInv, ViewInv, ObserveChange, NEW n \in Nodes,
           \/ GrantLease(n) \/ PutKey(n) \/ PutFails(n) \/ BuildAndStart(n)
           \/ Stop(n) \/ StopAgain(n) \/ Crash(n)
    PROVE  ViewInv'
<1> USE DEF etcdVars, clientVars, watchVars
<1>1. CASE PutKey(n)
  <2>1. lease_id_(n) \in Leases /\ lease_id_(n) # NoLease
    BY <1>1, LeaseParts DEF PutKey, LeaseInv, DiscoveryTypeOK
  <2>2. services'[n] # NoLease /\ \A m \in Nodes \ {n} : services'[m] = services[m]
    BY <1>1, <2>1 DEF PutKey, LeaseInv, DiscoveryTypeOK
  <2> QED BY <1>1, <2>2, ChangeViewInv DEF PutKey, LeaseInv
<1>2. CASE Revoke(n)
  <2>1. lease_id_(n) \in Leases
    BY <1>2, LeaseOfRun
       DEF Revoke, LeaseInv, DiscoveryTypeOK, OwnLease, lease_id_
  <2> QED BY <1>2, <2>1, DropViewInv, QuietViewInv DEF Revoke
<1>3. CASE GrantLease(n) \/ PutFails(n) \/ BuildAndStart(n) \/ StopKeepAlive(n)
  BY <1>3, QuietViewInv DEF GrantLease, PutFails, BuildAndStart, StopKeepAlive
<1>4. CASE Shutdown(n) \/ ShutdownNothing(n) \/ StopAgain(n) \/ Crash(n)
  BY <1>4, QuietViewInv DEF Shutdown, ShutdownNothing, StopAgain, Crash
<1> QED BY <1>1, <1>2, <1>3, <1>4 DEF Stop

\* A step that takes the first event does with n what that event says, or the
\* event is not the last one of n.
Heeds(n) ==
    (\A i \in 2..Len(events) : events[i][2] # n) =>
        (n \in cache_nodes_' <=>
            IF Head(events)[2] = n THEN Head(events)[1] = "PUT" ELSE n \in cache_nodes_)

\* Then what the client will know of n is the same as before.
LEMMA TakeEvent ==
    ASSUME DiscoveryTypeOK, events # <<>>, events' = Tail(events), NEW n \in Nodes,
           Heeds(n)
    PROVE  WillKnow(n)' <=> WillKnow(n)
<1> DEFINE e == Head(events)
<1>a. /\ Len(events) \in Nat /\ Len(events) >= 1
      /\ DOMAIN events = 1..Len(events) /\ events[1] = e
      /\ e \in {"PUT", "DELETE"} \X Nodes
  BY DEF DiscoveryTypeOK
<1>b. /\ DOMAIN events' = 1..(Len(events) - 1)
      /\ \A i \in 1..(Len(events) - 1) : events'[i] = events[i + 1]
  BY DEF DiscoveryTypeOK
<1>c. (\A i \in 2..Len(events) : events[i][2] # n) =>
          (n \in cache_nodes_' <=>
              IF e[2] = n THEN e[1] = "PUT" ELSE n \in cache_nodes_)
  BY DEF Heeds
<1> HIDE DEF e
<1>1. CASE \E i \in 2..Len(events) : events[i][2] = n
  <2>1. \E i \in 1..(Len(events) - 1) : events'[i][2] = n
    <3>1. PICK i \in 2..Len(events) : events[i][2] = n
      BY <1>1
    <3>2. i - 1 \in 1..(Len(events) - 1) /\ (i - 1) + 1 = i
      BY <1>a, <3>1
    <3>3. events'[i - 1] = events[i]
      BY <1>b, <3>2
    <3>4. events'[i - 1][2] = n
      BY <3>1, <3>3
    <3> QED BY <3>2, <3>4
  <2>2. WillKnow(n) <=>
            \E i \in 2..Len(events) :
                /\ events[i] = <<"PUT", n>>
                /\ \A j \in 2..Len(events) : j > i => events[j][2] # n
    <3>1. \A i \in DOMAIN events : i = 1 \/ i \in 2..Len(events)
      BY <1>a
    <3>2. 2..Len(events) \subseteq DOMAIN events /\ \A i \in 2..Len(events) : i > 1
      BY <1>a
    <3>3. \A i \in 2..Len(events) : \A j \in DOMAIN events : j > i => j \in 2..Len(events)
      BY <1>a
    <3>4. WillKnow(n) <=>
              \E i \in DOMAIN events :
                  /\ events[i] = <<"PUT", n>>
                  /\ \A j \in DOMAIN events : j > i => events[j][2] # n
      BY <1>1, <3>2 DEF WillKnow
    <3>5. ~ \A j \in DOMAIN events : j > 1 => events[j][2] # n
      BY <1>1, <3>2
    <3> QED BY <3>1, <3>2, <3>3, <3>4, <3>5
  <2>3. WillKnow(n)' <=>
            \E i \in 1..(Len(events) - 1) :
                /\ events'[i] = <<"PUT", n>>
                /\ \A j \in 1..(Len(events) - 1) : j > i => events'[j][2] # n
    BY <1>b, <2>1 DEF WillKnow
  <2>4. ASSUME NEW i \in 2..Len(events), events[i] = <<"PUT", n>>,
               \A j \in 2..Len(events) : j > i => events[j][2] # n
        PROVE  WillKnow(n)'
    <3>1. /\ i - 1 \in 1..(Len(events) - 1) /\ events'[i - 1] = <<"PUT", n>>
          /\ \A j \in 1..(Len(events) - 1) : j > i - 1 => events'[j][2] # n
      BY <1>a, <1>b, <2>4
    <3> QED BY <2>3, <3>1
  <2>5. ASSUME NEW i \in 1..(Len(events) - 1), events'[i] = <<"PUT", n>>,
               \A j \in 1..(Len(events) - 1) : j > i => events'[j][2] # n
        PROVE  WillKnow(n)
    <3>1. i + 1 \in 2..Len(events) /\ events[i + 1] = <<"PUT", n>>
      BY <1>a, <1>b, <2>5
    <3>2. ASSUME NEW j \in 2..Len(events), j > i + 1
          PROVE  events[j][2] # n
      <4>1. j - 1 \in 1..(Len(events) - 1) /\ j - 1 > i
            /\ events'[j - 1] = events[(j - 1) + 1]
        BY <1>a, <1>b, <3>2
      <4>2. (j - 1) + 1 = j
        BY <1>a
      <4>3. events'[j - 1][2] # n
        BY <2>5, <4>1
      <4> QED BY <4>1, <4>2, <4>3
    <3> QED BY <2>2, <3>1, <3>2
  <2> QED BY <2>2, <2>3, <2>4, <2>5
<1>2. CASE \A i \in 2..Len(events) : events[i][2] # n
  <2>1. \A i \in 1..(Len(events) - 1) : events'[i][2] # n
    BY <1>a, <1>b, <1>2
  <2>2. WillKnow(n)' <=> n \in cache_nodes_'
    BY <1>b, <2>1 DEF WillKnow
  <2>3. WillKnow(n) <=> IF e[2] = n THEN e[1] = "PUT" ELSE n \in cache_nodes_
    BY <1>a, <1>2 DEF WillKnow
  <2> QED BY <1>c, <1>2, <2>2, <2>3
<1> QED BY <1>1, <1>2

\* The client preserves the invariant on the view by handling an event.
LEMMA HandleViewInv ==
    ASSUME DiscoveryTypeOK, ViewInv, ObserveChange, HandleWatchEvents
    PROVE  ViewInv'
<1>1. client = "watching" /\ events # <<>>
  BY DEF HandleWatchEvents, ViewInv, ListedIsRight
<1>2. Head(events) \in {"PUT", "DELETE"} \X Nodes
  BY <1>1 DEF DiscoveryTypeOK
<1>3. ASSUME NEW n \in Nodes PROVE WillKnow(n)' <=> WillKnow(n)
  <2>1. n \in cache_nodes_' <=>
            IF Head(events)[2] = n THEN Head(events)[1] = "PUT" ELSE n \in cache_nodes_
    BY <1>2 DEF HandleWatchEvents
  <2>2. Heeds(n)
    BY <2>1 DEF Heeds
  <2> QED BY <1>1, <2>2, TakeEvent DEF HandleWatchEvents
<1>4. UNCHANGED <<services, client>> /\ missed' = missed
  BY <1>1 DEF HandleWatchEvents, ObserveChange, Changed, etcdVars
<1> QED BY <1>1, <1>3, <1>4 DEF ViewInv, ListedIsRight, ViewCatchesUp, Listed

\* An error response preserves the invariant on the view: it loses an event,
\* which matters only if that was the last one of its node.
LEMMA FailedViewInv ==
    ASSUME DiscoveryTypeOK, ViewInv, ObserveLoss, HandleFailedResponse
    PROVE  ViewInv'
<1>1. client = "watching" /\ events # <<>>
  BY DEF HandleFailedResponse, ViewInv, ListedIsRight
<1>2. /\ events' = Tail(events)
      /\ UNCHANGED <<services, client, cache_nodes_>>
  BY DEF HandleFailedResponse, etcdVars, clientVars
<1>3. DOMAIN events = 1..Len(events) /\ Len(events) \in Nat
  BY DEF DiscoveryTypeOK
<1>4. ASSUME NEW n \in Nodes \ missed'
      PROVE  n \notin missed /\ (WillKnow(n)' <=> WillKnow(n))
  <2>1. n \notin missed
    BY DEF ObserveLoss
  <2>2. Head(events)[2] # n \/ \E i \in DOMAIN events : i > 1 /\ events[i][2] = n
    BY DEF ObserveLoss
  <2>3. Head(events)[2] # n \/ \E i \in 2..Len(events) : events[i][2] = n
    BY <1>3, <2>2
  <2>4. Heeds(n)
    BY <1>2, <2>3 DEF Heeds
  <2> QED BY <1>1, <1>2, <2>1, <2>4, TakeEvent
<1> QED BY <1>1, <1>2, <1>4 DEF ViewInv, ListedIsRight, ViewCatchesUp, Listed

\* The client preserves the invariant on the view by its other steps.
LEMMA ClientViewInv ==
    ASSUME LeaseInv, ViewInv, ObserveChange,
           \/ FetchAllServices \/ FetchFails \/ Watch
           \/ Cancel \/ CancelNothing \/ WatchEnds \/ JoinReturns
    PROVE  ViewInv'
<1> USE DEF etcdVars, clientVars, watchVars, ViewInv, ListedIsRight, ViewCatchesUp
<1>1. CASE FetchAllServices
  BY <1>1 DEF FetchAllServices, Listed
<1>2. CASE FetchFails
  BY <1>2 DEF FetchFails
<1>3. CASE Watch
  BY <1>3 DEF Watch, WillKnow, Listed, ObserveChange, Changed
<1>4. CASE WatchEnds
  BY <1>4 DEF WatchEnds
<1>5. CASE Cancel \/ CancelNothing \/ JoinReturns
  BY <1>5, QuietViewInv DEF Cancel, CancelNothing, JoinReturns
<1> QED BY <1>1, <1>2, <1>3, <1>4, <1>5

\* The history watches steps of Discovery and adds none.
LEMMA HistoryIsDiscovery == DHSpec => DiscoverySpec
<1>1. DHInit => DiscoveryInit
  BY DEF DHInit
<1>2. [DHNext]_dhVars => [DiscoveryNext]_discoveryVars
  BY DEF DHNext, DiscoveryNext, dhVars
<1> QED BY <1>1, <1>2, PTL DEF DHSpec, DiscoverySpec

\* Every step preserves the invariant on the view.
LEMMA NextViewInv == LeaseInv /\ ViewInv /\ [DHNext]_dhVars => ViewInv'
<1> SUFFICES ASSUME LeaseInv, ViewInv, [DHNext]_dhVars
             PROVE  ViewInv'
  OBVIOUS
<1>1. CASE UNCHANGED dhVars
  BY <1>1 DEF dhVars, discoveryVars, etcdVars, clientVars, watchVars,
              ViewInv, ListedIsRight, ViewCatchesUp, WillKnow, Listed
<1>2. CASE DHNext
  <2>1. (DiscoveryStep /\ ObserveChange) \/ (HandleFailedResponse /\ ObserveLoss)
    BY <1>2 DEF DHNext
  <2>2. ASSUME NEW l \in leases, Expire(l), ObserveChange
        PROVE  ViewInv'
    <3>1. l \in Leases
      BY DEF LeaseInv, DiscoveryTypeOK
    <3> QED BY <2>2, <3>1, DropViewInv DEF Expire, clientVars
  <2> QED
    BY <2>1, <2>2, NodeViewInv, HandleViewInv, FailedViewInv, ClientViewInv
       DEF DiscoveryStep, LeaseInv
<1> QED BY <1>1, <1>2

(* However the events are delayed, the client ends up right about every    *)
(* node whose last change it was told of: it did not come between the      *)
(* client's list and its watch, and was not lost with an error.            *)
THEOREM ViewFollowsEtcd == DHSpec => []ViewCatchesUp
<1>1. ViewInv => ViewCatchesUp
  BY DEF ViewInv
<1>2. DHSpec => []LeaseInv
  BY HistoryIsDiscovery, LeaseInvariant, PTL
<1> QED BY <1>1, <1>2, InitViewInv, NextViewInv, PTL DEF DHSpec
=============================================================================
