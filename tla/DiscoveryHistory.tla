-------------------------- MODULE DiscoveryHistory --------------------------
(***************************************************************************)
(* Discovery with the nodes whose last change the client was not told of,  *)
(* and with how far its discovery was when the client was destroyed.  The  *)
(* history constrains no step.                                             *)
(***************************************************************************)
EXTENDS Discovery

VARIABLES
    missed,         \* the nodes whose last change came between the client's
                    \* list and its watch, or got lost with an error
    calledAt        \* the client when its destructor was called

dhVars == <<discoveryVars, missed, calledAt>>

DHInit == DiscoveryInit /\ missed = {} /\ calledAt = "new"

Changed == {n \in Nodes : services'[n] # services[n]}

ObserveChange ==
    missed' = CASE client = "listed" -> missed \cup Changed
                [] client = "watching" -> missed \ Changed
                [] OTHER -> missed

\* The event that is lost was the last one of its node.
ObserveLoss ==
    missed' = missed \cup {n \in Nodes :
                  /\ Head(events)[2] = n
                  /\ \A i \in DOMAIN events : i > 1 => events[i][2] # n}

ObserveCall ==
    calledAt' = IF destructor = "none" /\ destructor' # "none" THEN client ELSE calledAt

DHNext ==
    /\ \/ DiscoveryStep /\ ObserveChange
       \/ HandleFailedResponse /\ ObserveLoss
    /\ ObserveCall

DHSpec == DHInit /\ [][DHNext]_dhVars
FairDHSpec == DHSpec /\ DiscoveryFairness

-----------------------------------------------------------------------------
\* Whether the client will take n for a member once it has seen all events.
WillKnow(n) ==
    \/ /\ n \in cache_nodes_
       /\ \A i \in DOMAIN events : events[i][2] # n
    \/ \E i \in DOMAIN events :
        /\ events[i] = <<"PUT", n>>
        /\ \A j \in DOMAIN events : j > i => events[j][2] # n

(* The client's view follows etcd for as long as its watch lasts: but for  *)
(* the events on their way, it is wrong about those nodes only whose last  *)
(* change came between its list and its watch, or was lost with an error.  *)
ViewCatchesUp ==
    client = "watching" =>
        \A n \in Nodes \ missed : WillKnow(n) <=> n \in Listed

(* The comment at registry.h:22, for crashes as well: a node that went     *)
(* down leaves the client's ring, unless that was in the gap, its event is *)
(* lost, or the watch ends, by itself or cancelled.                        *)
GoneNodesLeave ==
    \A n \in Nodes :
        main[n] = "down" /\ client = "watching" /\ n \notin missed
            ~> n \notin cache_nodes_ \/ main[n] # "down" \/ n \in missed
                   \/ client = "ended"

(* The destructor returns, if it was called when there was a watch, even   *)
(* one that has ended since, or when discovery had failed, whatever events *)
(* are still on their way.  Called in the time between, it joins a thread  *)
(* that nobody will stop, though its watch may end.                        *)
DestructorReturns ==
    destructor # "none" /\ calledAt \in {"watching", "ended", "blind"}
        ~> destructor = "done"
=============================================================================
