--------------------------- MODULE ClusterHistory ---------------------------
(***************************************************************************)
(* CacheCluster with what its callers remember: which writes they were     *)
(* told are done, of those whose value is still somewhere, and the Set     *)
(* that nothing has disturbed.  The history constrains no step.            *)
(***************************************************************************)
EXTENDS CacheCluster

CONSTANT None
ASSUME HeirAssumption == None \notin [node : Nodes, writes : SUBSET Writes]

VARIABLES
    done,           \* the Sets that returned true
    before,         \* before[t]: done, when the call of t began; {} once it failed
    superseded,     \* the Sets done before a Set or Delete began that is done
    hidden,         \* nodes with a superseded copy that the client whose
                    \* call superseded it did not know
    heir            \* a node and the Sets it must have one of, or None

chVars == <<clusterVars, done, before, superseded, hidden, heir>>
Undisturbed == [node : Nodes, writes : SUBSET Writes] \cup {None}

CHInit ==
    /\ ClusterInit
    /\ done = {} /\ superseded = {} /\ hidden = {}
    /\ before = [t \in Callers |-> {}]
    /\ heir = None

-----------------------------------------------------------------------------
Moves(t, from, to) == pc[t] = from /\ pc'[t] = to

Begins(t) == pc[t] = "idle" /\ pc'[t] \in {"set", "tell"}

\* The calls that return true in this step; there is one at most.
Acknowledged == {t \in Callers : Moves(t, "tell", "idle") /\ all_success[t]}

\* The Sets whose value some node has, or may be sent; the others are over.
Alive ==
    {w \in Writes : \/ \E n \in Nodes : copy'[n] = w
                    \/ \E t \in Callers : pc'[t] = "set" /\ value'[t] = w}

ObserveDone ==
    /\ done' = Alive \cap (done \cup {value[t] : t \in Acknowledged})
    /\ before' = [t \in Callers |->
                    IF Begins(t) THEN done \cap Alive
                    ELSE IF pc'[t] = "idle" \/ ~all_success'[t] THEN {}
                    ELSE before[t] \cap Alive]
    /\ superseded' = Alive \cap (superseded \cup UNION {before[t] : t \in Acknowledged})
    /\ hidden' = {n \in hidden \cup UNION {Nodes \ cache_nodes_[client[t]] : t \in Acknowledged} :
                      copy'[n] \in superseded'}

\* What takes the copy at the heir's node away, or may: the end of its
\* process, an eviction, a request executed after its caller was told that it
\* failed, a Delete, a load under way in it, a failed Set.
Disturbed ==
    \/ process'[heir.node] # process[heir.node]
    \/ copy'[heir.node] # copy[heir.node] /\ callVars' = callVars
    \/ \E t \in Callers :
        \/ Moves(t, "idle", "tell") \/ Moves(t, "set", "idle")
        \/ Moves(t, "get", "load") /\ target_addr[t] = heir.node

\* A Set of t begins: alone, or next to Sets that go to the same node.
ObserveSet(t) ==
    LET node == target_addr'[t]
    IN  heir' = IF \A s \in Callers : pc[s] = "idle" THEN [node |-> node, writes |-> {writes'}]
                ELSE IF heir # None /\ heir.node = node
                THEN [node |-> node, writes |-> heir.writes \cup {writes'}]
                ELSE None

ObserveHeir ==
    IF \E t \in Callers : Moves(t, "idle", "set")
    THEN \E t \in Callers : Moves(t, "idle", "set") /\ ObserveSet(t)
    ELSE heir' = IF heir # None /\ Disturbed THEN None ELSE heir

CHNext == ClusterNext /\ ObserveDone /\ ObserveHeir

CHSpec == CHInit /\ [][CHNext]_chVars

-----------------------------------------------------------------------------
(* What true means to the caller of Set and Delete: a value that was set   *)
(* before the call is cached nowhere any more, but at nodes that the       *)
(* client did not know when it returned.  Nodes that fail, join or leave   *)
(* meanwhile, other callers and other clients change nothing about it.     *)
NoSupersededCopy ==
    \A n \in Nodes : copy[n] \in superseded => n \in hidden

(* The broadcast of a Set hits all copies but its own: after one Set, or   *)
(* several at once to one node, that node has one of their values, however *)
(* the members and the rings change meanwhile, unless one of the things    *)
(* named in Disturbed came between, or a Set to another node.              *)
LoneWriteIsRead ==
    heir # None /\ (\A t \in Callers : pc[t] = "idle") => copy[heir.node] \in heir.writes
=============================================================================
