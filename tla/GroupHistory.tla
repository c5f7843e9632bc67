---------------------------- MODULE GroupHistory ----------------------------
(***************************************************************************)
(* What an observer of a KCacheGroup remembers.  The history is computed   *)
(* from each step and constrains none.                                     *)
(***************************************************************************)
EXTENDS KCacheGroup

VARIABLES
    genuine,    \* genuine[k]: the values the source or a Set ever had for k
    purged,     \* the keys deleted, and since then neither set nor loaded
    settled     \* those of them that no Get was working on when deleted

history == <<genuine, purged, settled>>
hgVars == <<groupVars, history>>

InGet(k) == \E t \in Threads : at[t] # "out" /\ asked[t] = k

\* What a step was, as the observer sees it.
Loads(k) == \E t \in Threads : asked[t] = k /\ Getter(t)
Sets(k) == \E v \in Values : SetKey(k, v)

HGInit ==
    /\ GroupInit
    /\ genuine = [k \in Keys |-> {source[k]} \ {None}]
    /\ purged = {}
    /\ settled = {}

Observe ==
    /\ genuine' = [k \in Keys |->
            (genuine[k] \cup {source'[k]} \cup {v \in Values : SetKey(k, v)}) \ {None}]
    /\ purged' = {k \in Keys :
            Delete(k) \/ (k \in purged /\ ~Sets(k) /\ ~Loads(k))}
    /\ settled' = {k \in Keys :
            (Delete(k) /\ ~InGet(k)) \/ (k \in settled /\ ~Sets(k) /\ ~Loads(k))}

HGSpec == HGInit /\ [][GroupNext /\ Observe]_hgVars

-----------------------------------------------------------------------------
(* No value crosses from one key to another or comes from nowhere: what is *)
(* cached for k, and what a Get of k is about to return, was at some time  *)
(* the source's answer or a Set's value for k.                             *)
NothingInvented ==
    /\ \A k \in cache_ : lru!ValueOf(k) \in genuine[k]
    /\ \A t \in Threads : at[t] = "fill" => val[t] \in genuine[asked[t]]

(* A Delete or an invalidation that no Get of the key overlaps is final:   *)
(* the key stays out of the cache, so that the next Get calls the getter.  *)
SettledPurgeReloads == settled \cap cache_ = {}

(* The comments at src/test/test_group.cpp:72 and 86: after a Delete or an *)
(* invalidation the next Get goes back to the source.                      *)
PurgeReloads == purged \cap cache_ = {}
=============================================================================
