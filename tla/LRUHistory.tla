----------------------------- MODULE LRUHistory -----------------------------
(***************************************************************************)
(* An LRUCache observed by its user, who keeps which of two keys was used  *)
(* later, and a copy of the content made from the operations and the       *)
(* eviction callbacks alone.  The history constrains no step of the cache. *)
(***************************************************************************)
EXTENDS LRUCache

VARIABLES
    later,  \* <<j, k>>: the last use of j was later than that of k, if any
    copy    \* copy[k]: the value the user believes is cached for k

hVars == <<lruVars, later, copy>>

Touch(k) ==
    later' = {p \in later : p[1] # k /\ p[2] # k} \cup ({k} \X (Keys \ {k}))

\* The user's copy with the value of k the user has just set.
Stored(k, v) == [j \in DOMAIN copy \cup {k} |-> IF j = k THEN v ELSE copy[j]]

\* The user's copy c once the callbacks of the step are taken into account.
Reported(c) == copy' = Restrict(c, DOMAIN c \ KeysOf(evicted'))

HInit == LRUInit /\ later = {} /\ copy = <<>>

HNext ==
    \/ \E k \in Keys :
        \/ (Miss(k) \/ DeleteAbsent(k)) /\ UNCHANGED <<later, copy>>
        \/ Hit(k) /\ Touch(k) /\ UNCHANGED copy
        \/ Delete(k) /\ Reported(copy) /\ UNCHANGED later
        \/ \E v \in Values : Set(k, v) /\ Touch(k) /\ Reported(Stored(k, v))
    \/ RemoveOldest /\ Reported(copy) /\ UNCHANGED later

HSpec == HInit /\ [][HNext]_hVars

-----------------------------------------------------------------------------
(* Entries stand in the order of their last use, hits included, whatever   *)
(* mixture of hits, overwrites and deletions came before.                  *)
RecencyOrder ==
    \A i, j \in DOMAIN list_ : i < j => <<list_[i].key, list_[j].key>> \in later

(* The callbacks report every departure and nothing else: the user's copy  *)
(* is the content of the cache, also when Set evicts what it just stored.  *)
CallbacksTellAll ==
    HasEvictedFunc => copy = [k \in cache_ |-> ValueOf(k)]
=============================================================================
