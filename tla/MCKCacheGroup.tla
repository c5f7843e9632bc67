--------------------------- MODULE MCKCacheGroup ----------------------------
(***************************************************************************)
(* TLC instances of KCacheGroup and its history.  Every entry weighs two   *)
(* bytes, so a capacity of 2 holds one of them and a capacity of 0 all.    *)
(***************************************************************************)
EXTENDS GroupHistory, TLC

MCKeyLen == [k \in Keys |-> 1]
MCValLen == [v \in Values |-> 1]
OneEntry == {2}
All == {0}

\* The locals of a Get that is over (its key and its result) are never read
\* again: states that differ in them only are taken as one.
Live(f) == [t \in Threads |-> IF at[t] = "out" THEN None ELSE f[t]]
View ==
    <<map_, [c \in Calls |-> IF loader_!Free(c) THEN Pending ELSE fut[c]], pc, call,
      Live(key), Live(val), cacheVars, at, Live(asked), source, history>>

Symmetry == Permutations(Threads) \cup Permutations(Calls)
                \cup Permutations(Keys) \cup Permutations(Values)
=============================================================================
