-------------------------- MODULE MCConsistentHash --------------------------
(***************************************************************************)
(* TLC instance of ConsistentHash: a ring of three nodes with at most      *)
(* three virtual nodes each; those of two nodes collide.                   *)
(***************************************************************************)
EXTENDS ConsistentHash

CONSTANTS na, nb, nc, k1, k2

MCNodes == {na, nb, nc}
MCKeys == {k1, k2}

\* "a-0" collides with "b-1" and "b-0" with "a-2".  The third node has one
\* virtual node between those of the others, one beyond, and one at the end.
MCVHash ==
    [n \in MCNodes |-> [i \in 0..3 |->
        CASE n = na -> <<1, 4, 2, 7>>[i + 1]
          [] n = nb -> <<2, 1, 3, 8>>[i + 1]
          [] n = nc -> <<0, 5, 9, 6>>[i + 1]]]

\* One key between the hashes, one beyond the last.
MCKeyHash == [k \in MCKeys |-> IF k = k1 THEN 3 ELSE 20]
=============================================================================
