----------------------------- MODULE MCLRUCache -----------------------------
(***************************************************************************)
(* TLC instance of LRUHistory: keys of two lengths, an empty value, a      *)
(* value longer than some capacities, and an int of 4 bits.                *)
(***************************************************************************)
EXTENDS LRUHistory

CONSTANTS ka, kb, kc, empty, short, long

MCKeys == {ka, kb, kc}
MCValues == {empty, short, long}
MCKeyLen == (ka :> 1) @@ (kb :> 1) @@ (kc :> 2)
MCValLen == (empty :> 0) @@ (short :> 1) @@ (long :> 5)

\* Unlimited, too small for kc, usual, the largest int, one that wraps to a
\* negative limit, and one that wraps to 0 (2^32 bytes in the code).
MCCapacities == {0, 1, 4, 7, 9, 16}
=============================================================================
