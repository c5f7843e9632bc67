-------------------------- MODULE MCNetdiskSession --------------------------
(***************************************************************************)
(* TLC instance of NetdiskSession: two users on two sockets, enough for    *)
(* each to ask the other, or for one to be logged in twice.                *)
(***************************************************************************)
EXTENDS SessionHistory, TLC

\* Users and sockets are interchangeable; only invariants are checked.
Symmetry == Permutations(Users) \cup Permutations(Sockets)
=============================================================================
