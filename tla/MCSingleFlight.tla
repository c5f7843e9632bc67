--------------------------- MODULE MCSingleFlight ---------------------------
(***************************************************************************)
(* TLC instance of SingleFlight.  Four Calls are enough for three threads: *)
(* each holds at most one, and while the entry of a key is left behind by  *)
(* an exception nobody can make another for that key.                      *)
(***************************************************************************)
EXTENDS SingleFlight
=============================================================================
