---------------------------- MODULE MCDiscovery -----------------------------
(***************************************************************************)
(* TLC instance of Discovery: two nodes, one of which is restarted, and a  *)
(* client.                                                                 *)
(***************************************************************************)
EXTENDS DiscoveryHistory

CONSTANTS n1, n2

MCNodes == {n1, n2}
MCMaxStarts == [n \in MCNodes |-> IF n = n1 THEN 2 ELSE 1]
=============================================================================
