--------------------------- MODULE MCCacheCluster ---------------------------
(***************************************************************************)
(* TLC instance of CacheCluster: two nodes, one started on the way, and    *)
(* two callers of one client.                                              *)
(***************************************************************************)
EXTENDS ClusterHistory, TLC

Symmetry == Permutations(Nodes) \cup Permutations(Clients) \cup Permutations(Callers)
=============================================================================
