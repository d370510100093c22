------------------------- MODULE MCClusterFormation -------------------------
(***************************************************************************)
(* An instance of ClusterFormation: two shards of a primary and a replica.  *)
(***************************************************************************)
EXTENDS ClusterFormation
=============================================================================
