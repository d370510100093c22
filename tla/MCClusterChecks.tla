--------------------------- MODULE MCClusterChecks ---------------------------
(***************************************************************************)
(* Instances of ClusterChecks: three shards, the fewest a scenario has.    *)
(***************************************************************************)
EXTENDS ClusterChecks, TLC

CONSTANTS s1, s2, s3

Shard3 == {s1, s2, s3}

\* The default of the configuration.
OnlyOk == {"ok"}

\* No part of the model tells one shard from another.
Symmetry == Permutations(Shard)
=============================================================================
