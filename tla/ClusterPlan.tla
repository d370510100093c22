------------------------------ MODULE ClusterPlan ------------------------------
(***************************************************************************)
(* The topology a cluster is planned with (plan_topology in                *)
(* src/src/cluster_orchestrator/orchestrator.py): nodes in the order of    *)
(* their numbers, a primary and its replicas per shard, and a range of     *)
(* slots per primary.                                                      *)
(***************************************************************************)
EXTENDS Integers

CONSTANTS
  NumShards,  \* clusterConfig.num_shards
  Replicas,   \* clusterConfig.replicas_per_shard
  TotalSlots  \* 16384

ASSUME PlanAssumption ==
  /\ NumShards \in Nat \ {0}
  /\ Replicas \in Nat
  /\ TotalSlots \in Nat
  /\ NumShards <= TotalSlots

Shard == 0 .. NumShards - 1
Slot == 0 .. TotalSlots - 1

\* Node i is "node-i".
ShardSize == Replicas + 1
Node == 0 .. NumShards * ShardSize - 1
ShardOf(i) == i \div ShardSize
MasterOf(i) == ShardOf(i) * ShardSize
Primaries == {i \in Node : MasterOf(i) = i}

SlotsPerShard == TotalSlots \div NumShards

SlotStart(s) == s * SlotsPerShard

\* The last shard takes what the division leaves.
SlotEnd(s) == IF s = NumShards - 1 THEN TotalSlots - 1 ELSE SlotStart(s) + SlotsPerShard - 1

SlotsOf(s) == SlotStart(s) .. SlotEnd(s)
===============================================================================
