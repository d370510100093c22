------------------------- MODULE ChaosTargetSelector -------------------------
(***************************************************************************)
(* The chaos target selector (class ChaosTargetSelector in                 *)
(* src/src/chaos_engine/base.py) for one registered cluster.               *)
(*                                                                         *)
(* The selector keeps the last topology it was given and the set of nodes  *)
(* that were killed or are reserved to be killed.  Each method runs under  *)
(* the selector's lock, so each is one action here.  The roles it filters  *)
(* by live in NodeInfo objects that other components mutate without that   *)
(* lock; they are the separate variable role.                              *)
(***************************************************************************)
EXTENDS Integers, FiniteSets

CONSTANTS
  Node,            \* node ids of the cluster's initial topology
  Shard,           \* shard ids
  ShardOf,         \* NodeInfo.shard_id: fixed when the topology is planned
  InitialPrimaries \* the nodes whose planned role is "primary"

ASSUME TopologyAssumption ==
  /\ IsFiniteSet(Node)
  /\ ShardOf \in [Node -> Shard]
  /\ InitialPrimaries \subseteq Node
  /\ \A s \in Shard : \E p \in InitialPrimaries : ShardOf[p] = s

VARIABLES
  clusterNodes,   \* cluster_nodes[cluster_id]: the nodes of the last refresh
  killedNodeIds,  \* _killed_node_ids[cluster_id]: killed or reserved-to-kill
  role            \* NodeInfo.role of every node (shared, not under the lock)

selectorVars == <<clusterNodes, killedNodeIds, role>>

Role == {"primary", "replica"}

\* TargetSelection: a strategy and, for "specific", the node ids it names.
Selection == [strategy : {"random", "primary_only", "replica_only", "specific"},
              nodes    : SUBSET Node]

InitialRole == [n \in Node |-> IF n \in InitialPrimaries THEN "primary" ELSE "replica"]

Members(s) == {n \in Node : ShardOf[n] = s}

----------------------------------------------------------------------------
(* Filters *)

\* Faulty variant of ShardSafe: reservations are not subtracted.
ShardSafeIgnoringReservations(candidates) ==
  {c \in candidates \ killedNodeIds :
     (Members(ShardOf[c]) \cap clusterNodes) \ {c} # {}}

\* Candidates that are not reserved and whose shard keeps another member that
\* is both in the last topology and unreserved.
ShardSafe(candidates) ==
  {c \in candidates \ killedNodeIds :
     ((Members(ShardOf[c]) \cap clusterNodes) \ killedNodeIds) \ {c} # {}}

\* A majority of the initial shards: dead primaries still count.
Quorum == Cardinality(Shard) \div 2 + 1

LivePrimaries == {n \in clusterNodes : role[n] = "primary"}

\* Faulty variant of QuorumSafe: the candidate counts among the survivors.
QuorumSafeCountingCandidate(candidates) ==
  {c \in candidates : role[c] = "primary" =>
     Cardinality(LivePrimaries \ killedNodeIds) >= Quorum}

QuorumSafe(candidates) ==
  {c \in candidates : role[c] = "primary" =>
     Cardinality((LivePrimaries \ killedNodeIds) \ {c}) >= Quorum}

SafeCandidates(candidates) == QuorumSafe(ShardSafe(candidates))

StrategyCandidates(strategy) ==
  CASE strategy = "random"       -> clusterNodes
    [] strategy = "primary_only" -> LivePrimaries
    [] strategy = "replica_only" -> {n \in clusterNodes : role[n] = "replica"}
    [] OTHER                     -> {}

\* What _select_by_strategy may return.  "specific" draws from the named nodes
\* and applies neither filter.
Selectable(sel) ==
  IF sel.strategy = "specific"
  THEN sel.nodes \cap clusterNodes
  ELSE SafeCandidates(StrategyCandidates(sel.strategy))

\* get_safety_block_reason # None
SafetyBlocked(sel) ==
  /\ StrategyCandidates(sel.strategy) # {}
  /\ SafeCandidates(StrategyCandidates(sel.strategy)) = {}

----------------------------------------------------------------------------
(* Operations *)

\* reset_cluster_topology, called when the cluster is registered.
SelectorInit ==
  /\ clusterNodes = Node
  /\ killedNodeIds = {}
  /\ role = InitialRole

\* update_cluster_topology: reservations are deliberately left alone.
UpdateClusterTopology(nodes) ==
  /\ clusterNodes' = nodes
  /\ UNCHANGED killedNodeIds

\* Faulty variant of SelectTarget: the target is returned unreserved.
SelectWithoutReserving(sel, n) ==
  /\ n \in Selectable(sel)
  /\ UNCHANGED <<killedNodeIds, clusterNodes>>

\* select_target returning n, which it reserves before the lock is released.
SelectTarget(sel, n) ==
  /\ n \in Selectable(sel)
  /\ killedNodeIds' = killedNodeIds \cup {n}
  /\ UNCHANGED clusterNodes

UnrecordKill(n) == killedNodeIds' = killedNodeIds \ {n}

SelectorTypeOK ==
  /\ clusterNodes \subseteq Node
  /\ killedNodeIds \subseteq Node
  /\ role \in [Node -> Role]
=============================================================================
