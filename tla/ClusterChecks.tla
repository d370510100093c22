---------------------------- MODULE ClusterChecks ----------------------------
(***************************************************************************)
(* What the state validator concludes about a cluster                      *)
(* (src/src/fuzzer_engine/state_validator.py and its helpers).             *)
(*                                                                         *)
(* The cluster is the environment: processes die, by chaos or by           *)
(* themselves, the other nodes notice, flag and replace them, and a node   *)
(* may be one event behind the others.  The validators are operators: they *)
(* read replies of nodes and the validator's own record of kills, and      *)
(* return a verdict.  The properties compare the verdicts with the truth.  *)
(***************************************************************************)
EXTENDS Integers, FiniteSets

CONSTANTS
  Shard,             \* shard ids
  Replicas,          \* replicas per shard
  Named,             \* TRUE: scenarios name their victims, so no filter applies
  ReportsState,      \* TRUE: INFO cluster tells the cluster_state
  AcceptableStates,  \* ClusterStatusValidationConfig.acceptable_states
  MinReplicas,       \* ReplicationValidationConfig.min_replicas_per_shard
  MaxKills,          \* bound: nodes killed by chaos
  MaxCrashes,        \* bound: nodes that die without chaos
  MaxRestarts,       \* bound: killed nodes that come up again
  MaxFailovers       \* bound: failovers that an operation asks for

ASSUME ChecksAssumption ==
  /\ IsFiniteSet(Shard) /\ Shard # {}
  /\ Replicas \in Nat
  /\ {Named, ReportsState} \subseteq BOOLEAN
  /\ MinReplicas \in Nat
  /\ {MaxKills, MaxCrashes, MaxRestarts, MaxFailovers} \subseteq Nat

\* A node is the i-th of its shard; the first is the planned primary.
Node == Shard \X (0 .. Replicas)
ShardOf(n) == n[1]
Members(s) == {n \in Node : ShardOf(n) = s}

Condition == {"connected", "disconnected", "fail"}

VARIABLES
  alive,        \* nodes whose process runs
  current,      \* the cluster as its best informed nodes see it
  previous,     \* the cluster before the last event
  behind,       \* nodes that have not heard of the last event
  killed,       \* StateValidator.killed_nodes
  roleAtDeath,  \* StateValidator.killed_node_roles
  counts        \* events so far, for the bounds

vars == <<alive, current, previous, behind, killed, roleAtDeath, counts>>

\* A node's view: who owns each shard's slots, which nodes have the master
\* flag, and the condition of every node.
View == [owner : [Shard -> Node], masters : SUBSET Node, condition : [Node -> Condition]]

ViewOf(n) == IF n \in behind THEN previous ELSE current

RoleIn(v, n) == IF n \in v.masters THEN "primary" ELSE "replica"

FirstView ==
  [owner     |-> [s \in Shard |-> <<s, 0>>],
   masters   |-> {<<s, 0>> : s \in Shard},
   condition |-> [n \in Node |-> "connected"]]

----------------------------------------------------------------------------
(* The cluster (external) *)

\* An event some nodes hear of at once and the others later; nobody is more
\* than one event behind.
Happens(v, living) ==
  /\ behind = {}
  /\ previous' = current
  /\ current' = v
  /\ \E b \in SUBSET living : behind' = b

Count(event, bound) ==
  /\ counts[event] < bound
  /\ counts' = [counts EXCEPT ![event] = @ + 1]

Gossip ==
  /\ behind # {}
  /\ behind' = {}
  /\ UNCHANGED <<alive, current, previous, killed, roleAtDeath, counts>>

\* A process ends and its connections break.
Dies(n) ==
  /\ n \in alive
  /\ alive' = alive \ {n}
  /\ Happens([current EXCEPT !.condition[n] = "disconnected"], alive \ {n})

Crash(n) ==
  /\ Count("crashes", MaxCrashes)
  /\ Dies(n)
  /\ UNCHANGED <<killed, roleAtDeath>>

LiveOwners == {s \in Shard : current.owner[s] \in alive}

Majority == Cardinality(Shard) \div 2 + 1

\* A majority of the masters agrees that a node has failed.
Flag(n) ==
  /\ current.condition[n] = "disconnected"
  /\ Cardinality(LiveOwners) >= Majority
  /\ Happens([current EXCEPT !.condition[n] = "fail"], alive)
  /\ UNCHANGED <<alive, killed, roleAtDeath, counts>>

\* A replica of a failed master takes over its slots; the old master keeps
\* the master flag for as long as it is down.
Promote(s) ==
  /\ current.condition[current.owner[s]] = "fail"
  /\ Cardinality(LiveOwners) >= Majority
  /\ \E r \in (Members(s) \cap alive) \ {current.owner[s]} :
       Happens([current EXCEPT !.owner[s] = r, !.masters = @ \cup {r}], alive)
  /\ UNCHANGED <<alive, killed, roleAtDeath, counts>>

\* CLUSTER FAILOVER: master and replica exchange roles.
Failover(s) ==
  /\ Count("failovers", MaxFailovers)
  /\ current.owner[s] \in alive
  /\ \E r \in (Members(s) \cap alive) \ {current.owner[s]} :
       Happens([current EXCEPT !.owner[s] = r,
                               !.masters = (@ \ {current.owner[s]}) \cup {r}], alive)
  /\ UNCHANGED <<alive, killed, roleAtDeath>>

\* A killed process runs again: as the master it was, or as a replica when its
\* shard has another master by now.
Restart(n) ==
  /\ Count("restarts", MaxRestarts)
  /\ n \in killed \ alive
  /\ alive' = alive \cup {n}
  /\ LET owns == current.owner[ShardOf(n)] = n IN
     Happens([current EXCEPT !.condition[n] = "connected",
                             !.masters = IF owns THEN @ ELSE @ \ {n}], alive)
  /\ UNCHANGED <<killed, roleAtDeath>>

----------------------------------------------------------------------------
(* Chaos *)

\* The selector's filters: another member of the shard that was not killed,
\* and a majority of the shards left with a live primary.
MayKill(n) ==
  \/ Named
  \/ /\ Members(ShardOf(n)) \ (killed \cup {n}) # {}
     /\ Cardinality((current.masters \cap alive) \ {n}) >= Majority

\* A faulty variant of Kill: the role is not recorded.
KillWithoutRole(n) ==
  /\ Count("kills", MaxKills)
  /\ MayKill(n)
  /\ Dies(n)
  /\ killed' = killed \cup {n}
  /\ UNCHANGED roleAtDeath

\* Chaos kills a node and the validator hears of it, with a role that may have
\* been read before the last event.
Kill(n) ==
  /\ Count("kills", MaxKills)
  /\ n \notin killed
  /\ MayKill(n)
  /\ Dies(n)
  /\ killed' = killed \cup {n}
  /\ \E v \in {previous, current} : roleAtDeath' = [roleAtDeath EXCEPT ![n] = RoleIn(v, n)]

----------------------------------------------------------------------------
(* Replies *)

\* Faulty variant of Failed: the link state is not looked at.
FlaggedAsFailed(v) == {n \in Node : v.condition[n] = "fail"}

\* get_current_nodes: a failed flag or a broken link makes a node "failed".
Failed(v) == {n \in Node : v.condition[n] # "connected"}

\* Nodes of a reply that a validator can then talk to.
Queried(v) == (Node \ Failed(v)) \cap alive

FullyKilled == {s \in Shard : Members(s) \subseteq killed}

----------------------------------------------------------------------------
(* ReplicationValidator *)

ListedReplicas(v) == Node \ v.masters

\* Replicas that answer but whose link to their master is down.  A node that
\* was promoted since the reply has no link to report, which counts as down.
LinkDown(v) ==
  {n \in ListedReplicas(v) \cap Queried(v) :
     current.owner[ShardOf(n)] \in (Node \ alive) \cup {n}}

Disconnected(v) == (ListedReplicas(v) \ Queried(v)) \cup LinkDown(v)

ExpectedLinkDown(v) ==
  LET killedPrimaries == killed \cap v.masters
      livePrimaries   == v.masters \ (killed \cup Failed(v))
      headless == {ShardOf(n) : n \in killedPrimaries} \ {ShardOf(n) : n \in livePrimaries}
  IN {n \in LinkDown(v) : ShardOf(n) \in headless}

UnexpectedDisconnections(v) == (Disconnected(v) \ killed) \ ExpectedLinkDown(v)

UnexpectedSurvivals(v) == (killed \cap ListedReplicas(v)) \ Disconnected(v)

\* check_per_shard_redundancy: only an unexpected loss counts.
RedundancyLost(v) ==
  LET gone == Disconnected(v) \ ExpectedLinkDown(v) IN
  \E s \in {ShardOf(n) : n \in v.masters} :
    LET replicas == Members(s) \cap ListedReplicas(v) IN
    /\ Cardinality(replicas \ gone) < MinReplicas
    /\ (replicas \cap gone) \ killed # {}

\* The first reason for failing, or "none"; lag is left out.
ReplicationError(v) ==
  LET tracked == killed # {} /\ Disconnected(v) # {}
      all     == Disconnected(v) = ListedReplicas(v)
  IN CASE ListedReplicas(v) = {} -> IF MinReplicas > 0 THEN "missing" ELSE "none"
       [] tracked /\ UnexpectedDisconnections(v) # {} -> "unexpected"
       [] tracked /\ UnexpectedSurvivals(v) # {} -> "survivors"
       [] RedundancyLost(v) -> "insufficient redundancy"
       [] all /\ UnexpectedDisconnections(v) # {} -> "all disconnected"
       [] OTHER -> "none"

Replication(v) == ReplicationError(v) = "none"

----------------------------------------------------------------------------
(* ClusterStatusValidator *)

\* The cluster_state a node reports: a node that sees too few masters says
\* "fail".  Slots without a master do not matter (require-full-coverage no).
StateAt(n) ==
  LET v == ViewOf(n) IN
  IF ~ReportsState THEN "unknown"
  ELSE IF Cardinality({s \in Shard : v.condition[v.owner[s]] # "fail"}) >= Majority
       THEN "ok" ELSE "fail"

\* The most common state among the nodes that answer; ties go either way.
OverallStates ==
  LET votes(st) == Cardinality({n \in alive : StateAt(n) = st}) IN
  {st \in {"ok", "fail", "unknown"} :
     \A other \in {"ok", "fail", "unknown"} : votes(st) >= votes(other)}

\* Faulty variant of HasQuorum: half of the primaries is enough.
HasHalf(v) ==
  Cardinality(v.masters \cap alive) >= Cardinality(v.masters) \div 2

\* Dead primaries stay in the reply, so they count.
HasQuorum(v) ==
  Cardinality(v.masters \cap alive) >= Cardinality(v.masters) \div 2 + 1

\* Faulty variant of KilledMatchFailed: killed nodes that live are not noticed.
FailedWereKilled(v) == killed = {} \/ Failed(v) \subseteq killed

\* validate_killed_vs_failed_nodes
KilledMatchFailed(v) == killed = {} \/ killed = Failed(v)

ClusterStatus(v, state) ==
  /\ HasQuorum(v)
  /\ state \notin AcceptableStates =>
       state = "unknown" /\ killed # {} /\ KilledMatchFailed(v)
  /\ Failed(v) # {} =>
       KilledMatchFailed(v) /\ (killed = {} => state \notin AcceptableStates)

----------------------------------------------------------------------------
(* SlotCoverageValidator: the slots of a shard always move together *)

ClaimedOwners(v, s) == {ViewOf(n).owner[s] : n \in Queried(v)}

SlotConflict(v) == \E s \in Shard : Cardinality(ClaimedOwners(v, s)) > 1

\* Faulty variant of SlotsOnKilled: the slots of any shard that lost a node to
\* chaos are excused.
SlotsOnKilledElsewhere(v) ==
  {s \in Shard : \E n \in killed : ClaimedOwners(v, s) = {n} /\ ShardOf(n) # s}

\* Slots of a shard that has somebody to fail over to, on a killed node.
SlotsOnKilled(v) ==
  {s \in Shard \ FullyKilled : \E n \in killed : ClaimedOwners(v, s) = {n}}

SlotCoverage(v) ==
  /\ Queried(v) # {}
  /\ SlotsOnKilled(v) = {}
  /\ ~SlotConflict(v)

----------------------------------------------------------------------------
(* TopologyValidator *)

UnexpectedFailures(v) == Failed(v) \ killed

KilledWithRole(v, role) == {n \in Failed(v) \cap killed : roleAtDeath[n] = role}

\* Faulty variant of KilledPrimaryShards: nodes are counted, not shards.
KilledPrimaryNodes(v) ==
  {n \in KilledWithRole(v, "primary") : ShardOf(n) \in FullyKilled}

\* Fully killed shards that lost a primary: nobody can replace it.
KilledPrimaryShards(v) ==
  {ShardOf(n) : n \in KilledWithRole(v, "primary")} \cap FullyKilled

AdjustedPrimaries(v) ==
  Cardinality(Shard) -
    (IF Replicas = 0 THEN Cardinality(KilledWithRole(v, "primary"))
                     ELSE Cardinality(KilledPrimaryShards(v)))

\* Every other killed primary was replaced by a replica.
AdjustedReplicas(v) ==
  LET irreplaceable == IF Replicas = 0 THEN 0 ELSE Cardinality(KilledPrimaryShards(v))
      expected == Replicas * Cardinality(Shard)
                  - Cardinality(KilledWithRole(v, "replica"))
                  - (Cardinality(KilledWithRole(v, "primary")) - irreplaceable)
  IN IF expected < 0 THEN 0 ELSE expected

LivePrimaries(v) == v.masters \ Failed(v)
LiveReplicas(v) == ListedReplicas(v) \ Failed(v)

Topology(v) ==
  /\ UnexpectedFailures(v) = {}
  /\ Cardinality(LivePrimaries(v)) = AdjustedPrimaries(v)
  /\ Cardinality(LiveReplicas(v)) = AdjustedReplicas(v)

----------------------------------------------------------------------------
(* ViewConsistencyValidator *)

\* A discrepancy is expected when it is about the condition of a killed node
\* and the node that differs from the reference says what a killed node is.
UnexpectedDiscrepancy(reference, other) ==
  \E n \in Node :
    \/ (n \in reference.masters) # (n \in other.masters)
    \/ /\ reference.condition[n] # other.condition[n]
       /\ ~(n \in killed /\ other.condition[n] \in {"disconnected", "fail"})

\* Two nodes name different masters for the same slots.
SplitBrain(v) ==
  \E s \in Shard : \E m, n \in Queried(v) : ViewOf(m).owner[s] # ViewOf(n).owner[s]

\* reference: the first node of the reply that answers.
ViewConsistency(v, reference) ==
  /\ Queried(v) # {}
  /\ ~SplitBrain(v)
  /\ \A n \in Queried(v) : ~UnexpectedDiscrepancy(ViewOf(reference), ViewOf(n))

----------------------------------------------------------------------------
(* is_critical_failure, given that every check read the same reply *)

Critical(v, state) ==
  \/ ~SlotCoverage(v)
  \/ SplitBrain(v)
  \/ ~ClusterStatus(v, state) /\ (~HasQuorum(v) \/ state = "fail" \/ Failed(v) # {})
  \/ ReplicationError(v) \in {"insufficient redundancy", "all disconnected"}
  \/ UnexpectedFailures(v) # {}
  \/ Cardinality(LivePrimaries(v)) # AdjustedPrimaries(v)

----------------------------------------------------------------------------

Init ==
  /\ alive = Node
  /\ current = FirstView
  /\ previous = FirstView
  /\ behind = {}
  /\ killed = {}
  /\ roleAtDeath = [n \in Node |-> "none"]
  /\ counts = [e \in {"kills", "crashes", "restarts", "failovers"} |-> 0]

Next ==
  \/ Gossip
  \/ \E n \in Node : Kill(n) \/ Crash(n) \/ Flag(n) \/ Restart(n)
  \/ \E s \in Shard : Promote(s) \/ Failover(s)

Spec == Init /\ [][Next]_vars

TypeOK ==
  /\ alive \subseteq Node
  /\ current \in View
  /\ previous \in View
  /\ behind \subseteq alive
  /\ killed \subseteq Node
  /\ roleAtDeath \in [Node -> {"none", "primary", "replica"}]
  /\ \A n \in Node : roleAtDeath[n] # "none" <=> n \in killed
  /\ counts \in [{"kills", "crashes", "restarts", "failovers"} -> Nat]

----------------------------------------------------------------------------
(* The verdicts and the truth *)

\* What a validation concludes when every check reads the reply v.
Passes(v) ==
  /\ Replication(v) /\ SlotCoverage(v) /\ Topology(v)
  /\ \A st \in OverallStates : ClusterStatus(v, st)
  /\ \A n \in Queried(v) : ViewConsistency(v, n)

\* Everybody knows everything, every dead node is flagged, and every shard
\* that has a living member is served.
Settled ==
  /\ behind = {}
  /\ \A n \in Node \ alive : current.condition[n] = "fail"
  /\ \A s \in Shard \ LiveOwners : Members(s) \cap alive = {}

ChaosOnly == Node \ alive = killed

\* A shard that was killed completely lost a node recorded as a primary.  A
\* role read too early can break this (chaos_coordinator.py:344).
RolesRecorded ==
  \A s \in FullyKilled : \E n \in Members(s) : roleAtDeath[n] = "primary"

\* When the cluster has recovered from chaos and nothing else happened, four of
\* the checks pass, whatever was killed, in whatever order, before or after
\* failovers (state_validator.py:112, :761, :1073, :1423).  It takes one listed
\* replica: a cluster whose shards all lost their primary and promoted their
\* last replica is reported as "All replicas missing" (:139).
NoFalseAlarm ==
  Settled /\ ChaosOnly /\ RolesRecorded /\ ListedReplicas(current) # {} =>
    /\ Replication(current)
    /\ SlotCoverage(current)
    /\ Topology(current)
    /\ \A n \in alive : ViewConsistency(current, n)

\* A node that died without chaos fails the topology check and stops the test,
\* whichever node that has heard of it answers, flagged or not, whatever chaos
\* did to the same shard and whatever was replaced since
\* (state_validator_helpers.py:159, models.py:301, :652).
CrashIsCritical ==
  \A n \in alive \ behind : \A m \in Node \ (alive \cup killed) :
    \A st \in OverallStates : ~Topology(ViewOf(n)) /\ Critical(ViewOf(n), st)

\* Slots whose master chaos killed, although it left their shard a member, fail
\* the slot check until a member has taken over, even before anybody notices the
\* death and while the nodes disagree (state_validator.py:929-961).
UnservedSlotsReported ==
  \A s \in Shard \ (LiveOwners \cup FullyKilled) :
    current.owner[s] \in killed => \A n \in alive : ~SlotCoverage(ViewOf(n))

\* A killed node that runs again is reported when another node is down, or when
\* it serves slots of a shard that was not killed completely.  Otherwise nothing
\* reports it: both comparisons are skipped when no replica is disconnected and
\* no node has failed (state_validator.py:317, :673).
SurvivorsReported ==
  /\ Settled
  /\ killed \cap alive # {}
  /\ \/ Failed(current) # {}
     \/ \E s \in Shard \ FullyKilled : current.owner[s] \in killed
  => ~Passes(current)

\* "Has quorum" is never said of a cluster without a majority of serving
\* masters, although the check counts nodes and not shards
\* (state_validator.py:614-625).
QuorumNotOverstated ==
  behind = {} /\ HasQuorum(current) => Cardinality(LiveOwners) >= Majority

\* What a passed validation certifies, when a node that has heard of the last
\* event answered it: nobody died but by chaos, every shard that chaos left a
\* member is served, and so is a majority of all shards, once everybody has
\* heard (state_validator.py:2590).
PassCertifiesHealth ==
  \A n \in alive \ behind :
    Passes(ViewOf(n)) =>
      /\ Node \ alive \subseteq killed
      /\ Shard \ FullyKilled \subseteq LiveOwners
      /\ behind = {} => Cardinality(LiveOwners) >= Majority

\* When every shard is served again after chaos, the check says so.  "A cluster
\* has quorum if majority of primary nodes are reachable"
\* (state_validator.py:615), but primaries that chaos killed and replicas
\* replaced are counted as well.
ServedMeansQuorum ==
  Settled /\ ChaosOnly /\ LiveOwners = Shard => HasQuorum(current)
=============================================================================
