------------------------------ MODULE FailoverOp ------------------------------
(***************************************************************************)
(* Failover operations, from the resolution of their targets to their      *)
(* report (class OperationOrchestrator in                                  *)
(* src/src/fuzzer_engine/operation_orchestrator.py, with the lookups of    *)
(* src/src/utils/cluster_utils.py).                                        *)
(*                                                                         *)
(* Several threads run an operation each.  The cluster is the environment: *)
(* it takes commands, acts on them later or never, notices deaths and      *)
(* promotes replicas by itself.  Every step below that asks a node can be  *)
(* answered by a cluster that moved since the step before.                 *)
(***************************************************************************)
EXTENDS Integers, FiniteSets, Countdown

CONSTANTS
  Shard,      \* shard ids
  Replicas,   \* replicas per shard
  Op,         \* operations, each in a thread of its own
  Targets,    \* identifiers that operations may have as target_node
  NoNode,     \* no node
  MaxKills,   \* bound: nodes killed by chaos
  MaxForeign  \* bound: commands of operations that are not in Op

ASSUME FailoverAssumption ==
  /\ IsFiniteSet(Shard)
  /\ Replicas \in Nat
  /\ \A t \in Targets : t.kind \in {"role", "port"}
  /\ {MaxKills, MaxForeign} \subseteq Nat

\* A node is the i-th of its shard; the first is the planned primary.
Node == Shard \X (0 .. Replicas)
ShardOf(n) == n[1]
Members(s) == {n \in Node : ShardOf(n) = s}

VARIABLES
  alive,      \* nodes whose process runs
  noticed,    \* dead nodes listed as failed or disconnected
  owner,      \* the master that serves each shard
  masters,    \* nodes listed with the master flag
  linked,     \* live replicas whose master_link_status is up
  pending,    \* replicas that accepted CLUSTER FAILOVER and have not acted on it
  foreign,    \* commands of other operations so far
  target,     \* operation.target_node
  force,      \* operation.parameters["force"]
  pc,         \* where each operation is
  found,      \* target_node or dead_primary
  candidates, \* replica_nodes
  replica,    \* the replica that gets the command
  attempt,    \* attempts at the replication links
  toCheck,    \* nodes the current attempt has yet to ask
  late,       \* operations whose deadline has passed
  events,     \* chaos_events: nodes killed by the operation's own chaos
  result,     \* what execute_operation returned
  commanded,  \* history: operations whose command was accepted
  moved,      \* history: operations during whose attempt the cluster changed
  unheard     \* history: operations that nobody told about the replicas left

clusterVars == <<alive, noticed, owner, masters, linked, pending, foreign>>
inputVars == <<target, force>>
localVars == <<pc, found, candidates, replica, attempt, toCheck, late>>
reportVars == <<events, result, commanded, moved, unheard>>
vars == <<clusterVars, inputVars, localVars, reportVars>>

----------------------------------------------------------------------------
(* The cluster (external) *)

IsReplica(n) == n \in alive /\ owner[ShardOf(n)] # n

\* An attempt under way sees the cluster change.
ChangeSeen == moved' = moved \cup {op \in Op : pc[op] = "check"}

\* A dead node's links are down, and those of its replicas.
Dies(n) ==
  /\ n \in alive
  /\ alive' = alive \ {n}
  /\ linked' = IF owner[ShardOf(n)] = n THEN linked \ Members(ShardOf(n)) ELSE linked \ {n}
  /\ ChangeSeen

\* The others list it as failed: its links are broken, or it is flagged.
Notice(n) ==
  /\ n \in Node \ (alive \cup noticed)
  /\ noticed' = noticed \cup {n}
  /\ UNCHANGED <<alive, owner, masters, linked, pending, foreign, inputVars, localVars, reportVars>>

\* Replicas synchronise anew with a master that changed.
TakesOver(r) ==
  /\ owner' = [owner EXCEPT ![ShardOf(r)] = r]
  /\ linked' = linked \ Members(ShardOf(r))
  /\ ChangeSeen

\* The shard elects a replica; the dead master keeps its flag.
Promote(r) ==
  /\ IsReplica(r)
  /\ owner[ShardOf(r)] \in noticed
  /\ TakesOver(r)
  /\ masters' = masters \cup {r}
  /\ UNCHANGED <<alive, noticed, pending, foreign, inputVars, localVars, events, result, commanded, unheard>>

\* The replica acts on the command: it becomes the master and a living master
\* its replica.
TakeOver(r) ==
  /\ r \in pending
  /\ IsReplica(r)
  /\ TakesOver(r)
  /\ masters' = (masters \ ({owner[ShardOf(r)]} \cap alive)) \cup {r}
  /\ pending' = pending \ {r}
  /\ UNCHANGED <<alive, noticed, foreign, inputVars, localVars, events, result, commanded, unheard>>

\* Or it does not, in the time a manual failover has.
Abort(r) ==
  /\ r \in pending
  /\ pending' = pending \ {r}
  /\ UNCHANGED <<alive, noticed, owner, masters, linked, foreign, inputVars, localVars, reportVars>>

Sync(r) ==
  /\ IsReplica(r)
  /\ owner[ShardOf(r)] \in alive
  /\ linked' = linked \cup {r}
  /\ UNCHANGED <<alive, noticed, owner, masters, pending, foreign, inputVars, localVars, reportVars>>

\* Other threads have operations and chaos of their own.
OtherOperation(r) ==
  /\ foreign < MaxForeign
  /\ foreign' = foreign + 1
  /\ IsReplica(r)
  /\ pending' = pending \cup {r}
  /\ UNCHANGED <<alive, noticed, owner, masters, linked, inputVars, localVars, reportVars>>

OtherChaos(n) ==
  /\ Cardinality(Node \ alive) < MaxKills
  /\ Dies(n)
  /\ UNCHANGED <<noticed, owner, masters, pending, foreign, inputVars, localVars, events, result, commanded, unheard>>

ClusterStep ==
  \E n \in Node : Notice(n) \/ Promote(n) \/ TakeOver(n) \/ Abort(n) \/ Sync(n)
                 \/ OtherOperation(n) \/ OtherChaos(n)

----------------------------------------------------------------------------
(* Replies *)

\* What get_current_nodes returns: all nodes, or nothing, because each node it
\* asks may be dead or let the time-out pass.
Replies == {{}, IF alive = {} THEN {} ELSE Node}

\* The reply without the failed nodes.
Unfailed(reply) == reply \ noticed

ListedReplicas(nodes, s) == (nodes \cap Members(s)) \ masters

\* The first node that matches: any of the masters of the shard that is named,
\* or the node with the port, if it is a primary.
FindPrimary(nodes, t) ==
  {n \in nodes \cap masters : IF t.kind = "role" THEN ShardOf(n) = t.shard ELSE n = t.node}

----------------------------------------------------------------------------
(* An operation *)

Goto(op, step) == pc' = [pc EXCEPT ![op] = step]

\* A delay after the operation that raises fails it all the same.
Report(op, success) ==
  /\ \E r \in IF success THEN {"ok", "failed"} ELSE {"failed"} :
       result' = [result EXCEPT ![op] = r]
  /\ Goto(op, "done")

reportsNothing == UNCHANGED reportVars
keepsTarget == UNCHANGED <<found, candidates, replica>>
notWaiting == UNCHANGED <<attempt, toCheck, late>>

\* Chaos before and during the operation is over when the operation starts, and
\* the operation is told what it killed.
OwnChaos(op, n) ==
  /\ Cardinality(Node \ alive) < MaxKills
  /\ pc[op] = "chaos"
  /\ Dies(n)
  /\ events' = [events EXCEPT ![op] = @ \cup {n}]
  /\ UNCHANGED <<noticed, owner, masters, pending, foreign, inputVars, localVars, result, commanded, unheard>>

\* A delay that raises ends the operation.
Start(op) ==
  /\ pc[op] = "chaos"
  /\ \/ Goto(op, "lookup") /\ UNCHANGED result
     \/ Report(op, FALSE)
  /\ UNCHANGED <<clusterVars, inputVars, events, commanded, moved, unheard>>
  /\ keepsTarget /\ notWaiting

\* The target among the live nodes, if anybody answers.
Lookup(op) ==
  /\ pc[op] = "lookup"
  /\ \E reply \in Replies :
     LET matches == FindPrimary(Unfailed(reply), target[op]) IN
     IF matches # {}
     THEN /\ \E n \in matches : found' = [found EXCEPT ![op] = n]
          /\ Goto(op, "listReplicas")
     ELSE Goto(op, "lookupDead") /\ UNCHANGED found
  /\ UNCHANGED <<clusterVars, inputVars, candidates, replica>>
  /\ notWaiting /\ reportsNothing

\* Faulty variant of KilledByOwnChaos: any failed node is excused.
HasFailed(op, n) == n \in noticed

KilledByOwnChaos(op, n) == n \in events[op]

\* The target among all nodes; it is excused if it failed and this operation's
\* chaos killed it.  By now the first match may be a new primary.
LookupDead(op) ==
  /\ pc[op] = "lookupDead"
  /\ \E reply \in Replies :
     LET matches == FindPrimary(reply, target[op]) IN
     \/ \E n \in matches \cap noticed :
          /\ KilledByOwnChaos(op, n)
          /\ found' = [found EXCEPT ![op] = n]
          /\ Goto(op, "liveReplicas")
          /\ UNCHANGED result
     \/ /\ \/ matches = {}
           \/ \E n \in matches : ~(n \in noticed /\ KilledByOwnChaos(op, n))
        /\ Report(op, FALSE)
        /\ UNCHANGED found
  /\ UNCHANGED <<clusterVars, inputVars, candidates, replica, events, commanded, moved, unheard>>
  /\ notWaiting

\* Without any answer there seem to be no replicas, and the operation is skipped
\* with success.
SkipUnheard(op) ==
  /\ Report(op, TRUE)
  /\ unheard' = unheard \cup {op}

\* Faulty variant of LiveReplicas: the outcomes are swapped.
LiveReplicasSwapped(op) ==
  /\ pc[op] = "liveReplicas"
  /\ \E reply \in Replies :
     IF ListedReplicas(Unfailed(reply), ShardOf(found[op])) # {}
     THEN Report(op, TRUE) /\ UNCHANGED unheard
     ELSE Goto(op, "askReplicas") /\ UNCHANGED <<result, unheard>>
  /\ UNCHANGED <<clusterVars, inputVars, events, commanded, moved>>
  /\ keepsTarget /\ notWaiting

\* Live replicas of the dead primary are waited for.
LiveReplicas(op) ==
  /\ pc[op] = "liveReplicas"
  /\ \E reply \in Replies :
     IF ListedReplicas(Unfailed(reply), ShardOf(found[op])) # {}
     THEN Goto(op, "attempt") /\ UNCHANGED <<result, unheard>>
     ELSE IF reply = {} THEN SkipUnheard(op)
     ELSE Goto(op, "askReplicas") /\ UNCHANGED <<result, unheard>>
  /\ UNCHANGED <<clusterVars, inputVars, events, commanded, moved>>
  /\ keepsTarget /\ notWaiting

\* The nodes' own lists have no filter: a dead replica of the dead primary
\* counts, and may count although somebody else was promoted.
AskForReplicas(op) ==
  /\ pc[op] = "askReplicas"
  /\ LET s == ShardOf(found[op])
         listed == ListedReplicas(Node, s) IN
     \/ SkipUnheard(op)
     \/ /\ alive # {} /\ listed # {}
        /\ owner[s] # found[op] => ~(listed \subseteq alive)
        /\ Goto(op, "attempt") /\ UNCHANGED <<result, unheard>>
     \/ /\ alive # {}
        /\ owner[s] = found[op] => listed = {}
        /\ Report(op, TRUE) /\ UNCHANGED unheard
  /\ UNCHANGED <<clusterVars, inputVars, events, commanded, moved>>
  /\ keepsTarget /\ notWaiting

\* Replicas of the target's shard, dead or alive.  The nodes' own lists, which
\* are asked when there are none, then have none either.
ListReplicas(op) ==
  /\ pc[op] = "listReplicas"
  /\ \E reply \in Replies :
     LET listed == ListedReplicas(reply, ShardOf(found[op])) IN
     IF listed # {}
     THEN /\ candidates' = [candidates EXCEPT ![op] = listed]
          /\ Goto(op, "pick")
          /\ UNCHANGED result
     ELSE Report(op, FALSE) /\ UNCHANGED candidates
  /\ UNCHANGED <<clusterVars, inputVars, found, replica, events, commanded, moved, unheard>>
  /\ notWaiting

\* A replica that answers a ping in time; without one the operation fails, unless
\* its chaos killed them all.
Pick(op) ==
  /\ pc[op] = "pick"
  /\ \/ \E r \in candidates[op] \cap alive :
          /\ replica' = [replica EXCEPT ![op] = r]
          /\ Goto(op, "send")
          /\ UNCHANGED result
     \/ /\ Report(op, \A r \in candidates[op] : KilledByOwnChaos(op, r))
        /\ UNCHANGED replica
  /\ UNCHANGED <<clusterVars, inputVars, found, candidates, events, commanded, moved, unheard>>
  /\ notWaiting

\* A master refuses the command, and so does a replica that has lost its master
\* unless it is forced.
Refused(op) ==
  LET r == replica[op] IN
  \/ ~IsReplica(r)
  \/ ~force[op] /\ owner[ShardOf(r)] \in noticed

\* Or it does not get it, or not in time.
Refuse(op) ==
  /\ Report(op, FALSE)
  /\ UNCHANGED <<pending, commanded>>

\* The answer may be lost, which fails the operation although the failover comes.
Accept(op) ==
  /\ ~Refused(op)
  /\ pending' = pending \cup {replica[op]}
  /\ commanded' = commanded \cup {op}
  /\ \/ Goto(op, "attempt") /\ UNCHANGED result
     \/ Report(op, FALSE)

Send(op) ==
  /\ pc[op] = "send"
  /\ Refuse(op) \/ Accept(op)
  /\ UNCHANGED <<alive, noticed, owner, masters, linked, foreign, inputVars, events, moved, unheard>>
  /\ keepsTarget /\ notWaiting

----------------------------------------------------------------------------
(* wait_for_operation_completion *)

MaxAttempts == 3

DeadlinePasses(op) ==
  /\ pc[op] \in {"attempt", "check"}
  /\ op \notin late
  /\ late' = late \cup {op}
  /\ UNCHANGED <<clusterVars, inputVars, pc, found, candidates, replica, attempt, toCheck, reportVars>>

\* Faulty variant of Attempt: the nodes of the operation's shard are enough.
AttemptOnShard(op) ==
  /\ pc[op] = "attempt"
  /\ IF op \in late
     THEN Report(op, FALSE) /\ UNCHANGED <<attempt, toCheck, moved>>
     ELSE /\ attempt' = [attempt EXCEPT ![op] = @ + 1]
          /\ toCheck' = [toCheck EXCEPT ![op] = alive \cap Members(ShardOf(found[op]))]
          /\ moved' = moved \ {op}
          /\ Goto(op, "check")
          /\ UNCHANGED result
  /\ UNCHANGED <<clusterVars, inputVars, late, events, commanded, unheard>>
  /\ keepsTarget

\* After the stabilisation sleep or a pause the clock is read; the attempt asks
\* the nodes whose processes run.
Attempt(op) ==
  /\ pc[op] = "attempt"
  /\ IF op \in late
     THEN Report(op, FALSE) /\ UNCHANGED <<attempt, toCheck, moved>>
     ELSE /\ attempt' = [attempt EXCEPT ![op] = @ + 1]
          /\ toCheck' = [toCheck EXCEPT ![op] = alive]
          /\ moved' = moved \ {op}
          /\ Goto(op, "check")
          /\ UNCHANGED result
  /\ UNCHANGED <<clusterVars, inputVars, late, events, commanded, unheard>>
  /\ keepsTarget

LinkUp(n) == n \in alive /\ (IsReplica(n) => n \in linked)

\* initial_nodes has a fixed order.
AskedNext(op) == CHOOSE n \in toCheck[op] : TRUE

\* One node after the other says that its link is up.
CheckNode(op) ==
  /\ pc[op] = "check"
  /\ toCheck[op] # {}
  /\ LinkUp(AskedNext(op))
  /\ toCheck' = [toCheck EXCEPT ![op] = @ \ {AskedNext(op)}]
  /\ UNCHANGED <<clusterVars, inputVars, pc, attempt, late>>
  /\ keepsTarget /\ reportsNothing

\* All are; the clock is not read again.
CheckPasses(op) ==
  /\ pc[op] = "check"
  /\ toCheck[op] = {}
  /\ Report(op, TRUE)
  /\ UNCHANGED <<clusterVars, inputVars, events, commanded, moved, unheard>>
  /\ keepsTarget /\ notWaiting

\* Faulty variant of CheckFails: attempts are not counted.
CheckFailsAgain(op) ==
  /\ pc[op] = "check"
  /\ toCheck[op] # {}
  /\ toCheck' = [toCheck EXCEPT ![op] = {}]
  /\ attempt' = [attempt EXCEPT ![op] = 0]
  /\ Goto(op, "attempt") /\ UNCHANGED result
  /\ UNCHANGED <<clusterVars, inputVars, late, events, commanded, moved, unheard>>
  /\ keepsTarget

\* Faulty variant of CheckFails: one attempt too many.
CheckFailsOnceMore(op) ==
  /\ pc[op] = "check"
  /\ toCheck[op] # {}
  /\ toCheck' = [toCheck EXCEPT ![op] = {}]
  /\ IF attempt[op] > MaxAttempts \/ op \in late
     THEN Report(op, FALSE)
     ELSE Goto(op, "attempt") /\ UNCHANGED result
  /\ UNCHANGED <<clusterVars, inputVars, attempt, late, events, commanded, moved, unheard>>
  /\ keepsTarget

\* A link is down, or a node does not answer in time; the next attempt follows a pause,
\* if there is one and the deadline has not passed.
CheckFails(op) ==
  /\ pc[op] = "check"
  /\ toCheck[op] # {}
  /\ toCheck' = [toCheck EXCEPT ![op] = {}]
  /\ IF attempt[op] = MaxAttempts \/ op \in late
     THEN Report(op, FALSE)
     ELSE Goto(op, "attempt") /\ UNCHANGED result
  /\ UNCHANGED <<clusterVars, inputVars, attempt, late, events, commanded, moved, unheard>>
  /\ keepsTarget

----------------------------------------------------------------------------

OperationStep(op) ==
  \/ Start(op) \/ Lookup(op) \/ LookupDead(op) \/ LiveReplicas(op) \/ AskForReplicas(op)
  \/ ListReplicas(op) \/ Pick(op) \/ Send(op)
  \/ Attempt(op) \/ CheckNode(op) \/ CheckPasses(op) \/ CheckFails(op)

Init ==
  /\ alive = Node
  /\ noticed = {}
  /\ owner = [s \in Shard |-> <<s, 0>>]
  /\ masters = {<<s, 0>> : s \in Shard}
  /\ linked = Node \ masters
  /\ pending = {}
  /\ foreign = 0
  /\ target \in [Op -> Targets]
  /\ force \in [Op -> BOOLEAN]
  /\ pc = [op \in Op |-> "chaos"]
  /\ found = [op \in Op |-> NoNode]
  /\ candidates = [op \in Op |-> {}]
  /\ replica = [op \in Op |-> NoNode]
  /\ attempt = [op \in Op |-> 0]
  /\ toCheck = [op \in Op |-> {}]
  /\ late = {}
  /\ events = [op \in Op |-> {}]
  /\ result = [op \in Op |-> "none"]
  /\ commanded = {}
  /\ moved = {}
  /\ unheard = {}

\* Bound: after the last report nobody looks at the cluster.
Watched == \E op \in Op : pc[op] # "done"

Next ==
  \/ Watched /\ ClusterStep
  \/ \E op \in Op : OperationStep(op) \/ DeadlinePasses(op)
  \/ \E op \in Op, n \in Node : OwnChaos(op, n)

Spec == Init /\ [][Next]_vars

\* Every thread runs; its calls have socket time-outs.  Nothing is assumed of
\* the cluster or the clock.
FairSpec == Spec /\ \A op \in Op : WF_vars(OperationStep(op))

----------------------------------------------------------------------------

Steps == {"chaos", "lookup", "lookupDead", "liveReplicas", "askReplicas",
          "listReplicas", "pick", "send", "attempt", "check", "done"}

TypeOK ==
  /\ alive \subseteq Node
  /\ noticed \subseteq Node \ alive
  /\ owner \in [Shard -> Node]
  /\ {owner[s] : s \in Shard} \subseteq masters /\ masters \subseteq Node
  /\ linked \subseteq alive \ masters
  /\ pending \subseteq Node
  /\ foreign \in Nat
  /\ target \in [Op -> Targets]
  /\ force \in [Op -> BOOLEAN]
  /\ pc \in [Op -> Steps]
  /\ found \in [Op -> Node \cup {NoNode}]
  /\ candidates \in [Op -> SUBSET Node]
  /\ replica \in [Op -> Node \cup {NoNode}]
  /\ attempt \in [Op -> 0 .. MaxAttempts]
  /\ toCheck \in [Op -> SUBSET Node]
  /\ \A op \in Op : op \in late => pc[op] \in {"attempt", "check", "done"}
  /\ events \in [Op -> SUBSET Node]
  /\ \A op \in Op : result[op] \in IF pc[op] = "done" THEN {"ok", "failed"} ELSE {"none"}
  /\ commanded \subseteq Op
  /\ moved \subseteq Op
  /\ unheard \subseteq Op

\* An operation whose command no replica accepted is a success only if chaos of
\* its own killed the primary it was for, or all the replicas it could have
\* asked (operation_orchestrator.py:93-126, :250-282).
SuccessHasGrounds ==
  \A op \in Op : result[op] = "ok" =>
    \/ op \in commanded
    \/ found[op] \in events[op] \ alive
    \/ candidates[op] # {} /\ candidates[op] \subseteq events[op] \ alive

\* An operation that waited succeeds only with all links up: when the cluster
\* did not change while the nodes were asked one by one, every live replica of
\* every shard is then in sync with a live master, or the link was lost after it
\* was asked (orchestrator.py:589, operation_orchestrator.py:300-309).
LinksUpAtSuccess ==
  [][\A op \in Op :
       pc[op] = "check" /\ result'[op] = "ok" /\ op \notin moved =>
         \A n \in alive : LinkUp(n)]_vars

\* A replica that waits for its election is waited for: an operation on a dead
\* primary is skipped, and the links not looked at, only if nobody is left to
\* fail over to or somebody has.  The exception is that nobody answered
\* (operation_orchestrator.py:97-127).
WaitingReplicasCount ==
  [][\A op \in Op :
       pc[op] \in {"liveReplicas", "askReplicas"} /\ result'[op] = "ok" =>
         \/ op \in unheard'
         \/ owner[ShardOf(found[op])] # found[op]
         \/ Members(ShardOf(found[op])) \cap alive = {}]_vars

\* What is left of an operation: attempts at the links, the steps before and in
\* them, and the nodes that this attempt has yet to ask.
AttemptsLeft(op) == MaxAttempts - attempt[op]

StepsLeft(op) ==
  CASE pc[op] = "chaos"                          -> 8
    [] pc[op] = "lookup"                         -> 7
    [] pc[op] \in {"lookupDead", "listReplicas"} -> 6
    [] pc[op] \in {"liveReplicas", "pick"}       -> 5
    [] pc[op] \in {"askReplicas", "send"}        -> 4
    [] pc[op] = "check"                          -> 3
    [] pc[op] = "attempt"                        -> 2
    [] pc[op] = "done"                           -> 0

Left(op) == <<AttemptsLeft(op), StepsLeft(op), Cardinality(toCheck[op])>>

\* Whatever an operation does leaves less of it to do, and nobody else, neither
\* the cluster nor another operation, can give it more: it needs no clock to end
\* (operation_orchestrator.py:299-319).
OperationsRunOut ==
  [][\A op \in Op :
       \/ UNCHANGED <<pc[op], attempt[op], toCheck[op]>>
       \/ Left(op)' \in Amounts(3) /\ Less(Left(op)', Left(op))]_vars

\* Every operation reports, whatever the cluster does (operation_orchestrator.py:299).
OperationsReport == \A op \in Op : <>(result[op] # "none")
=============================================================================
