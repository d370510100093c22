------------------------------ MODULE ChaosWave ------------------------------
(***************************************************************************)
(* Waves of operations with chaos: the worker threads of ParallelExecutor  *)
(* (parallel_executor.py), the chaos phases ChaosCoordinator runs for each *)
(* of them (chaos_coordinator.py), the process kill (base.py) and the      *)
(* Valkey cluster that reacts to it, composed with the selector they all   *)
(* share.                                                                  *)
(*                                                                         *)
(* A thread carries one operation of the wave:                             *)
(*   query -> convert -> update -> select -> [refresh -> kill]* -> schedule*)
(*         -> operate -> [refresh -> kill] -> done                         *)
(* where each arrow is a point at which other threads may run: a network   *)
(* query, a sleep, or a release of the selector's lock.                    *)
(***************************************************************************)
EXTENDS ChaosTargetSelector, Countdown

CONSTANTS
  Thread,         \* worker threads: one per operation of the first wave
  Configs,        \* chaos configurations an operation may run under
  KillOutcomes,   \* results os.kill may have on a live process
  MaxWaves,       \* bound: number of waves
  MaxPromotions,  \* bound: number of failovers the cluster performs
  NoNode          \* "None"

Phase == {"before", "during", "after"}

\* ChaosConfig, with only what the control flow reads.  raises names the
\* points where a malformed delay makes Python raise: its randomisation, the
\* sleep before the operation, the formatting of the scheduled delay, the
\* deferred sleep.
Config == [selection : Selection,
           phases    : SUBSET Phase,
           raises    : SUBSET {"timing", "before", "schedule", "after"}]

\* The targets the generator and the randomisation choose among: a strategy
\* and no names.
DrawnSelections ==
  {[strategy |-> s, nodes |-> {}] : s \in {"random", "primary_only", "replica_only"}}

\* Victims a scenario names stay.
RandomizedSelections(c) ==
  IF c.selection.strategy = "specific" THEN {c.selection} ELSE DrawnSelections

\* _randomize_chaos_config keeps the delays and draws one phase and one strategy.
RandomizeChaosConfig(c) ==
  {[selection |-> s, phases |-> {p}, raises |-> c.raises] :
     s \in RandomizedSelections(c), p \in Phase}

\* _generate_random_chaos_config: one phase, one strategy, delays that are numbers.
GeneratedConfigs ==
  {[selection |-> s, phases |-> {p}, raises |-> {}] : s \in DrawnSelections, p \in Phase}

\* ChaosResult: a kill that was tried, or a report that none could be.
CoordinationFailure ==
  [phase |-> "coordination", node |-> NoNode, ok |-> FALSE, role |-> "none"]

Event == [phase : Phase, node : Node, ok : BOOLEAN, role : Role] \cup {CoordinationFailure}

ASSUME WaveAssumption ==
  /\ Configs \subseteq Config
  /\ Configs # {}
  /\ KillOutcomes \subseteq BOOLEAN
  /\ MaxWaves \in Nat \ {0}
  /\ MaxPromotions \in Nat
  /\ NoNode \notin Node

\* The reply of get_live_nodes when nobody answers.
NoReply == [n \in {} |-> "replica"]

Reply == UNION {[S -> Role] : S \in SUBSET Node}

\* The value of a configuration that has not been drawn yet.
SomeConfig == CHOOSE c \in Configs : TRUE

VARIABLES
  pc,           \* where each thread is
  phase,        \* the chaos phase it is injecting, if any
  config,       \* its (possibly randomised) ChaosConfig
  snapshot,     \* its last get_live_nodes reply, not yet written back
  target,       \* the node select_target gave it
  deferred,     \* it holds a deferred-chaos placeholder
  events,       \* its chaos results
  registered,   \* nodes registered with the validator as chaos-killed
  wave,         \* current wave
  dead,         \* processes that were killed
  failed,       \* dead nodes the cluster has flagged as failed
  clusterRole,  \* roles in the Valkey cluster
  promotions    \* failovers so far

threadVars  == <<pc, phase, config, snapshot, target, deferred, events>>
clusterVars == <<dead, failed, clusterRole, promotions>>
waveVars    == <<registered, wave>>
vars == <<selectorVars, threadVars, waveVars, clusterVars>>

----------------------------------------------------------------------------
(* The Valkey cluster (external) *)

LiveMasters == {n \in Node \ dead : clusterRole[n] = "primary"}

\* get_live_nodes asks any node that answers and drops the failed ones, so a
\* dead node stays listed until the cluster flags it.
LiveNodes == Node \ failed

DetectFailure(n) ==
  /\ n \in dead \ failed
  /\ failed' = failed \cup {n}
  /\ UNCHANGED <<selectorVars, threadVars, waveVars, dead, clusterRole, promotions>>

\* Replica r takes over its shard; a primary that is alive is demoted.
Promote(r) ==
  /\ promotions < MaxPromotions
  /\ r \notin dead
  /\ clusterRole[r] = "replica"
  /\ clusterRole' = [n \in Node |->
       IF n = r THEN "primary"
       ELSE IF ShardOf[n] = ShardOf[r] /\ n \notin dead THEN "replica"
       ELSE clusterRole[n]]
  /\ promotions' = promotions + 1

\* Automatic failover: elected by a majority once every primary of the shard
\* is flagged.
AutoFailover(r) ==
  /\ \A n \in Members(ShardOf[r]) : clusterRole[n] = "primary" => n \in failed
  /\ Cardinality(LiveMasters) >= Quorum
  /\ Promote(r)
  /\ UNCHANGED <<selectorVars, threadVars, waveVars, dead, failed>>

----------------------------------------------------------------------------
(* Topology refresh and target selection *)

QueryLiveNodes(t) ==
  /\ pc[t] = "query"
  /\ \E c \in Configs : config' = [config EXCEPT ![t] = c]
  /\ \/ /\ LiveNodes # {}
        /\ Node \ dead # {}
        /\ snapshot' = [snapshot EXCEPT ![t] = [n \in LiveNodes |-> clusterRole[n]]]
        /\ pc' = [pc EXCEPT ![t] = "convert"]
     \/ /\ pc' = [pc EXCEPT ![t] = "select"]   \* nobody answered in time
        /\ UNCHANGED snapshot
  /\ UNCHANGED <<selectorVars, phase, target, deferred, events, waveVars, clusterVars>>

\* _convert_dict_nodes_to_nodeinfo writes the roles into the shared NodeInfo
\* objects, without the selector's lock.
ConvertRoles(t) ==
  /\ pc[t] = "convert"
  /\ role' = [n \in Node |-> IF n \in DOMAIN snapshot[t] THEN snapshot[t][n] ELSE role[n]]
  /\ pc' = [pc EXCEPT ![t] = "update"]
  /\ UNCHANGED <<clusterNodes, killedNodeIds, phase, config, snapshot, target,
                 deferred, events, waveVars, clusterVars>>

UpdateTopology(t) ==
  /\ pc[t] = "update"
  /\ UpdateClusterTopology(DOMAIN snapshot[t])
  /\ snapshot' = [snapshot EXCEPT ![t] = NoReply]
  /\ pc' = [pc EXCEPT ![t] = "select"]
  /\ UNCHANGED <<role, phase, config, target, deferred, events, waveVars, clusterVars>>

\* The thread starts phase p, or moves on to scheduling when p is "none".
Enter(t, p) ==
  /\ phase' = [phase EXCEPT ![t] = p]
  /\ pc' = [pc EXCEPT ![t] = IF p = "none" THEN "schedule" ELSE "refresh"]

ImmediatePhaseAfter(p, c) ==
  IF p = "select" /\ "before" \in c.phases THEN "before"
  ELSE IF p # "during" /\ "during" \in c.phases THEN "during"
  ELSE "none"

SelectChaosTarget(t) ==
  /\ pc[t] = "select"
  /\ \E n \in Node :
       /\ SelectTarget(config[t].selection, n)
       /\ target' = [target EXCEPT ![t] = n]
  /\ Enter(t, ImmediatePhaseAfter("select", config[t]))
  /\ UNCHANGED <<role, config, snapshot, deferred, events, waveVars, clusterVars>>

FindNoTarget(t) ==
  /\ pc[t] = "select"
  /\ Selectable(config[t].selection) = {}
  /\ pc' = [pc EXCEPT ![t] = "explain"]
  /\ UNCHANGED <<selectorVars, phase, config, snapshot, target, deferred,
                 events, waveVars, clusterVars>>

\* get_safety_block_reason takes the lock again: it explains the selection by
\* the selector's state now, not by the state select_target decided on.
ExplainNoTarget(t) ==
  /\ pc[t] = "explain"
  /\ events' = [events EXCEPT ![t] =
       IF SafetyBlocked(config[t].selection) THEN @ ELSE @ \cup {CoordinationFailure}]
  /\ pc' = [pc EXCEPT ![t] = "operate"]
  /\ UNCHANGED <<selectorVars, phase, config, snapshot, target, deferred,
                 waveVars, clusterVars>>

----------------------------------------------------------------------------
(* Chaos phases *)

DelayRaises(t) ==
  \/ /\ pc[t] \in {"refresh", "schedule"} /\ phase[t] # "after" /\ events[t] = {}
     /\ "timing" \in config[t].raises
  \/ pc[t] = "refresh" /\ phase[t] = "before" /\ "before" \in config[t].raises
  \/ /\ pc[t] = "schedule"
     /\ "after" \in config[t].phases
     /\ "schedule" \in config[t].raises

DeferredSleepRaises(t) ==
  pc[t] = "refresh" /\ phase[t] = "after" /\ "after" \in config[t].raises

KilledByThread(t) == \E e \in events[t] : e.ok

\* The skeleton of the except clause, up to what is released and reported and
\* where the thread continues.
AbandonCoordination(t, results, next) ==
  /\ DelayRaises(t)
  /\ events' = [events EXCEPT ![t] = results]
  /\ target' = [target EXCEPT ![t] = NoNode]
  /\ phase' = [phase EXCEPT ![t] = "none"]
  /\ pc' = [pc EXCEPT ![t] = next]
  /\ UNCHANGED <<clusterNodes, role, config, snapshot, deferred, waveVars, clusterVars>>

ReleaseUnlessKilled(t) ==
  IF KilledByThread(t) THEN UNCHANGED killedNodeIds ELSE UnrecordKill(target[t])

\* Faulty variants of CoordinationError: the reservation is always released, the
\* results so far are overwritten, or the thread retries.
CoordinationErrorReleasing(t) ==
  /\ AbandonCoordination(t, events[t] \cup {CoordinationFailure}, "operate")
  /\ UnrecordKill(target[t])
CoordinationErrorOverwriting(t) ==
  /\ AbandonCoordination(t, {CoordinationFailure}, "operate")
  /\ ReleaseUnlessKilled(t)
CoordinationErrorRetrying(t) ==
  /\ AbandonCoordination(t, events[t], "query")
  /\ ReleaseUnlessKilled(t)

\* The except clause of coordinate_chaos_with_operation.
CoordinationError(t) ==
  /\ AbandonCoordination(t, events[t] \cup {CoordinationFailure}, "operate")
  /\ ReleaseUnlessKilled(t)

\* _inject_chaos first refreshes the target's role, if anybody answers and
\* still lists the node.
RefreshTargetRole(t) ==
  /\ pc[t] = "refresh"
  /\ ~DelayRaises(t) /\ ~DeferredSleepRaises(t)
  /\ \/ /\ target[t] \in LiveNodes
        /\ Node \ dead # {}
        /\ role' = [role EXCEPT ![target[t]] = clusterRole[target[t]]]
     \/ UNCHANGED role
  /\ pc' = [pc EXCEPT ![t] = "kill"]
  /\ UNCHANGED <<clusterNodes, killedNodeIds, phase, config, snapshot, target,
                 deferred, events, waveVars, clusterVars>>

\* A process that is already gone counts as killed.
KillResults(n) == IF n \in dead THEN {TRUE} ELSE KillOutcomes

AttemptKill(t, n, ok) ==
  /\ dead' = IF ok THEN dead \cup {n} ELSE dead
  /\ events' = [events EXCEPT ![t] = @ \cup
       {[phase |-> phase[t], node |-> n, ok |-> ok, role |-> role[n]]}]

\* Faulty variant of Killing: a failed kill keeps its reservation.
KillingWithoutRelease(t, n, ok) ==
  /\ AttemptKill(t, n, ok)
  /\ UNCHANGED killedNodeIds

\* A failed kill releases the reservation.
Killing(t, n, ok) ==
  /\ AttemptKill(t, n, ok)
  /\ IF ok THEN UNCHANGED killedNodeIds ELSE UnrecordKill(n)

\* inject_process_chaos, the capture of the role and, if the kill failed, the
\* release of the reservation.
InjectChaos(t) ==
  /\ pc[t] = "kill"
  /\ \E ok \in KillResults(target[t]) : Killing(t, target[t], ok)
  /\ IF phase[t] = "after"
     THEN /\ phase' = [phase EXCEPT ![t] = "none"]
          /\ pc' = [pc EXCEPT ![t] = "done"]
          /\ target' = [target EXCEPT ![t] = NoNode]
          /\ deferred' = [deferred EXCEPT ![t] = FALSE]
     ELSE /\ Enter(t, ImmediatePhaseAfter(phase[t], config[t]))
          /\ UNCHANGED <<target, deferred>>
  /\ UNCHANGED <<clusterNodes, role, config, snapshot, waveVars,
                 failed, clusterRole, promotions>>

\* Leave a placeholder for chaos after the operation, keeping the target.
Defer(t) ==
  /\ "after" \in config[t].phases
  /\ deferred' = [deferred EXCEPT ![t] = TRUE]
  /\ UNCHANGED <<killedNodeIds, target>>

FinishSchedule(t) ==
  /\ pc[t] = "schedule"
  /\ ~DelayRaises(t)
  /\ pc' = [pc EXCEPT ![t] = "operate"]
  /\ UNCHANGED <<clusterNodes, role, phase, config, snapshot, events, waveVars, clusterVars>>

ForgetTarget(t) ==
  /\ "after" \notin config[t].phases
  /\ target' = [target EXCEPT ![t] = NoNode]
  /\ UNCHANGED deferred

\* Faulty variant of ScheduleChaos: the reservation is kept although no phase
\* used it.
ScheduleChaosLeaking(t) ==
  /\ FinishSchedule(t)
  /\ Defer(t) \/ (ForgetTarget(t) /\ UNCHANGED killedNodeIds)

\* The end of coordinate_chaos_with_operation: the reservation is released
\* when no phase tried a kill and none is deferred.
ScheduleChaos(t) ==
  /\ FinishSchedule(t)
  /\ \/ Defer(t)
     \/ /\ ForgetTarget(t)
        /\ IF events[t] = {} THEN UnrecordKill(target[t]) ELSE UNCHANGED killedNodeIds

----------------------------------------------------------------------------
(* The operation and the wave *)

\* execute_operation: the failover it requests may promote some replica, or
\* the operation may fail with no effect.
ExecuteOperation(t) ==
  /\ pc[t] = "operate"
  /\ \/ \E r \in Node : Promote(r)
     \/ UNCHANGED <<clusterRole, promotions>>
  /\ IF deferred[t]
     THEN /\ phase' = [phase EXCEPT ![t] = "after"]
          /\ pc' = [pc EXCEPT ![t] = "refresh"]
     ELSE /\ pc' = [pc EXCEPT ![t] = "done"]
          /\ UNCHANGED phase
  /\ UNCHANGED <<selectorVars, config, snapshot, target, deferred, events,
                 waveVars, dead, failed>>

\* The except clause of execute_single_operation: the pending reservation is
\* released unless the thread killed the node, and no chaos event is returned.
OperationError(t) ==
  /\ DeferredSleepRaises(t)
  /\ ReleaseUnlessKilled(t)
  /\ events' = [events EXCEPT ![t] = {}]
  /\ target' = [target EXCEPT ![t] = NoNode]
  /\ deferred' = [deferred EXCEPT ![t] = FALSE]
  /\ phase' = [phase EXCEPT ![t] = "none"]
  /\ pc' = [pc EXCEPT ![t] = "done"]
  /\ UNCHANGED <<clusterNodes, role, config, snapshot, waveVars, clusterVars>>

KilledNodes(results) == {e.node : e \in {r \in results : r.ok}}

\* The threads with operations left start the next wave; after the last wave
\* or a failed validation none does.
NextWave ==
  /\ \A t \in Thread : pc[t] \in {"done", "joined"}
  /\ \E t \in Thread : pc[t] = "done"
  /\ events' = [t \in Thread |-> {}]
  /\ config' = [t \in Thread |-> SomeConfig]
  /\ \E Remaining \in SUBSET {t \in Thread : pc[t] = "done"} :
       /\ wave = MaxWaves => Remaining = {}
       /\ pc' = [t \in Thread |-> IF t \in Remaining THEN "query" ELSE "joined"]
       /\ wave' = IF Remaining = {} THEN wave ELSE wave + 1
  /\ UNCHANGED <<selectorVars, phase, snapshot, target, deferred, clusterVars>>

WaveKills == KilledNodes(UNION {events[t] : t \in Thread})

\* The pool is joined and the wave's kills are registered with the validator
\* (_register_killed_nodes) before the next wave starts.
EndWave ==
  /\ NextWave
  /\ registered' = registered \cup WaveKills

----------------------------------------------------------------------------
(* Specification *)

Init ==
  /\ SelectorInit
  /\ pc = [t \in Thread |-> "query"]
  /\ phase = [t \in Thread |-> "none"]
  /\ config = [t \in Thread |-> SomeConfig]
  /\ snapshot = [t \in Thread |-> NoReply]
  /\ target = [t \in Thread |-> NoNode]
  /\ deferred = [t \in Thread |-> FALSE]
  /\ events = [t \in Thread |-> {}]
  /\ registered = {}
  /\ wave = 1
  /\ dead = {}
  /\ failed = {}
  /\ clusterRole = InitialRole
  /\ promotions = 0

ThreadStep(t) ==
  \/ QueryLiveNodes(t)
  \/ ConvertRoles(t)
  \/ UpdateTopology(t)
  \/ SelectChaosTarget(t)
  \/ FindNoTarget(t)
  \/ ExplainNoTarget(t)
  \/ CoordinationError(t)
  \/ RefreshTargetRole(t)
  \/ InjectChaos(t)
  \/ ScheduleChaos(t)
  \/ ExecuteOperation(t)
  \/ OperationError(t)

ClusterStep == \E n \in Node : DetectFailure(n) \/ AutoFailover(n)

Joined == (\A t \in Thread : pc[t] = "joined") /\ UNCHANGED vars

Next ==
  \/ \E t \in Thread : ThreadStep(t)
  \/ ClusterStep
  \/ EndWave
  \/ Joined

Spec == Init /\ [][Next]_vars

\* The threads of a pool are scheduled, and every call they make returns: the
\* queries and commands have timeouts, the sleeps are finite.
FairSpec == Spec /\ (\A t \in Thread : WF_vars(ThreadStep(t))) /\ WF_vars(EndWave)

----------------------------------------------------------------------------
(* Properties *)

TypeOK ==
  /\ SelectorTypeOK
  /\ pc \in [Thread -> {"query", "convert", "update", "select", "explain", "refresh",
                        "kill", "schedule", "operate", "done", "joined"}]
  /\ phase \in [Thread -> Phase \cup {"none"}]
  /\ config \in [Thread -> Configs]
  /\ snapshot \in [Thread -> Reply]
  /\ target \in [Thread -> Node \cup {NoNode}]
  /\ deferred \in [Thread -> BOOLEAN]
  /\ events \in [Thread -> SUBSET Event]
  /\ registered \subseteq Node
  /\ wave \in 1..MaxWaves
  /\ dead \subseteq Node
  /\ failed \subseteq dead
  /\ clusterRole \in [Node -> Role]
  /\ promotions \in 0..MaxPromotions

\* Chaos never kills a whole shard: in every shard some process is neither
\* dead nor reserved, however the threads of a wave interleave, whatever stale
\* topology they filter by and whichever kills fail (base.py:190-198).
ShardSurvives == \A s \in Shard : Members(s) \ (dead \cup killedNodeIds) # {}

\* A thread in a phase has a target, and a placeholder waits for the operation.
ControlType(t) ==
  /\ pc[t] \in {"refresh", "kill"} => phase[t] \in Phase
  /\ pc[t] \in {"refresh", "kill", "schedule"} \/ deferred[t] => target[t] \in Node
  /\ deferred[t] => \/ pc[t] = "operate"
                    \/ pc[t] \in {"refresh", "kill"} /\ phase[t] = "after"

TypeInv == TypeOK /\ \A t \in Thread : ControlType(t)

\* Chaos leaves every shard a running process: slot coverage survives
\* (docs/chaos-engine-design.md:120).
NoShardKilled == \A s \in Shard : Members(s) \ dead # {}

\* Until the cluster's first failover a majority of the shards keeps a live
\* master (base.py:301-306), while threads select, refresh and kill beside each
\* other.  From then on a victim may be counted for a role it no longer has, and
\* MajorityKept fails.
QuorumKept == promotions = 0 => Cardinality(LiveMasters) >= Quorum

\* Chaos never costs the cluster its majority of masters ("Maintain cluster
\* quorum during chaos injection", docs/chaos-engine-design.md:121): neither by a
\* victim that was counted for a role it had before a failover, nor by roles that
\* other threads write while this one filters (chaos_coordinator.py:234, :342).
MajorityKept == Cardinality(LiveMasters) >= Quorum

\* Thread t owns its reservation: it was given a target and none of its kills
\* has failed yet.
Holds(t) == target[t] # NoNode /\ \A e \in events[t] : e.ok

\* Only the owner of a reservation gives it back, and never after the kill
\* (the except clauses and the failed-kill path of three different functions
\* may all call unrecord_kill).
ReleasedByOwnerOnly ==
  [][\A n \in killedNodeIds \ killedNodeIds' :
       n \notin dead' /\ \E t \in Thread : Holds(t) /\ target[t] = n /\ pc'[t] # pc[t]]_vars

\* Every process chaos killed is known to the validator, or is in a result
\* the wave has not handed over yet: no kill is taken for an unexpected
\* failure (fuzzer_engine.py:379-395).
NoKillForgotten ==
  \A n \in dead : n \in registered \/ \E t \in Thread : n \in KilledNodes(events[t])

\* The wave is over: no thread is between its first and its last step.
WaveOver == \A t \in Thread : pc[t] \in {"done", "joined"}

\* No reservation outlives its operation: what is still recorded as killed at
\* the end of a wave is exactly what was killed, so later waves lose no target
\* to a leaked reservation and regain no dead one.
ReservationsSettled == WaveOver => killedNodeIds = dead

\* A reservation is always resolved, by a kill or by a release.
ReservationResolved ==
  \A n \in Node : (n \in killedNodeIds) ~> (n \in dead \/ n \notin killedNodeIds)

\* What is left to a thread: waves, and steps of its operation in this one.
StepsLeft(t) ==
  CASE pc[t] = "query"   -> 14
    [] pc[t] = "convert" -> 13
    [] pc[t] = "update"  -> 12
    [] pc[t] = "select"  -> 11
    [] pc[t] = "refresh" -> CASE phase[t] = "before" -> 10
                              [] phase[t] = "during" -> 8
                              [] OTHER               -> 3
    [] pc[t] = "kill"    -> CASE phase[t] = "before" -> 9
                              [] phase[t] = "during" -> 7
                              [] OTHER               -> 2
    [] pc[t] \in {"explain", "schedule"} -> 6
    [] pc[t] = "operate" -> 5
    [] pc[t] = "done"    -> 1
    [] pc[t] = "joined"  -> 0

Left(t) == <<MaxWaves - wave, StepsLeft(t)>>

\* Whatever moves a thread leaves less to it, its own errors, the errors of its
\* chaos and the end of a wave included: no phase, operation or wave is ever
\* done again, and no other thread can send it back (chaos_coordinator.py:193,
\* parallel_executor.py:133, :166).
ThreadsRunOut ==
  [][\A t \in Thread :
       \/ UNCHANGED <<pc[t], wave>>
       \/ Left(t)' \in Amounts(2) /\ Less(Left(t)', Left(t))]_vars

\* Every operation of every wave completes and the pool is joined.
AllJoined == <>(\A t \in Thread : pc[t] = "joined")

(***************************************************************************)
(* The argument.  A thread tries its reservation until a kill succeeds or  *)
(* fails.  Until then the reservation is Pending: the thread alone has it, *)
(* it is recorded, and its node is alive.  After a success it is Spent: a  *)
(* later phase finds the node dead.  After a failure the node is free, so  *)
(* no phase may follow, which the conditions on configurations ensure: no  *)
(* named victims, and at most one phase unless kills always succeed.       *)
(***************************************************************************)
SafeConfigs ==
  /\ \A c \in Configs : c.selection.strategy # "specific"
  /\ FALSE \in KillOutcomes => \A c \in Configs : \A p, q \in c.phases : p = q

\* The except clause of execute_single_operation throws the results away, so
\* the deferred sleep may raise only when "after" is the only phase.
ResultsKept ==
  \A c \in Configs : {"after"} \subseteq c.phases \cap c.raises => c.phases = {"after"}

Pending(t) == target[t] # NoNode /\ events[t] = {}

Spent(t) == target[t] \in dead /\ KilledByThread(t) /\ config[t].phases # {"after"}

\* What a thread that is about to kill relies on.
Armed(t) == Pending(t) \/ Spent(t)

\* The control of thread t agrees with its reservation.
ControlInv(t) ==
  /\ pc[t] \in {"query", "convert", "update", "select"} => events[t] = {}
  /\ pc[t] \in {"query", "convert", "update", "select", "explain", "done", "joined"} =>
       target[t] = NoNode
  /\ pc[t] \in {"refresh", "kill"} => Armed(t) /\ phase[t] \in config[t].phases
  /\ pc[t] = "schedule" =>
       /\ target[t] # NoNode
       /\ "after" \in config[t].phases => Armed(t)
  /\ pc[t] = "operate" =>
       IF deferred[t] THEN Armed(t) /\ "after" \in config[t].phases ELSE target[t] = NoNode

ReservationInv ==
  /\ dead \subseteq killedNodeIds
  /\ \A t \in Thread : Pending(t) => target[t] \in killedNodeIds \ dead
  /\ \A t, u \in Thread : Pending(t) /\ Pending(u) /\ target[t] = target[u] => t = u
  /\ \A n \in killedNodeIds \ dead : \E t \in Thread : Pending(t) /\ target[t] = n

SurvivorInv == \A s \in Shard : Members(s) \ killedNodeIds # {}

\* The inductive invariant: every conjunct is needed to carry the others over
\* a step, and together they imply the safety properties above.
IInv ==
  /\ TypeInv
  /\ \A t \in Thread : ControlInv(t)
  /\ ReservationInv
  /\ SurvivorInv

\* Waves implement the ledger of reservations and kills.
Ledger == INSTANCE KillLedger WITH reserved <- killedNodeIds

ImplementsLedger == Ledger!LedgerSpec
=============================================================================
