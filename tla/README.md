# Formal models of valkey-fuzzer

TLA+ modules, TLC configurations and TLAPS proofs for the fuzzer under
`src/`. Paths below are relative to the repository.

## The system

The fuzzer starts a Valkey cluster of local processes, runs waves of failover
operations against it from a thread pool, kills processes around those
operations, and validates the cluster after every wave.

| Component | State | Operations | Interacts with |
|---|---|---|---|
| Chaos target selector (`src/chaos_engine/base.py`, `ChaosTargetSelector`) | last topology, initial topology, killed-or-reserved node ids, one lock | reset, update topology, select (and reserve), unrecord, record recovery, explain a blocked selection | called by every worker thread; reads `NodeInfo.role`, which others write |
| Process chaos engine (`base.py`) | pid per node, active chaos, history | inject, stop, cleanup | `os.kill` |
| Chaos coordinator (`fuzzer_engine/chaos_coordinator.py`) | history, engine, RNG | coordinate chaos with an operation, inject, update a restarted node | selector, engine, cluster connection |
| Parallel executor (`parallel_executor.py`) | local to a run: groups, waves, results | execute waves; execute one operation with its chaos | coordinator, operation orchestrator, validation callback |
| Operation orchestrator (`operation_orchestrator.py`) | active operations, cached clients | failover: resolve target, send, wait for completion | cluster |
| Fuzzer engine (`fuzzer_engine.py`) | current coordinator, logger | create, wait ready, load data, run waves, register kills, validate, decide the verdict, clean up | all of the above |
| Cluster coordinator and error handler (`cluster_coordinator.py`, `error_handler.py`) | active clusters; error history, retry configuration | create with retry, readiness, restart, destroy | cluster orchestrator |
| Cluster orchestrator (`cluster_orchestrator/orchestrator.py`) | used ports, processes, client cache | plan, spawn, form, restart, terminate | OS, cluster |
| State validator (`state_validator.py`, helpers) | killed nodes by address, test data, nodes per shard | six validators under a time limit, retries, criticality | cluster, log validator |
| Log validator, test logger, log buffer | files, buffered lines | scan logs; record and report | file system |
| Scenario generator and DSL (`test_case_generator.py`, `dsl_utils.py`) | RNG | random or written scenarios and their validation | none |
| Connection and parsing (`models.py`, `utils/`) | start-up nodes | `get_current_nodes`, `get_live_nodes`, parsing | cluster |
| CLI, `main.py`, data loader | none | run, several iterations with one engine; load keys | fuzzer engine |

### What is hard, and what correct means

* **Selection and kills** (selector, coordinator, executor). Threads of a wave
  share the selector. They filter by a topology that lags behind the cluster,
  by roles that other threads overwrite without the lock, and they kill long
  after they selected. Correct: no shard loses its last process, no quorum is
  lost, every reservation ends in a kill or a release by its owner, every kill
  reaches the validator, every wave ends.
* **Errors halfway** (coordinator, executor). Three functions may give a
  reservation back, each under its own idea of whether the kill happened.
* **Operations**. A failover is asked for, then polled until a deadline; the
  answer may come later, from a node that died in between.
* **Validation**. A time limit raises out of a validator; retries see a cluster
  that moves; expected topology is arithmetic over the history of kills.
* **Lifecycle**. Creation is retried after partial failure; ports, processes and
  cached clients must not outlive their cluster.
* **Verdict**. Failures explained by chaos are tolerated, others are not.

`PROJECT.json` lists the hazards with their lines, and for each the properties
that cover it or the reason none does.

## Modules

| Module | What it is | Proofs |
|---|---|---|
| `ChaosTargetSelector` | the selector: filters, strategies and one action per locked method | |
| `ChaosWave` | worker threads, chaos phases, kills, error paths, waves and the reacting cluster, on top of the selector | `ChaosWave_proofs` |
| `KillLedger` | the abstract contract of selection and kills, which `ChaosWave` implements: kill only what is reserved, reserve only what leaves a peer | in the module |
| `ClusterLifecycle` | one engine over several runs: creating, retrying, using and destroying clusters of processes, and the client caches that outlive them | `ClusterLifecycle_proofs` |
| `ClusterPlan` | the planned topology: shards, roles and ranges of slots | `ClusterFormation_proofs` |
| `ClusterFormation` | one `form_cluster`, command by command and question by question, while the nodes gossip, hang and die; on top of `ClusterPlan` | `ClusterFormation_proofs` |
| `FailoverOp` | failover operations against a cluster that fails over by itself and is told to by others | `FailoverOp_proofs` |
| `ClusterChecks` | what five validators and the criticality rule conclude about a cluster with nodes that lag behind | `ClusterChecks_proofs` |
| `ValidationLoop` | one `validate_with_retry`: attempts, deadline, alarm, retries | `TestRun_proofs` |
| `TestRun` | one run from the first wave to the verdict, with the validations of `ValidationLoop` | `TestRun_proofs` |

| `RunLog` | the abstract contract of a run, which `TestRun` implements: rounds of operations, each validated, nothing after a result that halts the run, and a pass only with a complete log | in the module |
| `Countdown` | amounts of what is left, as tuples in lexicographic order; used by the modules whose properties are named `...RunsOut` | |

`MC*` modules hold the instances for TLC, with one `.cfg` per question.

The models meet at these places. What `ChaosWave` does to the processes of a running
cluster is `Die` in `ClusterLifecycle`. `FormCluster` there, one step, is
`ClusterFormation`. An operation, one step in `ChaosWave` and `TestRun`, is `FailoverOp`.
A wave, whose threads `ChaosWave` interleaves, is a set of operations that end in
`TestRun`. A check of `ValidationLoop`, which fails or not as it likes, is one of the operators of
`ClusterChecks`.

### How `ChaosWave` corresponds to the code

Each thread of `Thread` carries one operation of the wave, which is
`execute_single_operation` with `coordinate_chaos_with_operation` inside it:

```
query -> convert -> update -> select -> [refresh -> kill]* -> schedule -> operate -> [refresh -> kill] -> done
                                  \-> explain -> operate
```

The steps are cut where another thread can run and make a difference: network
queries, sleeps, and the acquisition of the selector's lock. In particular

* `QueryLiveNodes` takes a reply, `ConvertRoles` writes its roles into the shared
  `NodeInfo` objects, `UpdateTopology` installs it in the selector. Between them
  others may do the same with a newer or older reply.
* `SelectChaosTarget` is one critical section: filter, choose, reserve.
  `FindNoTarget` is the same critical section with an empty result, and
  `ExplainNoTarget` is the second one that `get_safety_block_reason` opens.
* `RefreshTargetRole` is the query at the top of `_inject_chaos`. `InjectChaos` is
  the kill, the reading of the role and the release after a failed kill. The
  reading and the release touch state of other threads only through
  `killedNodeIds`; no property depends on another thread running between them,
  except the role, and for it the window between refresh and kill gives the same
  outcomes.
* `CoordinationError` and `OperationError` are the two `except` clauses. They are
  enabled at the points where a delay makes Python raise: the randomisation of a
  non-numeric delay, `time.sleep` of a negative or non-numeric value, and the `:.2f`
  that formats the delay of deferred chaos. The DSL loader does not check these values.
* `EndWave` joins the pool, registers the wave's kills with the validator and
  starts the next wave, with any subset of the threads: groups run out of
  operations, and a failed validation stops the run.

`DetectFailure`, `AutoFailover` and `Promote` are the Valkey cluster and are
external. A dead node stays listed until it is flagged; an automatic failover
needs a majority of masters; an operation may promote any live replica, which
is more than a failover asks for.

Abstractions: one cluster; every node that answers has the same view of the
cluster; a live node is always listed as connected; SIGTERM ends a process at
once; a role conversion is atomic; a thread draws its own configuration, which
includes the case that all share one; a `CLUSTER NODES` entry always matches an
initial node (the fallback `NodeInfo` without process is not modelled); nodes
are not restarted during waves, because nothing in the pipeline does. The query that
the executor makes before deferred chaos is merged with the one `_inject_chaos`
makes immediately after it.

### How `ClusterLifecycle` corresponds to the code

`stage` is the place of the engine, which is a single thread here:

```
idle -> create -> spawn* -> (await -> ping)* -> form -> readiness -> running -> cleanup -> idle
            \________\___________\_________\-> failed -> create | cleanup
```

`create` to `failed` is one call of `create_cluster`; `RetryCreation` is the loop of
`retry_with_backoff`. The processes run beside it: a process that was
spawned binds its port later (`Listen`), or never, or dies at any time (`Die`: a
failed bind, a crash, a kill by chaos). So `PollNode`, which looks at the process, and
`PingAnswered`, which only knows that somebody answers on its port, are two steps.
`Terminate` waits for the processes, so it is one step. A process is known
by its run, attempt and index, and keeps its port.

Each of the engine's two cluster managers is a function from nodes to the port of
the cached client. `Connect` is `get_client`: an existing entry is used whatever
port it was made for. `FormCluster` and `FormError` are `form_cluster` as a whole:
it goes through the nodes in order and may fail at any of them, and it can succeed only
if the commands reached `NumNodes` nodes that have met. `EscapingError` is an
exception that leaves `spawn_all_nodes` beside its clean-up; the history variable
`escaped` remembers the attempts it happened in.

Not in this model: what `form_cluster` does (see `ClusterFormation`), bus ports
(always the port plus 10000), data directories, retries of the readiness check
(one step with either outcome), and `restart_node`, which no run calls.

### How `ClusterFormation` corresponds to the code

`stage` is the method of `ClusterManager` that runs:

```
reset -> meet -> converge -> assign -> verify -> replicate -> sync -> (validate -> links)* -> formed
```

and `at` the node its loop over the nodes has reached. A command raises if its node is gone, and an
exception ends the formation; a question that raises only makes the round not fine. `late` is the
deadline of the loop, read between rounds. `knows` distinguishes a table with entries from one with
names, because `cluster_known_nodes` counts nodes in handshake, and a node whose
master is one of those cannot replicate it yet. A single node meets nobody. A round of the
validation asks all nodes for their state and then all for their links. `disturbed` is
a history variable for `FormedWhole`. `cluster_state` follows from the slots heard of
and is not modelled.

### How `FailoverOp` corresponds to the code

`pc` names the question an operation asks next:

```
chaos -> lookup -> list replicas -> pick -> send -> attempt -> check* -> done
              \-> lookup dead -> live replicas -> ask for replicas -/
```

The lookups, the lists, the ping, the command and each link are separate steps, and any part of the
cluster may change between two of them. The deadline is read where the code reads it: before an
attempt and before a pause. What the code makes of it:

* only chaos of the operation itself excuses a dead target; a target killed by
  another thread fails the operation;
* replicas of a dead primary are looked for twice, and the second list has dead ones in it, so
  a shard that is dead altogether is waited for;
* `get_current_nodes` swallows exceptions and time-outs, so every list may be empty although nodes live
  (`Replies`). Most steps then fail the operation; a dead primary's operation is skipped with success
  instead, although a replica waits for its election (`SkipUnheard`), and the comment at
  `operation_orchestrator.py:100-103` does not say so. With an answer it is skipped only after somebody was
  promoted or when nobody is left (`WaitingReplicasCount`);
* any question to a single node and the command may time out as well;
* a lost reply to the command makes a failed operation and a failover all the same;
* a success shows links that are up, not that the replica acted on the command.

Whether a dead replica still names the replaced primary in the last list depends on when it died; the model
leaves it open. Targets are roles or ports; a target named `node-0` matches no entry of a
`CLUSTER NODES` reply and fails at once. `Watched` stops the cluster after the last report. The
instance has one operation, because other operations and other chaos are actions of the environment
(`OtherOperation`, `OtherChaos`), up to `MaxForeign` and `MaxKills`.

### How `ClusterChecks` corresponds to the code

The cluster moves by actions; validators are operators on a view `v`, the reply that the first node
asked has given, and on `killed` and `roleAtDeath`, the validator's record. A node may be
one event behind (`behind`), so its view is `previous`. The helpers that compare killed and
failed nodes are `KilledMatchFailed`, `UnexpectedFailures`, `UnexpectedSurvivals`; the
expected numbers are `AdjustedPrimaries` and `AdjustedReplicas`; `Critical` is
`is_critical_failure`.

Limits, which are the code's: with no listed replica the replication check reports "All replicas
missing", even if chaos explains it (excluded by `NoFalseAlarm`). The record of roles can be older
than the kill, and a shard killed completely with no recorded primary upsets the expected
numbers (`RolesRecorded`). A victim that runs again is only looked for when another node is down
(`SurvivorsReported` states when it is found). The view check depends on which node is the
reference. A killed primary that was not replaced yet is critical.
`ReportsState` exists because `INFO cluster` may lack `cluster_state`, which
the validator then calls "unknown". Left out: replication lag, data, the
`shard_structure` the engine does not give, and replicas that change shard.

### How `ValidationLoop` and `TestRun` correspond to the code

`stage` is a place in `validate_with_retry` or `validate_state`. The alarm may go off anywhere between the start
and the end of the checks, and what happens then depends on whose `except` clause gets it: it ends
the attempt (`AlarmEscapes`), makes the check a failed one (`AlarmFailsCheck`), or is
swallowed by a query of one node (`AlarmSwallowed`), after which no alarm is left and the
check's verdict can be anything. `ill` is what the cluster would make of a check; it changes
between attempts.

`TestRun` has the loop of `execute_operations_parallel`, the validation after each wave and the final
one, the rules that halt a run, and `_collect_failure_reasons`. `WaveOf` is the grouping by the target's
name up to its last dash. `happened` is what chaos did and `events` what was
reported: an exception in an operation loses the difference. Any interfering event of the run
excuses any operation that failed, if the final validation passes. The matching of
successful operations at the end, which only selects shards whose logs are read, and reports
are left out.

### Variants

An operator whose comment begins with "Faulty variant of" is a plausible bug: it stands before the
definition it would replace and is there to show that a property notices it. A liveness property and its
`...RunsOut` half may share a variant: a loop that goes on for ever breaks both.

## Runs

**`ChaosWave`**: three shards of a primary and a replica, the smallest cluster the
scenario validator accepts and the smallest in which a majority can be lost while
every shard keeps a node, and two threads. Two threads are enough for
every race on the lock, the roles and the last members of a shard: each of these
involves one thread that decided and one that changed what it decided by.
`MaxWaves` and `MaxPromotions` bound the number of waves and of
failovers. Two waves let a leaked reservation or a lost kill of one wave be
seen in the next; one failover is enough to change what a role means between
selection and kill. Symmetry exchanges shards (with their nodes)
and threads, where no liveness is checked.

| Run | Question | Result |
|---|---|---|
| `waves` | over two waves with a failover and failing kills: do generated scenarios keep the proof's invariant, which has the types and a survivor in every shard as parts; do waves implement the ledger; is the majority kept until the failover; does a reservation outlive its operation | they do; kept; none does |
| `phases` | do written scenarios with several phases, none, or raising delays keep survivors, reports and owners of reservations, when kills do not fail | holds |
| `live` | does every reservation get resolved and every wave end, named victims included | holds |
| `v_rekill` | and when a kill of the first of two phases fails | a shard dies: the second phase kills without a reservation |
| `v_quorum` | is the majority kept after a failover too | no: a victim is counted for the role it had before |

`waves` draws from a sample of the randomised configurations, chaos at once or deferred on any node or
on a primary, which keeps two waves with a failover small; `v_quorum` has all of them, and
`phases` has chaos before the operation. `QuorumKept` speaks of the time before the cluster's first failover.
`MajorityKept` does not, and fails: roles are read when a target is selected, and a
replica that became a master before its thread refreshed the topology, or before the kill, is killed as a replica. Settings no
run has, and what they lead to: `phases` with delays that raise in the deferred part breaks `NoKillForgotten`
(`parallel_executor.py:133-145` returns no chaos results, so kills made before are lost);
named victims break `NoShardKilled`, which may be what the scenario wants.

**`ClusterLifecycle`**: two nodes, two attempts and two runs. Two nodes are a first
and a last one, which is what prefixes of a loop over nodes distinguish. All scenarios have
the same base port where processes matter, so that whatever an attempt leaves is in the way of
the next, and overlapping ones in `v_operations`.

| Run | Question | Result |
|---|---|---|
| `clusters` | is every process accounted for (`IInv`); does one survive a failed attempt or a run; is a ready node the attempt's own; does every step leave less to do and every run end | yes; only if an exception escaped `spawn_all_nodes`; until then; yes |
| `v_operations` | do the operations' clients reach the nodes they are for | not from the second run on |

After an exception has escaped, the next attempt can take an older process for its own;
`AnsweredByOwnUnlessEscaped` says until when it cannot.

**`ClusterFormation`**: two shards of two nodes, five slots (so that the division leaves one), two
attempts at the slots and one death: one node is enough to be missing, silent or dead at each question.

| Run | Question | Result |
|---|---|---|
| `formation` | is a cluster that is handed out the planned one; is it whole; does a loop start its deadline anew; does formation end | yes; unless something happened during the last round; no; yes |

**`FailoverOp`**: two shards of two nodes, one operation, two kills (so that a shard can die) and one
foreign command: the operation's own shard and another that its check of links also asks.

| Run | Question | Result |
|---|---|---|
| `failovers` | what does a success stand on; what does it show; when is an operation skipped; do its steps run out whatever the cluster does; does it always report | a command or own chaos; links; with nobody to wait for, or when nobody answers; yes; yes |

**`ClusterChecks`**: three shards of two nodes. `checks` has three kills, one crash, one
restart and one asked-for failover, with named victims so that a whole shard can be killed: enough to kill a
primary and the replica that replaced it, and to mix chaos with a crash in one shard. `v_majority`
has three kills that the selector's filters allow, and nothing else.

| Run | Question | Result |
|---|---|---|
| `checks` | do the verdicts blame chaos the cluster recovered from; do they miss a crash, an unserved shard, a victim that runs again, a lost majority; what does a pass certify | no; no; that nobody crashed, that every shard with a member left is served, and so is a majority |
| `v_majority` | does "has quorum" hold whenever every shard is served | no: replaced primaries are counted |

**`TestRun`**: four scenarios (two operations on one shard under chaos, one on a named node with phases
randomised per operation, three on two shards without chaos, none), two checks of which one is critical and
one can raise, and limits of retries of -1, 0 and 1: no retry, one, and a loop that
never runs. An operation reports at most one chaos event here (`PossibleReports`), since with several the instance has
too many states; which and how many events there are does not matter to the rules, which ask for one
of a kind. `Checks` is fixed for a run. The code skips the log check when no operation succeeded
(`state_validator.py:2533`), which is like a log check that passes at once.

| Run | Question | Result |
|---|---|---|
| `runs` | is a run a log of rounds and their validations; what does a successful validation mean; when are failures forgiven; are operations on a shard serialised; does every step leave less to do and every run end | as the properties state |

The findings in `PROJECT.json` quote the lines the `v_` runs disagree with.

**Fairness.** `live`: weak fairness of every thread and of the end of a wave.
The threads belong to a pool and are scheduled by the OS; the calls
they make return: queries and commands have socket timeouts, `os.kill` does not
block, sleeps are finite. `clusters`, `formation` and `runs`: weak fairness of the engine, which is one
thread whose calls have time-outs and whose loops have a count or a deadline; in `formation` the clock is
fair too, since a deadline passes. `failovers`: weak fairness of each operation; the count of attempts
bounds it, so the clock need not be fair. Nothing is assumed of the cluster, anywhere: neither
gossip, synchronisation, failure detection nor failover is fair, and processes may never bind.

## Proofs

`tlapm` checks every module with theorems, for every value of the constants: any cluster, number of threads,
waves, failovers, attempts, runs, kills, crashes, slots, checks, retries and scenarios. `PROJECT.json`
lists the theorems with the property each states.

**Reservations and kills** (`ChaosWave_proofs`, `KillLedger`)

* `TypeCorrect`: the type invariant, in every configuration. `TypeOK` alone is not
  inductive: a kill has a target because of where its thread is, so
  `ControlType` is part of the invariant.
* `Inductive`: `IInv`, under `SafeConfigs`: no named victims, and either kills never fail or no
  configuration has more than one phase (delays may raise in both cases). `DrawnConfigsSafe` derives `SafeConfigs` from the code that
  draws configurations: what `_generate_random_chaos_config` writes
  (`GeneratedConfigs`), and what `_randomize_chaos_config` makes of any configuration
  that names no victims (`RandomizeChaosConfig`), however many phases that one asks for.
  `DrawnConfigsSurvive` states `ShardSurvives`, `ReservationsSettled` and `NoKillForgotten` from there. The
  argument follows a reservation. It is *pending* while its thread has not tried it: the thread alone has
  it and its node is alive. It is *spent* once a kill succeeded: a later phase of the operation finds
  the node dead, which changes nothing. Every dead node is reserved; every reserved node is dead or
  pending for exactly one thread. To carry this over `InjectChaos` and over the error paths one must know
  that a thread in a phase is pending or spent (`Armed`, in `ControlInv`). What `SafeConfigs`
  excludes is the third case, a thread whose kill failed and that tries again: its node is free by then. Each thread step then has one of four effects
  (`Quiet`, `Reserves`, `Releases`, `Kills`), and the rest of the proof reads only
  those. A survivor is kept because a selection leaves one that is
  unreserved *now*, whatever stale topology it filtered by.
* From it: `SurvivorSafety`, `Settled`, `OwnerReleases`, and `KillsRegistered`, which also needs `ResultsKept`: the
  `except` clause that throws results away must find none with a kill, so a deferred delay may raise only
  if no other phase came before.
* `Refinement`: the four effects are the ledger's stutter, reserve, release and
  kill. `LedgerKeepsSurvivors` proves the ledger strong enough.
* `QuorumSafety`: with at least one shard, until the first failover a majority keeps a live master, and
  nothing is assumed of what follows. The roles are the planned ones until then (`RolesSettled`), and a
  majority of planned primaries stays unreserved (`QuorumReserved`). That `SafeConfigs` is needed
  for all of these is what `v_rekill` shows.

**Lifecycle** (`ClusterLifecycle_proofs`)

* `LifecycleTypeCorrect`: types, with the control part (`ControlInv`) they need,
  whatever fails.
* `LifecycleInductive`: `IInv` says that every process belongs to the current
  attempt and has an index below `spawned`, or to an attempt in `escaped`, and that in
  the stages that follow a termination (`Quiet`) only the latter are left. Both are needed: the
  first makes the termination of the attempt's nodes a termination of all but the
  escaped, the second lets the next attempt start from nothing else.
* From it `NoProcessLeaks`, and `ReadyMeansOwn`: within one attempt ports are distinct,
  so while nothing escaped, whoever answers on a node's port is that node.

**Plan and formation** (`ClusterFormation_proofs`)

* `SlotsPartitioned`: every slot is in the range of exactly one shard, and no shard is without. It
  rests on `Division`, of a slot by the size of a range, and on the last shard taking the rest.
* `FormationTypeCorrect`; `FormationFollowsPlan`, by `PlanInv`: in each loop, what has been answered well so
  far holds for the nodes before `at`, and what earlier loops have established stays, because gossip
  only adds and no step after the reset takes a master away; `FormationWhole`, by `WholeInv`: as long
  as nothing disturbs a round, what it has seen is still so.

**Operations** (`FailoverOp_proofs`)

* `FailoverTypeCorrect`, with the cluster's own invariant: a shard's owner is a member with
  the master flag, and a living node with the flag is an owner.
* `SuccessGrounded`, by `Grounds`: what an operation knows at each of its steps, and that
  only it writes its own record (`OthersKept`).
* `WaitingReplicasAwaited` needs the types and, of `Grounds`, what a lookup found: a member that
  is alive and not the owner has no master flag, so whoever answers lists it.
* `LinksUp`, by `LinksInv`: while no change was seen, nodes that were asked still have their
  links up.

**Validators** (`ClusterChecks_proofs`)

* `ChecksTypeCorrect`, with `CurrentInv` (the newest view is the truth: a connection is broken just
  when its node is dead, owners are members with the flag, living nodes with the flag are owners)
  and `PreviousInv` (an owner the last event has set is alive).
* `CrashReported` from `CurrentInv`. `UnservedReported` from both: if the owner of a shard is dead, the
  last event did not set it, so every node names it.
* `ChaosRaisesNoAlarm` and `SurvivorsFound` are about a settled cluster, in which the dead nodes are those the
  reply calls failed and a shard is served unless all its members are dead. The expected numbers are
  right because the dead nodes recorded as primaries, the shards lost and the owners are counted
  as sets: shards whose owner lives and shards killed completely partition `Shard`, whatever was replaced
  in between. `LastUnflagged` closes the case of a cluster without a living node: the last one to die has nobody to
  flag it.
* `PassIsCertificate` puts them together for a whole validation: from a reply that has heard of the last event,
  a pass excludes a crash, an unserved shard with a member left, and a minority of served shards.
* `QuorumHonest`: owners are an injection of the shards into the masters, and `ShardOf` one of the living
  masters into the served shards; so the count that the code compares is on the safe side.

**Runs and validations** (`TestRun_proofs`)

* `SuccessComplete`, `OverrunReported`, by `Progress`: at the gate before a check, an attempt without failures
  has passed exactly the checks before `next`, and a deadline that passed unnoticed passed in the last of them.
* `RunTypeCorrect`, `ToleranceNeedsChaos`, `ShardsSerial`, `RunIsLogged`, by `WavesInv` and
  `VerdictInv`: while waves run there are as many results as waves behind, none of which halts the run,
  nothing is pending in those waves and everything in the waves ahead. Two facts about `WaveOf` carry them: it grows strictly in a group
  (`WaveGrows`), and no operation is in a wave beyond the number of waves (`WaveBound`), since the
  operations of its group before it fill the waves below.
* `RunIsLogged`: the end of an operation, the return of a wave's validation and the verdict are the steps of
  `RunLog`, everything else is a stutter. An operation that ended is *fresh* while its wave is not among the
  results; a validation finds some, since no wave is empty (`WaveFull`: there are as many waves as
  numbers for them), and leaves none. `LogTellsAll` proves the contract strong enough: a pass means that
  everything was run and validated with success, and a result that halts the run, as any critical one does,
  is the last.

**What runs out** (`ThreadsShorten`, `EngineShortens`, `FormationShortens`, `OperationsShorten`, `RunShortens`)

Each liveness property has a safety half, stated as an action property and proved for all constants. What is left of
a run is a tuple of natural numbers, the most important first (waves and the place of a thread; runs,
attempts, stages, nodes, polls; deadlines, rounds, nodes; attempts of a wait, nodes asked; waves,
validations, attempts, checks), and every step of the program makes it less in lexicographic order, while
no step of the cluster, of another thread or of the clock makes it more. This is what a missing increment, a
deadline computed anew or a stage entered twice would break. A formation needs one exception, which the property names
(`MayRepeat`): rounds of questions before the deadline are repeated at will. `NothingEndless` proves that
the order has no infinite descent, for tuples of any length, from the library's
theorem about lexicographic products of well-founded orders. That a program that has not
ended always has a step to take and takes it is the other half; it needs fairness and `ENABLED`, and
TLC checks it with the liveness properties. `ThreadsRunOut` alone is proved without being part of a run: the
places of a thread form a line without loops, and `live` checks where it leads.

Assumptions are the `ASSUME`s of the modules: types of the parameters, finitely many nodes or
shards, a planned primary in every shard (`TopologyAssumption`), at least one check
(`ValidationAssumption`), no more shards than slots (`PlanAssumption`). Each is evaluated by the
runs of its module, `TopologyAssumption` and `WaveAssumption` by those of `ChaosWave`.

Every invariant and action property of the passing runs is proved, and both refinements. Only model-checked: the liveness properties
(`ReservationResolved`, `AllJoined`, `EveryRunEnds`, `FormationEnds`, `OperationsReport`, `RunEnds`), which need fairness and
`ENABLED`; and the properties of the `v_` runs, which are violated. The theorems about reservations and survivors do not
cover named victims, nor several phases of one operation when kills may fail: there
they are false (`v_rekill`; named victims skip the filters).

## Not modelled

`PROJECT.json` gives the status of each component.

* Log validator: regular expressions over the last lines of each log. Its verdict is a check of
  `ValidationLoop`. Worth knowing: a target that maps to shard 0 by node id, port or cluster id is
  treated as not found when the lookups are chained with `or` (`log_validator.py:118-122`), so that shard
  is left out unless chaos struck it.
* Data consistency: not told which nodes were killed; its check across replicas reads without `READONLY` and
  so finds nothing (`state_validator.py:2171`). Modelling it would need keys and
  replication offsets, and nothing else depends on them.
* `restart_node`, `update_node_registration` and `record_recovery`: no run reaches them.
* Replication lag, thresholds other than the number of replicas, migration of replicas.
* Scenario generator (except its chaos configurations), DSL, command line, reports: sequential,
  and no decision of a run depends on more than the configurations they produce, which the
  instances enumerate.
* Parsing of `CLUSTER NODES` lines: the models begin at the parsed entries.
* The table of one key per slot (`crc16_slot_table.py`), which is two thirds of the lines under
  `src/src`, is generated data; of the loader that uses it only its failure is modelled, as one of the
  reasons for `SetupFails` in `TestRun`.
