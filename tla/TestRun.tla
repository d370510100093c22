------------------------------- MODULE TestRun -------------------------------
(***************************************************************************)
(* One test run from its first operation to its verdict: the waves of the  *)
(* parallel executor (src/src/fuzzer_engine/parallel_executor.py), the     *)
(* validation after each wave and at the end (ValidationLoop), and the     *)
(* failure reasons (src/src/fuzzer_engine/fuzzer_engine.py).  What the     *)
(* threads of a wave do to each other is in ChaosWave; here an operation   *)
(* ends with a success or a failure and the chaos it reports.              *)
(***************************************************************************)
EXTENDS ValidationLoop, Countdown

CONSTANTS
  Scenarios,   \* the scenarios a run may execute
  ChaosEvents  \* what chaos may do to one operation

\* A scenario: the target of each operation, whether it has a chaos
\* configuration, whether that is randomised per operation, and
\* blocking_on_failure.
ASSUME ScenarioAssumption ==
  \A sc \in Scenarios :
    /\ Len(sc.targets) \in Nat /\ DOMAIN sc.targets = 1 .. Len(sc.targets)
    /\ {sc.chaos, sc.perOperation, sc.blocking} \subseteq BOOLEAN

VARIABLES
  scenario,    \* the scenario
  step,        \* what execute_test is doing
  wave,        \* the current wave
  outcome,     \* what became of each operation
  events,      \* chaos_events: <<operation, event>> as reported
  happened,    \* history: <<operation, event>> as it was
  waveResults, \* validation_results
  verdict      \* ExecutionResult.success

runVars == <<scenario, step, wave, outcome, events, happened, waveResults, verdict>>
vars == <<validationVars, runVars>>

Op == DOMAIN scenario.targets

----------------------------------------------------------------------------
(* Waves *)

\* A target is a member of a shard named by its role ("shard-0-primary") or a
\* node ("node-0").  The name up to its last dash is the group, so the nodes
\* are one group and each shard is one.
GroupOf(target) == IF target.kind = "role" THEN <<"shard", target.shard>> ELSE <<"node", 0>>

\* Faulty variant of WaveOf: the whole name is the group.
WaveByName(op) ==
  Cardinality({o \in 1 .. op : scenario.targets[o] = scenario.targets[op]})

\* The operations of a group run one per wave, in the order of the scenario.
WaveOf(op) ==
  Cardinality({o \in 1 .. op : GroupOf(scenario.targets[o]) = GroupOf(scenario.targets[op])})

OpsOf(w) == {op \in Op : WaveOf(op) = w}
TotalWaves == Cardinality({WaveOf(op) : op \in Op})

\* Bound: at most one chaos event per operation.
PossibleReports(op) ==
  {{}} \cup (IF scenario.chaos THEN {{<<op, e>>} : e \in ChaosEvents} ELSE {})

\* execute_single_operation: the operation succeeds or not, chaos reports what
\* it did; an exception loses the report and fails the operation.
EndOperation(op) ==
  /\ step = "wave"
  /\ op \in OpsOf(wave)
  /\ outcome[op] = "pending"
  /\ \E reports \in PossibleReports(op) :
       /\ happened' = happened \cup reports
       /\ \/ \E o \in {"ok", "failed"} : outcome' = [outcome EXCEPT ![op] = o]
             /\ events' = events \cup reports
          \/ outcome' = [outcome EXCEPT ![op] = "failed"]
             /\ UNCHANGED events
  /\ UNCHANGED <<validationVars, scenario, step, wave, waveResults, verdict>>

\* The pool of the wave is joined and the wave validated.
EndWave ==
  /\ step = "wave"
  /\ \A op \in OpsOf(wave) : outcome[op] # "pending"
  /\ CallValidator
  /\ step' = "validating"
  /\ UNCHANGED <<scenario, wave, outcome, events, happened, waveResults, verdict>>

\* Faulty variant of HaltsRun: a critical failure is not looked at.
HaltsIfBlocking(r) == ~r.success /\ scenario.blocking

HaltsRun(r) == ~r.success /\ (scenario.blocking \/ r.critical)

\* Faulty variant of AfterWave: the last wave is not the end.
AfterWaveOnceMore ==
  /\ step = "validating"
  /\ stage = "returned"
  /\ Return
  /\ waveResults' = Append(waveResults, result)
  /\ IF HaltsRun(result) \/ wave > TotalWaves
     THEN step' = "final" /\ UNCHANGED wave
     ELSE step' = "wave" /\ wave' = wave + 1
  /\ UNCHANGED <<scenario, outcome, events, happened, verdict>>

AfterWave ==
  /\ step = "validating"
  /\ stage = "returned"
  /\ Return
  /\ waveResults' = Append(waveResults, result)
  /\ IF HaltsRun(result) \/ wave = TotalWaves
     THEN step' = "final" /\ UNCHANGED wave
     ELSE step' = "wave" /\ wave' = wave + 1
  /\ UNCHANGED <<scenario, outcome, events, happened, verdict>>

FinalValidation ==
  /\ step = "final"
  /\ CallValidator
  /\ step' = "judging"
  /\ UNCHANGED <<scenario, wave, outcome, events, happened, waveResults, verdict>>

----------------------------------------------------------------------------
(* The verdict *)

Executed == {op \in Op : outcome[op] = "ok"}

Interferes(event) == event.success /\ event.phase \in {"before", "during"}

\* Faulty variant of HasInterferingChaos: chaos after an operation counts.
HasAnyChaos ==
  scenario.chaos /\ \E report \in events : report[2].success

\* Any event of the run counts, whichever operation it belongs to.
HasInterferingChaos ==
  /\ scenario.chaos
  /\ \E report \in events :
       Interferes(report[2]) \/ (scenario.perOperation /\ report[2].success)

FailureReasons(final) ==
  {reason \in {"operations", "chaos", "waves", "not validated", "final"} :
    \/ reason = "operations" /\ Executed # Op /\ ~(HasInterferingChaos /\ final.success)
    \/ reason = "chaos" /\ \E report \in events : ~report[2].success
    \/ reason = "waves" /\ \E i \in DOMAIN waveResults : ~waveResults[i].success
    \/ reason = "not validated" /\ waveResults = <<>> /\ Op # {} /\ Executed = Op
    \/ reason = "final" /\ ~final.success}

Judged ==
  /\ step = "judging"
  /\ stage = "returned"
  /\ Return
  /\ step' = "done"
  /\ verdict' = IF FailureReasons(result) = {} THEN "passed" ELSE "failed"
  /\ UNCHANGED <<scenario, wave, outcome, events, happened, waveResults>>

Fails ==
  /\ step' = "done"
  /\ verdict' = "failed"
  /\ UNCHANGED <<validationVars, scenario, wave, outcome, events, happened, waveResults>>

\* Creating the cluster, its readiness or the test data fails.
SetupFails == step = "setup" /\ Fails

\* The validator raises, which ends the run.
ValidatorRaised == step \in {"validating", "judging"} /\ stage = "raised" /\ Fails

\* Without operations there is no wave.
SetupDone ==
  /\ step = "setup"
  /\ step' = IF Op = {} THEN "final" ELSE "wave"
  /\ UNCHANGED <<validationVars, scenario, wave, outcome, events, happened, waveResults, verdict>>

EngineStep ==
  \/ SetupDone \/ SetupFails
  \/ \E op \in Op : EndOperation(op)
  \/ EndWave \/ AfterWave \/ FinalValidation \/ Judged \/ ValidatorRaised
  \/ (ValidatorStep /\ UNCHANGED runVars)

Done == step = "done" /\ UNCHANGED vars

Init ==
  /\ ValidationInit
  /\ scenario \in Scenarios
  /\ step = "setup"
  /\ wave = 1
  /\ outcome = [op \in Op |-> "pending"]
  /\ events = {}
  /\ happened = {}
  /\ waveResults = <<>>
  /\ verdict = "none"

Next == EngineStep \/ Done

Spec == Init /\ [][Next]_vars

\* The engine is one thread; its calls have time-outs and its loops a count.
FairSpec == Spec /\ WF_vars(EngineStep)

----------------------------------------------------------------------------

TypeOK ==
  /\ ValidationTypeOK
  /\ scenario \in Scenarios
  /\ step \in {"setup", "wave", "validating", "final", "judging", "done"}
  /\ wave \in 1 .. TotalWaves \cup {1}
  /\ outcome \in [Op -> {"pending", "ok", "failed"}]
  /\ events \subseteq happened
  /\ happened \subseteq Op \X ChaosEvents
  /\ waveResults \in Seq(Result)
  /\ verdict \in {"none", "passed", "failed"}

\* Operations that ended since the cluster was last validated.
Fresh == {op \in Op : outcome[op] # "pending" /\ WaveOf(op) > Len(waveResults)}

Pending == {op \in Op : outcome[op] = "pending"}

Log == INSTANCE RunLog WITH
  blocking <- scenario.blocking, todo <- Pending, fresh <- Fresh, results <- waveResults

\* A run is a log of rounds of operations and their validations, with nothing
\* after a result that halts it, critical or blocking, and passes only if the log is
\* complete and says so everywhere, whatever overran, raised or was repeated in a
\* validation and whatever was tolerated (parallel_executor.py:180-187,
\* fuzzer_engine.py:436-462).
ImplementsLog == Log!LogSpec

\* A failed operation is forgiven only in a run in which chaos struck before or
\* during an operation, or whose phases are randomised (fuzzer_engine.py:407).
ToleratedOnlyWithChaos ==
  verdict = "passed" /\ Executed # Op =>
    \E report \in happened :
      report[2].success /\ (report[2].phase # "after" \/ scenario.perOperation)

\* Operations on members of one shard run one after the other, in the order of
\* the scenario, with the cluster validated in between, if their targets are
\* named by role (parallel_executor.py:41-47, :147).  Named as "node-0" or by
\* port, an operation is in another group and can run beside them.
SerialPerShard ==
  [][\A o, op \in Op :
       LET a == scenario.targets[o]
           b == scenario.targets[op]
       IN /\ outcome'[op] # outcome[op]
          /\ o < op
          /\ a.kind = "role" /\ b.kind = "role" /\ a.shard = b.shard
          => outcome[o] # "pending" /\ Len(waveResults) >= WaveOf(o)]_vars

\* What is left of a run: waves, the steps of this one or those after the last,
\* operations, and what is left of the validation.
WavesLeft ==
  CASE step = "setup"                      -> TotalWaves
    [] step \in {"wave", "validating"} -> TotalWaves - wave
    [] OTHER                               -> 0

StepsLeft ==
  CASE step = "setup"          -> 5
    [] step = "wave"           -> 4
    [] step = "validating"  -> 3
    [] step = "final"          -> 2
    [] step = "judging" -> 1
    [] step = "done"           -> 0

Left ==
  <<WavesLeft, StepsLeft, Cardinality(Pending), AttemptsLeft, ChecksLeft, StagesLeft>>

\* Nothing is ever done twice: whatever step the engine takes, less is left of
\* the run, although validations are repeated, checks go on after the alarm and
\* scenarios give any max_retries (parallel_executor.py:147,
\* state_validator.py:2635).  With the fairness of the engine the run ends.
RunRunsOut == [][Left' \in Amounts(6) /\ Less(Left', Left)]_vars

\* Every run comes to a verdict: validations end although their checks overrun,
\* the cluster keeps changing and attempts are repeated (state_validator.py:2635).
RunEnds == <>(verdict # "none")
=============================================================================
