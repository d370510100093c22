---------------------------- MODULE TestRun_proofs ----------------------------
(***************************************************************************)
(* Proofs about ValidationLoop and TestRun, for any enabled checks, limits *)
(* of retries, scenarios and kinds of chaos.                               *)
(***************************************************************************)
EXTENDS TestRun, FiniteSetTheorems, WellFoundedInduction, TLAPS

----------------------------------------------------------------------------
(* The validation loop *)

\* The checks an attempt has passed while nothing failed, and where the
\* deadline can lie behind it.
Progress ==
  /\ stage = "stabilise" => next = 1 /\ lateAt = InTime /\ passed = {}
  /\ stage = "check" => next <= LastCheck
  /\ stage \in {"gate", "check"} /\ failedChecks = {} =>
       passed = {Checks[i] : i \in 1 .. next - 1}
  /\ stage = "gate" /\ late => lateAt = next - 1
  /\ stage = "check" /\ late => lateAt = next
  /\ stage = "judge" /\ failedChecks = {} =>
       passed = CheckNames /\ (late => lateAt >= LastCheck)

\* What a result says of the attempt.
Honest ==
  /\ result.critical => ~result.success
  /\ stage = "returned" /\ result.success => passed = CheckNames

ValidationInv == ValidationTypeOK /\ Progress /\ Honest

LEMMA ChecksType ==
  /\ LastCheck \in Nat /\ LastCheck >= 1
  /\ CheckNames = {Checks[i] : i \in 1 .. LastCheck}
  /\ \A i \in 1 .. LastCheck : Checks[i] \in CheckNames
BY ValidationAssumption DEF LastCheck, CheckNames

\* One more check has passed.
LEMMA OneMore ==
  ASSUME NEW i \in Nat, i >= 1
  PROVE  {Checks[j] : j \in 1 .. i - 1} \cup {Checks[i]} = {Checks[j] : j \in 1 .. (i + 1) - 1}
OBVIOUS

LEMMA StabiliseKeeps ==
  ASSUME ValidationInv, Stabilise
  PROVE  ValidationInv'
<1>1. CASE stage' = "gate" /\ UNCHANGED attemptVars
  BY <1>1, ChecksType DEF Stabilise, ValidationInv, ValidationTypeOK, Progress, Honest, late, InTime,
     attemptVars, configVars, loopVars, Stages
<1>2. CASE TimeOut
  BY <1>2, ChecksType DEF Stabilise, TimeOut, DeadlinePasses, ValidationInv, ValidationTypeOK,
     Progress, Honest, late, InTime, configVars, loopVars, Stages, Failure
<1> QED
  BY <1>1, <1>2 DEF Stabilise

LEMMA StartCheckKeeps ==
  ASSUME ValidationInv, StartCheck
  PROVE  ValidationInv'
<1>1. CASE next > LastCheck /\ stage' = "judge" /\ UNCHANGED attemptVars
  <2>1. next = LastCheck + 1
    BY <1>1, ChecksType DEF ValidationInv, ValidationTypeOK
  <2>2. failedChecks = {} => passed = CheckNames
    BY <1>1, <2>1, ChecksType DEF StartCheck, ValidationInv, Progress
  <2> QED
    BY <1>1, <2>1, <2>2, ChecksType DEF StartCheck, ValidationInv, ValidationTypeOK, Progress,
       Honest, late, InTime, attemptVars, configVars, loopVars, Stages
<1>2. CASE next <= LastCheck /\ ~late /\ stage' = "check" /\ UNCHANGED attemptVars
  BY <1>2, ChecksType DEF StartCheck, ValidationInv, ValidationTypeOK, Progress, Honest, late,
     InTime, attemptVars, configVars, loopVars, Stages
<1>3. CASE next <= LastCheck /\ late /\ TimeOut
  BY <1>3, ChecksType DEF StartCheck, TimeOut, ValidationInv, ValidationTypeOK, Progress, Honest,
     late, InTime, configVars, loopVars, Stages, Failure
<1> QED
  BY <1>1, <1>2, <1>3 DEF StartCheck

\* The check of an attempt ends, with the deadline passed or not.
LEMMA EndCheckKeeps ==
  ASSUME ValidationInv, NEW ok \in BOOLEAN, stage = "check", EndCheck(ok),
         lateAt' \in {lateAt, next}, UNCHANGED <<configVars, loopVars, ill>>
  PROVE  ValidationInv'
<1>1. next \in Nat /\ next >= 1 /\ next <= LastCheck /\ Checks[next] \in CheckNames
  BY ChecksType DEF ValidationInv, ValidationTypeOK, Progress
<1>2. ValidationTypeOK'
  BY <1>1, ChecksType DEF EndCheck, ValidationInv, ValidationTypeOK, Stages, Failure, configVars,
     loopVars, InTime
<1>3. failedChecks' = {} => ok /\ failedChecks = {}
  BY DEF EndCheck
<1>4. failedChecks' = {} => passed' = {Checks[i] : i \in 1 .. next' - 1}
  <2>1. HAVE failedChecks' = {}
  <2>2. passed' = passed \cup {Checks[next]} /\ next' = next + 1
    BY <1>3, <2>1 DEF EndCheck
  <2>3. passed = {Checks[i] : i \in 1 .. next - 1}
    BY <1>3, <2>1 DEF ValidationInv, Progress
  <2> QED
    BY <1>1, <2>2, <2>3, OneMore
<1>5. late' => lateAt' = next' - 1
  BY <1>1 DEF ValidationInv, Progress, EndCheck, late, InTime
<1>6. Progress'
  BY <1>4, <1>5 DEF EndCheck, Progress
<1>7. Honest'
  BY DEF ValidationInv, Honest, EndCheck, loopVars
<1> QED
  BY <1>2, <1>6, <1>7 DEF ValidationInv

LEMMA AlarmsKeep ==
  ASSUME ValidationInv, AlarmEscapes \/ AlarmSwallowed \/ CheckRaises
  PROVE  ValidationInv'
<1>1. next \in 1 .. LastCheck + 1
  BY DEF ValidationInv, ValidationTypeOK
<1>2. CASE AlarmEscapes
  BY <1>1, <1>2, ChecksType DEF AlarmEscapes, TimeOut, DeadlinePasses, ValidationInv,
     ValidationTypeOK, Progress, Honest, late, InTime, configVars, loopVars, Stages, Failure
<1>3. CASE AlarmSwallowed
  BY <1>1, <1>3, ChecksType DEF AlarmSwallowed, DeadlinePasses, ValidationInv,
     ValidationTypeOK, Progress, Honest, late, InTime, configVars, loopVars, Stages, Failure
<1>4. CASE CheckRaises
  BY <1>1, <1>4, ChecksType DEF CheckRaises, ValidationInv,
     ValidationTypeOK, Progress, Honest, late, InTime, configVars, loopVars, Stages, Failure
<1> QED
  BY <1>2, <1>3, <1>4

LEMMA JudgeKeeps ==
  ASSUME ValidationInv, Judge
  PROVE  ValidationInv'
<1>1. result' \in Result
  <2>1. (failedChecks = {}) \in BOOLEAN /\ IsCritical \in BOOLEAN
    BY DEF IsCritical
  <2>2. [success |-> failedChecks = {}, critical |-> IsCritical] \in Result
    BY <2>1, Zenon DEF Result
  <2> QED
    BY <2>2 DEF Judge
<1>2. ValidationTypeOK'
  BY <1>1 DEF Judge, ValidationInv, ValidationTypeOK, Stages, configVars, attemptVars
<1>3. Progress'
  BY DEF Judge, ValidationInv, Progress
<1>4. (result'.success <=> failedChecks = {}) /\ (result'.critical <=> IsCritical)
  BY DEF Judge
<1>5. Honest'
  BY <1>4 DEF Judge, ValidationInv, Progress, Honest, attemptVars, IsCritical
<1> QED
  BY <1>2, <1>3, <1>5 DEF ValidationInv

LEMMA RetryKeeps ==
  ASSUME ValidationInv, Retry
  PROVE  ValidationInv'
<1>1. ValidationTypeOK'
  BY ChecksType DEF Retry, BeginAttempt, ValidationInv, ValidationTypeOK, Stages, configVars, InTime
<1> QED
  BY <1>1 DEF Retry, BeginAttempt, ValidationInv, Progress, Honest, late

LEMMA ValidatorStepKeeps ==
  ASSUME ValidationInv, ValidatorStep
  PROVE  ValidationInv'
<1>1. CASE CheckReturns
  <2>1. PICK ok \in BOOLEAN : EndCheck(ok)
    BY <1>1 DEF CheckReturns
  <2> QED
    BY <1>1, <2>1, EndCheckKeeps DEF CheckReturns
<1>2. CASE AlarmFailsCheck
  BY <1>2, EndCheckKeeps DEF AlarmFailsCheck, DeadlinePasses
<1> QED
  BY <1>1, <1>2, StabiliseKeeps, StartCheckKeeps, AlarmsKeep, JudgeKeeps, RetryKeeps
     DEF ValidatorStep

LEMMA CallKeeps ==
  ASSUME ValidationInv, CallValidator
  PROVE  ValidationInv'
<1>1. NoResult \in Result /\ ~NoResult.critical /\ ~NoResult.success
  BY DEF NoResult, Result
<1>2. ValidationTypeOK'
  BY <1>1, ChecksType DEF CallValidator, BeginAttempt, ValidationInv, ValidationTypeOK, Stages,
     configVars, attemptVars, InTime
<1>3. Progress' /\ Honest'
  BY <1>1 DEF CallValidator, BeginAttempt, Progress, Honest, late
<1> QED
  BY <1>2, <1>3 DEF ValidationInv

LEMMA ReturnKeeps ==
  ASSUME ValidationInv, Return
  PROVE  ValidationInv'
<1>1. NoResult \in Result /\ ~NoResult.critical /\ ~NoResult.success
  BY DEF NoResult, Result
<1>2. ValidationTypeOK'
  BY <1>1, ChecksType DEF Return, ValidationInv, ValidationTypeOK, Stages, configVars, InTime
<1>3. Progress' /\ Honest'
  BY <1>1 DEF Return, Progress, Honest
<1> QED
  BY <1>2, <1>3 DEF ValidationInv

LEMMA ValidationStarts ==
  ASSUME ValidationInit
  PROVE  ValidationInv
<1>1. NoResult \in Result /\ ~NoResult.critical /\ ~NoResult.success
  BY DEF NoResult, Result
<1>2. ValidationTypeOK
  BY <1>1, ChecksType DEF ValidationInit, ValidationTypeOK, Stages, InTime
<1> QED
  BY <1>1, <1>2 DEF ValidationInit, ValidationInv, Progress, Honest

LEMMA ValidationStays ==
  ASSUME ValidationInv, UNCHANGED validationVars
  PROVE  ValidationInv'
BY DEF ValidationInv, ValidationTypeOK, Progress, Honest, validationVars, configVars, attemptVars,
   loopVars, late, Failure

----------------------------------------------------------------------------
(* Waves *)

LEMMA OpsType ==
  ASSUME scenario \in Scenarios
  PROVE  /\ Len(scenario.targets) \in Nat
         /\ Op = 1 .. Len(scenario.targets)
         /\ IsFiniteSet(Op)
<1>1. Len(scenario.targets) \in Nat /\ Op = 1 .. Len(scenario.targets)
  BY ScenarioAssumption DEF Op
<1> QED
  BY <1>1, FS_Interval

\* The operations of the group of op up to it: the wave is their number.
Group(op) == {o \in 1 .. op : GroupOf(scenario.targets[o]) = GroupOf(scenario.targets[op])}

LEMMA GroupFinite ==
  ASSUME NEW op \in Nat
  PROVE  IsFiniteSet(Group(op)) /\ WaveOf(op) = Cardinality(Group(op)) /\ WaveOf(op) \in Nat
<1>1. IsFiniteSet(1 .. op)
  BY FS_Interval
<1>2. IsFiniteSet(Group(op))
  BY <1>1, FS_Subset DEF Group
<1> QED
  BY <1>2, FS_CardinalityType DEF Group, WaveOf

\* Operations of one group are in different waves, in the order of the scenario.
LEMMA WaveGrows ==
  ASSUME NEW o \in Nat, NEW op \in Nat, 1 <= o, o < op,
         GroupOf(scenario.targets[o]) = GroupOf(scenario.targets[op])
  PROVE  WaveOf(o) < WaveOf(op)
<1>1. Group(o) \subseteq Group(op)
  BY DEF Group
<1>2. op \in Group(op) /\ op \notin Group(o)
  BY DEF Group
<1>3. Cardinality(Group(o)) <= Cardinality(Group(op)) /\ Cardinality(Group(o)) # Cardinality(Group(op))
  BY <1>1, <1>2, GroupFinite, FS_Subset
<1> QED
  BY <1>3, GroupFinite

\* Waves are numbered without a gap: no operation is in a wave that is not run.
LEMMA WaveBound ==
  ASSUME scenario \in Scenarios
  PROVE  /\ TotalWaves \in Nat
         /\ Op = {} => TotalWaves = 0
         /\ \A op \in Op : WaveOf(op) \in 1 .. TotalWaves
<1> DEFINE Waves == {WaveOf(op) : op \in Op}
<1>1. Op \subseteq Nat /\ \A op \in Op : op >= 1 /\ 1 .. op \subseteq Op
  BY OpsType
<1>2. IsFiniteSet(Waves)
  <2> DEFINE w == [op \in Op |-> WaveOf(op)]
  <2>1. w \in Surjection(Op, Waves)
    BY DEF Surjection
  <2> QED
    BY <2>1, OpsType, FS_Surjection
<1>3. TotalWaves \in Nat
  BY <1>2, FS_CardinalityType DEF TotalWaves
<1>4. ASSUME Op = {}
      PROVE  TotalWaves = 0
  BY <1>4, FS_EmptySet DEF TotalWaves
<1>5. ASSUME NEW op \in Op
      PROVE  WaveOf(op) \in 1 .. TotalWaves
  <2> DEFINE f == [o \in Group(op) |-> WaveOf(o)]
  <2>1. \A o \in Group(op) : o \in Nat /\ 1 <= o /\ o <= op /\ o \in Op
    BY <1>1, <1>5 DEF Group
  <2>2. \A o \in Group(op) : WaveOf(o) \in Nat
    BY <2>1, GroupFinite
  <2>3. ASSUME NEW a \in Group(op), NEW b \in Group(op), a # b
        PROVE  WaveOf(a) # WaveOf(b)
    <3>1. GroupOf(scenario.targets[a]) = GroupOf(scenario.targets[b])
      BY DEF Group
    <3>2. CASE a < b
      BY <2>1, <2>2, <3>1, <3>2, WaveGrows
    <3>3. CASE b < a
      BY <2>1, <2>2, <3>1, <3>3, WaveGrows
    <3> QED
      BY <2>1, <2>3, <3>2, <3>3
  <2>4. f \in Injection(Group(op), Waves)
    <3>1. f \in [Group(op) -> Waves]
      BY <2>1
    <3>2. \A a, b \in Group(op) : f[a] = f[b] => a = b
      BY <2>3
    <3> HIDE DEF f, Waves
    <3> QED
      BY <3>1, <3>2 DEF Injection, IsInjective
  <2>5. Cardinality(Group(op)) <= Cardinality(Waves)
    <3> HIDE DEF f, Waves
    <3> QED
      BY <1>2, <2>4, FS_Injection
  <2>6. op \in Nat /\ op \in Group(op)
    BY <1>1, <1>5 DEF Group
  <2>7. WaveOf(op) # 0
    BY <2>6, GroupFinite, FS_EmptySet
  <2> QED
    BY <1>3, <2>5, <2>6, <2>7, GroupFinite DEF TotalWaves
<1> QED
  BY <1>3, <1>4, <1>5

----------------------------------------------------------------------------
(* The engine *)

RunTypeOK ==
  /\ scenario \in Scenarios
  /\ step \in {"setup", "wave", "validating", "final", "judging", "done"}
  /\ wave \in 1 .. TotalWaves \cup {1}
  /\ outcome \in [Op -> {"pending", "ok", "failed"}]
  /\ events \subseteq happened
  /\ happened \subseteq Op \X ChaosEvents
  /\ waveResults \in Seq(Result)
  /\ verdict \in {"none", "passed", "failed"}

AllPassed == \A i \in DOMAIN waveResults : waveResults[i].success

AllOver == Len(waveResults) = TotalWaves /\ \A op \in Op : outcome[op] # "pending"

\* While waves run, as many were validated as lie behind, nothing is pending in
\* them, everything is in those ahead, and no result so far halts the run; it
\* gets to its end after the last wave or after one that failed.
WavesInv ==
  /\ step = "setup" =>
       wave = 1 /\ waveResults = <<>> /\ \A op \in Op : outcome[op] = "pending"
  /\ step \in {"wave", "validating"} =>
       /\ wave \in 1 .. TotalWaves
       /\ Len(waveResults) = wave - 1
       /\ \A i \in DOMAIN waveResults : ~HaltsRun(waveResults[i])
       /\ \A op \in Op : WaveOf(op) < wave => outcome[op] # "pending"
       /\ \A op \in Op : WaveOf(op) > wave => outcome[op] = "pending"
  /\ step = "validating" => \A op \in Op : WaveOf(op) <= wave => outcome[op] # "pending"
  /\ step \in {"final", "judging"} => (AllPassed => AllOver)
  /\ \A i \in DOMAIN waveResults : waveResults[i].critical => ~waveResults[i].success

VerdictInv ==
  /\ step # "done" => verdict = "none"
  /\ verdict = "passed" => AllPassed /\ AllOver
  /\ ToleratedOnlyWithChaos

RunInv == ValidationInv /\ RunTypeOK /\ WavesInv /\ VerdictInv

\* What does not change with the scenario.
LEMMA SameScenario ==
  ASSUME UNCHANGED scenario
  PROVE  /\ Op' = Op /\ TotalWaves' = TotalWaves
         /\ \A op : (WaveOf(op))' = WaveOf(op)
BY DEF Op, TotalWaves, WaveOf

LEMMA RunStarts ==
  ASSUME Init
  PROVE  RunInv
<1>1. ValidationInv
  BY ValidationStarts DEF Init
<1>2. RunTypeOK
  BY DEF Init, RunTypeOK
<1>3. WavesInv
  BY DEF Init, WavesInv
<1>4. VerdictInv
  BY DEF Init, VerdictInv, ToleratedOnlyWithChaos
<1> QED
  BY <1>1, <1>2, <1>3, <1>4 DEF RunInv

\* A step that leaves the engine where it is.
LEMMA RunStays ==
  ASSUME RunInv, UNCHANGED runVars, ValidationInv'
  PROVE  RunInv'
<1>1. UNCHANGED scenario /\ Op' = Op /\ TotalWaves' = TotalWaves /\ \A op : (WaveOf(op))' = WaveOf(op)
  BY SameScenario DEF runVars
<1>2. RunTypeOK'
  BY <1>1 DEF RunInv, RunTypeOK, runVars
<1>3. WavesInv'
  BY <1>1 DEF RunInv, WavesInv, runVars, AllPassed, AllOver, HaltsRun
<1>4. VerdictInv'
  BY <1>1 DEF RunInv, VerdictInv, runVars, AllPassed, AllOver, ToleratedOnlyWithChaos, Executed
<1> QED
  BY <1>2, <1>3, <1>4 DEF RunInv

LEMMA SetupKeeps ==
  ASSUME RunInv, SetupDone
  PROVE  RunInv'
<1>1. UNCHANGED scenario /\ Op' = Op /\ TotalWaves' = TotalWaves /\ \A op : (WaveOf(op))' = WaveOf(op)
  BY SameScenario DEF SetupDone
<1>2. ValidationInv'
  BY ValidationStays DEF SetupDone, RunInv
<1>3. RunTypeOK'
  BY <1>1 DEF SetupDone, RunInv, RunTypeOK
<1>4. /\ wave = 1 /\ waveResults = <<>> /\ verdict = "none"
      /\ \A op \in Op : outcome[op] = "pending"
  BY DEF SetupDone, RunInv, WavesInv, VerdictInv
<1>5. WavesInv'
  <2>1. scenario \in Scenarios
    BY DEF RunInv, RunTypeOK
  <2>2. /\ TotalWaves \in Nat /\ (Op = {} => TotalWaves = 0)
        /\ \A op \in Op : WaveOf(op) \in 1 .. TotalWaves
    BY <2>1, WaveBound
  <2>3. CASE Op = {}
    <3>1. step' = "final" /\ Len(waveResults') = 0
      BY <2>3, <1>4 DEF SetupDone
    <3> QED
      BY <2>2, <2>3, <3>1, <1>1, <1>4 DEF SetupDone, WavesInv, AllOver
  <2>4. CASE Op # {}
    <3>1. step' = "wave" /\ wave' = 1 /\ waveResults' = <<>> /\ outcome' = outcome
      BY <2>4, <1>4 DEF SetupDone
    <3>2. wave' \in 1 .. TotalWaves
      BY <2>2, <2>4, <3>1
    <3> QED
      BY <2>2, <3>1, <3>2, <1>1, <1>4 DEF WavesInv
  <2> QED
    BY <2>3, <2>4
<1>6. VerdictInv'
  BY <1>4 DEF SetupDone, VerdictInv, ToleratedOnlyWithChaos
<1> QED
  BY <1>2, <1>3, <1>5, <1>6 DEF RunInv

LEMMA FailsKeeps ==
  ASSUME RunInv, Fails
  PROVE  RunInv'
<1>1. UNCHANGED scenario /\ Op' = Op /\ TotalWaves' = TotalWaves /\ \A op : (WaveOf(op))' = WaveOf(op)
  BY SameScenario DEF Fails
<1>2. ValidationInv'
  BY ValidationStays DEF Fails, RunInv
<1>3. RunTypeOK'
  BY <1>1 DEF Fails, RunInv, RunTypeOK
<1>4. WavesInv'
  BY DEF Fails, RunInv, WavesInv
<1>5. VerdictInv'
  BY DEF Fails, VerdictInv, ToleratedOnlyWithChaos
<1> QED
  BY <1>2, <1>3, <1>4, <1>5 DEF RunInv

LEMMA EndOperationKeeps ==
  ASSUME RunInv, NEW op \in Op, EndOperation(op)
  PROVE  RunInv'
<1>1. UNCHANGED scenario /\ Op' = Op /\ TotalWaves' = TotalWaves /\ \A o : (WaveOf(o))' = WaveOf(o)
  BY SameScenario DEF EndOperation
<1>2. ValidationInv'
  BY ValidationStays DEF EndOperation, RunInv
<1>3. PICK reports \in PossibleReports(op) :
        /\ happened' = happened \cup reports
        /\ \/ \E o \in {"ok", "failed"} : outcome' = [outcome EXCEPT ![op] = o]
              /\ events' = events \cup reports
           \/ outcome' = [outcome EXCEPT ![op] = "failed"]
              /\ UNCHANGED events
  BY DEF EndOperation
<1>4. reports \subseteq Op \X ChaosEvents
  BY DEF PossibleReports
<1>5. PICK o \in {"ok", "failed"} : outcome' = [outcome EXCEPT ![op] = o]
  BY <1>3
<1>6. outcome \in [Op -> {"pending", "ok", "failed"}]
  BY DEF RunInv, RunTypeOK
<1>7. /\ outcome' \in [Op -> {"pending", "ok", "failed"}]
      /\ \A q \in Op : outcome[q] # "pending" => outcome'[q] # "pending"
  BY <1>5, <1>6
<1>8. events' \subseteq happened' /\ happened' \subseteq Op \X ChaosEvents
  BY <1>3, <1>4 DEF RunInv, RunTypeOK
<1>9. RunTypeOK'
  BY <1>1, <1>7, <1>8 DEF EndOperation, RunInv, RunTypeOK
<1>10. WavesInv'
  <2>1. WaveOf(op) = wave /\ wave \in Nat
    BY WaveBound DEF EndOperation, OpsOf, RunInv, RunTypeOK, WavesInv
  <2>2. \A q \in Op : WaveOf(q) > wave => outcome'[q] = outcome[q]
    BY <2>1, <1>5, <1>6
  <2> QED
    BY <2>2, <1>1, <1>7 DEF EndOperation, RunInv, WavesInv, HaltsRun
<1>11. VerdictInv'
  BY DEF EndOperation, RunInv, VerdictInv, ToleratedOnlyWithChaos
<1> QED
  BY <1>2, <1>9, <1>10, <1>11 DEF RunInv

LEMMA EndWaveKeeps ==
  ASSUME RunInv, EndWave
  PROVE  RunInv'
<1>1. UNCHANGED scenario /\ Op' = Op /\ TotalWaves' = TotalWaves /\ \A o : (WaveOf(o))' = WaveOf(o)
  BY SameScenario DEF EndWave
<1>2. ValidationInv'
  BY CallKeeps DEF EndWave, RunInv
<1>3. RunTypeOK'
  BY <1>1 DEF EndWave, RunInv, RunTypeOK
<1>4. \A op \in Op : WaveOf(op) <= wave => outcome[op] # "pending"
  <2>1. TAKE op \in Op
  <2>2. scenario \in Scenarios /\ wave \in 1 .. TotalWaves
    BY DEF EndWave, RunInv, RunTypeOK, WavesInv
  <2>3. wave \in Int /\ WaveOf(op) \in Int
    BY <2>2, WaveBound
  <2>4. CASE WaveOf(op) < wave
    BY <2>4 DEF EndWave, RunInv, WavesInv
  <2>5. CASE WaveOf(op) = wave
    BY <2>5 DEF EndWave, OpsOf
  <2> QED
    BY <2>2, <2>3, <2>4, <2>5
<1>5. WavesInv'
  BY <1>1, <1>4 DEF EndWave, RunInv, WavesInv, HaltsRun
<1>6. VerdictInv'
  BY DEF EndWave, RunInv, VerdictInv, ToleratedOnlyWithChaos
<1> QED
  BY <1>2, <1>3, <1>5, <1>6 DEF RunInv

\* The results of the waves with one more at the end.
LEMMA AppendResult ==
  ASSUME NEW s \in Seq(Result), NEW r \in Result
  PROVE  /\ Append(s, r) \in Seq(Result)
         /\ Len(Append(s, r)) = Len(s) + 1
         /\ DOMAIN Append(s, r) = DOMAIN s \cup {Len(s) + 1}
         /\ \A i \in DOMAIN s : Append(s, r)[i] = s[i]
         /\ Append(s, r)[Len(s) + 1] = r
OBVIOUS

LEMMA AfterWaveKeeps ==
  ASSUME RunInv, AfterWave
  PROVE  RunInv'
<1>1. UNCHANGED scenario /\ Op' = Op /\ TotalWaves' = TotalWaves /\ \A o : (WaveOf(o))' = WaveOf(o)
  BY SameScenario DEF AfterWave
<1>2. ValidationInv'
  BY ReturnKeeps DEF AfterWave, RunInv
<1>3. /\ result \in Result /\ waveResults \in Seq(Result) /\ waveResults' = Append(waveResults, result)
      /\ scenario \in Scenarios
  BY DEF AfterWave, RunInv, ValidationInv, ValidationTypeOK, RunTypeOK
<1>4. /\ TotalWaves \in Nat
      /\ \A op \in Op : WaveOf(op) \in 1 .. TotalWaves
  BY <1>3, WaveBound
<1>5. /\ wave \in 1 .. TotalWaves /\ Len(waveResults) = wave - 1
      /\ \A i \in DOMAIN waveResults : ~HaltsRun(waveResults[i])
      /\ \A op \in Op : WaveOf(op) <= wave => outcome[op] # "pending"
      /\ \A op \in Op : WaveOf(op) > wave => outcome[op] = "pending"
  BY DEF AfterWave, RunInv, WavesInv
<1>6. /\ waveResults' \in Seq(Result) /\ Len(waveResults') = wave
      /\ DOMAIN waveResults' = DOMAIN waveResults \cup {wave}
      /\ \A i \in DOMAIN waveResults : waveResults'[i] = waveResults[i]
      /\ waveResults'[wave] = result
  <2>1. Len(waveResults) + 1 = wave
    BY <1>4, <1>5
  <2> QED
    BY <2>1, <1>3, AppendResult
<1>7. \A i \in DOMAIN waveResults' : waveResults'[i].critical => ~waveResults'[i].success
  <2>1. result.critical => ~result.success
    BY DEF RunInv, ValidationInv, Honest
  <2>2. \A i \in DOMAIN waveResults : waveResults'[i].critical => ~waveResults'[i].success
    BY <1>6 DEF RunInv, WavesInv
  <2> QED
    BY <2>1, <2>2, <1>6
<1>8. /\ outcome' = outcome /\ verdict' = verdict /\ events' = events /\ happened' = happened
      /\ verdict = "none"
  BY DEF AfterWave, RunInv, VerdictInv
<1>9. CASE ~(HaltsRun(result) \/ wave = TotalWaves)
  <2>1. step' = "wave" /\ wave' = wave + 1 /\ wave # TotalWaves
    BY <1>9 DEF AfterWave
  <2>2. ~HaltsRun(result)
    BY <1>9
  <2>3. wave' \in 1 .. TotalWaves /\ Len(waveResults') = wave' - 1
    BY <2>1, <1>4, <1>5, <1>6
  <2>4. \A i \in DOMAIN waveResults' : ~HaltsRun(waveResults'[i])
    BY <2>2, <1>5, <1>6
  <2>5. \A op \in Op : /\ WaveOf(op) < wave' => outcome[op] # "pending"
                       /\ WaveOf(op) > wave' => outcome[op] = "pending"
    BY <2>1, <1>4, <1>5
  <2>6. RunTypeOK'
    BY <2>1, <2>3, <1>1, <1>6, <1>8 DEF RunInv, RunTypeOK
  <2>7. WavesInv'
    BY <2>1, <2>3, <2>4, <2>5, <1>1, <1>7, <1>8 DEF WavesInv, HaltsRun
  <2>8. VerdictInv'
    BY <1>8 DEF VerdictInv, ToleratedOnlyWithChaos
  <2> QED
    BY <2>6, <2>7, <2>8, <1>2 DEF RunInv
<1>10. CASE HaltsRun(result) \/ wave = TotalWaves
  <2>1. step' = "final" /\ wave' = wave
    BY <1>10 DEF AfterWave
  <2>2. ASSUME AllPassed'
        PROVE  Len(waveResults') = TotalWaves /\ \A op \in Op : outcome'[op] # "pending"
    <3>1. result.success
      BY <2>2, <1>6 DEF AllPassed
    <3>2. wave = TotalWaves
      BY <3>1, <1>10 DEF HaltsRun
    <3> QED
      BY <3>2, <1>4, <1>5, <1>6, <1>8
  <2>3. RunTypeOK'
    BY <2>1, <1>1, <1>6, <1>8 DEF RunInv, RunTypeOK
  <2>4. WavesInv'
    BY <2>1, <2>2, <1>1, <1>7 DEF WavesInv, AllOver
  <2>5. VerdictInv'
    BY <1>8 DEF VerdictInv, ToleratedOnlyWithChaos
  <2> QED
    BY <2>3, <2>4, <2>5, <1>2 DEF RunInv
<1> QED
  BY <1>9, <1>10

LEMMA FinalKeeps ==
  ASSUME RunInv, FinalValidation
  PROVE  RunInv'
<1>1. UNCHANGED scenario /\ Op' = Op /\ TotalWaves' = TotalWaves /\ \A o : (WaveOf(o))' = WaveOf(o)
  BY SameScenario DEF FinalValidation
<1>2. ValidationInv'
  BY CallKeeps DEF FinalValidation, RunInv
<1>3. RunTypeOK'
  BY <1>1 DEF FinalValidation, RunInv, RunTypeOK
<1>4. WavesInv'
  BY <1>1 DEF FinalValidation, RunInv, WavesInv, AllPassed, AllOver
<1>5. VerdictInv'
  BY DEF FinalValidation, RunInv, VerdictInv, ToleratedOnlyWithChaos
<1> QED
  BY <1>2, <1>3, <1>4, <1>5 DEF RunInv

\* Without a reason for failing every wave passed, and what failed is excused.
LEMMA NoReason ==
  ASSUME NEW final, FailureReasons(final) = {}
  PROVE  /\ \A i \in DOMAIN waveResults : waveResults[i].success
         /\ Executed # Op => HasInterferingChaos
<1>1. ~(\E i \in DOMAIN waveResults : ~waveResults[i].success)
  BY DEF FailureReasons
<1>2. ~(Executed # Op /\ ~(HasInterferingChaos /\ final.success))
  BY DEF FailureReasons
<1> QED
  BY <1>1, <1>2

LEMMA JudgedKeeps ==
  ASSUME RunInv, Judged
  PROVE  RunInv'
<1>1. UNCHANGED scenario /\ Op' = Op /\ TotalWaves' = TotalWaves /\ \A o : (WaveOf(o))' = WaveOf(o)
  BY SameScenario DEF Judged
<1>2. ValidationInv'
  BY ReturnKeeps DEF Judged, RunInv
<1>3. /\ step' = "done" /\ UNCHANGED <<wave, outcome, events, happened, waveResults>>
      /\ verdict' \in {"passed", "failed"}
      /\ verdict' = "passed" => FailureReasons(result) = {}
  BY DEF Judged
<1>4. RunTypeOK'
  BY <1>1, <1>3 DEF RunInv, RunTypeOK
<1>5. WavesInv'
  BY <1>3 DEF RunInv, WavesInv
<1>6. ASSUME verdict' = "passed"
      PROVE  AllPassed /\ AllOver /\ (Executed # Op => HasInterferingChaos)
  BY <1>6, <1>3, NoReason DEF Judged, RunInv, WavesInv, AllPassed
<1>7. ASSUME verdict' = "passed", Executed' # Op'
      PROVE  \E report \in happened' :
               report[2].success /\ (report[2].phase # "after" \/ scenario'.perOperation)
  <2>1. HasInterferingChaos /\ events \subseteq happened
    BY <1>6, <1>7, <1>1, <1>3 DEF Executed, RunInv, RunTypeOK
  <2>2. PICK report \in events :
          Interferes(report[2]) \/ (scenario.perOperation /\ report[2].success)
    BY <2>1 DEF HasInterferingChaos
  <2>3. report[2].success /\ (report[2].phase # "after" \/ scenario.perOperation)
    BY <2>2 DEF Interferes
  <2> QED
    BY <2>1, <2>3, <1>1, <1>3
<1>8. VerdictInv'
  BY <1>1, <1>3, <1>6, <1>7 DEF VerdictInv, ToleratedOnlyWithChaos, AllPassed, AllOver
<1> QED
  BY <1>2, <1>4, <1>5, <1>8 DEF RunInv

LEMMA RunStep ==
  ASSUME RunInv, [Next]_vars
  PROVE  RunInv'
<1>1. CASE UNCHANGED vars
  BY <1>1, ValidationStays, RunStays DEF vars, RunInv
<1>2. CASE ValidatorStep /\ UNCHANGED runVars
  BY <1>2, ValidatorStepKeeps, RunStays DEF RunInv
<1>3. CASE SetupFails \/ ValidatorRaised
  BY <1>3, FailsKeeps DEF SetupFails, ValidatorRaised
<1>4. CASE \E op \in Op : EndOperation(op)
  BY <1>4, EndOperationKeeps
<1> QED
  BY <1>1, <1>2, <1>3, <1>4, SetupKeeps, EndWaveKeeps, AfterWaveKeeps, FinalKeeps, JudgedKeeps
     DEF Next, EngineStep, Done

LEMMA RunInvariance == Spec => []RunInv
<1>1. RunInv /\ [Next]_vars => RunInv'
  BY RunStep
<1> QED
  BY <1>1, RunStarts, PTL DEF Spec

----------------------------------------------------------------------------
(* What is left of a run *)

\* The attempts of a call are counted, and a pause is followed by one more.
Counted ==
  /\ stage \notin {"idle", "raised"} => attempt <= maxRetries + 1
  /\ stage = "backoff" => attempt <= maxRetries

LEMMA CountedStep ==
  ASSUME ValidationInv, Counted, [Next]_vars
  PROVE  Counted'
<1>1. maxRetries \in Int /\ attempt \in Int
  BY ValidationAssumption DEF ValidationInv, ValidationTypeOK
<1>2. CASE UNCHANGED validationVars
  BY <1>2 DEF Counted, validationVars, configVars, loopVars
<1>3. CASE CallValidator
  BY <1>1, <1>3 DEF CallValidator, BeginAttempt, configVars, Counted
<1>4. CASE Return
  BY <1>4 DEF Return, Counted
<1>5. CASE Judge
  BY <1>1, <1>5 DEF Judge, MayRetry, Counted, configVars
<1>6. CASE Retry
  BY <1>1, <1>6 DEF Retry, BeginAttempt, Counted, configVars
<1>7. CASE ValidatorStep /\ ~Judge /\ ~Retry
  BY <1>7 DEF ValidatorStep, Stabilise, StartCheck, CheckReturns, EndCheck, CheckRaises, AlarmEscapes,
     AlarmFailsCheck, AlarmSwallowed, TimeOut, Counted, configVars, loopVars
<1> QED
  BY <1>2, <1>3, <1>4, <1>5, <1>6, <1>7 DEF Next, EngineStep, Done, SetupDone, SetupFails, EndOperation,
     EndWave, AfterWave, FinalValidation, Judged, ValidatorRaised, Fails, vars

LEMMA CountedInvariance == Spec => []Counted
<1>1. Init => Counted
  BY DEF Init, ValidationInit, Counted
<1>2. RunInv /\ Counted /\ [Next]_vars => Counted'
  BY CountedStep DEF RunInv
<1> QED
  BY <1>1, <1>2, RunInvariance, PTL DEF Spec

LEMMA StepsAt ==
  /\ step = "setup" => StepsLeft = 5 /\ WavesLeft = TotalWaves
  /\ step = "wave" => StepsLeft = 4 /\ WavesLeft = TotalWaves - wave
  /\ step = "validating" => StepsLeft = 3 /\ WavesLeft = TotalWaves - wave
  /\ step = "final" => StepsLeft = 2 /\ WavesLeft = 0
  /\ step = "judging" => StepsLeft = 1 /\ WavesLeft = 0
  /\ step = "done" => StepsLeft = 0 /\ WavesLeft = 0
BY DEF StepsLeft, WavesLeft

LEMMA StepsThen ==
  /\ step' = "wave" => StepsLeft' = 4 /\ WavesLeft' = TotalWaves' - wave'
  /\ step' = "validating" => StepsLeft' = 3 /\ WavesLeft' = TotalWaves' - wave'
  /\ step' = "final" => StepsLeft' = 2 /\ WavesLeft' = 0
  /\ step' = "judging" => StepsLeft' = 1 /\ WavesLeft' = 0
  /\ step' = "done" => StepsLeft' = 0 /\ WavesLeft' = 0
BY DEF StepsLeft, WavesLeft

LEMMA StagesAt ==
  /\ stage = "stabilise" => StagesLeft = 6
  /\ stage = "gate" => StagesLeft = 5
  /\ stage = "check" => StagesLeft = IF late THEN 3 ELSE 4
  /\ stage = "judge" => StagesLeft = 2
  /\ stage = "backoff" => StagesLeft = 1
  /\ stage \in {"idle", "returned", "raised"} => StagesLeft = 0
BY DEF StagesLeft

LEMMA StagesThen ==
  /\ stage' = "gate" => StagesLeft' = 5
  /\ stage' = "check" => StagesLeft' = IF late' THEN 3 ELSE 4
  /\ stage' = "judge" => StagesLeft' = 2
  /\ stage' = "backoff" => StagesLeft' = 1
  /\ stage' = "returned" => StagesLeft' = 0
BY DEF StagesLeft

LEMMA LeftType ==
  ASSUME RunInv, Counted
  PROVE  Left \in Amounts(6)
<1>1. scenario \in Scenarios
  BY DEF RunInv, RunTypeOK
<1>2. TotalWaves \in Nat
  BY <1>1, WaveBound
<1>3. step \in {"setup", "wave", "validating", "final", "judging", "done"}
  BY DEF RunInv, RunTypeOK
<1>4. step \in {"wave", "validating"} => wave \in 1 .. TotalWaves
  BY DEF RunInv, WavesInv
<1>5. StepsLeft \in Nat
  BY <1>3, StepsAt
<1>6. WavesLeft \in Nat
  BY <1>2, <1>3, <1>4, StepsAt
<1>7. Cardinality(Pending) \in Nat
  <2>1. Pending \subseteq Op
    BY DEF Pending
  <2> QED
    BY <1>1, <2>1, OpsType, FS_Subset, FS_CardinalityType
<1>8. AttemptsLeft \in Nat
  BY ValidationAssumption DEF RunInv, ValidationInv, ValidationTypeOK, Counted, AttemptsLeft
<1>9. ChecksLeft \in Nat
  BY ChecksType DEF RunInv, ValidationInv, ValidationTypeOK, ChecksLeft
<1>10. StagesLeft \in Nat
  <2>1. stage \in Stages
    BY DEF RunInv, ValidationInv, ValidationTypeOK
  <2> QED
    BY <2>1, StagesAt DEF Stages
<1> QED
  BY <1>5, <1>6, <1>7, <1>8, <1>9, <1>10 DEF Left, Amounts

LEMMA LeftParts ==
  /\ DOMAIN Left = 1 .. 6
  /\ Left[1] = WavesLeft /\ Left[2] = StepsLeft /\ Left[3] = Cardinality(Pending)
  /\ Left[4] = AttemptsLeft /\ Left[5] = ChecksLeft /\ Left[6] = StagesLeft
  /\ Left'[1] = WavesLeft' /\ Left'[2] = StepsLeft' /\ Left'[3] = Cardinality(Pending)'
  /\ Left'[4] = AttemptsLeft' /\ Left'[5] = ChecksLeft' /\ Left'[6] = StagesLeft'
BY DEF Left

\* A step of an attempt, or the next attempt.
LEMMA ValidatorStepShortens ==
  ASSUME ValidationInv, Counted, ValidatorStep
  PROVE  \/ AttemptsLeft' < AttemptsLeft
         \/ /\ AttemptsLeft' = AttemptsLeft
            /\ \/ ChecksLeft' < ChecksLeft
               \/ ChecksLeft' = ChecksLeft /\ StagesLeft' < StagesLeft
<1>1. /\ LastCheck \in Nat /\ next \in 1 .. LastCheck + 1 /\ maxRetries \in Int /\ attempt \in Int
      /\ stage = "check" => next <= LastCheck
      /\ stage = "stabilise" => next = 1 /\ ~late
  BY ChecksType, ValidationAssumption DEF ValidationInv, ValidationTypeOK, Progress, late
<1>2. LastCheck' = LastCheck
  BY DEF LastCheck
<1>3. CASE Retry
  BY <1>1, <1>3 DEF Retry, BeginAttempt, configVars, AttemptsLeft
<1>4. CASE ~Retry
  <2>1. AttemptsLeft' = AttemptsLeft
    BY <1>4 DEF ValidatorStep, Stabilise, StartCheck, CheckReturns, EndCheck, Judge, CheckRaises,
       AlarmEscapes, AlarmFailsCheck, AlarmSwallowed, TimeOut, AttemptsLeft, configVars, loopVars
  <2>2. CASE Stabilise
    <3>1. stage = "stabilise" /\ stage' \in {"gate", "judge"} /\ next' = next
      BY <2>2 DEF Stabilise, TimeOut, attemptVars
    <3> QED
      BY <1>1, <1>2, <2>1, <3>1, StagesAt, StagesThen DEF ChecksLeft
  <2>3. CASE StartCheck
    <3>1. /\ stage = "gate" /\ stage' \in {"check", "judge"} /\ next' = next
      BY <2>3 DEF StartCheck, TimeOut, attemptVars
    <3> QED
      BY <1>1, <1>2, <2>1, <3>1, StagesAt, StagesThen DEF ChecksLeft
  <2>4. CASE CheckReturns \/ AlarmFailsCheck
    <3>1. stage = "check" /\ stage' = "gate" /\ next' = next + 1
      BY <2>4 DEF CheckReturns, AlarmFailsCheck, EndCheck
    <3> QED
      BY <1>1, <1>2, <2>1, <3>1 DEF ChecksLeft
  <2>5. CASE AlarmSwallowed
    <3>1. stage = "check" /\ stage' = "check" /\ next' = next /\ ~late /\ late'
      BY <1>1, <2>5 DEF AlarmSwallowed, DeadlinePasses, late, InTime
    <3> QED
      BY <1>1, <1>2, <2>1, <3>1, StagesAt, StagesThen DEF ChecksLeft
  <2>6. CASE CheckRaises \/ AlarmEscapes
    <3>1. stage \in {"gate", "check"} /\ stage' = "judge"
      BY <2>6 DEF CheckRaises, AlarmEscapes, TimeOut
    <3> QED
      BY <1>1, <1>2, <2>1, <3>1, StagesAt, StagesThen DEF ChecksLeft
  <2>7. CASE Judge
    <3>1. stage = "judge" /\ stage' \in {"backoff", "returned"}
      BY <2>7 DEF Judge
    <3> QED
      BY <2>1, <3>1, StagesAt, StagesThen DEF ChecksLeft
  <2> QED
    BY <1>4, <2>1, <2>2, <2>3, <2>4, <2>5, <2>6, <2>7 DEF ValidatorStep
<1> QED
  BY <1>3, <1>4

\* An operation that has ended is pending no more.
LEMMA EndOperationShortens ==
  ASSUME RunInv, NEW op \in Op, EndOperation(op)
  PROVE  /\ WavesLeft' = WavesLeft /\ StepsLeft' = StepsLeft
         /\ Cardinality(Pending') < Cardinality(Pending)
<1>1. UNCHANGED <<scenario, step, wave>> /\ Op' = Op /\ TotalWaves' = TotalWaves
  BY SameScenario DEF EndOperation
<1>2. WavesLeft' = WavesLeft /\ StepsLeft' = StepsLeft
  BY <1>1 DEF WavesLeft, StepsLeft
<1>3. PICK o \in {"ok", "failed"} : outcome' = [outcome EXCEPT ![op] = o]
  BY DEF EndOperation
<1>4. outcome \in [Op -> {"pending", "ok", "failed"}] /\ outcome[op] = "pending" /\ scenario \in Scenarios
  BY DEF RunInv, RunTypeOK, EndOperation
<1>5. Pending' = Pending \ {op} /\ op \in Pending
  BY <1>1, <1>3, <1>4 DEF Pending
<1>6. IsFiniteSet(Pending)
  <2>1. Pending \subseteq Op
    BY DEF Pending
  <2> QED
    BY <1>4, <2>1, OpsType, FS_Subset
<1>7. Cardinality(Pending \ {op}) = Cardinality(Pending) - 1 /\ Cardinality(Pending) \in Nat
  BY <1>5, <1>6, FS_RemoveElement, FS_CardinalityType
<1> QED
  BY <1>2, <1>5, <1>7

\* A step of the engine between the waves and validations.
LEMMA EngineStepShortens ==
  ASSUME RunInv,
         SetupDone \/ SetupFails \/ EndWave \/ AfterWave \/ FinalValidation \/ Judged \/ ValidatorRaised
  PROVE  WavesLeft' < WavesLeft \/ (WavesLeft' = WavesLeft /\ StepsLeft' < StepsLeft)
<1>1. UNCHANGED scenario
  BY DEF SetupDone, SetupFails, EndWave, AfterWave, FinalValidation, Judged, ValidatorRaised, Fails
<1>2. TotalWaves' = TotalWaves /\ scenario \in Scenarios
  BY <1>1, SameScenario DEF RunInv, RunTypeOK
<1>3. /\ TotalWaves \in Nat
      /\ Op = {} => TotalWaves = 0
      /\ Op # {} => TotalWaves >= 1
  <2>1. ASSUME NEW op \in Op PROVE TotalWaves >= 1
    BY <1>2, WaveBound
  <2> QED
    BY <1>2, <2>1, WaveBound
<1>4. /\ step = "setup" => wave = 1
      /\ step \in {"wave", "validating"} => wave \in 1 .. TotalWaves
  BY DEF RunInv, WavesInv
<1>5. CASE SetupDone
  <2>1. step = "setup" /\ wave' = wave /\ (IF Op = {} THEN step' = "final" ELSE step' = "wave")
    BY <1>5 DEF SetupDone
  <2> QED
    BY <1>2, <1>3, <1>4, <2>1, StepsAt, StepsThen
<1>6. CASE SetupFails \/ ValidatorRaised
  <2>1. step \in {"setup", "validating", "judging"} /\ step' = "done"
    BY <1>6 DEF SetupFails, ValidatorRaised, Fails
  <2> QED
    BY <1>3, <1>4, <2>1, StepsAt, StepsThen
<1>7. CASE EndWave
  <2>1. step = "wave" /\ step' = "validating" /\ wave' = wave
    BY <1>7 DEF EndWave
  <2> QED
    BY <1>2, <2>1, StepsAt, StepsThen
<1>8. CASE AfterWave
  <2>1. /\ step = "validating"
        /\ step' = "final" \/ (step' = "wave" /\ wave' = wave + 1)
    BY <1>8 DEF AfterWave
  <2> QED
    BY <1>2, <1>3, <1>4, <2>1, StepsAt, StepsThen
<1>9. CASE FinalValidation \/ Judged
  <2>1. \/ step = "final" /\ step' = "judging"
        \/ step = "judging" /\ step' = "done"
    BY <1>9 DEF FinalValidation, Judged
  <2> QED
    BY <2>1, StepsAt, StepsThen
<1> QED
  BY <1>5, <1>6, <1>7, <1>8, <1>9

LEMMA StepShortens ==
  ASSUME RunInv, Counted, Next
  PROVE  Less(Left', Left) \/ UNCHANGED vars
<1>1. CASE ValidatorStep /\ UNCHANGED runVars
  <2>1. /\ WavesLeft' = WavesLeft /\ StepsLeft' = StepsLeft
        /\ Cardinality(Pending)' = Cardinality(Pending)
    BY <1>1, SameScenario DEF runVars, WavesLeft, StepsLeft, Pending
  <2>2. CASE AttemptsLeft' < AttemptsLeft
    BY <2>1, <2>2, LeftParts DEF Less
  <2>3. CASE AttemptsLeft' = AttemptsLeft /\ ChecksLeft' < ChecksLeft
    BY <2>1, <2>3, LeftParts DEF Less
  <2>4. CASE AttemptsLeft' = AttemptsLeft /\ ChecksLeft' = ChecksLeft /\ StagesLeft' < StagesLeft
    BY <2>1, <2>4, LeftParts DEF Less
  <2> QED
    BY <1>1, <2>2, <2>3, <2>4, ValidatorStepShortens DEF RunInv
<1>2. CASE \E op \in Op : EndOperation(op)
  BY <1>2, EndOperationShortens, LeftParts DEF Less
<1>3. CASE \/ SetupDone \/ SetupFails \/ EndWave \/ AfterWave \/ FinalValidation \/ Judged
           \/ ValidatorRaised
  BY <1>3, EngineStepShortens, LeftParts DEF Less
<1>4. CASE Done
  BY <1>4 DEF Done
<1> QED
  BY <1>1, <1>2, <1>3, <1>4 DEF Next, EngineStep

----------------------------------------------------------------------------
(* Theorems *)

\* Every variable of the run and of its validations keeps its type, whatever
\* fails (parallel_executor.py:147-190, state_validator.py:2625).
THEOREM RunTypeCorrect == Spec => []TypeOK
<1>1. RunInv => TypeOK
  BY DEF RunInv, ValidationInv, RunTypeOK, TypeOK
<1> QED
  BY <1>1, RunInvariance, PTL

\* Theorem: a validation that reports success ran every enabled check to its
\* end in one attempt, wherever the alarm went off (state_validator.py:2382-2560).
THEOREM SuccessComplete == Spec => []SuccessIsComplete
<1>1. RunInv => SuccessIsComplete
  BY DEF RunInv, ValidationInv, Honest, SuccessIsComplete
<1> QED
  BY <1>1, RunInvariance, PTL

\* Theorem: only an attempt that overran in its last check is not reported as
\* timed out (state_validator.py:2391, :2534-2560).
THEOREM OverrunReported == Spec => []OverrunOnlyInLastCheck
<1>1. RunInv => OverrunOnlyInLastCheck
  BY DEF RunInv, ValidationInv, Progress, OverrunOnlyInLastCheck
<1> QED
  BY <1>1, RunInvariance, PTL

\* Theorem: a failed operation is forgiven only in a run in which chaos really
\* struck (fuzzer_engine.py:407).
THEOREM ToleranceNeedsChaos == Spec => []ToleratedOnlyWithChaos
<1>1. RunInv => ToleratedOnlyWithChaos
  BY DEF RunInv, VerdictInv
<1> QED
  BY <1>1, RunInvariance, PTL

\* What a step does to the log depends on these alone.
LEMMA SameLog ==
  ASSUME UNCHANGED <<scenario, outcome, waveResults>>
  PROVE  Pending' = Pending /\ Fresh' = Fresh
<1>1. Op' = Op /\ \A op : (WaveOf(op))' = WaveOf(op)
  BY SameScenario
<1> QED
  BY <1>1 DEF Pending, Fresh

\* Every wave up to the last has an operation: there are as many waves as
\* numbers that they may have.
LEMMA WaveFull ==
  ASSUME scenario \in Scenarios, NEW w \in 1 .. TotalWaves
  PROVE  OpsOf(w) # {}
<1> DEFINE Waves == {WaveOf(op) : op \in Op}
<1>1. TotalWaves \in Nat /\ Waves \subseteq 1 .. TotalWaves
  BY WaveBound
<1>2. IsFiniteSet(1 .. TotalWaves) /\ Cardinality(1 .. TotalWaves) = TotalWaves
  BY <1>1, FS_Interval
<1>3. Cardinality(Waves) = TotalWaves
  BY DEF TotalWaves
<1>4. w \in Waves
  <2> HIDE DEF Waves
  <2> QED
    BY <1>1, <1>2, <1>3, FS_Subset
<1> QED
  BY <1>4 DEF OpsOf

LEMMA EndOperationLogged ==
  ASSUME RunInv, NEW op \in Op, EndOperation(op)
  PROVE  Log!End(op)
<1>1. UNCHANGED scenario /\ Op' = Op /\ \A o : (WaveOf(o))' = WaveOf(o)
  BY SameScenario DEF EndOperation
<1>2. PICK o \in {"ok", "failed"} : outcome' = [outcome EXCEPT ![op] = o]
  BY DEF EndOperation
<1>3. outcome \in [Op -> {"pending", "ok", "failed"}] /\ outcome[op] = "pending"
  BY DEF EndOperation, RunInv, RunTypeOK
<1>4. /\ wave \in 1 .. TotalWaves /\ Len(waveResults) = wave - 1
      /\ \A i \in DOMAIN waveResults : ~HaltsRun(waveResults[i])
  BY DEF EndOperation, RunInv, WavesInv
<1>5. WaveOf(op) > Len(waveResults)
  <2>1. WaveOf(op) = wave
    BY DEF EndOperation, OpsOf
  <2>2. TotalWaves \in Nat
    BY WaveBound DEF RunInv, RunTypeOK
  <2> QED
    BY <2>1, <2>2, <1>4
<1>6. Pending' = Pending \ {op}
  BY <1>1, <1>2, <1>3 DEF Pending
<1>7. waveResults' = waveResults /\ verdict' = verdict
  BY DEF EndOperation
<1>8. Fresh' = Fresh \cup {op}
  BY <1>1, <1>2, <1>3, <1>5, <1>7 DEF Fresh
<1>9. verdict = "none" /\ op \in Pending
  BY <1>3 DEF EndOperation, RunInv, VerdictInv, Pending
<1>10. ~Log!Halted
  BY <1>4 DEF Log!Halted, Log!Halts, HaltsRun
<1> QED
  BY <1>1, <1>6, <1>7, <1>8, <1>9, <1>10 DEF Log!End

LEMMA AfterWaveLogged ==
  ASSUME RunInv, AfterWave
  PROVE  Log!Validate(result) /\ result \in Result
<1>1. UNCHANGED scenario /\ Op' = Op /\ \A o : (WaveOf(o))' = WaveOf(o)
  BY SameScenario DEF AfterWave
<1>2. /\ result \in Result /\ waveResults \in Seq(Result) /\ scenario \in Scenarios
      /\ waveResults' = Append(waveResults, result)
      /\ UNCHANGED <<outcome, verdict>> /\ verdict = "none"
      /\ result.critical => ~result.success
  BY DEF AfterWave, RunInv, ValidationInv, ValidationTypeOK, RunTypeOK, Honest, VerdictInv
<1>3. TotalWaves \in Nat /\ \A op \in Op : WaveOf(op) \in 1 .. TotalWaves
  BY <1>2, WaveBound
<1>4. /\ wave \in 1 .. TotalWaves /\ Len(waveResults) = wave - 1
      /\ \A i \in DOMAIN waveResults : ~HaltsRun(waveResults[i])
      /\ \A op \in Op : WaveOf(op) <= wave => outcome[op] # "pending"
      /\ \A op \in Op : WaveOf(op) > wave => outcome[op] = "pending"
  BY DEF AfterWave, RunInv, WavesInv
<1>5. Len(waveResults') = wave
  <2>1. Len(waveResults') = Len(waveResults) + 1
    BY <1>2, AppendResult
  <2> QED
    BY <2>1, <1>3, <1>4
<1>6. Fresh # {}
  <2>1. PICK op \in Op : WaveOf(op) = wave
    BY <1>2, <1>4, WaveFull DEF OpsOf
  <2>2. WaveOf(op) <= wave /\ WaveOf(op) > Len(waveResults)
    BY <2>1, <1>3, <1>4
  <2> QED
    BY <2>2, <1>4 DEF Fresh
<1>7. Fresh' = {}
  BY <1>1, <1>2, <1>4, <1>5 DEF Fresh
<1>8. Pending' = Pending
  BY <1>1, <1>2 DEF Pending
<1>9. ~Log!Halted
  BY <1>4 DEF Log!Halted, Log!Halts, HaltsRun
<1> QED
  BY <1>1, <1>2, <1>6, <1>7, <1>8, <1>9 DEF Log!Validate

LEMMA JudgedLogged ==
  ASSUME RunInv, Judged
  PROVE  Log!Pass \/ Log!Fail
<1>1. UNCHANGED <<scenario, outcome, waveResults>> /\ Pending' = Pending /\ Fresh' = Fresh
  BY SameLog DEF Judged
<1>2. verdict = "none"
  BY DEF Judged, RunInv, VerdictInv
<1>3. CASE FailureReasons(result) = {}
  <2>1. AllPassed /\ AllOver /\ verdict' = "passed"
    BY <1>3, NoReason DEF Judged, RunInv, WavesInv, AllPassed
  <2>2. \A op \in Op : WaveOf(op) \in 1 .. TotalWaves
    BY WaveBound DEF RunInv, RunTypeOK
  <2>3. Pending = {}
    BY <2>1 DEF AllOver, Pending
  <2>4. TotalWaves \in Nat
    BY WaveBound DEF RunInv, RunTypeOK
  <2>5. Fresh = {}
    BY <2>1, <2>2, <2>4 DEF AllOver, Fresh
  <2> QED
    BY <1>1, <1>2, <2>1, <2>3, <2>5 DEF Log!Pass, AllPassed
<1>4. CASE FailureReasons(result) # {}
  BY <1>1, <1>2, <1>4 DEF Judged, Log!Fail
<1> QED
  BY <1>3, <1>4

\* Theorem: a run is a log of operations and validations: nothing follows a
\* result that halts it, no validation is without operations, and it passes only
\* with everything run and validated (parallel_executor.py:180-187,
\* fuzzer_engine.py:436-462).  Waves, validations with their attempts and
\* alarms, and the tolerance of failures are the detail that it leaves out.
THEOREM RunIsLogged == Spec => ImplementsLog
<1>1. Init => Log!LogInit
  <2> SUFFICES ASSUME Init PROVE Log!LogInit
    OBVIOUS
  <2>1. Fresh = {}
    BY DEF Init, Fresh
  <2> QED
    BY <2>1 DEF Init, Log!LogInit
<1>2. RunInv /\ [Next]_vars => [Log!LogNext]_Log!logVars
  <2> SUFFICES ASSUME RunInv, [Next]_vars PROVE [Log!LogNext]_Log!logVars
    OBVIOUS
  <2>1. ASSUME UNCHANGED <<scenario, outcome, waveResults, verdict>>
        PROVE  UNCHANGED Log!logVars
    BY <2>1, SameLog DEF Log!logVars
  <2>2. CASE UNCHANGED vars \/ (ValidatorStep /\ UNCHANGED runVars) \/ SetupDone \/ EndWave \/ FinalValidation
    BY <2>1, <2>2 DEF vars, runVars, SetupDone, EndWave, FinalValidation
  <2>3. ASSUME NEW op \in Op, EndOperation(op)
        PROVE  Log!LogNext
    <3>1. Log!End(op)
      BY <2>3, EndOperationLogged
    <3> QED
      BY <3>1 DEF Log!LogNext, Log!End
  <2>4. CASE AfterWave
    <3>1. Log!Validate(result) /\ result \in Result
      BY <2>4, AfterWaveLogged
    <3>2. PICK s \in BOOLEAN, c \in BOOLEAN : result = [success |-> s, critical |-> c]
      BY <3>1 DEF Result
    <3> QED
      BY <3>1, <3>2 DEF Log!LogNext
  <2>5. CASE Judged
    BY <2>5, JudgedLogged DEF Log!LogNext
  <2>6. CASE SetupFails \/ ValidatorRaised
    <3>1. Fails /\ verdict = "none"
      BY <2>6 DEF SetupFails, ValidatorRaised, RunInv, VerdictInv
    <3>2. UNCHANGED <<scenario, outcome, waveResults>> /\ verdict' = "failed"
      BY <3>1 DEF Fails
    <3> QED
      BY <3>1, <3>2, SameLog DEF Log!LogNext, Log!Fail
  <2> QED
    BY <2>2, <2>3, <2>4, <2>5, <2>6 DEF Next, EngineStep, Done
<1> QED
  BY <1>1, <1>2, RunInvariance, PTL DEF Spec, ImplementsLog, Log!LogSpec

\* Theorem: operations on members of one shard, named by role, run one after
\* the other and with a validation in between (parallel_executor.py:41-47).
THEOREM ShardsSerial == Spec => SerialPerShard
<1> DEFINE SameShard(o, op) ==
      LET a == scenario.targets[o]
          b == scenario.targets[op]
      IN /\ outcome'[op] # outcome[op]
         /\ o < op
         /\ a.kind = "role" /\ b.kind = "role" /\ a.shard = b.shard
         => outcome[o] # "pending" /\ Len(waveResults) >= WaveOf(o)
<1>1. ASSUME RunInv, [Next]_vars, NEW o \in Op, NEW op \in Op,
             outcome'[op] # outcome[op], o < op,
             scenario.targets[o].kind = "role", scenario.targets[op].kind = "role",
             scenario.targets[o].shard = scenario.targets[op].shard
      PROVE  outcome[o] # "pending" /\ Len(waveResults) >= WaveOf(o)
  <2>1. scenario \in Scenarios /\ outcome \in [Op -> {"pending", "ok", "failed"}]
    BY <1>1 DEF RunInv, RunTypeOK
  <2>2. \E q \in Op : EndOperation(q)
    BY <1>1 DEF Next, EngineStep, Done, SetupDone, SetupFails, EndWave, AfterWave, FinalValidation,
       Judged, ValidatorRaised, Fails, vars, runVars
  <2>3. PICK q \in Op : EndOperation(q)
    BY <2>2
  <2>4. PICK r : outcome' = [outcome EXCEPT ![q] = r]
    BY <2>3 DEF EndOperation
  <2>5. q = op
    BY <1>1, <2>1, <2>4
  <2>6. step = "wave" /\ WaveOf(op) = wave
    BY <2>3, <2>5 DEF EndOperation, OpsOf
  <2>7. o \in Nat /\ op \in Nat /\ 1 <= o
    BY <2>1, OpsType
  <2>8. WaveOf(o) < WaveOf(op)
    BY <1>1, <2>7, WaveGrows DEF GroupOf
  <2>9. outcome[o] # "pending" /\ Len(waveResults) = wave - 1
    BY <1>1, <2>6, <2>8 DEF RunInv, WavesInv
  <2> QED
    BY <2>6, <2>7, <2>8, <2>9, GroupFinite
<1>2. RunInv /\ [Next]_vars => [\A o, op \in Op : SameShard(o, op)]_vars
  BY <1>1
<1> HIDE DEF SameShard
<1>3. Spec => [][\A o, op \in Op : SameShard(o, op)]_vars
  BY <1>2, RunInvariance, PTL DEF Spec
<1> QED
  BY <1>3 DEF SerialPerShard, SameShard

\* Theorem: every step of the engine leaves less of the run, in the
\* lexicographic order of six natural numbers, for any scenario, checks and
\* max_retries (parallel_executor.py:147, state_validator.py:2635).
THEOREM RunShortens == Spec => RunRunsOut
<1> DEFINE Measured == Left \in Amounts(6)
           Shorter == Left' \in Amounts(6) /\ Less(Left', Left)
<1>1. RunInv /\ Counted => Measured
  BY LeftType
<1>2. RunInv /\ Counted /\ [Next]_vars /\ Measured' => [Shorter]_vars
  BY StepShortens
<1> HIDE DEF Measured, Shorter
<1>3. Spec => [][Shorter]_vars
  BY <1>1, <1>2, RunInvariance, CountedInvariance, PTL DEF Spec
<1> QED
  BY <1>3 DEF RunRunsOut, Shorter

\* Theorem: nothing becomes less for ever, in any number of parts: what every
\* step makes less comes to an end (parallel_executor.py:147).
THEOREM NothingEndless ==
  ASSUME NEW n \in Nat
  PROVE  IsWellFoundedOn({pair \in Amounts(n) \X Amounts(n) : Less(pair[1], pair[2])}, Amounts(n))
<1> DEFINE Smaller == {pair \in Nat \X Nat : pair[1] < pair[2]}
           Shorter == {pair \in Amounts(n) \X Amounts(n) : Less(pair[1], pair[2])}
<1>1. IsWellFoundedOn(Smaller, Nat)
  BY NatLessThanWellFounded DEF OpToRel
<1>2. \A i, j \in Nat : i < j => <<i, j>> \in Smaller
  OBVIOUS
<1> HIDE DEF Smaller
<1>3. Shorter \subseteq LexProductOrdering(Smaller, Nat, n)
  BY <1>2 DEF LexProductOrdering, Less, Amounts
<1>4. IsWellFoundedOn(LexProductOrdering(Smaller, Nat, n), Amounts(n))
  BY <1>1, WFLexProductOrdering DEF Amounts
<1> HIDE DEF Shorter
<1>5. IsWellFoundedOn(Shorter, Amounts(n))
  BY <1>3, <1>4, IsWellFoundedOnSubrelation
<1> QED
  BY <1>5 DEF Shorter
=============================================================================
