---------------------------- MODULE ValidationLoop ----------------------------
(***************************************************************************)
(* One call of validate_with_retry (class StateValidator in                *)
(* src/src/fuzzer_engine/state_validator.py): attempts, each of them a     *)
(* sequence of checks under a deadline, an alarm that may go off anywhere, *)
(* and the rules that end the loop.                                        *)
(*                                                                         *)
(* What a check would find is the environment's: the set ill of checks     *)
(* that fail if they run undisturbed changes from attempt to attempt.      *)
(***************************************************************************)
EXTENDS Integers, Sequences, FiniteSets

CONSTANTS
  Checks,          \* the enabled checks, in the order they run
  CriticalChecks,  \* checks whose failure is_critical_failure looks for
  MaxRetries       \* values of max_retries that a scenario may have

CheckNames == {Checks[i] : i \in DOMAIN Checks}

ASSUME ValidationAssumption ==
  /\ Checks \in Seq(STRING) /\ Checks # <<>>
  /\ CriticalChecks \subseteq CheckNames
  /\ MaxRetries \subseteq Int

Stages == {"idle", "stabilise", "gate", "check", "judge", "backoff", "returned", "raised"}

\* StateValidationResult, reduced to what its readers look at.
Result == [success : BOOLEAN, critical : BOOLEAN]
NoResult == [success |-> FALSE, critical |-> FALSE]

VARIABLES
  maxRetries,    \* config.max_retries
  retryEnabled,  \* config.retry_on_transient_failure
  stage,         \* where the call is
  attempt,       \* validate_with_retry's attempt
  next,          \* index of the check that runs or is next
  lateAt,        \* the check in which the deadline passed, or InTime
  failedChecks,  \* failed_checks of this attempt
  lastFailed,    \* last_failed_checks
  result,        \* the result of the last attempt
  ill,           \* the checks that would fail now
  passed         \* history: checks that ran and passed, this attempt

configVars == <<maxRetries, retryEnabled>>
attemptVars == <<next, lateAt, failedChecks, passed>>
loopVars == <<attempt, lastFailed, result>>
validationVars == <<configVars, stage, attemptVars, loopVars, ill>>

LastCheck == Len(Checks)

\* time.time() >= timeout_deadline
InTime == 0
late == lateAt # InTime
DeadlinePasses == lateAt' = next

----------------------------------------------------------------------------
(* validate_state *)

\* A new attempt has a new deadline and no failures.
BeginAttempt(number) ==
  /\ attempt' = number
  /\ next' = 1
  /\ lateAt' = InTime
  /\ failedChecks' = {}
  /\ passed' = {}
  /\ stage' = "stabilise"

\* The attempt is over: what is left of it is its failures.
TimeOut ==
  /\ IF late THEN UNCHANGED lateAt ELSE DeadlinePasses
  /\ failedChecks' = failedChecks \cup {"validation_timeout"}
  /\ stage' = "judge"
  /\ UNCHANGED <<next, passed>>

\* The stabilisation wait is capped by the deadline; reaching the deadline in
\* it ends the attempt.
Stabilise ==
  /\ stage = "stabilise"
  /\ \/ TimeOut
     \/ stage' = "gate" /\ UNCHANGED attemptVars
  /\ UNCHANGED <<configVars, loopVars, ill>>

\* Faulty variant of StartCheck: the clock is not looked at.
StartCheckAnyway ==
  /\ stage = "gate"
  /\ stage' = IF next > LastCheck THEN "judge" ELSE "check"
  /\ UNCHANGED <<configVars, attemptVars, loopVars, ill>>

\* Before each check the clock is read; after the last one it is not.
StartCheck ==
  /\ stage = "gate"
  /\ \/ next > LastCheck /\ stage' = "judge" /\ UNCHANGED attemptVars
     \/ next <= LastCheck /\ ~late /\ stage' = "check" /\ UNCHANGED attemptVars
     \/ next <= LastCheck /\ late /\ TimeOut
  /\ UNCHANGED <<configVars, loopVars, ill>>

\* The validator returns.  One that the alarm disturbed may have taken any
\* answer for missing, so its verdict can be either.
EndCheck(ok) ==
  /\ failedChecks' = IF ok THEN failedChecks ELSE failedChecks \cup {Checks[next]}
  /\ passed' = IF ok THEN passed \cup {Checks[next]} ELSE passed
  /\ next' = next + 1
  /\ stage' = "gate"

CheckReturns ==
  /\ stage = "check"
  /\ \E ok \in BOOLEAN :
       /\ ~late => ok = (Checks[next] \notin ill)
       /\ EndCheck(ok)
  /\ UNCHANGED <<lateAt, configVars, loopVars, ill>>

\* Faulty variant of AlarmEscapes: the time-out is not recorded.
AlarmEndsAttempt ==
  /\ stage \in {"gate", "check"}
  /\ ~late
  /\ DeadlinePasses
  /\ stage' = "judge"
  /\ UNCHANGED <<next, failedChecks, passed, configVars, loopVars, ill>>

\* The alarm reaches validate_state: it went off outside a validator, in the
\* few lines around the calls.
AlarmEscapes ==
  /\ stage \in {"gate", "check"}
  /\ ~late
  /\ TimeOut
  /\ UNCHANGED <<configVars, loopVars, ill>>

\* ... or the validator's own except clause, which makes it a failed check ...
AlarmFailsCheck ==
  /\ stage = "check"
  /\ ~late
  /\ DeadlinePasses
  /\ EndCheck(FALSE)
  /\ UNCHANGED <<configVars, loopVars, ill>>

\* ... or one that a query of a node, a replica or a key has, and the validator
\* goes on with no alarm left.
AlarmSwallowed ==
  /\ stage = "check"
  /\ ~late
  /\ DeadlinePasses
  /\ UNCHANGED <<stage, next, failedChecks, passed, configVars, loopVars, ill>>

\* Log validation has no except clause of its own: what it raises ends the
\* attempt.
CheckRaises ==
  /\ stage = "check"
  /\ Checks[next] = "log_validation"
  /\ failedChecks' = failedChecks \cup {"validation_framework"}
  /\ stage' = "judge"
  /\ UNCHANGED <<next, lateAt, passed, configVars, loopVars, ill>>

----------------------------------------------------------------------------
(* validate_with_retry *)

\* With a negative max_retries the loop body never runs, and the result it
\* returns was never assigned.
CallValidator ==
  /\ IF maxRetries + 1 > 0
     THEN BeginAttempt(1)
     ELSE stage' = "raised" /\ UNCHANGED <<attempt, attemptVars>>
  /\ lastFailed' = {}
  /\ result' = NoResult
  /\ ill' \in SUBSET CheckNames
  /\ UNCHANGED configVars

\* The call is over, and its locals are gone.
Return ==
  /\ stage' = "idle"
  /\ attempt' = 0
  /\ next' = 1
  /\ lateAt' = InTime
  /\ failedChecks' = {}
  /\ lastFailed' = {}
  /\ passed' = {}
  /\ result' = NoResult
  /\ ill' = {}
  /\ UNCHANGED configVars

IsCritical == failedChecks \cap CriticalChecks # {}

\* Another attempt follows unless this one passed, was critical, failed like the
\* one before it, or was the last.
MayRetry ==
  /\ failedChecks # {}
  /\ ~IsCritical
  /\ ~(attempt > 1 /\ failedChecks = lastFailed)
  /\ attempt < maxRetries + 1
  /\ retryEnabled

Judge ==
  /\ stage = "judge"
  /\ result' = [success |-> failedChecks = {}, critical |-> IsCritical]
  /\ lastFailed' = failedChecks
  /\ stage' = IF MayRetry THEN "backoff" ELSE "returned"
  /\ UNCHANGED <<configVars, attempt, attemptVars, ill>>

\* Faulty variant of Retry: the attempts are not counted.
RetrySameAttempt ==
  /\ stage = "backoff"
  /\ BeginAttempt(attempt)
  /\ ill' \in SUBSET CheckNames
  /\ UNCHANGED <<configVars, lastFailed, result>>

\* Meanwhile the cluster recovers or deteriorates (external); during an attempt
\* it does not, but the alarm makes verdicts arbitrary there.
Retry ==
  /\ stage = "backoff"
  /\ BeginAttempt(attempt + 1)
  /\ ill' \in SUBSET CheckNames
  /\ UNCHANGED <<configVars, lastFailed, result>>

ValidatorStep ==
  \/ Stabilise \/ StartCheck \/ CheckReturns \/ Judge \/ Retry
  \/ CheckRaises \/ AlarmEscapes \/ AlarmFailsCheck \/ AlarmSwallowed

ValidationInit ==
  /\ maxRetries \in MaxRetries
  /\ retryEnabled \in BOOLEAN
  /\ stage = "idle"
  /\ attempt = 0
  /\ next = 1
  /\ lateAt = InTime
  /\ failedChecks = {}
  /\ lastFailed = {}
  /\ result = NoResult
  /\ ill = {}
  /\ passed = {}

----------------------------------------------------------------------------

Failure == CheckNames \cup {"validation_timeout", "validation_framework"}

ValidationTypeOK ==
  /\ maxRetries \in MaxRetries
  /\ retryEnabled \in BOOLEAN
  /\ stage \in Stages
  /\ attempt \in Nat
  /\ next \in 1 .. LastCheck + 1
  /\ lateAt \in InTime .. LastCheck + 1
  /\ failedChecks \subseteq Failure
  /\ lastFailed \subseteq Failure
  /\ result \in Result
  /\ ill \subseteq CheckNames
  /\ passed \subseteq CheckNames

\* How many attempts may follow this one, how many checks of it are not over,
\* and what follows in it before the next check; the alarm goes off once.
AttemptsLeft == IF stage \in {"idle", "raised"} THEN 0 ELSE maxRetries + 1 - attempt

ChecksLeft == IF stage \in {"stabilise", "gate", "check"} THEN LastCheck + 1 - next ELSE 0

StagesLeft ==
  CASE stage = "stabilise" -> 6
    [] stage = "gate"      -> 5
    [] stage = "check"     -> IF late THEN 3 ELSE 4
    [] stage = "judge"     -> 2
    [] stage = "backoff"   -> 1
    [] OTHER               -> 0

\* A validation reported as passed ran every enabled check to its end, in one
\* attempt, wherever the alarm went off (state_validator.py:66, :2382-2560).
SuccessIsComplete ==
  stage = "returned" /\ result.success => passed = CheckNames

\* An attempt that overran its deadline is reported, unless it was in its last
\* check: nothing looks at the clock after that, and the alarm has gone off
\* (state_validator.py:2391, :2534-2560).
OverrunOnlyInLastCheck ==
  stage = "judge" /\ late /\ failedChecks = {} => lateAt >= LastCheck
=============================================================================
