------------------------------- MODULE RunLog -------------------------------
(***************************************************************************)
(* What a run promises, whatever its operations and validations are made   *)
(* of: operations end in rounds, the cluster is validated after each round *)
(* and never without one, the first result that halts the run is the last, *)
(* and the run passes only when no operation is left and none of the       *)
(* results says no (parallel_executor.py:36, fuzzer_engine.py:385).        *)
(***************************************************************************)
EXTENDS Integers, Sequences, TLAPS

VARIABLES
  blocking,  \* whether every failed validation halts the run
  todo,      \* operations that have not ended
  fresh,     \* operations that ended since the last validation
  results,   \* what the validations found
  verdict    \* "none" while the run goes on

logVars == <<blocking, todo, fresh, results, verdict>>

Halts(r) == ~r.success /\ (blocking \/ r.critical)
Halted == \E i \in DOMAIN results : Halts(results[i])

LogInit ==
  /\ fresh = {}
  /\ results = <<>>
  /\ verdict = "none"

End(op) ==
  /\ verdict = "none" /\ ~Halted
  /\ op \in todo
  /\ todo' = todo \ {op}
  /\ fresh' = fresh \cup {op}
  /\ UNCHANGED <<blocking, results, verdict>>

Validate(r) ==
  /\ r.critical => ~r.success
  /\ verdict = "none" /\ ~Halted
  /\ fresh # {}
  /\ fresh' = {}
  /\ results' = Append(results, r)
  /\ UNCHANGED <<blocking, todo, verdict>>

Pass ==
  /\ verdict = "none"
  /\ todo = {} /\ fresh = {}
  /\ \A i \in DOMAIN results : results[i].success
  /\ verdict' = "passed"
  /\ UNCHANGED <<blocking, todo, fresh, results>>

Fail ==
  /\ verdict = "none"
  /\ verdict' = "failed"
  /\ UNCHANGED <<blocking, todo, fresh, results>>

LogNext ==
  \/ \E op \in todo : End(op)
  \/ \E s, c \in BOOLEAN : Validate([success |-> s, critical |-> c])
  \/ Pass \/ Fail

LogSpec == LogInit /\ [][LogNext]_logVars

\* The log tells the whole story of a run: it passed only if every operation
\* ended, every one of them was validated and every result is a success, and
\* what halted it, which is anything critical, is at the end of the log.
LogTells ==
  /\ results \in Seq([success : BOOLEAN, critical : BOOLEAN])
  /\ verdict = "passed" =>
       todo = {} /\ fresh = {} /\ \A i \in DOMAIN results : results[i].success
  /\ \A i \in DOMAIN results :
       /\ results[i].critical => Halts(results[i])
       /\ Halts(results[i]) => i = Len(results) /\ fresh = {}

(***************************************************************************)
(* The contract is strong enough for that.                                 *)
(***************************************************************************)
THEOREM LogTellsAll == LogSpec => []LogTells
<1>1. LogInit => LogTells
  BY DEF LogInit, LogTells
<1>2. LogTells /\ [LogNext]_logVars => LogTells'
  <2> SUFFICES ASSUME LogTells, [LogNext]_logVars
               PROVE  LogTells'
    OBVIOUS
  <2>1. ASSUME NEW op \in todo, End(op)
        PROVE  LogTells'
    BY <2>1 DEF End, LogTells, Halted, Halts
  <2>2. ASSUME NEW s \in BOOLEAN, NEW c \in BOOLEAN, Validate([success |-> s, critical |-> c])
        PROVE  LogTells'
    <3> DEFINE r == [success |-> s, critical |-> c]
    <3>1. /\ r \in [success : BOOLEAN, critical : BOOLEAN]
          /\ results \in Seq([success : BOOLEAN, critical : BOOLEAN])
          /\ verdict' = "none" /\ fresh' = {} /\ blocking' = blocking
          /\ r.critical => ~r.success
          /\ results' = Append(results, r)
      BY <2>2 DEF Validate, LogTells
    <3> HIDE DEF r
    <3>2. /\ results' \in Seq([success : BOOLEAN, critical : BOOLEAN])
          /\ DOMAIN results' = DOMAIN results \cup {Len(results')}
          /\ \A i \in DOMAIN results : results'[i] = results[i]
      BY <3>1
    <3>3. \A i \in DOMAIN results : results'[i].success \/ ~(blocking \/ results'[i].critical)
      BY <3>2, <2>2 DEF Validate, Halted, Halts
    <3> QED
      BY <3>1, <3>2, <3>3 DEF LogTells, Halts
  <2>3. CASE Pass \/ Fail
    BY <2>3 DEF Pass, Fail, LogTells, Halts
  <2>4. CASE UNCHANGED logVars
    BY <2>4 DEF logVars, LogTells, Halts
  <2> QED
    BY <2>1, <2>2, <2>3, <2>4 DEF LogNext
<1> QED
  BY <1>1, <1>2, PTL DEF LogSpec
=============================================================================
