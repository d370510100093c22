------------------------------ MODULE MCTestRun ------------------------------
(***************************************************************************)
(* Instances of TestRun: two operations on one shard under chaos, one with *)
(* chaos of its own, three without chaos, no operation at all, and two     *)
(* checks, of which one is critical.                                       *)
(***************************************************************************)
EXTENDS TestRun

\* A failure of slot coverage is always critical, one of the logs never is.
TwoChecks == <<"slot_coverage", "log_validation">>
SlotsCritical == {"slot_coverage"}

\* The validator of scenarios wants max_retries to be no less than 0, the parser
\* takes any number.
AnyRetries == {-1, 0, 1}

Role(shard, role) == [kind |-> "role", shard |-> shard, name |-> role]
Named(shard) == [kind |-> "node", shard |-> shard, name |-> "node"]

SameShard == <<Role(0, "primary"), Role(0, "replica")>>
ThreeOps == <<Role(0, "primary"), Named(1), Role(0, "replica")>>

Scenario(targets, chaos, perOperation, blocking) ==
  [targets |-> targets, chaos |-> chaos, perOperation |-> perOperation, blocking |-> blocking]

Mixed == {Scenario(SameShard, TRUE, FALSE, FALSE),
          Scenario(ThreeOps, FALSE, FALSE, TRUE),
          Scenario(<<Named(0)>>, TRUE, TRUE, FALSE),
          Scenario(<<>>, FALSE, FALSE, FALSE)}

Events == {[phase |-> "before", success |-> TRUE],
           [phase |-> "after", success |-> TRUE],
           [phase |-> "during", success |-> FALSE]}
=============================================================================
