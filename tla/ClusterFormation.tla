--------------------------- MODULE ClusterFormation ---------------------------
(***************************************************************************)
(* One call of form_cluster (class ClusterManager in                       *)
(* src/src/cluster_orchestrator/orchestrator.py): commands to one node     *)
(* after the other, each followed by a loop that asks all of them, again   *)
(* and again until a deadline, whether the cluster has got there.          *)
(*                                                                         *)
(* The cluster is the environment: nodes learn of each other and of the    *)
(* slots by gossip, links come up, processes die, answers are lost.        *)
(***************************************************************************)
EXTENDS ClusterPlan, Countdown, FiniteSets

CONSTANTS
  NoNode,       \* no node
  MaxAttempts,  \* attempts at the verification of slots, 10
  MaxDeaths     \* bound: processes that die

ASSUME FormationAssumption ==
  /\ NoNode \notin Node
  /\ MaxAttempts \in Nat \ {0}
  /\ MaxDeaths \in Nat

VARIABLES
  alive,      \* nodes whose process runs
  knows,      \* what each node has in its table
  heard,      \* slots that each node has heard are assigned
  follows,    \* the master of each replica
  linked,     \* replicas whose master_link_status is up
  stage,      \* where form_cluster is
  at,         \* the node that is told or asked next
  fine,       \* all_converged, all_synced, or the health of all nodes so far
  late,       \* the deadline of the current loop has passed
  attempt,    \* attempts at the verification of slots
  primaryIds, \* keys of node_ids
  disturbed   \* history: a process died or a link was lost since the round began

clusterVars == <<alive, knows, heard, follows, linked>>
localVars == <<stage, at, fine, late, attempt, primaryIds>>
vars == <<clusterVars, localVars, disturbed>>

----------------------------------------------------------------------------
(* The cluster (external) *)

\* A table has an entry for every node before it has their names: a node that
\* was only heard of is in handshake, and counts.  Nobody looks at the tables
\* before all nodes are met.
Knowledge == {"itself", "entries", "names"}

Learn(n) ==
  /\ n \in alive
  /\ stage \notin {"reset", "meet"}
  /\ knows' = [knows EXCEPT ![n] = CASE @ = "itself" -> "entries" [] OTHER -> "names"]
  /\ UNCHANGED <<alive, heard, follows, linked, localVars, disturbed>>

\* A node tells a node that knows its name about its slots.
TellSlots(p, n) ==
  /\ p \in primaryIds \cap alive
  /\ n \in alive
  /\ knows[n] = "names"
  /\ heard' = [heard EXCEPT ![n] = @ \cup SlotsOf(ShardOf(p))]
  /\ UNCHANGED <<alive, knows, follows, linked, localVars, disturbed>>

Sync(r) ==
  /\ {r, follows[r]} \subseteq alive
  /\ linked' = linked \cup {r}
  /\ UNCHANGED <<alive, knows, heard, follows, localVars, disturbed>>

LinkLost(r) ==
  /\ r \in linked
  /\ linked' = linked \ {r}
  /\ disturbed' = TRUE
  /\ UNCHANGED <<alive, knows, heard, follows, localVars>>

Dies(n) ==
  /\ Cardinality(Node \ alive) < MaxDeaths
  /\ n \in alive
  /\ alive' = alive \ {n}
  /\ linked' = {r \in linked \ {n} : follows[r] # n}
  /\ disturbed' = TRUE
  /\ UNCHANGED <<knows, heard, follows, localVars>>

ClusterStep ==
  \/ \E n \in Node : Learn(n) \/ Sync(n) \/ LinkLost(n) \/ Dies(n)
  \/ \E p, n \in Node : TellSlots(p, n)

----------------------------------------------------------------------------
(* Loops over the nodes *)

AfterLast == NumShards * ShardSize

Enter(next) ==
  /\ stage' = next
  /\ at' = 0
  /\ fine' = TRUE

\* A loop with a deadline of its own.
EnterWaiting(next) == Enter(next) /\ late' = FALSE

\* Any exception ends the formation.
Fails == stage' = "failed" /\ UNCHANGED <<at, fine, late, attempt, primaryIds>>

Unchanged == UNCHANGED <<clusterVars, disturbed>>

----------------------------------------------------------------------------
(* Commands *)

Told == {"reset", "meet", "assign", "replicate"}

\* Replicas whose master's name was recorded.
Configured(n) == n \notin Primaries /\ MasterOf(n) \in primaryIds

\* The nodes that get a command: primaries get slots, replicas a master.
Commanded(n) ==
  CASE stage = "assign"    -> n \in Primaries
    [] stage = "replicate" -> Configured(n)
    [] OTHER               -> TRUE

\* A command raises if its node is gone, or does not answer in time.
CommandFails ==
  /\ stage \in Told
  /\ at < AfterLast
  /\ Commanded(at)
  /\ Fails
  /\ Unchanged

\* CLUSTER RESET HARD
ResetNode ==
  /\ stage = "reset"
  /\ at \in alive
  /\ knows' = [knows EXCEPT ![at] = "itself"]
  /\ heard' = [heard EXCEPT ![at] = {}]
  /\ follows' = [follows EXCEPT ![at] = NoNode]
  /\ linked' = linked \ {at}
  /\ at' = at + 1
  /\ UNCHANGED <<alive, stage, fine, late, attempt, primaryIds, disturbed>>

\* A single node has nobody to meet.
AllReset ==
  /\ stage = "reset"
  /\ at = AfterLast
  /\ Enter(IF AfterLast > 1 THEN "meet" ELSE "assign")
  /\ UNCHANGED <<late, attempt, primaryIds>>
  /\ Unchanged

\* The first node is told to meet the others.
MeetNode ==
  /\ stage = "meet"
  /\ at < AfterLast
  /\ 0 \in alive
  /\ at' = at + 1
  /\ UNCHANGED <<stage, fine, late, attempt, primaryIds>>
  /\ Unchanged

AllMet ==
  /\ stage = "meet"
  /\ at = AfterLast
  /\ EnterWaiting("converge")
  /\ UNCHANGED <<attempt, primaryIds>>
  /\ Unchanged

\* CLUSTER ADDSLOTS and MYID, of primaries.
AssignSlots ==
  /\ stage = "assign"
  /\ at < AfterLast
  /\ IF Commanded(at)
     THEN /\ at \in alive
          /\ heard' = [heard EXCEPT ![at] = @ \cup SlotsOf(ShardOf(at))]
          /\ primaryIds' = primaryIds \cup {at}
     ELSE UNCHANGED <<heard, primaryIds>>
  /\ at' = at + 1
  /\ UNCHANGED <<alive, knows, follows, linked, stage, fine, late, attempt, disturbed>>

AllAssigned ==
  /\ stage = "assign"
  /\ at = AfterLast
  /\ Enter("verify")
  /\ UNCHANGED <<late, attempt, primaryIds>>
  /\ Unchanged

\* Faulty variant of VerifySlots: one attempt too many.
VerifyOnceMore ==
  /\ stage = "verify"
  /\ attempt' = attempt + 1
  /\ \/ 0 \in alive /\ heard[0] = Slot /\ Enter("replicate")
     \/ /\ 0 \in alive /\ heard[0] # Slot
        /\ stage' = IF attempt' > MaxAttempts THEN "failed" ELSE "verify"
        /\ UNCHANGED <<at, fine>>
  /\ UNCHANGED <<late, primaryIds>>
  /\ Unchanged

\* The first node is asked, a fixed number of times; its silence is not caught.
VerifySlots ==
  /\ stage = "verify"
  /\ attempt' = attempt + 1
  /\ \/ 0 \in alive /\ heard[0] = Slot /\ Enter("replicate")
     \/ /\ 0 \in alive /\ heard[0] # Slot
        /\ stage' = IF attempt' = MaxAttempts THEN "failed" ELSE "verify"
        /\ UNCHANGED <<at, fine>>
     \/ stage' = "failed" /\ UNCHANGED <<at, fine>>
  /\ UNCHANGED <<late, primaryIds>>
  /\ Unchanged

ReplicateNode(n) ==
  /\ follows' = [follows EXCEPT ![n] = MasterOf(n)]
  /\ linked' = linked \ {n}

\* CLUSTER REPLICATE.  A node still in handshake with its master may not know the
\* name, and raises (CommandFails).
Replicate ==
  /\ stage = "replicate"
  /\ at < AfterLast
  /\ IF Commanded(at)
     THEN at \in alive /\ knows[at] # "itself" /\ ReplicateNode(at)
     ELSE UNCHANGED <<follows, linked>>
  /\ at' = at + 1
  /\ UNCHANGED <<alive, knows, heard, stage, fine, late, attempt, primaryIds, disturbed>>

\* Without replicas there is nothing to wait for.
AllConfigured ==
  /\ stage = "replicate"
  /\ at = AfterLast
  /\ EnterWaiting(IF Replicas = 0 THEN "validate" ELSE "sync")
  /\ UNCHANGED <<attempt, primaryIds>>
  /\ Unchanged

----------------------------------------------------------------------------
(* Questions *)

Asked == {"converge", "sync", "validate", "links"}

\* cluster_known_nodes, master_link_status, CLUSTER INFO, check_replication_links
AnswerIsGood(n) ==
  CASE stage = "converge" -> knows[n] # "itself"
    [] stage = "sync"     -> n \in linked
    [] stage = "validate" -> heard[n] = Slot
    [] stage = "links"    -> follows[n] = NoNode \/ n \in linked

\* Replicas are asked whether they are in sync, all nodes everything else.  One
\* that does not answer, or not well yet for a reason of its own, is not fine.
AskNode ==
  /\ stage \in Asked
  /\ at < AfterLast
  /\ at' = at + 1
  /\ IF stage = "sync" /\ at \in Primaries
     THEN UNCHANGED fine
     ELSE \E good \in BOOLEAN :
            /\ good => at \in alive /\ AnswerIsGood(at)
            /\ fine' = (fine /\ good)
  /\ UNCHANGED <<stage, late, attempt, primaryIds>>
  /\ Unchanged

\* Faulty variant of Ahead: the links are not asked for.
AheadWithoutLinks ==
  CASE stage = "converge" -> "assign"
    [] stage = "sync"     -> "validate"
    [] OTHER              -> "formed"

\* Where a loop leads when all are fine; the links are asked for at the end of
\* each round of the validation.
Ahead ==
  CASE stage = "converge" -> "assign"
    [] stage = "sync"     -> "validate"
    [] stage = "validate" -> "links"
    [] stage = "links"    -> "formed"

Repeated == IF stage = "links" THEN "validate" ELSE stage

\* A new deadline for the validation.
Proceed ==
  /\ IF stage = "sync" THEN EnterWaiting(Ahead) ELSE Enter(Ahead) /\ UNCHANGED late
  /\ disturbed' = (disturbed /\ stage # "sync")

\* Faulty variant of EndRound: the deadline starts anew.
EndRoundExtending ==
  /\ stage \in Asked
  /\ at = AfterLast
  /\ \/ fine /\ Proceed
     \/ ~fine /\ EnterWaiting(Repeated) /\ disturbed' = FALSE
  /\ UNCHANGED <<clusterVars, attempt, primaryIds>>

\* Faulty variant of EndRound: when time is up the round counts.
EndRoundLenient ==
  /\ stage \in Asked
  /\ at = AfterLast
  /\ \/ (fine \/ late) /\ Proceed
     \/ ~fine /\ ~late /\ Enter(Repeated) /\ disturbed' = FALSE /\ UNCHANGED late
  /\ UNCHANGED <<clusterVars, attempt, primaryIds>>

\* All are fine, or another round follows unless the deadline has passed.
EndRound ==
  /\ stage \in Asked
  /\ at = AfterLast
  /\ \/ fine /\ Proceed
     \/ ~fine /\ ~late /\ Enter(Repeated) /\ disturbed' = FALSE /\ UNCHANGED late
     \/ ~fine /\ late /\ stage' = "failed" /\ UNCHANGED <<at, fine, late, disturbed>>
  /\ UNCHANGED <<clusterVars, attempt, primaryIds>>

DeadlinePasses ==
  /\ stage \in Asked
  /\ ~late
  /\ late' = TRUE
  /\ UNCHANGED <<clusterVars, stage, at, fine, attempt, primaryIds, disturbed>>

----------------------------------------------------------------------------

FormationStep ==
  \/ CommandFails \/ ResetNode \/ AllReset \/ MeetNode \/ AllMet
  \/ AssignSlots \/ AllAssigned \/ VerifySlots \/ Replicate \/ AllConfigured
  \/ AskNode \/ EndRound

Over == stage \in {"formed", "failed"}

\* The processes have just been started and answered a ping.
Init ==
  /\ alive = Node
  /\ knows = [n \in Node |-> "itself"]
  /\ heard = [n \in Node |-> {}]
  /\ follows = [n \in Node |-> NoNode]
  /\ linked = {}
  /\ stage = "reset"
  /\ at = 0
  /\ fine = TRUE
  /\ late = FALSE
  /\ attempt = 0
  /\ primaryIds = {}
  /\ disturbed = FALSE

Next ==
  \/ FormationStep
  \/ DeadlinePasses
  \/ ~Over /\ ClusterStep

Spec == Init /\ [][Next]_vars

\* One thread whose calls have time-outs, and a clock.  The cluster owes nothing.
FairSpec == Spec /\ WF_vars(FormationStep) /\ WF_vars(DeadlinePasses)

----------------------------------------------------------------------------

Stages == Told \cup Asked \cup {"verify", "formed", "failed"}

TypeOK ==
  /\ alive \subseteq Node
  /\ knows \in [Node -> Knowledge]
  /\ heard \in [Node -> SUBSET Slot]
  /\ follows \in [Node -> Primaries \cup {NoNode}]
  /\ linked \subseteq alive \ Primaries
  /\ stage \in Stages
  /\ at \in 0 .. AfterLast
  /\ {fine, late, disturbed} \subseteq BOOLEAN
  /\ attempt \in 0 .. MaxAttempts
  /\ primaryIds \subseteq Primaries

\* form_cluster returns a connection only for a cluster in which every node has
\* met the others, if there are any, and heard of all slots, and every replica
\* follows the primary of its own shard, although a replica whose master has no
\* recorded name is passed over and a missing answer only delays
\* (orchestrator.py:546-557, :613-671).
FormedAsPlanned ==
  stage = "formed" =>
    \A n \in Node :
      /\ Node # {n} => knows[n] # "itself"
      /\ heard[n] = Slot
      /\ follows[n] = IF n \in Primaries THEN NoNode ELSE MasterOf(n)

\* ... and whose nodes all run, with all replicas in sync, unless something
\* happened while they were asked one after the other (orchestrator.py:667-671).
FormedWhole ==
  stage = "formed" /\ ~disturbed => alive = Node /\ linked = Node \ Primaries

\* Formation ends, in success or failure, whatever the nodes do
\* (orchestrator.py:445, :509, :564, :613).
FormationEnds == <>Over

\* What is left of a formation: loops that start a deadline, whether time is up
\* in this one, stages up to the next of them, attempts, and nodes of the round.
DeadlinesLeft ==
  CASE stage \in {"reset", "meet"}                           -> 3
    [] stage \in {"converge", "assign", "verify", "replicate"} -> 2
    [] stage = "sync"                                        -> 1
    [] OTHER                                                 -> 0

TimeLeft == IF late THEN 0 ELSE 1

StagesLeft ==
  CASE stage = "converge"             -> 4
    [] stage = "assign"               -> 3
    [] stage \in {"reset", "verify"}  -> 2
    [] stage = "validate"             -> 2
    [] stage \in {"formed", "failed"} -> 0
    [] OTHER                          -> 1

Left == <<DeadlinesLeft, TimeLeft, StagesLeft, MaxAttempts - attempt, AfterLast - at>>

\* Not all nodes were fine and there is time to ask again.
MayRepeat == stage \in Asked /\ at = AfterLast /\ ~fine /\ ~late

\* Whatever form_cluster does leaves less of it to do, except another round of
\* questions in time, and that one starts no deadline anew: a formation ends soon
\* after its clock has run out, in whatever loop, with whatever answers
\* (orchestrator.py:443-461, :509, :564, :613).
FormationRunsOut ==
  [][/\ Left' \in Amounts(5)
     /\ \/ Less(Left', Left)
        \/ MayRepeat /\ UNCHANGED <<DeadlinesLeft, TimeLeft>>]_localVars
=============================================================================
