------------------------ MODULE ClusterFormation_proofs ------------------------
(***************************************************************************)
(* Proofs about ClusterPlan and ClusterFormation, for any numbers of       *)
(* shards, replicas, slots, attempts and deaths.                           *)
(***************************************************************************)
EXTENDS ClusterFormation, TLAPS

----------------------------------------------------------------------------
(* The plan.                                                               *)

LEMMA Division ==
  ASSUME NEW a \in Nat, NEW b \in Nat \ {0}
  PROVE  /\ a \div b \in Nat
         /\ b * (a \div b) <= a
         /\ a < b * (a \div b) + b
BY SMT

LEMMA DivisionUnique ==
  ASSUME NEW a \in Nat, NEW b \in Nat \ {0}, NEW q \in Nat,
         b * q <= a, a < b * q + b
  PROVE  a \div b = q
BY SMT

\* A product keeps the order of its factors.
LEMMA ProductMonotone ==
  ASSUME NEW a \in Nat, NEW b \in Nat, NEW c \in Nat, a <= b
  PROVE  /\ a * c \in Nat /\ b * c \in Nat
         /\ a * c <= b * c
BY SMT

LEMMA Sizes ==
  /\ ShardSize \in Nat \ {0}
  /\ NumShards * ShardSize \in Nat \ {0}
  /\ SlotsPerShard \in Nat \ {0}
  /\ SlotsPerShard * NumShards <= TotalSlots
<1>1. ShardSize \in Nat \ {0}
  BY PlanAssumption DEF ShardSize
<1>2. NumShards * ShardSize \in Nat /\ 1 * ShardSize <= NumShards * ShardSize
  BY <1>1, ProductMonotone, PlanAssumption
<1>3. SlotsPerShard \in Nat /\ NumShards * SlotsPerShard <= TotalSlots
      /\ TotalSlots < NumShards * SlotsPerShard + NumShards
  BY Division, PlanAssumption DEF SlotsPerShard
<1>4. SlotsPerShard # 0
  BY <1>3, PlanAssumption
<1> QED
  BY <1>1, <1>2, <1>3, <1>4, PlanAssumption

\* The nodes of a shard follow its primary.
LEMMA NodePlan ==
  ASSUME NEW n \in Node
  PROVE  /\ ShardOf(n) \in Shard
         /\ MasterOf(n) \in Primaries
         /\ MasterOf(n) <= n
         /\ n < MasterOf(n) + ShardSize
<1> DEFINE s == n \div ShardSize
<1>1. n \in Nat /\ n < NumShards * ShardSize
  BY Sizes DEF Node
<1>2. s \in Nat /\ ShardSize * s <= n /\ n < ShardSize * s + ShardSize
  BY <1>1, Division, Sizes
<1>3. s < NumShards
  <2>1. SUFFICES ASSUME NumShards <= s PROVE FALSE
    BY <1>2, PlanAssumption
  <2>2. NumShards * ShardSize <= s * ShardSize
    BY <1>2, <2>1, ProductMonotone, Sizes, PlanAssumption
  <2> QED
    BY <1>1, <1>2, <2>2, Sizes
<1>4. s * ShardSize \in Nat /\ s * ShardSize = ShardSize * s
  BY <1>2, Sizes
<1>5. s * ShardSize \in Node
  BY <1>1, <1>2, <1>4, Sizes, PlanAssumption DEF Node
<1>6. (s * ShardSize) \div ShardSize = s
  BY <1>2, <1>4, DivisionUnique, Sizes
<1>7. s * ShardSize \in Primaries
  BY <1>5, <1>6 DEF Primaries, MasterOf, ShardOf
<1> QED
  BY <1>1, <1>2, <1>3, <1>4, <1>7, PlanAssumption DEF Shard, MasterOf, ShardOf

\* Every shard has a range of slots of its own, with a slot in it at least
\* (orchestrator.py:168-173).
LEMMA ShardRange ==
  ASSUME NEW s \in Shard
  PROVE  /\ SlotStart(s) \in Nat
         /\ SlotEnd(s) \in Nat
         /\ SlotStart(s) <= SlotEnd(s)
         /\ SlotEnd(s) < TotalSlots
         /\ s < NumShards - 1 => SlotEnd(s) + 1 = SlotStart(s + 1)
         /\ SlotStart(s) = s * SlotsPerShard
<1>1. s \in Nat /\ s + 1 <= NumShards
  BY PlanAssumption DEF Shard
<1>2. /\ s * SlotsPerShard \in Nat
      /\ (s + 1) * SlotsPerShard <= NumShards * SlotsPerShard
  BY <1>1, ProductMonotone, Sizes, PlanAssumption
<1>3. (s + 1) * SlotsPerShard = s * SlotsPerShard + SlotsPerShard
  BY <1>1, Sizes
<1>4. NumShards * SlotsPerShard <= TotalSlots
  BY Sizes, PlanAssumption
<1> QED
  BY <1>1, <1>2, <1>3, <1>4, Sizes, PlanAssumption DEF SlotStart, SlotEnd

LEMMA SlotsOfType ==
  ASSUME NEW s \in Shard
  PROVE  SlotsOf(s) \subseteq Slot
BY ShardRange, PlanAssumption DEF SlotsOf, Slot

\* The plan gives every slot to a shard and no slot to two, whatever remains of
\* the division, and no shard is left without slots (orchestrator.py:160-173).
THEOREM SlotsPartitioned ==
  /\ \A k \in Slot : \E s \in Shard : k \in SlotsOf(s)
  /\ \A s, r \in Shard : s # r => SlotsOf(s) \cap SlotsOf(r) = {}
  /\ \A s \in Shard : SlotsOf(s) # {} /\ SlotsOf(s) \subseteq Slot
<1>1. ASSUME NEW k \in Slot PROVE \E s \in Shard : k \in SlotsOf(s)
  <2> DEFINE d == k \div SlotsPerShard
  <2>1. k \in Nat /\ k <= TotalSlots - 1
    BY PlanAssumption DEF Slot
  <2>2. d \in Nat /\ SlotsPerShard * d <= k /\ k < SlotsPerShard * d + SlotsPerShard
    BY <2>1, Division, Sizes
  <2>3. d * SlotsPerShard = SlotsPerShard * d
    BY <2>2, Sizes
  <2>4. CASE d < NumShards - 1
    <3>1. d \in Shard
      BY <2>2, <2>4, PlanAssumption DEF Shard
    <3>2. k \in SlotsOf(d)
      BY <2>1, <2>2, <2>3, <2>4, Sizes, PlanAssumption DEF SlotsOf, SlotStart, SlotEnd
    <3> QED
      BY <3>1, <3>2
  <2>5. CASE NumShards - 1 <= d
    <3>1. NumShards - 1 \in Shard
      BY PlanAssumption DEF Shard
    <3>2. (NumShards - 1) * SlotsPerShard \in Nat /\ (NumShards - 1) * SlotsPerShard <= d * SlotsPerShard
      BY <2>2, <2>5, ProductMonotone, Sizes, PlanAssumption
    <3>3. k \in SlotsOf(NumShards - 1)
      BY <2>1, <2>2, <2>3, <3>2, Sizes, PlanAssumption DEF SlotsOf, SlotStart, SlotEnd
    <3> QED
      BY <3>1, <3>3
  <2> QED
    BY <2>2, <2>4, <2>5, PlanAssumption
<1>2. ASSUME NEW s \in Shard, NEW r \in Shard, s < r
      PROVE  SlotsOf(s) \cap SlotsOf(r) = {}
  <2>1. s \in Nat /\ r \in Nat /\ s + 1 <= r /\ s < NumShards - 1
    BY <1>2, PlanAssumption DEF Shard
  <2>2. (s + 1) * SlotsPerShard <= r * SlotsPerShard
    BY <2>1, ProductMonotone, Sizes
  <2>3. SlotEnd(s) + 1 = SlotStart(s + 1) /\ SlotStart(r) = r * SlotsPerShard
    BY <2>1, ShardRange
  <2>4. SlotEnd(s) < SlotStart(r)
    BY <2>1, <2>2, <2>3, ShardRange DEF SlotStart
  <2> QED
    BY <2>4, ShardRange DEF SlotsOf
<1>3. \A s, r \in Shard : s # r => s < r \/ r < s
  BY PlanAssumption DEF Shard
<1>4. ASSUME NEW s \in Shard PROVE SlotsOf(s) # {}
  BY ShardRange DEF SlotsOf
<1> QED
  BY <1>1, <1>2, <1>3, <1>4, SlotsOfType

----------------------------------------------------------------------------
(* Types.  A node follows nobody or its planned master, a primary nobody;  *)
(* and attempts at the slots are left until the last one fails.            *)

FollowsPlan ==
  \A n \in Node :
    /\ follows[n] \in {NoNode, MasterOf(n)}
    /\ n \in Primaries => follows[n] = NoNode

AttemptsLeft ==
  stage \in {"reset", "meet", "converge", "assign", "verify"} => attempt < MaxAttempts

TypeInv == TypeOK /\ FollowsPlan /\ AttemptsLeft

\* The nodes are 0 up to AfterLast, and each has a master in the plan.
LEMMA NodeFacts ==
  /\ AfterLast \in Nat \ {0}
  /\ Node = 0 .. AfterLast - 1
  /\ 0 \in Node
  /\ Primaries \subseteq Node
  /\ \A n \in Node : MasterOf(n) \in Primaries /\ ShardOf(n) \in Shard
BY Sizes, NodePlan DEF AfterLast, Node, Primaries

LEMMA TypeInit ==
  ASSUME Init
  PROVE  TypeInv
<1>1. {fine, late, disturbed} \subseteq BOOLEAN
  BY DEF Init
<1> QED
  BY <1>1, NodeFacts, FormationAssumption
     DEF Init, TypeInv, TypeOK, FollowsPlan, AttemptsLeft, Stages, Told, Asked, Knowledge

\* A round ends with the next stage, another round or the failure of all.
LEMMA RoundEnds ==
  ASSUME TypeInv, EndRound
  PROVE  /\ stage' \in {"assign", "validate", "links", "formed", "failed", "converge", "sync"}
         /\ at' \in {0, at} /\ {fine', late', disturbed'} \subseteq BOOLEAN
         /\ UNCHANGED <<clusterVars, attempt, primaryIds>>
         /\ stage' \in {"assign", "converge"} => stage = "converge"
         /\ stage' = "assign" => fine /\ at' = 0
         /\ stage' = "validate" => stage \in {"sync", "validate", "links"} /\ at' = 0
         /\ stage' = "sync" => stage = "sync"
         /\ stage' = "links" => stage = "validate" /\ fine /\ at' = 0
         /\ stage' = "formed" => stage = "links" /\ fine
         /\ stage' \in {"links", "formed"} => disturbed' = disturbed
         /\ stage' \in {"validate", "converge", "sync"} => at' = 0
<1>1. /\ stage = "converge" => Ahead = "assign"
      /\ stage = "sync" => Ahead = "validate"
      /\ stage = "validate" => Ahead = "links"
      /\ stage = "links" => Ahead = "formed"
  BY DEF Ahead
<1>2. stage \in Asked /\ at = AfterLast /\ UNCHANGED <<clusterVars, attempt, primaryIds>>
  BY DEF EndRound
<1>3. CASE fine /\ Proceed
  <2>1. stage' = Ahead /\ at' = 0 /\ fine' = TRUE /\ late' \in {late, FALSE}
    BY <1>3 DEF Proceed, Enter, EnterWaiting
  <2>2. disturbed' = (disturbed /\ stage # "sync")
    BY <1>3 DEF Proceed
  <2> QED
    BY <1>1, <1>2, <1>3, <2>1, <2>2 DEF Asked, TypeInv, TypeOK
<1>4. CASE ~fine /\ ~late /\ Enter(Repeated) /\ disturbed' = FALSE /\ UNCHANGED late
  BY <1>2, <1>4 DEF Enter, Repeated, Asked, TypeInv, TypeOK
<1>5. CASE ~fine /\ late /\ stage' = "failed" /\ UNCHANGED <<at, fine, late, disturbed>>
  BY <1>2, <1>5 DEF Asked, TypeInv, TypeOK
<1> QED
  BY <1>3, <1>4, <1>5 DEF EndRound

\* The flags stay flags.
LEMMA FlagTypes ==
  ASSUME TypeInv, [Next]_vars
  PROVE  {fine', late', disturbed'} \subseteq BOOLEAN
<1>1. fine \in BOOLEAN /\ late \in BOOLEAN /\ disturbed \in BOOLEAN
  BY DEF TypeInv, TypeOK
<1>2. CASE CommandFails \/ ResetNode \/ AllReset \/ MeetNode \/ AllMet \/ AssignSlots
  BY <1>1, <1>2 DEF CommandFails, Fails, ResetNode, AllReset, MeetNode, AllMet, AssignSlots,
                    Enter, EnterWaiting, Unchanged
<1>3. CASE AllAssigned \/ VerifySlots \/ Replicate \/ AllConfigured
  BY <1>1, <1>3 DEF AllAssigned, VerifySlots, Replicate, AllConfigured,
                    Enter, EnterWaiting, Unchanged
<1>4. CASE AskNode
  BY <1>1, <1>4 DEF AskNode, Unchanged
<1>5. CASE EndRound
  BY <1>5, RoundEnds
<1>6. CASE DeadlinePasses
  BY <1>1, <1>6 DEF DeadlinePasses
<1>7. CASE ClusterStep
  BY <1>1, <1>7 DEF ClusterStep, Learn, TellSlots, Sync, LinkLost, Dies, localVars
<1>8. CASE UNCHANGED vars
  BY <1>1, <1>8 DEF vars, localVars
<1> QED
  BY <1>2, <1>3, <1>4, <1>5, <1>6, <1>7, <1>8 DEF Next, FormationStep

\* A step of the cluster keeps the types.
LEMMA ClusterTypes ==
  ASSUME TypeInv, ClusterStep, {fine', late', disturbed'} \subseteq BOOLEAN
  PROVE  TypeInv'
<1> USE NodeFacts, FormationAssumption DEF TypeInv, TypeOK, FollowsPlan, AttemptsLeft, localVars
<1>1. ASSUME NEW n \in Node, Learn(n) PROVE TypeInv'
  BY <1>1 DEF Learn, Knowledge
<1>2. ASSUME NEW n \in Node, Sync(n) PROVE TypeInv'
  <2>1. follows[n] \in Node
    BY <1>2 DEF Sync
  <2>2. follows[n] # NoNode
    BY <2>1
  <2>3. n \notin Primaries
    BY <1>2, <2>2
  <2> QED
    BY <1>2, <2>3 DEF Sync
<1>3. ASSUME NEW n \in Node, LinkLost(n) PROVE TypeInv'
  BY <1>3 DEF LinkLost
<1>4. ASSUME NEW n \in Node, Dies(n) PROVE TypeInv'
  BY <1>4 DEF Dies
<1>5. ASSUME NEW p \in Node, NEW n \in Node, TellSlots(p, n) PROVE TypeInv'
  <2>1. SlotsOf(ShardOf(p)) \subseteq Slot
    BY SlotsOfType
  <2> QED
    BY <1>5, <2>1 DEF TellSlots
<1> QED
  BY <1>1, <1>2, <1>3, <1>4, <1>5 DEF ClusterStep

\* So does a step of the formation.
LEMMA TypeStep ==
  ASSUME TypeInv, [Next]_vars
  PROVE  TypeInv'
<1>0. {fine', late', disturbed'} \subseteq BOOLEAN
  BY FlagTypes
<1> USE <1>0, NodeFacts, FormationAssumption
    DEF TypeInv, TypeOK, FollowsPlan, AttemptsLeft, Stages, Told, Asked, Unchanged, clusterVars
<1>1. CASE CommandFails
  BY <1>1 DEF CommandFails, Fails
<1>2. CASE ResetNode
  <2>1. at \in Node /\ at + 1 \in 0 .. AfterLast
    BY <1>2 DEF ResetNode
  <2> QED
    BY <1>2, <2>1 DEF ResetNode, Knowledge
<1>3. CASE AllReset
  BY <1>3 DEF AllReset, Enter
<1>4. CASE MeetNode
  BY <1>4 DEF MeetNode
<1>5. CASE AllMet
  BY <1>5 DEF AllMet, Enter, EnterWaiting
<1>6. CASE AssignSlots
  <2>1. at \in Node /\ at + 1 \in 0 .. AfterLast
    BY <1>6 DEF AssignSlots
  <2>2. SlotsOf(ShardOf(at)) \subseteq Slot
    BY <2>1, SlotsOfType
  <2>3. Commanded(at) => at \in Primaries
    BY <1>6 DEF AssignSlots, Commanded
  <2>4. heard' \in [Node -> SUBSET Slot]
    BY <1>6, <2>1, <2>2 DEF AssignSlots
  <2>5. primaryIds' \subseteq Primaries
    BY <1>6, <2>3 DEF AssignSlots
  <2> QED
    BY <1>6, <2>1, <2>4, <2>5 DEF AssignSlots
<1>7. CASE AllAssigned
  BY <1>7 DEF AllAssigned, Enter
<1>8. CASE VerifySlots
  BY <1>8 DEF VerifySlots, Enter
<1>9. CASE Replicate
  <2>1. at \in Node /\ at + 1 \in 0 .. AfterLast
    BY <1>9 DEF Replicate
  <2>2. Commanded(at) => at \notin Primaries
    BY <1>9 DEF Replicate, Commanded, Configured
  <2>3. /\ follows' \in [Node -> Primaries \cup {NoNode}]
        /\ FollowsPlan'
        /\ linked' \subseteq linked
    BY <1>9, <2>1, <2>2 DEF Replicate, ReplicateNode
  <2> QED
    BY <1>9, <2>1, <2>3 DEF Replicate
<1>10. CASE AllConfigured
  <2>1. stage' \in {"validate", "sync"} /\ at' = 0 /\ fine' = TRUE /\ late' = FALSE
    BY <1>10 DEF AllConfigured, Enter, EnterWaiting
  <2> QED
    BY <1>10, <2>1 DEF AllConfigured
<1>11. CASE AskNode
  BY <1>11 DEF AskNode
<1>12. CASE EndRound
  <2>1. stage' \in Stages /\ at' \in 0 .. AfterLast /\ UNCHANGED <<clusterVars, attempt, primaryIds>>
    BY <1>12, RoundEnds
  <2>2. AttemptsLeft'
    BY <1>12, RoundEnds
  <2> QED
    BY <2>1, <2>2
<1>13. CASE DeadlinePasses
  BY <1>13 DEF DeadlinePasses
<1>14. CASE ClusterStep
  BY <1>14, ClusterTypes
<1>15. CASE UNCHANGED vars
  BY <1>15 DEF vars, localVars
<1> QED
  BY <1>1, <1>2, <1>3, <1>4, <1>5, <1>6, <1>7, <1>8, <1>9, <1>10, <1>11, <1>12, <1>13, <1>14, <1>15
     DEF Next, FormationStep

\* Types, whatever fails.
THEOREM FormationTypeCorrect == Spec => []TypeOK
<1>1. TypeInv => TypeOK
  BY DEF TypeInv
<1> QED
  BY <1>1, TypeInit, TypeStep, PTL DEF Spec

----------------------------------------------------------------------------
(* What each stage has achieved: the nodes below at have passed the        *)
(* current loop, and the loops before are behind all of them.              *)

Met(n) == AfterLast > 1 => knows[n] # "itself"

PlanInv ==
  /\ stage = "converge" /\ fine => \A n \in Node : n < at => Met(n)
  /\ stage \in {"assign", "verify", "replicate", "sync", "validate", "links", "formed"} =>
       \A n \in Node : Met(n)
  /\ stage = "assign" => \A n \in Primaries : n < at => n \in primaryIds
  /\ stage \in {"verify", "replicate"} => primaryIds = Primaries
  /\ stage = "replicate" => \A n \in Node \ Primaries : n < at => follows[n] = MasterOf(n)
  /\ stage \in {"sync", "validate", "links", "formed"} =>
       \A n \in Node \ Primaries : follows[n] = MasterOf(n)
  /\ stage = "validate" /\ fine => \A n \in Node : n < at => heard[n] = Slot
  /\ stage \in {"links", "formed"} => \A n \in Node : heard[n] = Slot

\* Until something disturbs a round, what it has seen stays so.
WholeInv ==
  ~disturbed =>
    /\ stage = "validate" /\ fine => \A n \in Node : n < at => n \in alive
    /\ stage \in {"links", "formed"} => alive = Node
    /\ stage = "links" /\ fine => \A n \in Node \ Primaries : n < at => n \in linked
    /\ stage = "formed" => Node \ Primaries \subseteq linked

\* The cluster forgets no node and no slot, and what dies or loses a link disturbs.
LEMMA ClusterEffect ==
  ASSUME TypeInv, TypeInv', ClusterStep
  PROVE  /\ UNCHANGED <<stage, at, fine, primaryIds, follows>>
         /\ \A n \in Node : knows[n] # "itself" => knows'[n] # "itself"
         /\ \A n \in Node : heard[n] = Slot => heard'[n] = Slot
         /\ ~disturbed' => ~disturbed /\ alive' = alive /\ linked \subseteq linked'
<1> USE DEF TypeInv, TypeOK, localVars
<1>1. CASE \E n \in Node : Learn(n)
  BY <1>1 DEF Learn
<1>2. CASE \E n \in Node : Sync(n)
  BY <1>2 DEF Sync
<1>3. CASE \E n \in Node : LinkLost(n)
  BY <1>3 DEF LinkLost
<1>4. CASE \E n \in Node : Dies(n)
  BY <1>4 DEF Dies
<1>5. CASE \E p, n \in Node : TellSlots(p, n)
  BY <1>5 DEF TellSlots
<1> QED
  BY <1>1, <1>2, <1>3, <1>4, <1>5 DEF ClusterStep

\* A node that is fine has answered well.
LEMMA AnswerEffect ==
  ASSUME TypeInv, AskNode, fine'
  PROVE  /\ fine /\ at \in Node /\ at' = at + 1
         /\ UNCHANGED <<stage, primaryIds, clusterVars, disturbed>>
         /\ stage = "converge" => knows[at] # "itself"
         /\ stage = "validate" => heard[at] = Slot /\ at \in alive
         /\ stage = "links" => follows[at] = NoNode \/ at \in linked
<1>1. at \in Node
  BY NodeFacts DEF AskNode, TypeInv, TypeOK
<1>2. CASE stage = "sync"
  BY <1>1, <1>2 DEF AskNode, Unchanged
<1>3. CASE stage # "sync"
  <2>1. PICK good \in BOOLEAN :
          (good => at \in alive /\ AnswerIsGood(at)) /\ fine' = (fine /\ good)
    BY <1>3 DEF AskNode
  <2>2. fine /\ at \in alive /\ AnswerIsGood(at)
    BY <2>1
  <2> QED
    BY <1>1, <1>3, <2>2 DEF AskNode, AnswerIsGood, Unchanged
<1> QED
  BY <1>2, <1>3

LEMMA PlanStep ==
  ASSUME TypeInv, TypeInv', PlanInv, [Next]_vars
  PROVE  PlanInv'
<1>0. at \in Nat /\ \A n \in Node : n \in Nat
  BY NodeFacts DEF TypeInv, TypeOK
<1> USE <1>0, NodeFacts DEF PlanInv, Met, Unchanged, clusterVars
<1>1. CASE CommandFails
  BY <1>1 DEF CommandFails, Fails
<1>2. CASE ResetNode
  BY <1>2 DEF ResetNode
<1>3. CASE AllReset
  BY <1>3 DEF AllReset, Enter
<1>4. CASE MeetNode
  BY <1>4 DEF MeetNode
<1>5. CASE AllMet
  BY <1>5 DEF AllMet, Enter, EnterWaiting
<1>6. CASE AssignSlots
  <2>1. stage = "assign" /\ stage' = "assign" /\ UNCHANGED knows /\ at' = at + 1
    BY <1>6 DEF AssignSlots
  <2>2. primaryIds \subseteq primaryIds'
    BY <1>6 DEF AssignSlots
  <2>3. at \in Primaries => at \in primaryIds'
    BY <1>6, <2>1 DEF AssignSlots, Commanded
  <2> QED
    BY <2>1, <2>2, <2>3
<1>7. CASE AllAssigned
  <2>1. stage = "assign" /\ at = AfterLast
    BY <1>7 DEF AllAssigned
  <2>2. \A n \in Primaries : n \in primaryIds
    BY <2>1
  <2>3. primaryIds \subseteq Primaries
    BY DEF TypeInv, TypeOK
  <2>4. primaryIds = Primaries
    BY <2>2, <2>3
  <2> QED
    BY <1>7, <2>4 DEF AllAssigned, Enter
<1>8. CASE VerifySlots
  <2>1. stage = "verify" /\ stage' \in {"verify", "replicate", "failed"}
    BY <1>8 DEF VerifySlots, Enter
  <2>2. stage' = "replicate" => at' = 0
    BY <1>8, <2>1 DEF VerifySlots, Enter
  <2>3. UNCHANGED <<knows, primaryIds>>
    BY <1>8 DEF VerifySlots
  <2> QED
    BY <2>1, <2>2, <2>3
<1>9. CASE Replicate
  <2>1. stage = "replicate" /\ stage' = "replicate" /\ at' = at + 1 /\ UNCHANGED <<knows, primaryIds>>
    BY <1>9 DEF Replicate
  <2>2. \A n \in Node : n # at => follows'[n] = follows[n]
    BY <1>9 DEF Replicate, ReplicateNode, TypeInv, TypeOK
  <2>3. ASSUME at \in Node \ Primaries PROVE follows'[at] = MasterOf(at)
    <3>1. Commanded(at)
      BY <2>1, <2>3 DEF Commanded, Configured
    <3> QED
      BY <1>9, <2>3, <3>1 DEF Replicate, ReplicateNode, TypeInv, TypeOK
  <2> QED
    BY <2>1, <2>2, <2>3
<1>10. CASE AllConfigured
  <2>1. stage = "replicate" /\ at = AfterLast /\ stage' \in {"validate", "sync"} /\ at' = 0
        /\ UNCHANGED clusterVars
    BY <1>10 DEF AllConfigured, Enter, EnterWaiting
  <2> QED
    BY <2>1
<1>11. CASE AskNode
  <2>1. stage' = stage /\ stage \in Asked /\ UNCHANGED <<clusterVars, primaryIds>>
    BY <1>11 DEF AskNode
  <2>2. CASE fine'
    BY <1>11, <2>1, <2>2, AnswerEffect DEF Asked
  <2>3. CASE ~fine'
    BY <2>1, <2>3 DEF Asked
  <2> QED
    BY <2>2, <2>3
<1>12. CASE EndRound
  <2>1. stage \in Asked /\ at = AfterLast /\ UNCHANGED <<clusterVars, primaryIds>>
    BY <1>12 DEF EndRound
  <2>2. \A n \in Node : n < at
    BY <2>1
  <2>3. CASE stage' = "failed"
    BY <2>3
  <2>4. CASE stage' \in {"converge", "assign"}
    <3>1. stage = "converge" /\ (stage' = "assign" => fine) /\ at' = 0
      BY <1>12, <2>4, RoundEnds
    <3>2. stage' = "assign" => \A n \in Node : Met(n)'
      BY <2>1, <2>2, <3>1
    <3> QED
      BY <2>4, <3>1, <3>2
  <2>5. CASE stage' \in {"sync", "validate"}
    <3>1. stage \in {"sync", "validate", "links"} /\ at' = 0
      BY <1>12, <2>5, RoundEnds
    <3> QED
      BY <2>1, <2>5, <3>1
  <2>6. CASE stage' \in {"links", "formed"}
    <3>1. stage = "links" \/ (stage = "validate" /\ fine)
      BY <1>12, <2>6, RoundEnds
    <3> QED
      BY <2>1, <2>2, <2>6, <3>1
  <2> QED
    BY <1>12, <2>3, <2>4, <2>5, <2>6, RoundEnds
<1>13. CASE DeadlinePasses
  BY <1>13 DEF DeadlinePasses
<1>14. CASE ClusterStep
  BY <1>14, ClusterEffect
<1>15. CASE UNCHANGED vars
  BY <1>15 DEF vars, localVars
<1> QED
  BY <1>1, <1>2, <1>3, <1>4, <1>5, <1>6, <1>7, <1>8, <1>9, <1>10, <1>11, <1>12, <1>13, <1>14, <1>15
     DEF Next, FormationStep

LEMMA WholeStep ==
  ASSUME TypeInv, TypeInv', PlanInv, WholeInv, [Next]_vars
  PROVE  WholeInv'
<1>0. at \in Nat /\ \A n \in Node : n \in Nat
  BY NodeFacts DEF TypeInv, TypeOK
<1> USE <1>0, NodeFacts DEF WholeInv, Unchanged, clusterVars
<1>1. CASE CommandFails \/ ResetNode \/ AllReset \/ MeetNode \/ AllMet \/ AssignSlots
           \/ AllAssigned \/ Replicate
  <2>1. stage' \notin {"validate", "links", "formed"}
    BY <1>1 DEF CommandFails, Fails, ResetNode, AllReset, MeetNode, AllMet, AssignSlots,
                AllAssigned, Replicate, Enter, EnterWaiting
  <2> QED
    BY <2>1
<1>2. CASE VerifySlots
  <2>1. stage' \in {"verify", "replicate", "failed"}
    BY <1>2 DEF VerifySlots, Enter
  <2> QED
    BY <2>1
<1>3. CASE AllConfigured
  <2>1. stage' \in {"validate", "sync"} /\ at' = 0
    BY <1>3 DEF AllConfigured, Enter, EnterWaiting
  <2> QED
    BY <2>1
<1>4. CASE AskNode
  <2>1. stage' = stage /\ stage \in Asked /\ UNCHANGED <<clusterVars, disturbed>>
    BY <1>4 DEF AskNode
  <2>2. CASE fine'
    <3>1. \A n \in Node \ Primaries : stage = "links" => follows[n] # NoNode
      BY FormationAssumption DEF PlanInv
    <3> QED
      BY <1>4, <2>1, <2>2, <3>1, AnswerEffect DEF Asked
  <2>3. CASE ~fine'
    BY <2>1, <2>3 DEF Asked
  <2> QED
    BY <2>2, <2>3
<1>5. CASE EndRound
  <2>1. stage \in Asked /\ at = AfterLast /\ UNCHANGED <<clusterVars, primaryIds>>
    BY <1>5 DEF EndRound
  <2>2. \A n \in Node : n < at
    BY <2>1
  <2>3. alive \subseteq Node
    BY DEF TypeInv, TypeOK
  <2>4. CASE stage' = "validate"
    BY <1>5, <2>1, <2>4, RoundEnds
  <2>5. CASE stage' = "links"
    <3>1. stage = "validate" /\ fine /\ at' = 0 /\ disturbed' = disturbed
      BY <1>5, <2>5, RoundEnds
    <3>2. ~disturbed => alive = Node
      BY <2>2, <2>3, <3>1
    <3> QED
      BY <2>1, <2>5, <3>1, <3>2
  <2>6. CASE stage' = "formed"
    <3>1. stage = "links" /\ fine /\ disturbed' = disturbed
      BY <1>5, <2>6, RoundEnds
    <3> QED
      BY <2>1, <2>2, <2>6, <3>1
  <2>7. CASE stage' \notin {"validate", "links", "formed"}
    BY <2>7
  <2> QED
    BY <2>4, <2>5, <2>6, <2>7
<1>6. CASE DeadlinePasses
  BY <1>6 DEF DeadlinePasses
<1>7. CASE ClusterStep /\ ~Over
  BY <1>7, ClusterEffect
<1>8. CASE UNCHANGED vars
  BY <1>8 DEF vars, localVars
<1> QED
  BY <1>1, <1>2, <1>3, <1>4, <1>5, <1>6, <1>7, <1>8 DEF Next, FormationStep

\* A cluster that is handed out is the planned one (orchestrator.py:546-671).
THEOREM FormationFollowsPlan == Spec => []FormedAsPlanned
<1>1. Init => PlanInv
  BY DEF Init, PlanInv
<1>2. ASSUME TypeInv, PlanInv PROVE FormedAsPlanned
  <2>1. ASSUME NEW n \in Node, Node # {n} PROVE AfterLast > 1
    BY <2>1, NodeFacts
  <2> QED
    BY <1>2, <2>1, NodeFacts DEF FormedAsPlanned, PlanInv, Met, TypeInv, FollowsPlan
<1> QED
  BY <1>1, <1>2, TypeInit, TypeStep, PlanStep, PTL DEF Spec

\* ... and whole, unless something happened during the last round of questions
\* (orchestrator.py:613-671).
THEOREM FormationWhole == Spec => []FormedWhole
<1>1. Init => PlanInv /\ WholeInv
  BY DEF Init, PlanInv, WholeInv
<1>2. ASSUME TypeInv, WholeInv PROVE FormedWhole
  BY <1>2 DEF FormedWhole, WholeInv, TypeInv, TypeOK
<1> QED
  BY <1>1, <1>2, TypeInit, TypeStep, PlanStep, WholeStep, PTL DEF Spec

----------------------------------------------------------------------------
(* What is left of a formation                                             *)

LEMMA LeftType ==
  ASSUME TypeInv'
  PROVE  Left' \in Amounts(5)
<1>1. DeadlinesLeft' \in Nat /\ TimeLeft' \in Nat /\ StagesLeft' \in Nat
  BY DEF DeadlinesLeft, TimeLeft, StagesLeft
<1>2. (MaxAttempts - attempt)' \in Nat /\ (AfterLast - at)' \in Nat
  <2>1. attempt' \in 0 .. MaxAttempts /\ at' \in 0 .. AfterLast
    BY DEF TypeInv, TypeOK, AfterLast
  <2>2. \A y \in Nat : \A x \in 0 .. y : (y - x) \in Nat
    OBVIOUS
  <2>3. MaxAttempts \in Nat /\ AfterLast \in Nat
    BY NodeFacts, FormationAssumption
  <2> QED
    BY <2>1, <2>2, <2>3 DEF AfterLast
<1> QED
  BY <1>1, <1>2 DEF Left, Amounts

LEMMA LessLeft ==
  ASSUME \/ DeadlinesLeft' < DeadlinesLeft
         \/ /\ DeadlinesLeft' = DeadlinesLeft
            /\ TimeLeft' < TimeLeft
         \/ /\ DeadlinesLeft' = DeadlinesLeft /\ TimeLeft' = TimeLeft
            /\ StagesLeft' < StagesLeft
         \/ /\ DeadlinesLeft' = DeadlinesLeft /\ TimeLeft' = TimeLeft /\ StagesLeft' = StagesLeft
            /\ (MaxAttempts - attempt)' < MaxAttempts - attempt
         \/ /\ DeadlinesLeft' = DeadlinesLeft /\ TimeLeft' = TimeLeft /\ StagesLeft' = StagesLeft
            /\ attempt' = attempt /\ (AfterLast - at)' < AfterLast - at
  PROVE  Less(Left', Left)
BY DEF Less, Left

\* Every stage has its place.
LEMMA PlaceAt ==
  /\ stage = "reset" => DeadlinesLeft = 3 /\ StagesLeft = 2
  /\ stage = "meet" => DeadlinesLeft = 3 /\ StagesLeft = 1
  /\ stage = "converge" => DeadlinesLeft = 2 /\ StagesLeft = 4
  /\ stage = "assign" => DeadlinesLeft = 2 /\ StagesLeft = 3
  /\ stage = "verify" => DeadlinesLeft = 2 /\ StagesLeft = 2
  /\ stage = "replicate" => DeadlinesLeft = 2 /\ StagesLeft = 1
  /\ stage = "sync" => DeadlinesLeft = 1 /\ StagesLeft = 1
  /\ stage = "validate" => DeadlinesLeft = 0 /\ StagesLeft = 2
  /\ stage = "links" => DeadlinesLeft = 0 /\ StagesLeft = 1
  /\ stage \in {"formed", "failed"} => DeadlinesLeft = 0 /\ StagesLeft = 0
BY DEF DeadlinesLeft, StagesLeft

LEMMA PlaceThen ==
  /\ stage' = "meet" => DeadlinesLeft' = 3 /\ StagesLeft' = 1
  /\ stage' = "converge" => DeadlinesLeft' = 2 /\ StagesLeft' = 4
  /\ stage' = "assign" => DeadlinesLeft' = 2 /\ StagesLeft' = 3
  /\ stage' = "verify" => DeadlinesLeft' = 2 /\ StagesLeft' = 2
  /\ stage' = "replicate" => DeadlinesLeft' = 2 /\ StagesLeft' = 1
  /\ stage' = "sync" => DeadlinesLeft' = 1 /\ StagesLeft' = 1
  /\ stage' = "validate" => DeadlinesLeft' = 0 /\ StagesLeft' = 2
  /\ stage' = "links" => DeadlinesLeft' = 0 /\ StagesLeft' = 1
  /\ stage' \in {"formed", "failed"} => DeadlinesLeft' = 0 /\ StagesLeft' = 0
BY DEF DeadlinesLeft, StagesLeft

\* A stage that starts a deadline leaves fewer to start, another stage fewer
\* stages in the time that is left.
LEMMA StageLeavesLess ==
  ASSUME \/ stage = "reset" /\ stage' \in {"meet", "assign", "failed"} /\ UNCHANGED late
         \/ stage = "meet" /\ stage' \in {"converge", "failed"}
         \/ stage = "converge" /\ stage' \in {"assign", "failed"} /\ UNCHANGED late
         \/ stage = "assign" /\ stage' \in {"verify", "failed"} /\ UNCHANGED late
         \/ stage = "verify" /\ stage' \in {"replicate", "failed"} /\ UNCHANGED late
         \/ stage = "replicate" /\ stage' \in {"sync", "validate", "failed"}
         \/ stage = "sync" /\ stage' \in {"validate", "failed"}
         \/ stage = "validate" /\ stage' \in {"links", "failed"} /\ UNCHANGED late
         \/ stage = "links" /\ stage' \in {"formed", "failed"} /\ UNCHANGED late
  PROVE  Less(Left', Left)
<1>1. UNCHANGED late => TimeLeft' = TimeLeft
  BY DEF TimeLeft
<1>2. \/ DeadlinesLeft' < DeadlinesLeft
      \/ DeadlinesLeft' = DeadlinesLeft /\ TimeLeft' = TimeLeft /\ StagesLeft' < StagesLeft
  BY <1>1, PlaceAt, PlaceThen
<1> QED
  BY <1>2, LessLeft

\* A loop gets on to its next node.
LEMMA NodeLeavesLess ==
  ASSUME TypeInv, UNCHANGED <<stage, late, attempt>>, at' = at + 1
  PROVE  Less(Left', Left)
<1>1. (AfterLast - at)' < AfterLast - at
  BY NodeFacts DEF TypeInv, TypeOK, AfterLast
<1>2. UNCHANGED <<DeadlinesLeft, TimeLeft, StagesLeft>>
  BY DEF DeadlinesLeft, TimeLeft, StagesLeft
<1> QED
  BY <1>1, <1>2, LessLeft

LEMMA FormationShortensStep ==
  ASSUME TypeInv, [Next]_vars
  PROVE  \/ UNCHANGED localVars
         \/ Less(Left', Left)
         \/ MayRepeat /\ UNCHANGED <<DeadlinesLeft, TimeLeft>>
<1>1. CASE CommandFails
  <2>1. stage \in Told /\ stage' = "failed" /\ UNCHANGED late
    BY <1>1 DEF CommandFails, Fails
  <2> QED
    BY <2>1, StageLeavesLess DEF Told
<1>2. CASE ResetNode \/ MeetNode \/ AssignSlots \/ Replicate \/ AskNode
  BY <1>2, NodeLeavesLess DEF ResetNode, MeetNode, AssignSlots, Replicate, AskNode
<1>3. CASE AllReset \/ AllMet \/ AllAssigned \/ AllConfigured
  BY <1>3, StageLeavesLess DEF AllReset, AllMet, AllAssigned, AllConfigured, Enter, EnterWaiting
<1>4. CASE VerifySlots
  <2>1. /\ stage = "verify" /\ stage' \in {"verify", "replicate", "failed"}
        /\ UNCHANGED late /\ attempt' = attempt + 1
    BY <1>4 DEF VerifySlots, Enter
  <2>2. CASE stage' = "verify"
    <3>1. UNCHANGED <<DeadlinesLeft, TimeLeft, StagesLeft>>
      BY <2>1, <2>2 DEF DeadlinesLeft, TimeLeft, StagesLeft
    <3>2. (MaxAttempts - attempt)' < MaxAttempts - attempt
      BY <2>1, FormationAssumption DEF TypeInv, TypeOK
    <3> QED
      BY <3>1, <3>2, LessLeft
  <2> QED
    BY <2>1, <2>2, StageLeavesLess
<1>5. CASE EndRound
  <2>1. stage \in Asked /\ at = AfterLast
    BY <1>5 DEF EndRound
  <2>2. CASE fine /\ Proceed
    <3>1. stage' = Ahead /\ (stage # "sync" => UNCHANGED late)
      BY <2>2 DEF Proceed, Enter, EnterWaiting
    <3>2. \/ stage = "converge" /\ stage' = "assign"
          \/ stage = "sync" /\ stage' = "validate"
          \/ stage = "validate" /\ stage' = "links"
          \/ stage = "links" /\ stage' = "formed"
      BY <2>1, <3>1 DEF Ahead, Asked
    <3> QED
      BY <3>1, <3>2, StageLeavesLess
  <2>3. CASE ~fine /\ ~late /\ Enter(Repeated) /\ UNCHANGED late
    <3>1. \/ stage' = stage
          \/ stage = "links" /\ stage' = "validate"
      BY <2>3 DEF Enter, Repeated
    <3>2. UNCHANGED <<DeadlinesLeft, TimeLeft>>
      BY <2>3, <3>1 DEF DeadlinesLeft, TimeLeft
    <3> QED
      BY <2>1, <2>3, <3>2 DEF MayRepeat
  <2>4. CASE stage' = "failed" /\ UNCHANGED late
    BY <2>1, <2>4, StageLeavesLess DEF Asked
  <2> QED
    BY <1>5, <2>2, <2>3, <2>4 DEF EndRound
<1>6. CASE DeadlinePasses
  <2>1. UNCHANGED DeadlinesLeft /\ TimeLeft = 1 /\ TimeLeft' = 0
    BY <1>6 DEF DeadlinePasses, DeadlinesLeft, TimeLeft
  <2> QED
    BY <2>1, LessLeft
<1>7. CASE ClusterStep
  BY <1>7 DEF ClusterStep, Learn, TellSlots, Sync, LinkLost, Dies
<1>8. CASE UNCHANGED vars
  BY <1>8 DEF vars
<1> QED
  BY <1>1, <1>2, <1>3, <1>4, <1>5, <1>6, <1>7, <1>8 DEF Next, FormationStep

\* Whatever a formation does leaves less of it, except another round of questions
\* in time, which starts no deadline anew, for any cluster, number of attempts and
\* behaviour of the nodes (orchestrator.py:443-461, :509, :564, :613).
THEOREM FormationShortens == Spec => FormationRunsOut
<1>1. TypeInv /\ TypeInv' /\ [Next]_vars =>
        [/\ Left' \in Amounts(5)
         /\ \/ Less(Left', Left)
            \/ MayRepeat /\ UNCHANGED <<DeadlinesLeft, TimeLeft>>]_localVars
  BY LeftType, FormationShortensStep
<1> QED
  BY <1>1, TypeInit, TypeStep, PTL DEF Spec, FormationRunsOut
=============================================================================
