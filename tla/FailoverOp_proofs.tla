--------------------------- MODULE FailoverOp_proofs ---------------------------
(***************************************************************************)
(* Proofs about FailoverOp, for any shards, replicas, operations, targets, *)
(* kills and commands of others.                                           *)
(***************************************************************************)
EXTENDS FailoverOp, FiniteSetTheorems, TLAPS

----------------------------------------------------------------------------
(* The invariant                                                           *)

\* A shard is served by a member, and a living master serves its shard.
ClusterInv ==
  /\ alive \subseteq Node
  /\ noticed \subseteq Node \ alive
  /\ owner \in [Shard -> Node]
  /\ \A s \in Shard : owner[s] \in Members(s) \cap masters
  /\ masters \subseteq Node
  /\ \A n \in masters \cap alive : owner[ShardOf(n)] = n
  /\ linked \subseteq alive \ masters
  /\ pending \subseteq Node
  /\ foreign \in Nat

\* Types of the operations; an attempt is left as long as one may begin.
OperationInv ==
  /\ target \in [Op -> Targets]
  /\ force \in [Op -> BOOLEAN]
  /\ pc \in [Op -> Steps]
  /\ found \in [Op -> Node \cup {NoNode}]
  /\ candidates \in [Op -> SUBSET Node]
  /\ replica \in [Op -> Node \cup {NoNode}]
  /\ attempt \in [Op -> 0 .. MaxAttempts]
  /\ toCheck \in [Op -> SUBSET Node]
  /\ \A op \in Op : op \in late => pc[op] \in {"attempt", "check", "done"}
  /\ \A op \in Op : pc[op] \in Steps \ {"check", "done"} => attempt[op] < MaxAttempts
  /\ events \in [Op -> SUBSET Node]
  /\ result \in [Op -> {"none", "ok", "failed"}]
  /\ \A op \in Op : pc[op] = "done" <=> result[op] # "none"
  /\ commanded \subseteq Op
  /\ moved \subseteq Op
  /\ unheard \subseteq Op

TypeInv == ClusterInv /\ OperationInv

\* As long as the cluster does not change, links that were up are up.
LinksInv ==
  \A op \in Op : pc[op] = "check" /\ op \notin moved =>
    \A n \in alive \ toCheck[op] : LinkUp(n)

LEMMA NodeType ==
  ASSUME NEW n \in Node
  PROVE  ShardOf(n) \in Shard /\ n \in Members(ShardOf(n))
BY DEF Node, ShardOf, Members

LEMMA MemberType ==
  ASSUME NEW s, NEW n \in Members(s)
  PROVE  n \in Node /\ ShardOf(n) = s
BY DEF Members

LEMMA TypesHold ==
  ASSUME TypeInv
  PROVE  TypeOK
<1>1. {owner[s] : s \in Shard} \subseteq masters
  BY DEF TypeInv, ClusterInv
<1>2. \A op \in Op : result[op] \in IF pc[op] = "done" THEN {"ok", "failed"} ELSE {"none"}
  BY DEF TypeInv, OperationInv
<1> QED
  BY <1>1, <1>2 DEF TypeInv, ClusterInv, OperationInv, TypeOK

LEMMA TypeInit ==
  ASSUME Init
  PROVE  TypeInv
<1>1. \A s \in Shard : <<s, 0>> \in Node /\ ShardOf(<<s, 0>>) = s
  BY FailoverAssumption DEF Node, ShardOf
<1>2. ClusterInv
  <2>1. \A n \in masters : owner[ShardOf(n)] = n
    BY <1>1 DEF Init
  <2>2. \A s \in Shard : owner[s] \in Members(s) \cap masters
    BY <1>1 DEF Init, Members
  <2>3. owner \in [Shard -> Node] /\ masters \subseteq Node
    BY <1>1 DEF Init
  <2> QED
    BY <2>1, <2>2, <2>3 DEF Init, ClusterInv
<1>3. OperationInv
  BY DEF Init, OperationInv, Steps, MaxAttempts
<1> QED
  BY <1>2, <1>3 DEF TypeInv

----------------------------------------------------------------------------
(* The cluster                                                             *)

LEMMA DiesInv ==
  ASSUME ClusterInv, NEW n \in Node, Dies(n), UNCHANGED <<noticed, owner, masters, pending, foreign>>
  PROVE  ClusterInv'
<1>1. linked' \subseteq linked /\ n \notin linked'
  BY NodeType DEF Dies, Members
<1>2. alive' = alive \ {n}
  BY DEF Dies
<1> QED
  BY <1>1, <1>2 DEF ClusterInv, Members

LEMMA TakesOverInv ==
  ASSUME ClusterInv, NEW r \in Node, IsReplica(r), TakesOver(r), UNCHANGED <<alive, noticed>>,
         pending' \subseteq Node, foreign' \in Nat,
         masters' = (masters \ ({owner[ShardOf(r)]} \cap alive)) \cup {r}
  PROVE  ClusterInv'
<1> DEFINE s == ShardOf(r)
<1>1. s \in Shard /\ r \in Members(s) /\ r \in alive /\ owner[s] # r
  BY NodeType DEF IsReplica
<1>2. owner' = [owner EXCEPT ![s] = r] /\ linked' = linked \ Members(s)
  BY DEF TakesOver
<1>3. \A q \in Shard : q # s => owner[q] # owner[s]
  BY <1>1, MemberType DEF ClusterInv
<1>4. owner' \in [Shard -> Node]
  BY <1>2 DEF ClusterInv
<1>5. \A q \in Shard : owner'[q] \in Members(q) \cap masters'
  BY <1>1, <1>2, <1>3 DEF ClusterInv
<1>6. \A n \in masters' \cap alive' : owner'[ShardOf(n)] = n
  <2>1. SUFFICES ASSUME NEW n \in masters', n \in alive, n # r PROVE owner'[ShardOf(n)] = n
    BY <1>1, <1>2 DEF ClusterInv
  <2>2. n \in masters /\ n # owner[s] /\ n \in Node /\ ShardOf(n) \in Shard
    BY <2>1, NodeType DEF ClusterInv
  <2>3. owner[ShardOf(n)] = n
    BY <2>1, <2>2 DEF ClusterInv
  <2>4. ShardOf(n) # s
    BY <2>2, <2>3
  <2> QED
    BY <1>2, <2>2, <2>3, <2>4 DEF ClusterInv
<1>7. linked' \subseteq alive' \ masters'
  BY <1>1, <1>2 DEF ClusterInv
<1> QED
  BY <1>4, <1>5, <1>6, <1>7 DEF ClusterInv, Members

LEMMA ClusterStepInv ==
  ASSUME ClusterInv, ClusterStep
  PROVE  ClusterInv'
<1>1. PICK n \in Node : Notice(n) \/ Promote(n) \/ TakeOver(n) \/ Abort(n) \/ Sync(n)
                       \/ OtherOperation(n) \/ OtherChaos(n)
  BY DEF ClusterStep
<1>2. CASE Notice(n)
  BY <1>2 DEF Notice, ClusterInv, Members
<1>3. CASE Promote(n)
  <2>1. owner[ShardOf(n)] \notin alive
    BY <1>3 DEF Promote, ClusterInv
  <2>2. masters' = (masters \ ({owner[ShardOf(n)]} \cap alive)) \cup {n}
    BY <1>3, <2>1 DEF Promote
  <2> QED
    BY <1>3, <2>2, TakesOverInv DEF Promote, ClusterInv
<1>4. CASE TakeOver(n)
  BY <1>4, TakesOverInv DEF TakeOver, ClusterInv
<1>5. CASE Abort(n)
  BY <1>5 DEF Abort, ClusterInv, Members
<1>6. CASE Sync(n)
  <2>1. n \in alive /\ n \notin masters
    BY <1>6 DEF Sync, IsReplica, ClusterInv
  <2> QED
    BY <1>6, <2>1 DEF Sync, ClusterInv, Members
<1>7. CASE OtherOperation(n)
  BY <1>7 DEF OtherOperation, ClusterInv, Members
<1>8. CASE OtherChaos(n)
  BY <1>8, DiesInv DEF OtherChaos
<1> QED
  BY <1>1, <1>2, <1>3, <1>4, <1>5, <1>6, <1>7, <1>8

\* The cluster leaves the operations alone, except that it marks an attempt
\* that sees it change.
LEMMA ClusterEffect ==
  ASSUME TypeInv, ClusterStep
  PROVE  /\ UNCHANGED <<inputVars, localVars, events, result, commanded, unheard>>
         /\ alive' \subseteq alive
         /\ moved \subseteq moved' /\ moved' \subseteq Op
         /\ \/ owner' = owner /\ linked \subseteq linked' /\ alive' = alive
            \/ \A op \in Op : pc[op] = "check" => op \in moved'
<1>1. PICK n \in Node : Notice(n) \/ Promote(n) \/ TakeOver(n) \/ Abort(n) \/ Sync(n)
                       \/ OtherOperation(n) \/ OtherChaos(n)
  BY DEF ClusterStep
<1>2. moved \subseteq Op
  BY DEF TypeInv, OperationInv
<1>3. CASE Notice(n) \/ Abort(n) \/ Sync(n) \/ OtherOperation(n)
  BY <1>2, <1>3 DEF Notice, Abort, Sync, OtherOperation, inputVars, localVars, reportVars
<1>4. CASE Promote(n) \/ TakeOver(n)
  BY <1>2, <1>4 DEF Promote, TakeOver, TakesOver, ChangeSeen, inputVars, localVars
<1>5. CASE OtherChaos(n)
  BY <1>2, <1>5 DEF OtherChaos, Dies, ChangeSeen, inputVars, localVars
<1> QED
  BY <1>1, <1>3, <1>4, <1>5

----------------------------------------------------------------------------
(* An operation                                                            *)

\* Only chaos and the command of an operation change the cluster.
LEMMA OperationKeepsCluster ==
  ASSUME TypeInv, NEW op \in Op, OperationStep(op) \/ DeadlinePasses(op)
  PROVE  /\ ClusterInv'
         /\ UNCHANGED <<alive, owner, linked, events>>
<1>1. CASE Send(op)
  <2>1. pc[op] = "send" /\ UNCHANGED <<alive, noticed, owner, masters, linked, foreign, events>>
    BY <1>1 DEF Send
  <2>2. pending' \subseteq Node
    <3>1. CASE Refuse(op)
      BY <3>1 DEF Refuse, TypeInv, ClusterInv
    <3>2. CASE Accept(op)
      <4>1. pending' = pending \cup {replica[op]}
        BY <3>2 DEF Accept
      <4>2. replica[op] \in alive
        BY <3>2 DEF Accept, Refused, IsReplica
      <4> QED
        BY <4>1, <4>2 DEF TypeInv, ClusterInv
    <3> QED
      BY <1>1, <3>1, <3>2 DEF Send
  <2> QED
    BY <2>1, <2>2 DEF TypeInv, ClusterInv, Members
<1>2. CASE Start(op) \/ Lookup(op) \/ LookupDead(op) \/ LiveReplicas(op) \/ AskForReplicas(op)
           \/ ListReplicas(op) \/ Pick(op)
  <2>1. UNCHANGED <<clusterVars, events>>
    BY <1>2 DEF Start, Lookup, LookupDead, LiveReplicas, AskForReplicas, ListReplicas, Pick,
                reportsNothing, reportVars
  <2> QED
    BY <2>1 DEF TypeInv, ClusterInv, Members, clusterVars
<1>3. CASE Attempt(op) \/ CheckNode(op) \/ CheckPasses(op) \/ CheckFails(op) \/ DeadlinePasses(op)
  <2>1. UNCHANGED <<clusterVars, events>>
    BY <1>3 DEF Attempt, CheckNode, CheckPasses, CheckFails, DeadlinePasses, reportsNothing, reportVars
  <2> QED
    BY <2>1 DEF TypeInv, ClusterInv, Members, clusterVars
<1> QED
  BY <1>1, <1>2, <1>3 DEF OperationStep

\* An operation goes to another step, or reports and is done.
LEMMA Moves ==
  ASSUME OperationInv, NEW op \in Op, pc[op] # "done",
         \/ UNCHANGED result /\ \E step \in Steps \ {"done"} : Goto(op, step)
         \/ \E success \in BOOLEAN : Report(op, success)
  PROVE  /\ pc' \in [Op -> Steps]
         /\ result' \in [Op -> {"none", "ok", "failed"}]
         /\ \A o \in Op : o # op => pc'[o] = pc[o] /\ result'[o] = result[o]
         /\ \A o \in Op : pc'[o] = "done" <=> result'[o] # "none"
<1>1. CASE UNCHANGED result /\ \E step \in Steps \ {"done"} : Goto(op, step)
  BY <1>1 DEF Goto, OperationInv
<1>2. CASE \E success \in BOOLEAN : Report(op, success)
  <2>1. Goto(op, "done") /\ \E r \in {"ok", "failed"} : result' = [result EXCEPT ![op] = r]
    BY <1>2 DEF Report
  <2> QED
    BY <2>1 DEF Goto, OperationInv, Steps
<1> QED
  BY <1>1, <1>2

\* Up to the command no attempt is made and no deadline runs.
LEMMA AskingTypes ==
  ASSUME TypeInv, NEW op \in Op,
         pc[op] \in Steps \ {"attempt", "check", "done"},
         \/ UNCHANGED result /\ \E step \in Steps \ {"check", "done"} : Goto(op, step)
         \/ \E success \in BOOLEAN : Report(op, success),
         UNCHANGED <<inputVars, events, moved>>, notWaiting,
         found' \in [Op -> Node \cup {NoNode}],
         candidates' \in [Op -> SUBSET Node],
         replica' \in [Op -> Node \cup {NoNode}],
         commanded' \subseteq Op, unheard' \subseteq Op
  PROVE  OperationInv'
<1>1. /\ pc' \in [Op -> Steps]
      /\ result' \in [Op -> {"none", "ok", "failed"}]
      /\ \A o \in Op : o # op => pc'[o] = pc[o]
      /\ \A o \in Op : pc'[o] = "done" <=> result'[o] # "none"
  BY Moves DEF TypeInv
<1>2. op \notin late /\ attempt[op] < MaxAttempts
  BY DEF TypeInv, OperationInv
<1>3. UNCHANGED <<target, force, attempt, toCheck, late, events, moved>>
  BY DEF inputVars, notWaiting
<1> QED
  BY <1>1, <1>2, <1>3 DEF TypeInv, OperationInv

LEMMA OperationTypes ==
  ASSUME TypeInv, NEW op \in Op, OperationStep(op) \/ DeadlinePasses(op)
  PROVE  OperationInv'
<1>0. /\ found \in [Op -> Node \cup {NoNode}] /\ candidates \in [Op -> SUBSET Node]
      /\ replica \in [Op -> Node \cup {NoNode}] /\ commanded \subseteq Op
      /\ unheard \subseteq Op /\ alive \subseteq Node
  BY DEF TypeInv, OperationInv, ClusterInv
<1>1. CASE Start(op)
  BY <1>0, <1>1, AskingTypes DEF Start, keepsTarget, Steps
<1>2. CASE Lookup(op)
  <2>1. found' \in [Op -> Node \cup {NoNode}]
    BY <1>0, <1>2 DEF Lookup, FindPrimary, Unfailed, Replies
  <2>2. pc[op] = "lookup" /\ UNCHANGED result /\ \E step \in Steps \ {"check", "done"} : Goto(op, step)
    BY <1>2 DEF Lookup, Steps, reportsNothing, reportVars
  <2> QED
    BY <1>0, <1>2, <2>1, <2>2, AskingTypes DEF Lookup, reportsNothing, reportVars, Steps
<1>3. CASE LookupDead(op)
  <2>1. found' \in [Op -> Node \cup {NoNode}]
    BY <1>0, <1>3 DEF LookupDead, FindPrimary, Replies
  <2>2. pc[op] = "lookupDead"
        /\ \/ UNCHANGED result /\ \E step \in Steps \ {"check", "done"} : Goto(op, step)
           \/ \E success \in BOOLEAN : Report(op, success)
    BY <1>3 DEF LookupDead, Steps
  <2> QED
    BY <1>0, <1>3, <2>1, <2>2, AskingTypes DEF LookupDead, Steps
<1>4. CASE LiveReplicas(op)
  BY <1>0, <1>4, AskingTypes DEF LiveReplicas, SkipUnheard, keepsTarget, Steps
<1>5. CASE AskForReplicas(op)
  BY <1>0, <1>5, AskingTypes DEF AskForReplicas, SkipUnheard, keepsTarget, Steps
<1>6. CASE ListReplicas(op)
  <2>1. candidates' \in [Op -> SUBSET Node]
    <3>1. \A reply \in Replies : ListedReplicas(reply, ShardOf(found[op])) \in SUBSET Node
      BY DEF ListedReplicas, Replies
    <3>2. \/ candidates' = candidates
          \/ \E S \in SUBSET Node : candidates' = [candidates EXCEPT ![op] = S]
      BY <1>6, <3>1 DEF ListReplicas
    <3> QED
      BY <1>0, <3>2
  <2>2. pc[op] = "listReplicas"
        /\ \/ UNCHANGED result /\ \E step \in Steps \ {"check", "done"} : Goto(op, step)
           \/ \E success \in BOOLEAN : Report(op, success)
    BY <1>6 DEF ListReplicas, Steps
  <2> QED
    BY <1>0, <1>6, <2>1, <2>2, AskingTypes DEF ListReplicas, Steps
<1>7. CASE Pick(op)
  <2>1. replica' \in [Op -> Node \cup {NoNode}]
    BY <1>0, <1>7 DEF Pick
  <2>2. pc[op] = "pick"
        /\ \/ UNCHANGED result /\ \E step \in Steps \ {"check", "done"} : Goto(op, step)
           \/ \E success \in BOOLEAN : Report(op, success)
    BY <1>7 DEF Pick, Steps
  <2> QED
    BY <1>0, <1>7, <2>1, <2>2, AskingTypes DEF Pick, Steps
<1>8. CASE Send(op)
  <2>1. commanded' \subseteq Op
    BY <1>0, <1>8 DEF Send, Refuse, Accept
  <2>2. pc[op] = "send"
        /\ \/ UNCHANGED result /\ \E step \in Steps \ {"check", "done"} : Goto(op, step)
           \/ \E success \in BOOLEAN : Report(op, success)
    BY <1>8 DEF Send, Refuse, Accept, Steps
  <2> QED
    BY <1>0, <1>8, <2>1, <2>2, AskingTypes DEF Send, keepsTarget, Steps
<1>9. CASE Attempt(op)
  <2>1. pc[op] = "attempt"
        /\ \/ UNCHANGED result /\ \E step \in Steps \ {"done"} : Goto(op, step)
           \/ \E success \in BOOLEAN : Report(op, success)
    BY <1>9 DEF Attempt, Steps
  <2>2. /\ pc' \in [Op -> Steps]
        /\ result' \in [Op -> {"none", "ok", "failed"}]
        /\ \A o \in Op : o # op => pc'[o] = pc[o]
        /\ \A o \in Op : pc'[o] = "done" <=> result'[o] # "none"
    BY <2>1, Moves DEF TypeInv
  <2>3. pc'[op] \in {"check", "done"}
    BY <1>9 DEF Attempt, Report, Goto, TypeInv, OperationInv
  <2>4. attempt \in [Op -> 0 .. MaxAttempts] /\ attempt[op] < MaxAttempts
    <3>1. pc[op] \in Steps \ {"check", "done"}
      BY <2>1 DEF Steps
    <3> QED
      BY <3>1 DEF TypeInv, OperationInv
  <2>5. attempt' = attempt \/ attempt' = [attempt EXCEPT ![op] = @ + 1]
    BY <1>9 DEF Attempt
  <2>6. attempt[op] + 1 \in 0 .. MaxAttempts
    BY <2>4 DEF MaxAttempts
  <2>7. attempt' \in [Op -> 0 .. MaxAttempts] /\ \A o \in Op : o # op => attempt'[o] = attempt[o]
    BY <2>4, <2>5, <2>6
  <2>8. toCheck' \in [Op -> SUBSET Node]
    BY <1>0, <1>9 DEF Attempt, TypeInv, OperationInv
  <2> QED
    BY <1>9, <2>2, <2>3, <2>7, <2>8 DEF Attempt, TypeInv, OperationInv, keepsTarget, inputVars
<1>10. CASE CheckNode(op)
  BY <1>10 DEF CheckNode, TypeInv, OperationInv, keepsTarget, reportsNothing, reportVars, inputVars
<1>11. CASE CheckPasses(op)
  <2>1. pc[op] = "check" /\ Report(op, TRUE)
    BY <1>11 DEF CheckPasses
  <2>2. /\ pc' \in [Op -> Steps]
        /\ result' \in [Op -> {"none", "ok", "failed"}]
        /\ \A o \in Op : o # op => pc'[o] = pc[o]
        /\ \A o \in Op : pc'[o] = "done" <=> result'[o] # "none"
    BY <2>1, Moves DEF TypeInv
  <2>3. pc'[op] = "done"
    BY <2>1 DEF Report, Goto, TypeInv, OperationInv
  <2> QED
    BY <1>11, <2>2, <2>3 DEF CheckPasses, TypeInv, OperationInv, keepsTarget, notWaiting, inputVars
<1>12. CASE CheckFails(op)
  <2>1. pc[op] = "check"
        /\ \/ UNCHANGED result /\ Goto(op, "attempt") /\ attempt[op] # MaxAttempts
           \/ Report(op, FALSE)
    BY <1>12 DEF CheckFails
  <2>2. /\ pc' \in [Op -> Steps]
        /\ result' \in [Op -> {"none", "ok", "failed"}]
        /\ \A o \in Op : o # op => pc'[o] = pc[o]
        /\ \A o \in Op : pc'[o] = "done" <=> result'[o] # "none"
    BY <2>1, Moves DEF TypeInv, Steps
  <2>3. pc'[op] \in {"attempt", "done"} /\ (pc'[op] = "attempt" => attempt[op] < MaxAttempts)
    BY <2>1 DEF Report, Goto, TypeInv, OperationInv, MaxAttempts
  <2> QED
    BY <1>12, <2>2, <2>3 DEF CheckFails, TypeInv, OperationInv, keepsTarget, inputVars
<1>13. CASE DeadlinePasses(op)
  BY <1>13 DEF DeadlinePasses, TypeInv, OperationInv, reportVars, inputVars
<1> QED
  BY <1>1, <1>2, <1>3, <1>4, <1>5, <1>6, <1>7, <1>8, <1>9, <1>10, <1>11, <1>12, <1>13 DEF OperationStep

LEMMA OwnChaosInv ==
  ASSUME TypeInv, NEW op \in Op, NEW n \in Node, OwnChaos(op, n)
  PROVE  TypeInv'
<1>1. ClusterInv'
  BY DiesInv DEF OwnChaos, TypeInv
<1>2. OperationInv'
  BY DEF OwnChaos, Dies, ChangeSeen, TypeInv, OperationInv, inputVars, localVars
<1> QED
  BY <1>1, <1>2 DEF TypeInv

LEMMA TypeStep ==
  ASSUME TypeInv, [Next]_vars
  PROVE  TypeInv'
<1>1. CASE ClusterStep
  <2>1. OperationInv'
    BY <1>1, ClusterEffect DEF TypeInv, OperationInv, inputVars, localVars
  <2> QED
    BY <1>1, <2>1, ClusterStepInv DEF TypeInv
<1>2. ASSUME NEW op \in Op, OperationStep(op) \/ DeadlinePasses(op) PROVE TypeInv'
  BY <1>2, OperationKeepsCluster, OperationTypes DEF TypeInv
<1>3. ASSUME NEW op \in Op, NEW n \in Node, OwnChaos(op, n) PROVE TypeInv'
  BY <1>3, OwnChaosInv
<1>4. CASE UNCHANGED vars
  BY <1>4 DEF vars, clusterVars, inputVars, localVars, reportVars,
              TypeInv, ClusterInv, OperationInv, Members
<1> QED
  BY <1>1, <1>2, <1>3, <1>4 DEF Next

\* Types of the cluster and of the operations, whatever is killed and elected.
THEOREM FailoverTypeCorrect == Spec => []TypeOK
<1> QED
  BY TypeInit, TypeStep, TypesHold, PTL DEF Spec

----------------------------------------------------------------------------
(* What a success means                                                    *)

\* What an operation that may still succeed, or did, has for a ground.
Grounds(op) ==
  /\ events[op] \cap alive = {}
  /\ pc[op] \in {"liveReplicas", "askReplicas"} => found[op] \in events[op]
  /\ pc[op] \in {"attempt", "check"} => op \in commanded \/ found[op] \in events[op]
  /\ pc[op] = "pick" => candidates[op] # {}
  /\ result[op] = "ok" =>
       \/ op \in commanded
       \/ found[op] \in events[op] \ alive
       \/ candidates[op] # {} /\ candidates[op] \subseteq events[op] \ alive

\* An operation touches only its own record.
LEMMA OthersKept ==
  ASSUME TypeInv, NEW op \in Op, OperationStep(op) \/ DeadlinePasses(op),
         NEW o \in Op, o # op
  PROVE  /\ pc'[o] = pc[o] /\ found'[o] = found[o] /\ candidates'[o] = candidates[o]
         /\ result'[o] = result[o] /\ attempt'[o] = attempt[o] /\ toCheck'[o] = toCheck[o]
         /\ o \in commanded' <=> o \in commanded
         /\ o \in moved' <=> o \in moved
<1> USE DEF TypeInv, OperationInv, Report, Goto, keepsTarget, notWaiting, reportsNothing, reportVars
<1>1. CASE Start(op) \/ Lookup(op) \/ LookupDead(op)
  BY <1>1 DEF Start, Lookup, LookupDead
<1>2. CASE LiveReplicas(op) \/ AskForReplicas(op) \/ ListReplicas(op) \/ Pick(op)
  BY <1>2 DEF LiveReplicas, AskForReplicas, SkipUnheard, ListReplicas, Pick
<1>3. CASE Send(op)
  BY <1>3 DEF Send, Refuse, Accept
<1>4. CASE Attempt(op) \/ CheckNode(op)
  BY <1>4 DEF Attempt, CheckNode
<1>5. CASE CheckPasses(op) \/ CheckFails(op)
  BY <1>5 DEF CheckPasses, CheckFails
<1>6. CASE DeadlinePasses(op)
  BY <1>6 DEF DeadlinePasses, reportVars
<1> QED
  BY <1>1, <1>2, <1>3, <1>4, <1>5, <1>6 DEF OperationStep

\* Where a step leads, and what it knows then.
LEMMA OwnGrounds ==
  ASSUME TypeInv, NEW op \in Op, Grounds(op), OperationStep(op) \/ DeadlinePasses(op)
  PROVE  Grounds(op)'
<1>0. UNCHANGED <<alive, events>>
  BY OperationKeepsCluster
<1> USE <1>0 DEF TypeInv, OperationInv, Report, Goto, keepsTarget, notWaiting, reportsNothing, reportVars, Grounds
<1>1. CASE Start(op)
  BY <1>1 DEF Start
<1>2. CASE Lookup(op)
  BY <1>2 DEF Lookup
<1>3. CASE LookupDead(op)
  <2>1. CASE result'[op] = "failed" /\ pc'[op] = "done"
    BY <2>1
  <2>2. CASE pc'[op] = "liveReplicas" /\ UNCHANGED result
    <3>1. found'[op] \in events[op]
      BY <1>3, <2>2 DEF LookupDead, KilledByOwnChaos
    <3>2. result[op] = "none"
      BY <1>3 DEF LookupDead
    <3> QED
      BY <2>2, <3>1, <3>2
  <2> QED
    BY <1>3, <2>1, <2>2 DEF LookupDead
<1>4. CASE LiveReplicas(op)
  BY <1>4 DEF LiveReplicas, SkipUnheard
<1>5. CASE AskForReplicas(op)
  BY <1>5 DEF AskForReplicas, SkipUnheard
<1>6. CASE ListReplicas(op)
  BY <1>6 DEF ListReplicas
<1>7. CASE Pick(op)
  <2>1. CASE pc'[op] = "send" /\ UNCHANGED result
    BY <1>7, <2>1 DEF Pick
  <2>2. CASE Report(op, \A r \in candidates[op] : KilledByOwnChaos(op, r))
    BY <1>7, <2>2 DEF Pick, KilledByOwnChaos
  <2> QED
    BY <1>7, <2>1, <2>2 DEF Pick
<1>8. CASE Send(op)
  BY <1>8 DEF Send, Refuse, Accept
<1>9. CASE Attempt(op)
  BY <1>9 DEF Attempt
<1>10. CASE CheckNode(op)
  BY <1>10 DEF CheckNode
<1>11. CASE CheckPasses(op)
  BY <1>11 DEF CheckPasses
<1>12. CASE CheckFails(op)
  BY <1>12 DEF CheckFails
<1>13. CASE DeadlinePasses(op)
  BY <1>13 DEF DeadlinePasses, reportVars
<1> QED
  BY <1>1, <1>2, <1>3, <1>4, <1>5, <1>6, <1>7, <1>8, <1>9, <1>10, <1>11, <1>12, <1>13 DEF OperationStep

GroundsHold == \A op \in Op : Grounds(op)

LEMMA GroundsStep ==
  ASSUME TypeInv, GroundsHold, [Next]_vars
  PROVE  GroundsHold'
<1>1. CASE ClusterStep
  BY <1>1, ClusterEffect DEF GroundsHold, Grounds, localVars
<1>2. ASSUME NEW op \in Op, OperationStep(op) \/ DeadlinePasses(op) PROVE GroundsHold'
  <2>1. SUFFICES ASSUME NEW o \in Op PROVE Grounds(o)'
    BY DEF GroundsHold
  <2>2. CASE o = op
    BY <1>2, <2>2, OwnGrounds DEF GroundsHold
  <2>3. CASE o # op
    BY <1>2, <2>3, OthersKept, OperationKeepsCluster DEF GroundsHold, Grounds
  <2> QED
    BY <2>2, <2>3
<1>3. ASSUME NEW op \in Op, NEW n \in Node, OwnChaos(op, n) PROVE GroundsHold'
  <2>1. /\ pc[op] = "chaos" /\ alive' = alive \ {n}
        /\ events' = [events EXCEPT ![op] = @ \cup {n}]
        /\ UNCHANGED <<localVars, result, commanded>>
    BY <1>3 DEF OwnChaos, Dies
  <2>2. result[op] = "none"
    BY <2>1 DEF TypeInv, OperationInv
  <2>3. \A o \in Op : events'[o] = IF o = op THEN events[op] \cup {n} ELSE events[o]
    BY <2>1 DEF TypeInv, OperationInv
  <2>4. UNCHANGED <<pc, found, candidates>>
    BY <2>1 DEF localVars
  <2>5. Grounds(op)'
    <3>1. events[op] \cap alive = {}
      BY DEF GroundsHold, Grounds
    <3>2. (events[op] \cap alive)' = {}
      BY <2>1, <2>3, <3>1
    <3>3. pc'[op] = "chaos" /\ result'[op] = "none"
      BY <2>1, <2>2, <2>4
    <3> QED
      BY <3>2, <3>3 DEF Grounds
  <2>6. ASSUME NEW o \in Op, o # op PROVE Grounds(o)'
    BY <2>1, <2>3, <2>4, <2>6 DEF GroundsHold, Grounds
  <2> QED
    BY <2>5, <2>6 DEF GroundsHold
<1>4. CASE UNCHANGED vars
  BY <1>4 DEF vars, clusterVars, localVars, reportVars, GroundsHold, Grounds
<1> QED
  BY <1>1, <1>2, <1>3, <1>4 DEF Next

LEMMA GroundsInit ==
  ASSUME Init
  PROVE  GroundsHold
BY DEF Init, GroundsHold, Grounds

\* An operation that no replica accepted succeeds only if its own chaos killed
\* what it was for (operation_orchestrator.py:93-126, :250-282).
THEOREM SuccessGrounded == Spec => []SuccessHasGrounds
<1>1. GroundsHold => SuccessHasGrounds
  BY DEF GroundsHold, Grounds, SuccessHasGrounds
<1> QED
  BY <1>1, TypeInit, TypeStep, GroundsInit, GroundsStep, PTL DEF Spec

\* An operation that got an answer is skipped only if nobody is left or somebody
\* took over (operation_orchestrator.py:97-127).
THEOREM WaitingReplicasAwaited == Spec => WaitingReplicasCount
<1> DEFINE Skipped(op) ==
      pc[op] \in {"liveReplicas", "askReplicas"} /\ result'[op] = "ok" =>
        \/ op \in unheard'
        \/ owner[ShardOf(found[op])] # found[op]
        \/ Members(ShardOf(found[op])) \cap alive = {}
<1>1. ASSUME TypeInv, GroundsHold, [Next]_vars, NEW op \in Op PROVE Skipped(op)
  <2>1. SUFFICES ASSUME pc[op] \in {"liveReplicas", "askReplicas"}, result'[op] = "ok",
                        op \notin unheard'
                 PROVE  \/ owner[ShardOf(found[op])] # found[op]
                        \/ Members(ShardOf(found[op])) \cap alive = {}
    OBVIOUS
  <2>2. result[op] = "none"
    BY <1>1, <2>1 DEF TypeInv, OperationInv
  <2>3. found[op] \in events[op] /\ events[op] \cap alive = {}
    BY <1>1, <2>1 DEF GroundsHold, Grounds
  <2>4. OperationStep(op) \/ DeadlinePasses(op)
    <3>1. ~ClusterStep
      BY <1>1, <2>1, <2>2, ClusterEffect
    <3>2. ASSUME NEW o \in Op, OperationStep(o) \/ DeadlinePasses(o) PROVE o = op
      BY <1>1, <2>1, <2>2, <3>2, OthersKept
    <3>3. \A o \in Op, n \in Node : ~OwnChaos(o, n)
      BY <2>1, <2>2 DEF OwnChaos
    <3>4. ~UNCHANGED vars
      BY <2>1, <2>2 DEF vars, reportVars
    <3> QED
      BY <1>1, <3>1, <3>2, <3>3, <3>4 DEF Next
  <2>5. ~SkipUnheard(op)
    BY <2>1 DEF SkipUnheard
  <2>6. ~LiveReplicas(op)
    BY <2>1, <2>2, <2>5 DEF LiveReplicas
  <2>7. CASE AskForReplicas(op)
    <3>1. \/ owner[ShardOf(found[op])] # found[op]
          \/ ListedReplicas(Node, ShardOf(found[op])) = {}
      BY <2>1, <2>2, <2>5, <2>7 DEF AskForReplicas
    <3>2. ASSUME ListedReplicas(Node, ShardOf(found[op])) = {},
                 owner[ShardOf(found[op])] = found[op],
                 NEW n \in Members(ShardOf(found[op])), n \in alive
          PROVE  FALSE
      <4>1. n \in Node /\ ShardOf(n) = ShardOf(found[op])
        BY MemberType
      <4>2. n \in masters
        BY <3>2, <4>1 DEF ListedReplicas
      <4>3. owner[ShardOf(n)] = n
        BY <1>1, <3>2, <4>2 DEF TypeInv, ClusterInv
      <4> QED
        BY <2>3, <3>2, <4>1, <4>3
    <3> QED
      BY <3>1, <3>2
  <2>8. ~(Start(op) \/ Lookup(op) \/ LookupDead(op) \/ ListReplicas(op) \/ Pick(op) \/ Send(op)
          \/ Attempt(op) \/ CheckNode(op) \/ CheckPasses(op) \/ CheckFails(op) \/ DeadlinePasses(op))
    BY <2>1 DEF Start, Lookup, LookupDead, ListReplicas, Pick, Send, Attempt, CheckNode,
                CheckPasses, CheckFails, DeadlinePasses
  <2> QED
    BY <2>4, <2>6, <2>7, <2>8 DEF OperationStep
<1>2. TypeInv /\ GroundsHold /\ [Next]_vars => [\A op \in Op : Skipped(op)]_vars
  BY <1>1
<1> QED
  BY <1>2, TypeInit, TypeStep, GroundsInit, GroundsStep, PTL DEF Spec, WaitingReplicasCount

----------------------------------------------------------------------------
(* Links                                                                   *)

LEMMA LinksStep ==
  ASSUME TypeInv, LinksInv, [Next]_vars
  PROVE  LinksInv'
<1>1. CASE ClusterStep
  <2>1. UNCHANGED <<pc, toCheck>> /\ moved \subseteq moved'
    BY <1>1, ClusterEffect DEF localVars
  <2>2. CASE owner' = owner /\ linked \subseteq linked' /\ alive' = alive
    BY <2>1, <2>2 DEF LinksInv, LinkUp, IsReplica
  <2>3. CASE \A op \in Op : pc[op] = "check" => op \in moved'
    BY <2>1, <2>3 DEF LinksInv
  <2> QED
    BY <1>1, <2>2, <2>3, ClusterEffect
<1>2. ASSUME NEW op \in Op, OperationStep(op) \/ DeadlinePasses(op) PROVE LinksInv'
  <2>1. UNCHANGED <<alive, owner, linked>>
    BY <1>2, OperationKeepsCluster
  <2>2. \A n : LinkUp(n)' <=> LinkUp(n)
    BY <2>1 DEF LinkUp, IsReplica
  <2>3. SUFFICES ASSUME NEW o \in Op, pc'[o] = "check", o \notin moved', NEW n \in alive \ toCheck'[o]
                 PROVE  LinkUp(n)
    BY <2>1, <2>2 DEF LinksInv
  <2>4. CASE o # op
    BY <1>2, <2>3, <2>4, OthersKept DEF LinksInv
  <2>5. CASE o = op
    <3>1. CASE Attempt(op)
      BY <2>3, <2>5, <3>1 DEF Attempt, Report, Goto, TypeInv, OperationInv
    <3>2. CASE CheckNode(op)
      <4>1. /\ pc[op] = "check" /\ LinkUp(AskedNext(op)) /\ op \notin moved
            /\ toCheck'[op] = toCheck[op] \ {AskedNext(op)}
        BY <2>3, <2>5, <3>2 DEF CheckNode, reportsNothing, reportVars, TypeInv, OperationInv
      <4> QED
        BY <2>3, <2>5, <4>1 DEF LinksInv
    <3>3. CASE DeadlinePasses(op)
      BY <2>3, <2>5, <3>3 DEF DeadlinePasses, reportVars, LinksInv
    <3>4. CASE CheckPasses(op) \/ CheckFails(op)
      BY <2>3, <2>5, <3>4 DEF CheckPasses, CheckFails, Report, Goto, TypeInv, OperationInv
    <3>5. CASE Start(op) \/ Lookup(op) \/ LookupDead(op) \/ LiveReplicas(op) \/ AskForReplicas(op)
               \/ ListReplicas(op) \/ Pick(op) \/ Send(op)
      BY <2>3, <2>5, <3>5
         DEF Start, Lookup, LookupDead, LiveReplicas, AskForReplicas, SkipUnheard, ListReplicas,
             Pick, Send, Refuse, Accept, Report, Goto, TypeInv, OperationInv
    <3> QED
      BY <1>2, <3>1, <3>2, <3>3, <3>4, <3>5 DEF OperationStep
  <2> QED
    BY <2>4, <2>5
<1>3. ASSUME NEW op \in Op, NEW n \in Node, OwnChaos(op, n) PROVE LinksInv'
  <2>1. UNCHANGED pc /\ \A o \in Op : pc[o] = "check" => o \in moved'
    BY <1>3 DEF OwnChaos, Dies, ChangeSeen, localVars
  <2> QED
    BY <2>1 DEF LinksInv
<1>4. CASE UNCHANGED vars
  BY <1>4 DEF vars, clusterVars, localVars, reportVars, LinksInv, LinkUp, IsReplica
<1> QED
  BY <1>1, <1>2, <1>3, <1>4 DEF Next

\* An operation that waited succeeds only when all links are up, if the cluster
\* did not change meanwhile (orchestrator.py:589, operation_orchestrator.py:300-309).
THEOREM LinksUp == Spec => LinksUpAtSuccess
<1> DEFINE Up(op) ==
      pc[op] = "check" /\ result'[op] = "ok" /\ op \notin moved => \A n \in alive : LinkUp(n)
<1>1. ASSUME TypeInv, LinksInv, [Next]_vars, NEW op \in Op PROVE Up(op)
  <2>1. SUFFICES ASSUME pc[op] = "check", result'[op] = "ok", op \notin moved
                 PROVE  \A n \in alive : LinkUp(n)
    OBVIOUS
  <2>2. result[op] = "none"
    BY <1>1, <2>1 DEF TypeInv, OperationInv
  <2>3. OperationStep(op) \/ DeadlinePasses(op)
    <3>1. ~ClusterStep
      BY <1>1, <2>1, <2>2, ClusterEffect
    <3>2. ASSUME NEW o \in Op, OperationStep(o) \/ DeadlinePasses(o) PROVE o = op
      BY <1>1, <2>1, <2>2, <3>2, OthersKept
    <3>3. \A o \in Op, n \in Node : ~OwnChaos(o, n)
      BY <2>1, <2>2 DEF OwnChaos
    <3>4. ~UNCHANGED vars
      BY <2>1, <2>2 DEF vars, reportVars
    <3> QED
      BY <1>1, <3>1, <3>2, <3>3, <3>4 DEF Next
  <2>4. ~CheckFails(op)
    BY <1>1, <2>1, <2>2 DEF CheckFails, Report, TypeInv, OperationInv
  <2>5. ~CheckNode(op) /\ ~DeadlinePasses(op)
    BY <2>1, <2>2 DEF CheckNode, DeadlinePasses, reportsNothing, reportVars
  <2>6. CheckPasses(op)
    BY <2>1, <2>3, <2>4, <2>5
       DEF OperationStep, Start, Lookup, LookupDead, LiveReplicas, AskForReplicas, ListReplicas, Pick,
           Send, Attempt
  <2> QED
    BY <1>1, <2>1, <2>6 DEF CheckPasses, LinksInv
<1>2. TypeInv /\ LinksInv /\ [Next]_vars => [\A op \in Op : Up(op)]_vars
  BY <1>1
<1>3. Init => LinksInv
  BY DEF Init, LinksInv
<1> QED
  BY <1>2, <1>3, TypeInit, TypeStep, LinksStep, PTL DEF Spec, LinksUpAtSuccess

----------------------------------------------------------------------------
(* What is left of an operation                                            *)

LEMMA NodesFinite ==
  ASSUME NEW S \in SUBSET Node
  PROVE  IsFiniteSet(S) /\ Cardinality(S) \in Nat
<1>1. IsFiniteSet(0 .. Replicas)
  BY FailoverAssumption, FS_Interval
<1>2. IsFiniteSet(Node)
  BY <1>1, FailoverAssumption, FS_Product DEF Node
<1> QED
  BY <1>2, FS_Subset, FS_CardinalityType

\* Up to the attempts every step has a place of its own.
LEMMA StepsLeftAt ==
  ASSUME NEW op \in Op
  PROVE  /\ pc[op] = "chaos" => StepsLeft(op) = 8
         /\ pc[op] = "lookup" => StepsLeft(op) = 7
         /\ pc[op] \in {"lookupDead", "listReplicas"} => StepsLeft(op) = 6
         /\ pc[op] \in {"liveReplicas", "pick"} => StepsLeft(op) = 5
         /\ pc[op] \in {"askReplicas", "send"} => StepsLeft(op) = 4
         /\ pc[op] = "check" => StepsLeft(op) = 3
         /\ pc[op] = "attempt" => StepsLeft(op) = 2
BY DEF StepsLeft

LEMMA StepsLeftThen ==
  ASSUME NEW op \in Op
  PROVE  /\ pc'[op] = "lookup" => StepsLeft(op)' = 7
         /\ pc'[op] \in {"lookupDead", "listReplicas"} => StepsLeft(op)' = 6
         /\ pc'[op] \in {"liveReplicas", "pick"} => StepsLeft(op)' = 5
         /\ pc'[op] \in {"askReplicas", "send"} => StepsLeft(op)' = 4
         /\ pc'[op] = "check" => StepsLeft(op)' = 3
         /\ pc'[op] = "attempt" => StepsLeft(op)' = 2
         /\ pc'[op] = "done" => StepsLeft(op)' = 0
BY DEF StepsLeft

LEMMA LessLeft ==
  ASSUME NEW op \in Op,
         \/ AttemptsLeft(op)' < AttemptsLeft(op)
         \/ AttemptsLeft(op)' = AttemptsLeft(op) /\ StepsLeft(op)' < StepsLeft(op)
         \/ /\ AttemptsLeft(op)' = AttemptsLeft(op) /\ StepsLeft(op)' = StepsLeft(op)
            /\ Cardinality(toCheck[op])' < Cardinality(toCheck[op])
  PROVE  Less(Left(op)', Left(op))
BY DEF Less, Left

\* Asking, commanding and giving up lead ahead.
LEMMA StepLeadsAhead ==
  ASSUME TypeInv, NEW op \in Op, OperationStep(op), ~Attempt(op), ~CheckNode(op)
  PROVE  AttemptsLeft(op)' = AttemptsLeft(op) /\ StepsLeft(op)' < StepsLeft(op)
<1>1. attempt' = attempt
  BY DEF OperationStep, Start, Lookup, LookupDead, LiveReplicas, AskForReplicas, ListReplicas, Pick,
         Send, CheckPasses, CheckFails, notWaiting
<1>2. pc \in [Op -> Steps]
  BY DEF TypeInv, OperationInv
<1>3. \/ pc[op] = "chaos" /\ pc'[op] \in {"lookup", "done"}
      \/ pc[op] = "lookup" /\ pc'[op] \in {"listReplicas", "lookupDead"}
      \/ pc[op] = "lookupDead" /\ pc'[op] \in {"liveReplicas", "done"}
      \/ pc[op] = "liveReplicas" /\ pc'[op] \in {"attempt", "askReplicas", "done"}
      \/ pc[op] = "askReplicas" /\ pc'[op] \in {"attempt", "done"}
      \/ pc[op] = "listReplicas" /\ pc'[op] \in {"pick", "done"}
      \/ pc[op] = "pick" /\ pc'[op] \in {"send", "done"}
      \/ pc[op] = "send" /\ pc'[op] \in {"attempt", "done"}
      \/ pc[op] = "check" /\ pc'[op] \in {"attempt", "done"}
  <2> USE <1>2 DEF Goto, Report
  <2>1. CASE Start(op) \/ Lookup(op) \/ LookupDead(op)
    BY <2>1 DEF Start, Lookup, LookupDead
  <2>2. CASE LiveReplicas(op) \/ AskForReplicas(op) \/ ListReplicas(op) \/ Pick(op)
    BY <2>2 DEF LiveReplicas, AskForReplicas, SkipUnheard, ListReplicas, Pick
  <2>3. CASE Send(op)
    BY <2>3 DEF Send, Refuse, Accept
  <2>4. CASE CheckPasses(op) \/ CheckFails(op)
    BY <2>4 DEF CheckPasses, CheckFails
  <2> QED
    BY <2>1, <2>2, <2>3, <2>4 DEF OperationStep
<1>4. StepsLeft(op)' < StepsLeft(op)
  BY <1>3, StepsLeftAt, StepsLeftThen
<1> QED
  BY <1>1, <1>4 DEF AttemptsLeft

LEMMA StepLeavesLess ==
  ASSUME TypeInv, NEW op \in Op, OperationStep(op)
  PROVE  Less(Left(op)', Left(op))
<1>0. /\ attempt \in [Op -> 0 .. MaxAttempts] /\ toCheck \in [Op -> SUBSET Node]
      /\ pc \in [Op -> Steps]
  BY DEF TypeInv, OperationInv
<1>1. CASE Attempt(op)
  <2>1. CASE op \in late
    <3>1. attempt' = attempt /\ pc[op] = "attempt" /\ pc'[op] = "done"
      BY <1>0, <1>1, <2>1 DEF Attempt, Report, Goto
    <3>2. AttemptsLeft(op)' = AttemptsLeft(op) /\ StepsLeft(op)' < StepsLeft(op)
      BY <3>1, StepsLeftAt, StepsLeftThen DEF AttemptsLeft
    <3> QED
      BY <3>2, LessLeft
  <2>2. CASE op \notin late
    <3>1. attempt'[op] = attempt[op] + 1
      BY <1>0, <1>1, <2>2 DEF Attempt
    <3>2. AttemptsLeft(op)' < AttemptsLeft(op)
      BY <1>0, <3>1 DEF AttemptsLeft, MaxAttempts
    <3> QED
      BY <3>2, LessLeft
  <2> QED
    BY <2>1, <2>2
<1>2. CASE CheckNode(op)
  <2>1. UNCHANGED <<pc, attempt>> /\ toCheck[op] # {}
        /\ toCheck'[op] = toCheck[op] \ {AskedNext(op)}
    BY <1>0, <1>2 DEF CheckNode
  <2>2. AskedNext(op) \in toCheck[op]
    BY <2>1 DEF AskedNext
  <2>3. IsFiniteSet(toCheck[op]) /\ Cardinality(toCheck[op]) \in Nat
    BY <1>0, NodesFinite
  <2>4. Cardinality(toCheck[op] \ {AskedNext(op)}) = Cardinality(toCheck[op]) - 1
    BY <2>2, <2>3, FS_RemoveElement
  <2>5. Cardinality(toCheck[op])' < Cardinality(toCheck[op])
    BY <2>1, <2>3, <2>4
  <2>6. AttemptsLeft(op)' = AttemptsLeft(op) /\ StepsLeft(op)' = StepsLeft(op)
    BY <2>1 DEF AttemptsLeft, StepsLeft
  <2> QED
    BY <2>5, <2>6, LessLeft
<1>3. CASE ~Attempt(op) /\ ~CheckNode(op)
  BY <1>3, StepLeadsAhead, LessLeft
<1> QED
  BY <1>1, <1>2, <1>3

\* Theorem: whatever an operation does leaves less of it, in attempts, steps and
\* nodes to ask, and nobody gives it more, for any cluster and any other
\* operations (operation_orchestrator.py:299-319).
THEOREM OperationsShorten == Spec => OperationsRunOut
<1> DEFINE Shorter(op) ==
      \/ UNCHANGED <<pc[op], attempt[op], toCheck[op]>>
      \/ Left(op)' \in Amounts(3) /\ Less(Left(op)', Left(op))
<1>1. ASSUME TypeInv, TypeInv', [Next]_vars, NEW op \in Op
      PROVE  Shorter(op)
  <2>1. CASE OperationStep(op)
    <3>1. Left(op)' \in Amounts(3)
      <4>1. OperationInv'
        BY <1>1 DEF TypeInv
      <4>2. AttemptsLeft(op)' \in Nat
        BY <4>1 DEF OperationInv, AttemptsLeft, MaxAttempts
      <4>3. StepsLeft(op)' \in Nat
        BY <4>1 DEF OperationInv, Steps, StepsLeft
      <4>4. Cardinality(toCheck[op])' \in Nat
        BY <4>1, NodesFinite DEF OperationInv
      <4> QED
        BY <4>2, <4>3, <4>4 DEF Left, Amounts
    <3> QED
      BY <1>1, <2>1, <3>1, StepLeavesLess
  <2>2. CASE \E o \in Op \ {op} : OperationStep(o) \/ DeadlinePasses(o)
    BY <1>1, <2>2, OthersKept
  <2>3. CASE DeadlinePasses(op)
    BY <2>3 DEF DeadlinePasses
  <2>4. CASE ClusterStep
    BY <1>1, <2>4, ClusterEffect DEF localVars
  <2>5. CASE \E o \in Op, n \in Node : OwnChaos(o, n)
    BY <2>5 DEF OwnChaos, localVars
  <2>6. CASE UNCHANGED vars
    BY <2>6 DEF vars, localVars
  <2> QED
    BY <1>1, <2>1, <2>2, <2>3, <2>4, <2>5, <2>6 DEF Next
<1>2. TypeInv /\ TypeInv' /\ [Next]_vars => [\A op \in Op : Shorter(op)]_vars
  BY <1>1
<1> HIDE DEF Shorter
<1>3. Spec => [][\A op \in Op : Shorter(op)]_vars
  BY <1>2, TypeInit, TypeStep, PTL DEF Spec
<1> QED
  BY <1>3 DEF OperationsRunOut, Shorter
=============================================================================
