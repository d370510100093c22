------------------------ MODULE ClusterLifecycle_proofs ------------------------
(***************************************************************************)
(* Proofs about ClusterLifecycle, for any number of nodes, attempts, runs  *)
(* and polls and any base ports.                                           *)
(***************************************************************************)
EXTENDS ClusterLifecycle, TLAPS

TypeInv == TypeOK /\ ControlInv

\* The empty caches and the clients made for a node are of the right type.
LEMMA ConnectType ==
  ASSUME TypeInv, NEW clients \in [Index -> Nat], NEW nodes
  PROVE  /\ NoConnections \in [Index -> Nat]
         /\ \A i \in Index : Port(i) \in Nat
         /\ Connect(clients, nodes) \in [Index -> Nat]
<1>1. basePort \in Nat
  BY LifecycleAssumption DEF TypeInv, TypeOK
<1>2. \A i \in Index : Port(i) \in Nat
  BY <1>1, LifecycleAssumption DEF Port, Index
<1> QED
  BY <1>2 DEF Connect, NoConnections, NoClient

\* A process of the current attempt is a process.
LEMMA OwnType ==
  ASSUME TypeInv, stage # "idle", NEW i \in Index
  PROVE  Own(i) \in Process
<1>1. run \in 1..MaxRuns /\ attempt \in 1..MaxAttempts
  BY LifecycleAssumption DEF TypeInv, TypeOK, ControlInv
<1>2. basePort \in Nat
  BY LifecycleAssumption DEF TypeInv, TypeOK
<1>3. Port(i) \in Nat
  BY <1>2, LifecycleAssumption DEF Port, Index
<1> QED
  BY <1>1, <1>3 DEF Own, Process

\* Every step keeps the types and the control of the engine.
LEMMA TypeStep ==
  ASSUME TypeInv, [Next]_vars
  PROVE  TypeInv'
<1> USE LifecycleAssumption
<1>1. CASE BeginRun
  BY <1>1 DEF BeginRun, TypeInv, TypeOK, ControlInv, processVars, clientVars
<1>2. CASE PlanCluster
  BY <1>2 DEF PlanCluster, TypeInv, TypeOK, ControlInv, engineVars, spawnVars, processVars, clientVars
<1>3. CASE SpawnNode
  <2>1. spawned \in Index
    BY <1>3 DEF SpawnNode, TypeInv, TypeOK, ControlInv, Index
  <2>2. Own(spawned) \in Process
    BY <1>3, <2>1, OwnType DEF SpawnNode
  <2> QED
    BY <1>3, <2>1, <2>2 DEF SpawnNode, TypeInv, TypeOK, ControlInv, Index, engineVars, clientVars
<1>4. CASE SpawnError
  BY <1>4 DEF SpawnError, FailAttempt, Terminate, TypeInv, TypeOK, ControlInv, engineVars, spawnVars
<1>5. CASE EscapingError
  BY <1>5 DEF EscapingError, FailAttempt, TypeInv, TypeOK, ControlInv, engineVars, spawnVars, processVars
<1>6. CASE PollNode
  BY <1>6 DEF PollNode, TypeInv, TypeOK, ControlInv, engineVars, processVars, clientVars
<1>7. CASE PingAnswered
  BY <1>7 DEF PingAnswered, TypeInv, TypeOK, ControlInv, engineVars, processVars, clientVars
<1>8. CASE PingUnanswered
  BY <1>8 DEF PingUnanswered, TypeInv, TypeOK, ControlInv, engineVars, spawnVars, processVars, clientVars
<1>9. CASE NodeNotReady
  BY <1>9 DEF NodeNotReady, FailAttempt, Terminate, TypeInv, TypeOK, ControlInv, engineVars, spawnVars
<1>10. CASE FormCluster
  <2>1. coordinatorClients' \in [Index -> Nat]
    BY <1>10, ConnectType DEF FormCluster, TypeInv, TypeOK
  <2> QED
    BY <1>10, <2>1 DEF FormCluster, TypeInv, TypeOK, ControlInv, engineVars, spawnVars, processVars
<1>11. CASE FormError
  <2>1. coordinatorClients' \in [Index -> Nat]
    BY <1>11, ConnectType DEF FormError, StopForming, TypeInv, TypeOK
  <2> QED
    BY <1>11, <2>1 DEF FormError, StopForming, FailAttempt, Terminate, TypeInv, TypeOK, ControlInv,
                       engineVars, spawnVars
<1>12. CASE RetryCreation
  BY <1>12 DEF RetryCreation, TypeInv, TypeOK, ControlInv, processVars, clientVars
<1>13. CASE CheckReadiness
  BY <1>13 DEF CheckReadiness, TypeInv, TypeOK, ControlInv, engineVars, spawnVars, processVars, clientVars
<1>14. CASE CheckReplicationLinks
  <2>1. operationClients' \in [Index -> Nat]
    BY <1>14, ConnectType DEF CheckReplicationLinks, TypeInv, TypeOK
  <2> QED
    BY <1>14, <2>1 DEF CheckReplicationLinks, TypeInv, TypeOK, ControlInv, engineVars, spawnVars, processVars
<1>15. CASE FinishRun
  BY <1>15 DEF FinishRun, TypeInv, TypeOK, ControlInv, engineVars, spawnVars, processVars, clientVars
<1>16. CASE CleanupResources
  <2>1. coordinatorClients' \in [Index -> Nat]
    BY <1>16, ConnectType DEF CleanupResources, DestroyCluster, TypeInv, TypeOK
  <2> QED
    BY <1>16, <2>1 DEF CleanupResources, DestroyCluster, Terminate, TypeInv, TypeOK, ControlInv,
                       engineVars, spawnVars, processVars
<1>17. CASE ProcessStep
  BY <1>17 DEF ProcessStep, Listen, Die, Processes, TypeInv, TypeOK, ControlInv, engineVars, spawnVars, clientVars
<1>18. CASE UNCHANGED vars
  BY <1>18 DEF vars, TypeInv, TypeOK, ControlInv, engineVars, spawnVars, processVars, clientVars
<1> QED
  BY <1>1, <1>2, <1>3, <1>4, <1>5, <1>6, <1>7, <1>8, <1>9, <1>10, <1>11, <1>12, <1>13, <1>14, <1>15,
     <1>16, <1>17, <1>18 DEF Next, EngineStep, Finished

\* In every run of the engine the variables have their types and the counters
\* agree with the stage, whatever fails.
THEOREM LifecycleTypeCorrect == Spec => []TypeOK
<1>1. Init => TypeInv
  BY LifecycleAssumption DEF Init, TypeInv, TypeOK, ControlInv, NoConnections, NoClient
<1>2. TypeInv /\ [Next]_vars => TypeInv'
  BY TypeStep
<1>3. TypeInv => TypeOK
  BY DEF TypeInv
<1> QED
  BY <1>1, <1>2, <1>3, PTL DEF Spec

----------------------------------------------------------------------------
(* No process is left over *)

\* Once the processes of the attempt are terminated, those left are of
\* attempts that an exception escaped from.
LEMMA TerminateAll ==
  ASSUME OwnOrEscaped, Terminate(OwnNodes), UNCHANGED escaped
  PROVE  OnlyEscaped'
BY DEF OwnOrEscaped, Terminate, Processes, OnlyEscaped, AttemptOf

\* What is left over is allowed in every stage.
LEMMA EscapedIsAllowed ==
  ASSUME OnlyEscaped
  PROVE  OwnOrEscaped
BY DEF OnlyEscaped, OwnOrEscaped

\* A step that adds no process leaves no more than before.
LEMMA KeepEscaped ==
  ASSUME OnlyEscaped, Processes' \subseteq Processes, escaped \subseteq escaped'
  PROVE  OnlyEscaped'
BY DEF OnlyEscaped, AttemptOf

\* A step that changes neither the attempt nor its ports, and spawns nothing,
\* keeps every process one of the attempt's or an escaped one.
LEMMA KeepOwn ==
  ASSUME OwnOrEscaped, Processes' \subseteq Processes, escaped \subseteq escaped',
         UNCHANGED engineVars, UNCHANGED spawned
  PROVE  OwnOrEscaped'
<1>1. OwnNodes' = OwnNodes
  BY DEF OwnNodes, Own, Port, engineVars
<1> QED
  BY <1>1 DEF OwnOrEscaped, AttemptOf

\* Every step keeps the processes those of the current attempt or of an escaped
\* one, and leaves none of the attempt where the engine expects none.
LEMMA LeakStep ==
  ASSUME IInv, [Next]_vars
  PROVE  OwnOrEscaped' /\ (Quiet' => OnlyEscaped')
<1> USE LifecycleAssumption DEF IInv
<1>1. CASE BeginRun
  <2>1. OnlyEscaped /\ Processes' = Processes /\ escaped' = escaped
    BY <1>1 DEF BeginRun, Quiet, Processes, processVars
  <2> QED
    BY <2>1, KeepEscaped DEF OnlyEscaped, OwnOrEscaped, AttemptOf
<1>2. CASE PlanCluster
  <2>1. OnlyEscaped /\ Processes' = Processes /\ escaped' = escaped
    BY <1>2 DEF PlanCluster, Quiet, Processes, processVars
  <2> QED
    BY <2>1, KeepEscaped DEF OnlyEscaped, OwnOrEscaped, AttemptOf
<1>3. CASE SpawnNode
  <2>1. OwnNodes' = OwnNodes \cup {Own(spawned)}
    <3>1. spawned \in Nat /\ 0 .. spawned' - 1 = (0 .. spawned - 1) \cup {spawned}
      BY <1>3 DEF SpawnNode, TypeOK
    <3> QED
      BY <1>3, <3>1 DEF SpawnNode, OwnNodes, Own, Port, engineVars
  <2>2. Processes' = Processes \cup {Own(spawned)} /\ escaped' = escaped
    BY <1>3 DEF SpawnNode, Processes
  <2>3. ~Quiet'
    BY <1>3 DEF SpawnNode, Quiet
  <2> QED
    BY <2>1, <2>2, <2>3 DEF OwnOrEscaped, AttemptOf
<1>4. CASE SpawnError
  <2>1. OnlyEscaped'
    BY <1>4, TerminateAll DEF SpawnError
  <2> QED
    BY <2>1 DEF OnlyEscaped, OwnOrEscaped
<1>5. CASE EscapingError
  <2>1. \A p \in OwnNodes : AttemptOf(p) = <<run, attempt>>
    BY DEF OwnNodes, Own, AttemptOf
  <2>2. Processes' = Processes /\ escaped' = escaped \cup {<<run, attempt>>}
    BY <1>5 DEF EscapingError, Processes, processVars
  <2>3. OnlyEscaped'
    BY <2>1, <2>2 DEF OwnOrEscaped, OnlyEscaped, AttemptOf
  <2> QED
    BY <2>3 DEF OnlyEscaped, OwnOrEscaped
<1>6. CASE PollNode
  <2>1. Processes' = Processes /\ escaped' = escaped /\ ~Quiet'
    BY <1>6 DEF PollNode, Processes, processVars, Quiet
  <2> QED
    BY <1>6, <2>1, KeepOwn DEF PollNode
<1>7. CASE PingAnswered
  <2>1. Processes' = Processes /\ escaped' = escaped /\ ~Quiet'
    BY <1>7 DEF PingAnswered, Processes, processVars, Quiet
  <2> QED
    BY <1>7, <2>1, KeepOwn DEF PingAnswered
<1>8. CASE PingUnanswered
  <2>1. Processes' = Processes /\ escaped' = escaped /\ ~Quiet'
    BY <1>8 DEF PingUnanswered, Processes, processVars, Quiet
  <2> QED
    BY <1>8, <2>1, KeepOwn DEF PingUnanswered, spawnVars
<1>9. CASE NodeNotReady
  <2>1. OnlyEscaped'
    BY <1>9, TerminateAll DEF NodeNotReady
  <2> QED
    BY <2>1 DEF OnlyEscaped, OwnOrEscaped
<1>10. CASE FormCluster
  <2>1. Processes' = Processes /\ escaped' = escaped /\ ~Quiet'
    BY <1>10 DEF FormCluster, Processes, processVars, Quiet
  <2> QED
    BY <1>10, <2>1, KeepOwn DEF FormCluster, spawnVars
<1>11. CASE FormError
  <2>1. OnlyEscaped'
    BY <1>11, TerminateAll DEF FormError
  <2> QED
    BY <2>1 DEF OnlyEscaped, OwnOrEscaped
<1>12. CASE RetryCreation
  <2>1. OnlyEscaped /\ Processes' = Processes /\ escaped' = escaped
    BY <1>12 DEF RetryCreation, Quiet, Processes, processVars
  <2> QED
    BY <2>1, KeepEscaped DEF OnlyEscaped, OwnOrEscaped, AttemptOf
<1>13. CASE CheckReadiness
  <2>1. Processes' = Processes /\ escaped' = escaped /\ ~Quiet'
    BY <1>13 DEF CheckReadiness, ControlInv, Processes, processVars, engineVars, Quiet
  <2> QED
    BY <1>13, <2>1, KeepOwn DEF CheckReadiness, spawnVars
<1>14. CASE CheckReplicationLinks
  <2>1. Processes' = Processes /\ escaped' = escaped /\ ~Quiet'
    BY <1>14 DEF CheckReplicationLinks, Processes, processVars, Quiet
  <2> QED
    BY <1>14, <2>1, KeepOwn DEF CheckReplicationLinks, spawnVars
<1>15. CASE FinishRun
  <2>1. Processes' = Processes /\ escaped' = escaped /\ ~Quiet'
    BY <1>15 DEF FinishRun, ControlInv, Processes, processVars, engineVars, Quiet
  <2> QED
    BY <1>15, <2>1, KeepOwn DEF FinishRun, spawnVars
<1>16. CASE CleanupResources
  <2>1. OnlyEscaped'
    <3>1. CASE DestroyCluster
      BY <1>16, <3>1, TerminateAll DEF CleanupResources, DestroyCluster
    <3>2. CASE run \notin activeClusters /\ UNCHANGED processVars
      <4>1. OnlyEscaped /\ Processes' = Processes /\ escaped' = escaped
        BY <1>16, <3>2 DEF CleanupResources, Quiet, Processes, processVars
      <4> QED
        BY <4>1, KeepEscaped
    <3> QED
      BY <1>16, <3>1, <3>2 DEF CleanupResources
  <2> QED
    BY <2>1 DEF OnlyEscaped, OwnOrEscaped
<1>17. CASE ProcessStep
  <2>1. Processes' \subseteq Processes /\ escaped' = escaped
    BY <1>17 DEF ProcessStep, Listen, Die, Processes
  <2>2. OwnOrEscaped'
    BY <1>17, <2>1, KeepOwn DEF ProcessStep, Listen, Die, spawnVars
  <2>3. Quiet' => Quiet
    BY <1>17 DEF ProcessStep, Listen, Die, Quiet, engineVars
  <2> QED
    BY <2>1, <2>2, <2>3, KeepEscaped
<1>18. CASE UNCHANGED vars
  BY <1>18 DEF vars, OwnOrEscaped, OnlyEscaped, Quiet, Processes, OwnNodes, Own, Port, AttemptOf,
               engineVars, spawnVars, processVars
<1> QED
  BY <1>1, <1>2, <1>3, <1>4, <1>5, <1>6, <1>7, <1>8, <1>9, <1>10, <1>11, <1>12, <1>13, <1>14, <1>15,
     <1>16, <1>17, <1>18 DEF Next, EngineStep, Finished

\* IInv is inductive: the engine accounts for every process, whatever fails.
THEOREM LifecycleInductive == Spec => []IInv
<1>1. Init => IInv
  <2> SUFFICES ASSUME Init PROVE IInv
    OBVIOUS
  <2>1. TypeOK /\ ControlInv
    BY LifecycleAssumption DEF Init, TypeOK, ControlInv, NoConnections, NoClient
  <2>2. Processes = {}
    BY DEF Init, Processes
  <2> QED
    BY <2>1, <2>2 DEF IInv, OwnOrEscaped, OnlyEscaped
<1>2. IInv /\ [Next]_vars => IInv'
  <2> SUFFICES ASSUME IInv, [Next]_vars PROVE IInv'
    OBVIOUS
  <2>1. TypeInv'
    BY TypeStep DEF IInv, TypeInv
  <2> QED
    BY <2>1, LeakStep DEF IInv, TypeInv
<1> QED
  BY <1>1, <1>2, PTL DEF Spec

\* Whichever step of creating, using or destroying a cluster fails, no node
\* process survives the attempt or the run it belongs to, unless an exception
\* escaped spawn_all_nodes in that attempt.
THEOREM NoProcessLeaks == Spec => []NothingLeaks
<1>1. IInv => NothingLeaks
  BY DEF IInv, Quiet, OnlyEscaped, NothingLeaks
<1> QED
  BY <1>1, LifecycleInductive, PTL

\* Until an exception escapes, the process that answered for a node is the
\* node's own, although the code checks the process and the port separately.
THEOREM ReadyMeansOwn == Spec => AnsweredByOwnUnlessEscaped
<1>1. IInv /\ [Next]_vars => [escaped = {} /\ ready' > ready => Own(ready) \in up]_vars
  <2> SUFFICES ASSUME IInv, [Next]_vars, escaped = {}, ready' > ready
               PROVE  Own(ready) \in up
    OBVIOUS
  <2>1. ready \in Nat /\ basePort \in Nat /\ spawned \in Nat
    BY LifecycleAssumption DEF IInv, TypeOK
  <2>2. PingAnswered
    BY <2>1 DEF Next, BeginRun, EngineStep, PlanCluster, SpawnNode, SpawnError, EscapingError, PollNode,
      PingUnanswered, NodeNotReady, FormCluster, FormError, FailAttempt, RetryCreation, CheckReadiness,
      CheckReplicationLinks, FinishRun, CleanupResources, ProcessStep, Listen, Die, Finished, vars, spawnVars
  <2>3. PICK p \in up : p.port = Port(ready)
    BY <2>2 DEF PingAnswered, Answering
  <2>4. PICK i \in 0 .. spawned - 1 : p = Own(i)
    BY DEF IInv, OwnOrEscaped, Processes, OwnNodes
  <2>5. basePort + i = basePort + ready
    BY <2>3, <2>4 DEF Own, Port
  <2>6. i = ready
    BY <2>1, <2>5
  <2> QED
    BY <2>4, <2>6
<1> QED
  BY <1>1, LifecycleInductive, PTL DEF Spec, AnsweredByOwnUnlessEscaped

----------------------------------------------------------------------------
(* What is left to the engine                                              *)

LEMMA LeftType ==
  ASSUME TypeOK'
  PROVE  Left' \in Amounts(6)
<1>1. StagesLeft' \in Nat /\ AnswersLeft' \in Nat
  BY DEF TypeOK, StagesLeft, AnswersLeft
<1>2. \A y \in Nat : \A x \in 0 .. y : (y - x) \in Nat
  OBVIOUS
<1>3. /\ run' \in 0 .. MaxRuns /\ attempt' \in 0 .. MaxAttempts /\ polls' \in 0 .. MaxPolls
      /\ spawned' \in 0 .. NumNodes /\ ready' \in 0 .. NumNodes
  BY DEF TypeOK
<1>4. NodesLeft' \in Nat
  BY <1>2, <1>3, LifecycleAssumption DEF NodesLeft
<1> QED
  BY <1>1, <1>2, <1>3, <1>4, LifecycleAssumption DEF Left, Amounts

LEMMA LessLeft ==
  ASSUME \/ (MaxRuns - run)' < MaxRuns - run
         \/ UNCHANGED run /\ (MaxAttempts - attempt)' < MaxAttempts - attempt
         \/ UNCHANGED <<run, attempt>> /\ StagesLeft' < StagesLeft
         \/ UNCHANGED <<run, attempt, StagesLeft>> /\ NodesLeft' < NodesLeft
         \/ /\ UNCHANGED <<run, attempt, StagesLeft, NodesLeft>>
            /\ (MaxPolls - polls)' < MaxPolls - polls
         \/ UNCHANGED <<run, attempt, StagesLeft, NodesLeft, polls>> /\ AnswersLeft' < AnswersLeft
  PROVE  Less(Left', Left)
BY DEF Less, Left

\* Every stage has its place, and what follows it a lower one, unless another
\* attempt or run begins.
LEMMA StageLeavesLess ==
  ASSUME UNCHANGED <<run, attempt>>,
         \/ stage = "create" /\ stage' \in {"spawn", "failed"}
         \/ stage = "spawn" /\ stage' \in {"await", "failed"}
         \/ stage \in {"await", "ping"} /\ stage' \in {"form", "failed"}
         \/ stage = "form" /\ stage' \in {"readiness", "failed"}
         \/ stage \in {"failed", "readiness"} /\ stage' \in {"running", "cleanup"}
         \/ stage = "running" /\ stage' = "cleanup"
         \/ stage = "cleanup" /\ stage' = "idle"
  PROVE  Less(Left', Left)
<1>1. /\ stage = "create" => StagesLeft = 7
      /\ stage = "spawn" => StagesLeft = 6
      /\ stage \in {"await", "ping"} => StagesLeft = 5
      /\ stage = "form" => StagesLeft = 4
      /\ stage \in {"readiness", "failed"} => StagesLeft = 3
      /\ stage = "running" => StagesLeft = 2
      /\ stage = "cleanup" => StagesLeft = 1
  BY DEF StagesLeft
<1>2. /\ stage' = "spawn" => StagesLeft' = 6
      /\ stage' = "await" => StagesLeft' = 5
      /\ stage' = "form" => StagesLeft' = 4
      /\ stage' \in {"readiness", "failed"} => StagesLeft' = 3
      /\ stage' = "running" => StagesLeft' = 2
      /\ stage' = "cleanup" => StagesLeft' = 1
      /\ stage' = "idle" => StagesLeft' = 0
  BY DEF StagesLeft
<1>3. StagesLeft' < StagesLeft
  BY <1>1, <1>2
<1> QED
  BY <1>3, LessLeft

\* An attempt that fails leaves the stages up to it.
LEMMA FailureLeavesLess ==
  ASSUME stage \in {"spawn", "await", "ping", "form"}, FailAttempt
  PROVE  Less(Left', Left)
BY StageLeavesLess DEF FailAttempt, engineVars

\* Nodes are spawned, polled and found ready one after the other.
LEMMA NodeLeavesLess ==
  ASSUME TypeInv, SpawnNode \/ PollNode \/ PingAnswered \/ PingUnanswered
  PROVE  Less(Left', Left)
<1>0. /\ spawned \in 0 .. NumNodes /\ ready \in 0 .. NumNodes /\ polls \in 0 .. MaxPolls
      /\ NumNodes \in Nat /\ MaxPolls \in Nat
  BY LifecycleAssumption DEF TypeInv, TypeOK
<1>1. UNCHANGED <<run, attempt>>
  BY DEF SpawnNode, PollNode, PingAnswered, PingUnanswered, engineVars
<1>2. CASE SpawnNode
  <2>1. stage = "spawn" /\ spawned' = spawned + 1 /\ stage' \in {"spawn", "await"}
    BY <1>2 DEF SpawnNode
  <2>2. CASE stage' = "spawn"
    <3>1. UNCHANGED StagesLeft
      BY <2>1, <2>2 DEF StagesLeft
    <3>2. NodesLeft = NumNodes - spawned /\ NodesLeft' = NumNodes - spawned'
      BY <2>1, <2>2 DEF NodesLeft
    <3>3. NodesLeft' < NodesLeft
      BY <1>0, <2>1, <3>2
    <3> QED
      BY <1>1, <3>1, <3>3, LessLeft
  <2> QED
    BY <1>1, <2>1, <2>2, StageLeavesLess
<1>3. CASE PollNode
  <2>1. stage = "await" /\ stage' = "ping" /\ polls' = polls + 1 /\ UNCHANGED ready
    BY <1>3 DEF PollNode
  <2>2. UNCHANGED <<StagesLeft, NodesLeft>>
    BY <2>1 DEF StagesLeft, NodesLeft
  <2>3. (MaxPolls - polls)' < MaxPolls - polls
    BY <1>0, <2>1
  <2> QED
    BY <1>1, <2>2, <2>3, LessLeft
<1>4. CASE PingAnswered
  <2>1. stage = "ping" /\ stage' \in {"form", "await"} /\ ready' = ready + 1
    BY <1>4 DEF PingAnswered
  <2>2. CASE stage' = "await"
    <3>1. UNCHANGED StagesLeft
      BY <2>1, <2>2 DEF StagesLeft
    <3>2. NodesLeft = NumNodes - ready /\ NodesLeft' = NumNodes - ready'
      BY <2>1, <2>2 DEF NodesLeft
    <3>3. NodesLeft' < NodesLeft
      BY <1>0, <2>1, <3>2
    <3> QED
      BY <1>1, <3>1, <3>3, LessLeft
  <2> QED
    BY <1>1, <2>1, <2>2, StageLeavesLess
<1>5. CASE PingUnanswered
  <2>1. stage = "ping" /\ stage' = "await" /\ UNCHANGED <<ready, polls>>
    BY <1>5 DEF PingUnanswered, spawnVars
  <2>2. UNCHANGED <<StagesLeft, NodesLeft>> /\ AnswersLeft = 1 /\ AnswersLeft' = 0
    BY <2>1 DEF StagesLeft, NodesLeft, AnswersLeft
  <2> QED
    BY <1>1, <2>1, <2>2, LessLeft
<1> QED
  BY <1>2, <1>3, <1>4, <1>5

\* Another run or another attempt leaves fewer of them.
LEMMA AgainLeavesLess ==
  ASSUME TypeInv, BeginRun \/ RetryCreation
  PROVE  Less(Left', Left)
<1>0. run \in Nat /\ attempt \in Nat /\ MaxRuns \in Nat /\ MaxAttempts \in Nat
  BY LifecycleAssumption DEF TypeInv, TypeOK
<1>1. CASE BeginRun
  <2>1. (MaxRuns - run)' < MaxRuns - run
    BY <1>0, <1>1 DEF BeginRun
  <2> QED
    BY <2>1, LessLeft
<1>2. CASE RetryCreation
  <2>1. UNCHANGED run /\ stage = "failed"
    BY <1>2 DEF RetryCreation
  <2>2. CASE attempt' = attempt + 1
    <3>1. (MaxAttempts - attempt)' < MaxAttempts - attempt
      BY <1>0, <2>2
    <3> QED
      BY <2>1, <3>1, LessLeft
  <2>3. CASE UNCHANGED attempt /\ stage' = "cleanup"
    BY <2>1, <2>3, StageLeavesLess
  <2> QED
    BY <1>2, <2>2, <2>3 DEF RetryCreation
<1> QED
  BY <1>1, <1>2

LEMMA EngineLeavesLess ==
  ASSUME TypeInv, [Next]_vars
  PROVE  UNCHANGED <<stage, engineVars, spawnVars>> \/ Less(Left', Left)
<1>1. CASE PlanCluster
  BY <1>1, StageLeavesLess DEF PlanCluster, engineVars
<1>2. CASE SpawnError \/ EscapingError \/ NodeNotReady
  BY <1>2, FailureLeavesLess DEF SpawnError, EscapingError, NodeNotReady
<1>3. CASE FormError
  BY <1>3, FailureLeavesLess DEF FormError, StopForming
<1>4. CASE FormCluster \/ CheckReadiness \/ FinishRun \/ CleanupResources
  BY <1>4, StageLeavesLess DEF FormCluster, CheckReadiness, FinishRun, CleanupResources, engineVars
<1>5. CASE SpawnNode \/ PollNode \/ PingAnswered \/ PingUnanswered
  BY <1>5, NodeLeavesLess
<1>6. CASE BeginRun \/ RetryCreation
  BY <1>6, AgainLeavesLess
<1>7. CASE CheckReplicationLinks \/ ProcessStep
  BY <1>7 DEF CheckReplicationLinks, ProcessStep, Listen, Die
<1>8. CASE UNCHANGED vars
  BY <1>8 DEF vars
<1> QED
  BY <1>1, <1>2, <1>3, <1>4, <1>5, <1>6, <1>7, <1>8 DEF Next, EngineStep, Finished

\* Whatever step the engine takes leaves less of its runs, for any numbers of
\* runs, attempts, nodes and polls (error_handler.py:130, orchestrator.py:283-311).
THEOREM EngineShortens == Spec => EngineRunsOut
<1>1. Init => TypeInv
  BY LifecycleAssumption DEF Init, TypeInv, TypeOK, ControlInv, NoConnections, NoClient
<1>2. TypeInv /\ TypeInv' /\ [Next]_vars =>
        [Left' \in Amounts(6) /\ Less(Left', Left)]_<<stage, engineVars, spawnVars>>
  BY LeftType, EngineLeavesLess DEF TypeInv
<1> QED
  BY <1>1, <1>2, TypeStep, PTL DEF Spec, EngineRunsOut
=============================================================================
