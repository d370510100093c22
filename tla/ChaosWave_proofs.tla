-------------------------- MODULE ChaosWave_proofs --------------------------
(***************************************************************************)
(* Proofs about ChaosWave for every cluster, every set of threads, any     *)
(* number of waves and any number of failovers.                            *)
(***************************************************************************)
EXTENDS ChaosWave, FiniteSetTheorems, TLAPS

----------------------------------------------------------------------------
(* Type correctness *)

LEMMA SomeConfigType == SomeConfig \in Configs
  BY WaveAssumption DEF SomeConfig

LEMMA ConfigType ==
  ASSUME NEW c \in Configs
  PROVE  /\ c.phases \subseteq Phase
         /\ c.selection \in Selection
  BY WaveAssumption DEF Config

LEMMA NoReplyType == NoReply \in Reply
  <1>1. NoReply \in [{} -> Role]
    BY DEF NoReply, Role
  <1>2. QED
    BY <1>1 DEF Reply

LEMMA InitialRoleType == InitialRole \in [Node -> Role]
  BY DEF InitialRole, Role

LEMMA SelectableNodes ==
  ASSUME TypeOK, NEW sel, NEW n \in Selectable(sel)
  PROVE  n \in clusterNodes
  BY DEF TypeOK, SelectorTypeOK, Selectable, SafeCandidates, QuorumSafe, ShardSafe,
         StrategyCandidates, LivePrimaries

LEMMA InitType == Init => TypeInv
  <1> SUFFICES ASSUME Init PROVE TypeInv
    OBVIOUS
  <1>1. SelectorTypeOK
    BY InitialRoleType DEF Init, SelectorInit, SelectorTypeOK
  <1>2. snapshot \in [Thread -> Reply]
    BY NoReplyType DEF Init
  <1>3. QED
    BY <1>1, <1>2, SomeConfigType, InitialRoleType, WaveAssumption DEF Init, TypeOK, TypeInv, ControlType, Phase

(* A promotion keeps the cluster variables well typed. *)
LEMMA PromoteType ==
  ASSUME TypeOK, NEW r \in Node, Promote(r)
  PROVE  /\ clusterRole' \in [Node -> Role]
         /\ promotions' \in 0..MaxPromotions
  BY WaveAssumption DEF TypeOK, Promote, Role

(* Entering a phase keeps the control variables well typed. *)
LEMMA EnterType ==
  ASSUME TypeOK, NEW t \in Thread, NEW p, Enter(t, ImmediatePhaseAfter(p, config[t]))
  PROVE  /\ pc' \in [Thread -> {"query", "convert", "update", "select", "explain", "refresh",
                                "kill", "schedule", "operate", "done", "joined"}]
         /\ phase' \in [Thread -> Phase \cup {"none"}]
  <1>1. ImmediatePhaseAfter(p, config[t]) \in Phase \cup {"none"}
    BY DEF ImmediatePhaseAfter, Phase
  <1>2. phase' = [phase EXCEPT ![t] = ImmediatePhaseAfter(p, config[t])]
    BY DEF Enter
  <1>3. pc' = [pc EXCEPT ![t] = "schedule"] \/ pc' = [pc EXCEPT ![t] = "refresh"]
    BY DEF Enter
  <1>4. QED
    BY <1>1, <1>2, <1>3 DEF TypeOK

LEMMA StepType == TypeInv /\ [Next]_vars => TypeOK'
  <1> SUFFICES ASSUME TypeInv, [Next]_vars PROVE TypeOK'
    OBVIOUS
  <1> USE DEF TypeInv, TypeOK, SelectorTypeOK, vars, selectorVars, threadVars, waveVars, clusterVars
  <1>1. ASSUME NEW t \in Thread, QueryLiveNodes(t) PROVE TypeOK'
    <2>1. snapshot' \in [Thread -> Reply]
      <3>1. [n \in LiveNodes |-> clusterRole[n]] \in Reply
        <4>1. [n \in LiveNodes |-> clusterRole[n]] \in [LiveNodes -> Role]
          BY DEF LiveNodes
        <4>2. LiveNodes \in SUBSET Node
          BY DEF LiveNodes
        <4>3. QED
          BY <4>1, <4>2 DEF Reply
      <3>2. QED
        BY <1>1, <3>1 DEF QueryLiveNodes
    <2>2. config' \in [Thread -> Configs]
      BY <1>1 DEF QueryLiveNodes
    <2>3. pc' = [pc EXCEPT ![t] = "convert"] \/ pc' = [pc EXCEPT ![t] = "select"]
      BY <1>1 DEF QueryLiveNodes
    <2>4. QED
      BY <1>1, <2>1, <2>2, <2>3 DEF QueryLiveNodes
  <1>2. ASSUME NEW t \in Thread, ConvertRoles(t) PROVE TypeOK'
    <2>1. PICK S \in SUBSET Node : snapshot[t] \in [S -> Role]
      BY DEF Reply
    <2>. role' \in [Node -> Role]
      BY <1>2, <2>1 DEF ConvertRoles
    <2>2. QED
      BY <1>2, <2>1 DEF ConvertRoles
  <1>3. ASSUME NEW t \in Thread, UpdateTopology(t) PROVE TypeOK'
    <2>0. DOMAIN snapshot[t] \subseteq Node
      BY DEF Reply
    <2>1. clusterNodes' \subseteq Node /\ killedNodeIds' \subseteq Node
      BY <1>3, <2>0 DEF UpdateTopology, UpdateClusterTopology
    <2>2. snapshot' \in [Thread -> Reply]
      BY <1>3, NoReplyType DEF UpdateTopology
    <2>3. QED
      BY <1>3, <2>1, <2>2 DEF UpdateTopology
  <1>4. ASSUME NEW t \in Thread, SelectChaosTarget(t) PROVE TypeOK'
    BY <1>4, EnterType DEF SelectChaosTarget, SelectTarget
  <1>5. ASSUME NEW t \in Thread, FindNoTarget(t) PROVE TypeOK'
    <2>1. SafetyBlocked(config[t].selection) \in BOOLEAN
      BY DEF SafetyBlocked
    <2>2. QED
      BY <1>5, <2>1 DEF FindNoTarget
  <1>6. ASSUME NEW t \in Thread, ExplainNoTarget(t) PROVE TypeOK'
    <2>1. CoordinationFailure \in Event
      BY DEF CoordinationFailure, Event
    <2>2. QED
      BY <1>6, <2>1 DEF ExplainNoTarget
  <1>7. ASSUME NEW t \in Thread, CoordinationError(t) PROVE TypeOK'
    <2>1. CoordinationFailure \in Event
      BY DEF CoordinationFailure, Event
    <2>2. killedNodeIds' \subseteq Node
      BY <1>7 DEF CoordinationError, ReleaseUnlessKilled, UnrecordKill
    <2>3. QED
      BY <1>7, <2>1, <2>2 DEF CoordinationError, AbandonCoordination
  <1>8. ASSUME NEW t \in Thread, RefreshTargetRole(t) PROVE TypeOK'
    <2>1. role' \in [Node -> Role]
      BY <1>8 DEF RefreshTargetRole, LiveNodes
    <2>2. QED
      BY <1>8, <2>1 DEF RefreshTargetRole
  <1>9. ASSUME NEW t \in Thread, InjectChaos(t) PROVE TypeOK'
    <2>0. target[t] \in Node /\ phase[t] \in Phase
      BY <1>9 DEF InjectChaos, ControlType
    <2>1. PICK ok \in KillResults(target[t]) : Killing(t, target[t], ok)
      BY <1>9 DEF InjectChaos
    <2>2. ok \in BOOLEAN
      BY <2>1, WaveAssumption DEF KillResults
    <2>3. killedNodeIds' \subseteq Node /\ dead' \subseteq Node /\ failed' \subseteq dead'
      BY <1>9, <2>0, <2>1, <2>2 DEF Killing, AttemptKill, UnrecordKill, InjectChaos
    <2>4. events' \in [Thread -> SUBSET Event]
      <3>1. [phase |-> phase[t], node |-> target[t], ok |-> ok, role |-> role[target[t]]] \in Event
        BY <2>0, <2>2 DEF Event
      <3>2. QED
        BY <2>1, <3>1 DEF Killing, AttemptKill
    <2>5. /\ pc' \in [Thread -> {"query", "convert", "update", "select", "explain", "refresh",
                                "kill", "schedule", "operate", "done", "joined"}]
          /\ phase' \in [Thread -> Phase \cup {"none"}]
      BY <1>9, EnterType DEF InjectChaos
    <2>6. target' \in [Thread -> Node \cup {NoNode}] /\ deferred' \in [Thread -> BOOLEAN]
      BY <1>9 DEF InjectChaos
    <2>7. QED
      BY <1>9, <2>3, <2>4, <2>5, <2>6 DEF InjectChaos
  <1>10. ASSUME NEW t \in Thread, ScheduleChaos(t) PROVE TypeOK'
    <2>1. killedNodeIds' \subseteq Node /\ target' \in [Thread -> Node \cup {NoNode}]
          /\ deferred' \in [Thread -> BOOLEAN]
      BY <1>10 DEF ScheduleChaos, Defer, ForgetTarget, UnrecordKill
    <2>2. QED
      BY <1>10, <2>1 DEF ScheduleChaos, FinishSchedule
  <1>11. ASSUME NEW t \in Thread, ExecuteOperation(t) PROVE TypeOK'
    <2>1. clusterRole' \in [Node -> Role] /\ promotions' \in 0..MaxPromotions
      BY <1>11, PromoteType DEF ExecuteOperation
    <2>2. QED
      BY <1>11, <2>1 DEF ExecuteOperation, Phase
  <1>12. ASSUME NEW t \in Thread, OperationError(t) PROVE TypeOK'
    <2>1. killedNodeIds' \subseteq Node
      BY <1>12 DEF OperationError, ReleaseUnlessKilled, UnrecordKill
    <2>2. QED
      BY <1>12, <2>1 DEF OperationError
  <1>13. ASSUME NEW n \in Node, DetectFailure(n) PROVE TypeOK'
    BY <1>13 DEF DetectFailure
  <1>14. ASSUME NEW n \in Node, AutoFailover(n) PROVE TypeOK'
    <2>1. clusterRole' \in [Node -> Role] /\ promotions' \in 0..MaxPromotions
      BY <1>14, PromoteType DEF AutoFailover
    <2>2. QED
      BY <1>14, <2>1 DEF AutoFailover
  <1>15. ASSUME EndWave PROVE TypeOK'
    <2>1. registered' \subseteq Node
      <3>1. WaveKills \subseteq Node
        BY DEF WaveKills, KilledNodes, Event, CoordinationFailure
      <3>2. QED
        BY <1>15, <3>1 DEF EndWave
    <2>2. wave' \in 1..MaxWaves
      <3>1. PICK Remaining \in SUBSET {t \in Thread : pc[t] = "done"} :
              /\ wave = MaxWaves => Remaining = {}
              /\ wave' = IF Remaining = {} THEN wave ELSE wave + 1
        BY <1>15 DEF EndWave, NextWave
      <3>2. QED
        BY <3>1, WaveAssumption
    <2>3. QED
      BY <1>15, <2>1, <2>2, SomeConfigType DEF EndWave, NextWave
  <1>16. CASE UNCHANGED vars
    BY <1>16
  <1>17. QED
    BY <1>1, <1>2, <1>3, <1>4, <1>5, <1>6, <1>7, <1>8, <1>9, <1>10, <1>11, <1>12,
       <1>13, <1>14, <1>15, <1>16 DEF Next, ThreadStep, ClusterStep, Joined

(* A step of one thread leaves the local state of the others alone. *)
LEMMA OtherThreads ==
  ASSUME TypeOK, NEW t \in Thread, NEW u \in Thread, u # t, ThreadStep(t)
  PROVE  /\ pc'[u] = pc[u] /\ phase'[u] = phase[u] /\ config'[u] = config[u]
         /\ target'[u] = target[u] /\ deferred'[u] = deferred[u] /\ events'[u] = events[u]
  <1> USE DEF TypeOK
  <1>1. CASE QueryLiveNodes(t)
    BY <1>1 DEF QueryLiveNodes
  <1>2. CASE ConvertRoles(t)
    BY <1>2 DEF ConvertRoles
  <1>3. CASE UpdateTopology(t)
    BY <1>3 DEF UpdateTopology
  <1>4. CASE SelectChaosTarget(t)
    BY <1>4 DEF SelectChaosTarget, Enter
  <1>5. CASE FindNoTarget(t)
    BY <1>5 DEF FindNoTarget
  <1>6. CASE ExplainNoTarget(t)
    BY <1>6 DEF ExplainNoTarget
  <1>7. CASE CoordinationError(t)
    BY <1>7 DEF CoordinationError, AbandonCoordination
  <1>8. CASE RefreshTargetRole(t)
    BY <1>8 DEF RefreshTargetRole
  <1>9. CASE InjectChaos(t)
    BY <1>9 DEF InjectChaos, Killing, AttemptKill, Enter
  <1>10. CASE ScheduleChaos(t)
    BY <1>10 DEF ScheduleChaos, FinishSchedule, Defer, ForgetTarget
  <1>11. CASE ExecuteOperation(t)
    BY <1>11 DEF ExecuteOperation
  <1>12. CASE OperationError(t)
    BY <1>12 DEF OperationError
  <1>13. QED
    BY <1>1, <1>2, <1>3, <1>4, <1>5, <1>6, <1>7, <1>8, <1>9, <1>10, <1>11, <1>12
       DEF ThreadStep

(* What Enter does to the thread's own control. *)
LEMMA EnterControl ==
  ASSUME TypeOK, NEW t \in Thread, NEW p, Enter(t, ImmediatePhaseAfter(p, config[t]))
  PROVE  \/ pc'[t] = "schedule" /\ phase'[t] = "none"
         \/ /\ pc'[t] = "refresh" /\ phase'[t] \in {"before", "during"}
            /\ phase'[t] \in config[t].phases
            /\ phase'[t] = "before" => p = "select"
            /\ p # "during"
  BY DEF TypeOK, Enter, ImmediatePhaseAfter

LEMMA StepControl == TypeInv /\ [Next]_vars => \A u \in Thread : ControlType(u)'
  <1> SUFFICES ASSUME TypeInv, [Next]_vars, NEW u \in Thread PROVE ControlType(u)'
    OBVIOUS
  <1> USE DEF TypeInv, ControlType
  <1>1. ASSUME NEW t \in Thread, ThreadStep(t) PROVE ControlType(u)'
    <2>1. CASE u # t
      BY <1>1, <2>1, OtherThreads
    <2>2. CASE u = t
      <3> USE <2>2 DEF TypeOK
      <3>1. CASE QueryLiveNodes(t)
        BY <3>1 DEF QueryLiveNodes
      <3>2. CASE ConvertRoles(t)
        BY <3>2 DEF ConvertRoles
      <3>3. CASE UpdateTopology(t)
        BY <3>3 DEF UpdateTopology
      <3>4. CASE SelectChaosTarget(t)
        BY <3>4, EnterControl DEF SelectChaosTarget, Phase
      <3>5. CASE FindNoTarget(t)
        BY <3>5 DEF FindNoTarget
      <3>6. CASE ExplainNoTarget(t)
        BY <3>6 DEF ExplainNoTarget
      <3>7. CASE CoordinationError(t)
        BY <3>7 DEF CoordinationError, AbandonCoordination, DelayRaises
      <3>8. CASE RefreshTargetRole(t)
        BY <3>8 DEF RefreshTargetRole
      <3>9. CASE InjectChaos(t)
        BY <3>9, EnterControl DEF InjectChaos, Phase
      <3>10. CASE ScheduleChaos(t)
        BY <3>10 DEF ScheduleChaos, FinishSchedule, Defer, ForgetTarget
      <3>11. CASE ExecuteOperation(t)
        BY <3>11 DEF ExecuteOperation, Phase
      <3>12. CASE OperationError(t)
        BY <3>12 DEF OperationError
      <3>13. QED
        BY <1>1, <3>1, <3>2, <3>3, <3>4, <3>5, <3>6, <3>7, <3>8, <3>9, <3>10, <3>11,
           <3>12 DEF ThreadStep
    <2>3. QED
      BY <2>1, <2>2
  <1>2. CASE ClusterStep
    BY <1>2 DEF ClusterStep, DetectFailure, AutoFailover, threadVars
  <1>3. CASE EndWave
    BY <1>3 DEF EndWave, NextWave, TypeOK
  <1>4. CASE UNCHANGED vars
    BY <1>4 DEF vars, threadVars
  <1>5. QED
    BY <1>1, <1>2, <1>3, <1>4 DEF Next, Joined

(***************************************************************************)
(* Every variable keeps its type, in every configuration.                  *)
(***************************************************************************)
THEOREM TypeCorrect == Spec => []TypeOK
<1>1. TypeInv /\ [Next]_vars => TypeInv'
  BY StepType, StepControl DEF TypeInv
<1>2. TypeInv => TypeOK
  BY DEF TypeInv
<1>3. QED
  BY InitType, <1>1, <1>2, PTL DEF Spec

----------------------------------------------------------------------------
(***************************************************************************)
(* Safety, for the configurations of SafeConfigs.  Each step of a thread   *)
(* has one of four effects on the reservations, and the rest of the proof  *)
(* reads only these.                                                       *)
(***************************************************************************)

Quiet(t) ==
  /\ UNCHANGED <<killedNodeIds, dead>>
  /\ Pending(t)' <=> Pending(t)
  /\ Pending(t) => target'[t] = target[t]

Reserves(t, n) ==
  /\ n \notin killedNodeIds
  /\ \E m \in Members(ShardOf[n]) \ killedNodeIds : m # n
  /\ killedNodeIds' = killedNodeIds \cup {n}
  /\ UNCHANGED dead
  /\ ~Pending(t) /\ Pending(t)' /\ target'[t] = n

Releases(t) ==
  /\ Pending(t) /\ ~Pending(t)'
  /\ killedNodeIds' = killedNodeIds \ {target[t]}
  /\ UNCHANGED dead
  /\ pc'[t] # pc[t]

Kills(t) ==
  /\ Pending(t) /\ ~Pending(t)'
  /\ dead' = dead \cup {target[t]}
  /\ UNCHANGED killedNodeIds
  /\ target[t] \in KilledNodes(events'[t])

Effect(t) == Quiet(t) \/ (\E n \in Node : Reserves(t, n)) \/ Releases(t) \/ Kills(t)

LEMMA InitSafety == Init => IInv
  <1> SUFFICES ASSUME Init PROVE IInv
    OBVIOUS
  <1>1. \A t \in Thread : ControlInv(t)
    BY DEF Init, ControlInv
  <1>2. ReservationInv
    BY DEF Init, SelectorInit, ReservationInv, Pending
  <1>3. SurvivorInv
    BY TopologyAssumption DEF Init, SelectorInit, SurvivorInv, Members
  <1>4. QED
    BY InitType, <1>1, <1>2, <1>3 DEF IInv

(* Without named victims a target is unreserved and is not the last of its *)
(* shard.                                                                  *)
LEMMA SelectedTarget ==
  ASSUME SafeConfigs, TypeOK, NEW t \in Thread, NEW n \in Selectable(config[t].selection)
  PROVE  /\ n \notin killedNodeIds
         /\ \E m \in Members(ShardOf[n]) \ killedNodeIds : m # n
  <1>1. config[t].selection.strategy # "specific"
    BY DEF SafeConfigs, TypeOK
  <1>2. n \in SafeCandidates(StrategyCandidates(config[t].selection.strategy))
    BY <1>1 DEF Selectable
  <1>3. n \notin killedNodeIds
        /\ ((Members(ShardOf[n]) \cap clusterNodes) \ killedNodeIds) \ {n} # {}
    BY <1>2 DEF SafeCandidates, QuorumSafe, ShardSafe
  <1>4. QED
    BY <1>3

(* If kills may fail, nothing follows the phase a thread is in. *)
LEMMA OnlyPhase ==
  ASSUME SafeConfigs, FALSE \in KillOutcomes, TypeOK, NEW t \in Thread,
         phase[t] \in config[t].phases
  PROVE  /\ phase[t] # "after" => "after" \notin config[t].phases
         /\ phase[t] # "after" => ImmediatePhaseAfter(phase[t], config[t]) = "none"
  <1>1. \A p, q \in config[t].phases : p = q
    BY DEF SafeConfigs, TypeOK
  <1>2. phase[t] \in Phase
    BY ConfigType DEF TypeOK
  <1>3. "select" \notin config[t].phases
    BY ConfigType DEF TypeOK, Phase
  <1>4. QED
    BY <1>1, <1>2, <1>3 DEF ImmediatePhaseAfter, Phase

(* A kill that succeeds before the operation spends the reservation. *)
LEMMA KillSpends ==
  ASSUME TypeOK, NEW t \in Thread, Killing(t, target[t], TRUE), config'[t] = config[t],
         target' = target, phase[t] \in config[t].phases, phase[t] # "after"
  PROVE  Spent(t)'
  <1>1. target'[t] \in dead' /\ config'[t].phases # {"after"}
    BY DEF Killing, AttemptKill
  <1>2. \E e \in events'[t] : e.ok = TRUE
    <2> DEFINE e == [phase |-> phase[t], node |-> target[t], ok |-> TRUE, role |-> role[target[t]]]
    <2>1. e \in events'[t]
      BY DEF TypeOK, Killing, AttemptKill
    <2>2. e.ok = TRUE
      OBVIOUS
    <2> HIDE DEF e
    <2>3. QED
      BY <2>1, <2>2
  <1>3. QED
    BY <1>1, <1>2 DEF Spent, KilledByThread

LEMMA OwnControl ==
  ASSUME SafeConfigs, TypeInv, TypeOK, NEW t \in Thread, ControlInv(t), ThreadStep(t)
  PROVE  ControlInv(t)'
  <1> USE DEF TypeOK
  <1>0. NoNode \notin Node
    BY WaveAssumption
  <1>1. CASE QueryLiveNodes(t)
    BY <1>1 DEF QueryLiveNodes, ControlInv
  <1>2. CASE ConvertRoles(t)
    BY <1>2 DEF ConvertRoles, ControlInv
  <1>3. CASE UpdateTopology(t)
    BY <1>3 DEF UpdateTopology, ControlInv
  <1>4. CASE SelectChaosTarget(t)
    <2>1. target'[t] \in Node /\ events'[t] = {} /\ config'[t] = config[t]
      BY <1>4 DEF SelectChaosTarget, ControlInv
    <2>2. QED
      BY <1>0, <1>4, <2>1, EnterControl DEF SelectChaosTarget, ControlInv, Armed, Pending
  <1>5. CASE FindNoTarget(t)
    BY <1>5 DEF FindNoTarget, ControlInv
  <1>6. CASE ExplainNoTarget(t)
    <2>1. pc'[t] = "operate" /\ target'[t] = NoNode /\ deferred'[t] = FALSE
      BY <1>6 DEF ExplainNoTarget, ControlInv, TypeInv, ControlType
    <2>2. QED
      BY <2>1 DEF ControlInv
  <1>7. CASE CoordinationError(t)
    <2>1. pc'[t] = "operate" /\ target'[t] = NoNode /\ deferred'[t] = FALSE
      BY <1>7 DEF CoordinationError, AbandonCoordination, DelayRaises, TypeInv, ControlType
    <2>2. QED
      BY <2>1 DEF ControlInv
  <1>8. CASE RefreshTargetRole(t)
    BY <1>8 DEF RefreshTargetRole, ControlInv, Armed, Pending, Spent, KilledByThread, clusterVars
  <1>9. CASE InjectChaos(t)
    <2>1. pc[t] = "kill" /\ Armed(t) /\ phase[t] \in config[t].phases
      BY <1>9 DEF InjectChaos, ControlInv
    <2>2. config'[t] = config[t] /\ target[t] # NoNode
      BY <1>0, <1>9, <2>1 DEF InjectChaos, Armed, Pending, Spent
    <2>3. CASE phase[t] = "after"
      <3>1. pc'[t] = "done" /\ target'[t] = NoNode
        BY <1>9, <2>3 DEF InjectChaos
      <3>2. QED
        BY <3>1 DEF ControlInv
    <2>4. CASE phase[t] # "after"
      <3>1. /\ Enter(t, ImmediatePhaseAfter(phase[t], config[t]))
            /\ target' = target
        BY <1>9, <2>4 DEF InjectChaos
      <3>2. PICK ok \in KillResults(target[t]) : Killing(t, target[t], ok)
        BY <1>9 DEF InjectChaos
      <3>3. ok \in BOOLEAN
        BY <3>2, WaveAssumption DEF KillResults
      <3>4. CASE ok = TRUE
        <4>1. Spent(t)'
          BY <2>1, <2>2, <2>4, <3>1, <3>2, <3>4, KillSpends
        <4>2. QED
          BY <2>2, <3>1, <4>1, EnterControl DEF ControlInv, Armed
      <3>5. CASE ok = FALSE
        <4>1. FALSE \in KillOutcomes
          BY <3>2, <3>5 DEF KillResults
        <4>2. ImmediatePhaseAfter(phase[t], config[t]) = "none" /\ "after" \notin config[t].phases
          BY <2>1, <2>4, <4>1, OnlyPhase
        <4>3. pc'[t] = "schedule"
          BY <3>1, <4>2 DEF Enter
        <4>4. QED
          BY <2>2, <3>1, <4>2, <4>3 DEF ControlInv
      <3>6. QED
        BY <3>3, <3>4, <3>5
    <2>5. QED
      BY <2>3, <2>4
  <1>10. CASE ScheduleChaos(t)
    <2>1. /\ pc[t] = "schedule" /\ pc'[t] = "operate"
          /\ events'[t] = events[t] /\ config'[t] = config[t]
      BY <1>10 DEF ScheduleChaos, FinishSchedule
    <2>2. CASE Defer(t)
      <3>1. Armed(t)' <=> Armed(t)
        BY <1>10, <2>1, <2>2
           DEF Defer, ScheduleChaos, FinishSchedule, Armed, Pending, Spent, KilledByThread, clusterVars
      <3>2. QED
        BY <2>1, <2>2, <3>1 DEF Defer, ControlInv
    <2>3. CASE ForgetTarget(t)
      <3>1. target'[t] = NoNode /\ deferred'[t] = FALSE
        BY <2>1, <2>3 DEF ForgetTarget, TypeInv, ControlType
      <3>2. QED
        BY <2>1, <3>1 DEF ControlInv
    <2>4. QED
      BY <1>10, <2>2, <2>3 DEF ScheduleChaos
  <1>11. CASE ExecuteOperation(t)
    <2>1. /\ pc[t] = "operate" /\ events'[t] = events[t] /\ config'[t] = config[t]
          /\ target'[t] = target[t] /\ deferred'[t] = deferred[t]
      BY <1>11 DEF ExecuteOperation
    <2>2. CASE deferred[t]
      <3>1. pc'[t] = "refresh" /\ phase'[t] = "after"
        BY <1>11, <2>2 DEF ExecuteOperation
      <3>2. Armed(t)' <=> Armed(t)
        BY <1>11, <2>1 DEF ExecuteOperation, Armed, Pending, Spent, KilledByThread
      <3>3. QED
        BY <2>1, <2>2, <3>1, <3>2 DEF ControlInv
    <2>3. CASE ~deferred[t]
      <3>1. pc'[t] = "done"
        BY <1>11, <2>3 DEF ExecuteOperation
      <3>2. QED
        BY <2>1, <2>3, <3>1 DEF ControlInv
    <2>4. QED
      BY <2>2, <2>3
  <1>12. CASE OperationError(t)
    <2>1. pc'[t] = "done" /\ target'[t] = NoNode
      BY <1>12 DEF OperationError
    <2>2. QED
      BY <2>1 DEF ControlInv
  <1>13. QED
    BY <1>1, <1>2, <1>3, <1>4, <1>5, <1>6, <1>7, <1>8, <1>9, <1>10, <1>11, <1>12
       DEF ThreadStep

LEMMA ThreadEffect ==
  ASSUME SafeConfigs, TypeInv, TypeOK, NEW t \in Thread, ControlInv(t), ReservationInv,
         ThreadStep(t)
  PROVE  /\ Effect(t)
         /\ ResultsKept => KilledNodes(events[t]) \subseteq KilledNodes(events'[t])
         /\ registered' = registered
  <1> USE DEF TypeOK, Effect
  <1>0. NoNode \notin Node
    BY WaveAssumption
  <1>1. CASE QueryLiveNodes(t)
    BY <1>1 DEF QueryLiveNodes, Quiet, Pending, selectorVars, clusterVars, waveVars
  <1>2. CASE ConvertRoles(t)
    BY <1>2 DEF ConvertRoles, Quiet, Pending, clusterVars, waveVars
  <1>3. CASE UpdateTopology(t)
    BY <1>3 DEF UpdateTopology, UpdateClusterTopology, Quiet, Pending, clusterVars, waveVars
  <1>4. CASE SelectChaosTarget(t)
    <2>1. PICK n \in Node : SelectTarget(config[t].selection, n) /\ target' = [target EXCEPT ![t] = n]
      BY <1>4 DEF SelectChaosTarget
    <2>2. /\ n \notin killedNodeIds
          /\ \E m \in Members(ShardOf[n]) \ killedNodeIds : m # n
      BY <2>1, SelectedTarget DEF SelectTarget
    <2>3. pc[t] = "select" /\ events[t] = {} /\ target[t] = NoNode /\ events' = events
      BY <1>4 DEF SelectChaosTarget, ControlInv
    <2>4. Reserves(t, n)
      BY <1>0, <1>4, <2>1, <2>2, <2>3
         DEF SelectChaosTarget, SelectTarget, Reserves, Pending, clusterVars
    <2>5. QED
      BY <1>4, <2>3, <2>4 DEF SelectChaosTarget, waveVars
  <1>5. CASE FindNoTarget(t)
    BY <1>5 DEF FindNoTarget, Quiet, Pending, selectorVars, clusterVars, waveVars
  <1>6. CASE ExplainNoTarget(t)
    <2>1. target[t] = NoNode /\ target' = target
      BY <1>6 DEF ExplainNoTarget, ControlInv
    <2>2. events[t] \subseteq events'[t]
      BY <1>6 DEF ExplainNoTarget
    <2>3. QED
      BY <1>6, <2>1, <2>2
         DEF ExplainNoTarget, Quiet, Pending, KilledNodes, selectorVars, clusterVars, waveVars
  <1>7. CASE CoordinationError(t)
    <2>1. Armed(t)
      BY <1>7 DEF CoordinationError, AbandonCoordination, DelayRaises, ControlInv, Armed, Pending
    <2>2. target'[t] = NoNode /\ pc'[t] = "operate" /\ UNCHANGED <<dead, registered>>
      BY <1>7 DEF CoordinationError, AbandonCoordination, clusterVars, waveVars
    <2>3. pc[t] # "operate" /\ KilledNodes(events[t]) \subseteq KilledNodes(events'[t])
      BY <1>7 DEF CoordinationError, AbandonCoordination, DelayRaises, KilledNodes
    <2>4. CASE Pending(t)
      <3>1. UnrecordKill(target[t])
        BY <1>7, <2>4 DEF CoordinationError, ReleaseUnlessKilled, KilledByThread, Pending
      <3>2. QED
        BY <2>2, <2>3, <2>4, <3>1 DEF Releases, UnrecordKill, Pending
    <2>5. CASE ~Pending(t)
      <3>1. UNCHANGED killedNodeIds
        BY <1>7, <2>1, <2>5 DEF CoordinationError, ReleaseUnlessKilled, Armed, Spent
      <3>2. QED
        BY <2>2, <2>3, <2>5, <3>1 DEF Quiet, Pending
    <2>6. QED
      BY <2>4, <2>5
  <1>8. CASE RefreshTargetRole(t)
    BY <1>8 DEF RefreshTargetRole, Quiet, Pending, clusterVars, waveVars
  <1>9. CASE InjectChaos(t)
    <2>1. Armed(t) /\ pc[t] = "kill"
      BY <1>9 DEF InjectChaos, ControlInv
    <2>2. PICK ok \in KillResults(target[t]) : Killing(t, target[t], ok)
      BY <1>9 DEF InjectChaos
    <2>3. ok \in BOOLEAN
      BY <2>2, WaveAssumption DEF KillResults
    <2>4. events'[t] = events[t] \cup
            {[phase |-> phase[t], node |-> target[t], ok |-> ok, role |-> role[target[t]]]}
      BY <2>2 DEF Killing, AttemptKill
    <2>5. ~Pending(t)'
      BY <2>4 DEF Pending
    <2>6. KilledNodes(events[t]) \subseteq KilledNodes(events'[t]) /\ registered' = registered
      BY <1>9, <2>4 DEF InjectChaos, waveVars, KilledNodes
    <2>7. pc'[t] # pc[t]
      BY <1>9, <2>1 DEF InjectChaos, Enter
    <2>8. CASE ~Pending(t)
      <3>1. target[t] \in dead /\ ok = TRUE
        BY <2>1, <2>2, <2>8 DEF Armed, Spent, KillResults
      <3>2. UNCHANGED <<killedNodeIds, dead>>
        BY <2>2, <3>1 DEF Killing, AttemptKill
      <3>3. QED
        BY <2>5, <2>6, <2>8, <3>2 DEF Quiet
    <2>9. CASE Pending(t) /\ ok = TRUE
      <3>1. target[t] \in KilledNodes(events'[t])
        <4> DEFINE e == [phase |-> phase[t], node |-> target[t], ok |-> TRUE,
                         role |-> role[target[t]]]
        <4>1. e \in events'[t]
          BY <2>4, <2>9
        <4>2. e.ok = TRUE /\ e.node = target[t]
          OBVIOUS
        <4> HIDE DEF e
        <4>3. QED
          BY <4>1, <4>2 DEF KilledNodes
      <3>2. QED
        BY <2>2, <2>5, <2>6, <2>9, <3>1 DEF Kills, Killing, AttemptKill
    <2>10. CASE Pending(t) /\ ok = FALSE
      BY <2>2, <2>5, <2>6, <2>7, <2>10 DEF Releases, Killing, AttemptKill, UnrecordKill
    <2>11. QED
      BY <2>3, <2>8, <2>9, <2>10
  <1>10. CASE ScheduleChaos(t)
    <2>1. /\ pc[t] = "schedule" /\ pc'[t] = "operate"
          /\ events' = events /\ UNCHANGED <<dead, registered>>
      BY <1>10 DEF ScheduleChaos, FinishSchedule, clusterVars, waveVars
    <2>2. CASE Defer(t)
      BY <2>1, <2>2 DEF Defer, Quiet, Pending
    <2>3. CASE /\ ForgetTarget(t)
               /\ IF events[t] = {} THEN UnrecordKill(target[t]) ELSE UNCHANGED killedNodeIds
      <3>1. target'[t] = NoNode /\ target[t] # NoNode
        BY <2>1, <2>3 DEF ForgetTarget, ControlInv
      <3>2. CASE events[t] = {}
        BY <2>1, <2>3, <3>1, <3>2 DEF Releases, UnrecordKill, Pending
      <3>3. CASE events[t] # {}
        BY <2>1, <2>3, <3>1, <3>3 DEF Quiet, Pending
      <3>4. QED
        BY <2>1, <3>2, <3>3
    <2>4. QED
      BY <1>10, <2>2, <2>3 DEF ScheduleChaos
  <1>11. CASE ExecuteOperation(t)
    BY <1>11 DEF ExecuteOperation, Quiet, Pending, selectorVars, waveVars
  <1>12. CASE OperationError(t)
    <2>1. Armed(t) /\ phase[t] = "after" /\ "after" \in config[t].phases \cap config[t].raises
      BY <1>12 DEF OperationError, DeferredSleepRaises, ControlInv
    <2>2. target'[t] = NoNode /\ pc'[t] = "done" /\ pc[t] = "refresh" /\ UNCHANGED <<dead, registered>>
      BY <1>12 DEF OperationError, DeferredSleepRaises, clusterVars, waveVars
    <2>3. CASE Pending(t)
      <3>1. UnrecordKill(target[t])
        BY <1>12, <2>3 DEF OperationError, ReleaseUnlessKilled, KilledByThread, Pending
      <3>2. events'[t] = events[t]
        BY <1>12, <2>3 DEF OperationError, Pending
      <3>3. QED
        BY <2>2, <2>3, <3>1, <3>2 DEF Releases, UnrecordKill, Pending
    <2>4. CASE ~Pending(t)
      <3>1. UNCHANGED killedNodeIds
        BY <1>12, <2>1, <2>4 DEF OperationError, ReleaseUnlessKilled, Armed, Spent
      <3>2. ~ResultsKept
        BY <2>1, <2>4 DEF ResultsKept, Armed, Spent
      <3>3. QED
        BY <2>2, <2>4, <3>1, <3>2 DEF Quiet, Pending
    <2>5. QED
      BY <2>3, <2>4
  <1>13. QED
    BY <1>1, <1>2, <1>3, <1>4, <1>5, <1>6, <1>7, <1>8, <1>9, <1>10, <1>11, <1>12
       DEF ThreadStep

LEMMA EffectSafety ==
  ASSUME TypeInv, \A u \in Thread : ControlInv(u), ReservationInv, SurvivorInv,
         SafeConfigs, NEW t \in Thread, ThreadStep(t)
  PROVE  ReservationInv' /\ SurvivorInv'
  <1>1. \A u \in Thread \ {t} : /\ Pending(u)' <=> Pending(u)
                               /\ target'[u] = target[u]
    BY OtherThreads DEF TypeInv, Pending
  <1>2. Effect(t)
    BY ThreadEffect DEF TypeInv
  <1>3. CASE Quiet(t)
    BY <1>1, <1>3 DEF Quiet, ReservationInv, SurvivorInv, Members
  <1>4. ASSUME NEW n \in Node, Reserves(t, n)
        PROVE  ReservationInv' /\ SurvivorInv'
    <2>1. ReservationInv'
      <3>1. n \notin dead
        BY <1>4 DEF Reserves, ReservationInv
      <3>2. \A u \in Thread : Pending(u) => target[u] # n
        BY <1>4 DEF Reserves, ReservationInv
      <3>3. QED
        BY <1>1, <1>4, <3>1, <3>2 DEF Reserves, ReservationInv
    <2>2. SurvivorInv'
      BY <1>4 DEF Reserves, SurvivorInv, Members
    <2>3. QED
      BY <2>1, <2>2
  <1>5. CASE Releases(t)
    <2>1. ReservationInv'
      BY <1>1, <1>5 DEF Releases, ReservationInv
    <2>2. SurvivorInv'
      BY <1>5 DEF Releases, SurvivorInv, Members
    <2>3. QED
      BY <2>1, <2>2
  <1>6. CASE Kills(t)
    <2>1. ReservationInv'
      BY <1>1, <1>6 DEF Kills, ReservationInv
    <2>2. SurvivorInv'
      BY <1>6 DEF Kills, SurvivorInv, Members
    <2>3. QED
      BY <2>1, <2>2
  <1>7. QED
    BY <1>2, <1>3, <1>4, <1>5, <1>6 DEF Effect

LEMMA WaveSafety ==
  ASSUME IInv, EndWave
  PROVE  /\ \A t \in Thread : ControlInv(t)'
         /\ ReservationInv' /\ SurvivorInv'
  <1> USE DEF IInv, TypeInv, TypeOK
  <1>1. \A t \in Thread : target[t] = NoNode /\ target'[t] = NoNode
    BY DEF EndWave, NextWave, ControlInv
  <1>2. \A t \in Thread : pc'[t] \in {"query", "joined"} /\ events'[t] = {}
    BY DEF EndWave, NextWave
  <1>3. \A t \in Thread : ControlInv(t)'
    BY <1>1, <1>2 DEF ControlInv
  <1>4. killedNodeIds' = killedNodeIds /\ dead' = dead
    BY DEF EndWave, NextWave, selectorVars, clusterVars
  <1>5. ReservationInv'
    BY <1>1, <1>4 DEF ReservationInv, Pending
  <1>6. SurvivorInv'
    BY <1>4 DEF SurvivorInv, Members
  <1>7. QED
    BY <1>3, <1>5, <1>6

LEMMA StepSafety == SafeConfigs /\ IInv /\ [Next]_vars => IInv'
  <1> SUFFICES ASSUME SafeConfigs, IInv, [Next]_vars PROVE IInv'
    OBVIOUS
  <1>1. TypeInv'
    BY StepType, StepControl DEF IInv, TypeInv
  <1>2. ASSUME NEW t \in Thread, ThreadStep(t) PROVE IInv'
    <2>1. ASSUME NEW u \in Thread PROVE ControlInv(u)'
      <3>1. CASE u = t
        BY <1>2, <3>1, OwnControl DEF IInv, TypeInv
      <3>2. CASE u # t
        <4>1. dead \subseteq dead'
          BY <1>2, ThreadEffect DEF IInv, TypeInv, Effect, Quiet, Reserves, Releases, Kills
        <4>2. Armed(u) => Armed(u)'
          BY <1>2, <3>2, <4>1, OtherThreads DEF IInv, TypeInv, Armed, Pending, Spent, KilledByThread
        <4>3. QED
          BY <1>2, <3>2, <4>2, OtherThreads DEF IInv, TypeInv, ControlInv
      <3>3. QED
        BY <3>1, <3>2
    <2>2. ReservationInv' /\ SurvivorInv'
      BY <1>2, EffectSafety DEF IInv
    <2>3. QED
      BY <1>1, <2>1, <2>2 DEF IInv
  <1>3. CASE ClusterStep
    <2>1. UNCHANGED <<killedNodeIds, dead, registered, threadVars>>
      BY <1>3 DEF ClusterStep, DetectFailure, AutoFailover, selectorVars, waveVars
    <2>2. QED
      BY <1>1, <2>1 DEF IInv, ControlInv, ReservationInv, SurvivorInv, Armed, Pending, Spent,
                        KilledByThread, Members, threadVars
  <1>4. CASE EndWave
    BY <1>1, <1>4, WaveSafety DEF IInv
  <1>5. CASE UNCHANGED vars
    BY <1>1, <1>5 DEF IInv, ControlInv, ReservationInv, SurvivorInv, Armed, Pending, Spent,
                      KilledByThread, Members, vars, selectorVars, threadVars, waveVars, clusterVars
  <1>6. QED
    BY <1>2, <1>3, <1>4, <1>5 DEF Next, Joined

(***************************************************************************)
(* The inductive invariant, and with it: chaos leaves every shard a        *)
(* process that is neither dead nor reserved; and at the end of a wave     *)
(* what is recorded as killed is what was killed.                          *)
(***************************************************************************)
THEOREM Inductive == ASSUME SafeConfigs PROVE Spec => []IInv
<1>1. Init => IInv
  BY InitSafety
<1>2. IInv /\ [Next]_vars => IInv'
  BY StepSafety
<1>3. QED
  BY <1>1, <1>2, PTL DEF Spec

THEOREM SurvivorSafety == ASSUME SafeConfigs PROVE Spec => []ShardSurvives
<1>1. IInv => ShardSurvives
  BY DEF IInv, ReservationInv, SurvivorInv, ShardSurvives
<1>2. QED
  BY <1>1, Inductive, PTL

THEOREM Settled == ASSUME SafeConfigs PROVE Spec => []ReservationsSettled
<1>1. IInv => ReservationsSettled
  BY DEF IInv, TypeInv, TypeOK, ControlInv, ReservationInv, Pending, ReservationsSettled, WaveOver
<1>2. QED
  BY <1>1, Inductive, PTL

(* The wave hands its results over before it forgets them. *)
LEMMA WaveRegisters ==
  ASSUME NoKillForgotten, EndWave
  PROVE  NoKillForgotten'
  <1>1. \A t \in Thread : KilledNodes(events[t]) \subseteq registered'
    BY DEF EndWave, WaveKills, KilledNodes
  <1>2. registered \subseteq registered' /\ dead' = dead
    BY DEF EndWave, NextWave, clusterVars
  <1>3. QED
    BY <1>1, <1>2 DEF NoKillForgotten

LEMMA ThreadRegisters ==
  ASSUME SafeConfigs, ResultsKept, IInv, NoKillForgotten, NEW t \in Thread, ThreadStep(t)
  PROVE  NoKillForgotten'
  <1>1. \A u \in Thread \ {t} : events'[u] = events[u]
    BY OtherThreads DEF IInv, TypeInv
  <1>2. /\ Effect(t)
        /\ KilledNodes(events[t]) \subseteq KilledNodes(events'[t])
        /\ registered' = registered
    BY ThreadEffect DEF IInv, TypeInv
  <1>3. \A u \in Thread : KilledNodes(events[u]) \subseteq KilledNodes(events'[u])
    BY <1>1, <1>2
  <1>4. \A n \in dead' \ dead : n \in KilledNodes(events'[t])
    BY <1>2 DEF Effect, Quiet, Reserves, Releases, Kills
  <1>5. QED
    BY <1>2, <1>3, <1>4 DEF NoKillForgotten

(***************************************************************************)
(* Every kill reaches the validator, if no malformed deferred delay comes  *)
(* with a phase that kills before it.                                      *)
(***************************************************************************)
THEOREM KillsRegistered == ASSUME SafeConfigs, ResultsKept PROVE Spec => []NoKillForgotten
<1>1. Init => NoKillForgotten
  BY DEF Init, NoKillForgotten
<1>2. IInv /\ NoKillForgotten /\ [Next]_vars => NoKillForgotten'
  <2> SUFFICES ASSUME IInv, NoKillForgotten, [Next]_vars PROVE NoKillForgotten'
    OBVIOUS
  <2>1. ASSUME NEW t \in Thread, ThreadStep(t) PROVE NoKillForgotten'
    BY <2>1, ThreadRegisters
  <2>2. CASE ClusterStep
    BY <2>2 DEF ClusterStep, DetectFailure, AutoFailover, NoKillForgotten, waveVars, threadVars
  <2>3. CASE EndWave
    BY <2>3, WaveRegisters
  <2>4. CASE UNCHANGED vars
    BY <2>4 DEF vars, NoKillForgotten, waveVars, threadVars, clusterVars
  <2>5. QED
    BY <2>1, <2>2, <2>3, <2>4 DEF Next, Joined
<1>3. QED
  BY <1>1, <1>2, Inductive, PTL DEF Spec

(***************************************************************************)
(* The configurations the code draws are safe ones: those the scenario     *)
(* generator writes, and whatever randomisation makes of a configuration   *)
(* that names no victims, however many phases it asks for and whichever of *)
(* its delays are malformed.                                               *)
(***************************************************************************)
LEMMA DrawnConfigsSafe ==
  ASSUME NEW Written \in SUBSET Config,
         \A c \in Written : c.selection.strategy # "specific",
         Configs \subseteq GeneratedConfigs \cup UNION {RandomizeChaosConfig(c) : c \in Written}
  PROVE  SafeConfigs /\ ResultsKept
<1>1. ASSUME NEW d \in Configs
      PROVE  d.selection.strategy # "specific" /\ \E p \in Phase : d.phases = {p}
  <2>1. CASE d \in GeneratedConfigs
    BY <2>1 DEF GeneratedConfigs, DrawnSelections
  <2>2. CASE \E c \in Written : d \in RandomizeChaosConfig(c)
    <3>1. PICK c \in Written : d \in RandomizeChaosConfig(c)
      BY <2>2
    <3>2. RandomizedSelections(c) = DrawnSelections
      BY DEF RandomizedSelections
    <3>3. QED
      BY <3>1, <3>2 DEF RandomizeChaosConfig, DrawnSelections
  <2>3. QED
    BY <1>1, <2>1, <2>2
<1>2. QED
  BY <1>1 DEF SafeConfigs, ResultsKept

(***************************************************************************)
(* So no scenario without named victims takes the last process of a shard, *)
(* leaks a reservation or loses a kill once its configuration is generated *)
(* or randomised.                                                          *)
(***************************************************************************)
THEOREM DrawnConfigsSurvive ==
  ASSUME NEW Written \in SUBSET Config,
         \A c \in Written : c.selection.strategy # "specific",
         Configs \subseteq GeneratedConfigs \cup UNION {RandomizeChaosConfig(c) : c \in Written}
  PROVE  Spec => [](ShardSurvives /\ ReservationsSettled /\ NoKillForgotten)
<1>1. SafeConfigs /\ ResultsKept
  BY DrawnConfigsSafe
<1>2. QED
  BY <1>1, SurvivorSafety, Settled, KillsRegistered, PTL

(***************************************************************************)
(* Only its owner gives a reservation back, and never that of a dead node. *)
(***************************************************************************)
THEOREM OwnerReleases == ASSUME SafeConfigs PROVE Spec => ReleasedByOwnerOnly
<1> DEFINE Owned == \A n \in killedNodeIds \ killedNodeIds' :
             n \notin dead' /\ \E t \in Thread : Holds(t) /\ target[t] = n /\ pc'[t] # pc[t]
<1>1. IInv /\ [Next]_vars => [Owned]_vars
  <2> SUFFICES ASSUME IInv, [Next]_vars PROVE Owned
    OBVIOUS
  <2>1. ASSUME NEW t \in Thread, ThreadStep(t) PROVE Owned
    <3>1. Effect(t)
      BY <2>1, ThreadEffect DEF IInv, TypeInv
    <3>2. CASE Releases(t)
      <4>1. killedNodeIds \ killedNodeIds' \subseteq {target[t]} /\ target[t] \notin dead'
        BY <3>2 DEF Releases, IInv, ReservationInv
      <4>2. Holds(t) /\ pc'[t] # pc[t]
        BY <3>2 DEF Releases, Pending, Holds
      <4>3. QED
        BY <4>1, <4>2
    <3>3. CASE ~Releases(t)
      <4>1. killedNodeIds \subseteq killedNodeIds'
        BY <3>1, <3>3 DEF Effect, Quiet, Reserves, Kills
      <4>2. QED
        BY <4>1
    <3>4. QED
      BY <3>2, <3>3
  <2>2. CASE ClusterStep
    BY <2>2 DEF ClusterStep, DetectFailure, AutoFailover, selectorVars
  <2>3. CASE EndWave
    BY <2>3 DEF EndWave, NextWave, selectorVars
  <2>4. CASE UNCHANGED vars
    BY <2>4 DEF vars, selectorVars
  <2>5. QED
    BY <2>1, <2>2, <2>3, <2>4 DEF Next, Joined
<1>2. QED
  BY <1>1, Inductive, PTL DEF Spec, ReleasedByOwnerOnly

(***************************************************************************)
(* The waves implement the ledger: every kill happens under a reservation  *)
(* that left another member of the shard unreserved.                       *)
(***************************************************************************)
THEOREM Refinement == ASSUME SafeConfigs PROVE Spec => ImplementsLedger
<1>1. Init => Ledger!LedgerInit
  BY DEF Init, SelectorInit, Ledger!LedgerInit
<1>2. IInv /\ [Next]_vars => [Ledger!LedgerNext]_Ledger!ledgerVars
  <2> SUFFICES ASSUME IInv, [Next]_vars PROVE [Ledger!LedgerNext]_Ledger!ledgerVars
    OBVIOUS
  <2> USE DEF Ledger!ledgerVars, Ledger!LedgerNext
  <2>1. ASSUME NEW t \in Thread, ThreadStep(t) PROVE [Ledger!LedgerNext]_Ledger!ledgerVars
    <3>1. Effect(t)
      BY <2>1, ThreadEffect DEF IInv, TypeInv
    <3>2. Pending(t) => target[t] \in Node /\ target[t] \in killedNodeIds \ dead
      BY DEF Pending, IInv, TypeInv, TypeOK, ReservationInv
    <3>3. CASE Quiet(t)
      BY <3>3 DEF Quiet
    <3>4. ASSUME NEW n \in Node, Reserves(t, n) PROVE Ledger!Reserve(n)
      BY <3>4 DEF Reserves, Members, Ledger!Reserve
    <3>5. CASE Releases(t)
      <4>1. Ledger!Release(target[t])
        BY <3>2, <3>5 DEF Releases, Ledger!Release
      <4>2. QED
        BY <3>2, <3>5, <4>1 DEF Releases
    <3>6. CASE Kills(t)
      <4>1. Ledger!Kill(target[t])
        BY <3>2, <3>6 DEF Kills, Ledger!Kill
      <4>2. QED
        BY <3>2, <3>6, <4>1 DEF Kills
    <3>7. QED
      BY <3>1, <3>3, <3>4, <3>5, <3>6 DEF Effect
  <2>2. CASE ClusterStep
    BY <2>2 DEF ClusterStep, DetectFailure, AutoFailover, selectorVars
  <2>3. CASE EndWave
    BY <2>3 DEF EndWave, NextWave, selectorVars, clusterVars
  <2>4. CASE UNCHANGED vars
    BY <2>4 DEF vars, selectorVars, clusterVars
  <2>5. QED
    BY <2>1, <2>2, <2>3, <2>4 DEF Next, Joined
<1>3. QED
  BY <1>1, <1>2, Inductive, PTL DEF Spec, ImplementsLedger, Ledger!LedgerSpec

----------------------------------------------------------------------------
(***************************************************************************)
(* The quorum, until the cluster performs a failover: the planned          *)
(* roles are then the roles everybody reads, and the selector's count of   *)
(* unreserved primaries is a count of masters that stay alive.             *)
(***************************************************************************)

RolesSettled ==
  /\ clusterRole = InitialRole
  /\ role = InitialRole
  /\ \A t \in Thread : \A n \in DOMAIN snapshot[t] : snapshot[t][n] = InitialRole[n]

QuorumReserved == Cardinality(InitialPrimaries \ killedNodeIds) >= Quorum

LEMMA PrimariesFinite == IsFiniteSet(InitialPrimaries)
  BY TopologyAssumption, FS_Subset

(* Every shard has a primary, so there are at least as many as shards. *)
LEMMA QuorumType ==
  ASSUME Shard # {}
  PROVE  /\ Quorum \in Nat
         /\ Cardinality(InitialPrimaries) >= Quorum
  <1> DEFINE f == [p \in InitialPrimaries |-> ShardOf[p]]
  <1>1. f \in Surjection(InitialPrimaries, Shard)
    BY TopologyAssumption DEF Surjection
  <1>2. IsFiniteSet(Shard) /\ Cardinality(Shard) <= Cardinality(InitialPrimaries)
    BY <1>1, PrimariesFinite, FS_Surjection
  <1>3. Cardinality(Shard) \in Nat /\ Cardinality(Shard) # 0
    BY <1>2, FS_CardinalityType, FS_EmptySet
  <1>4. Cardinality(InitialPrimaries) \in Nat
    BY PrimariesFinite, FS_CardinalityType
  <1>5. QED
    BY <1>2, <1>3, <1>4 DEF Quorum

(* A set that contains a majority of unreserved primaries is a majority. *)
LEMMA LargerMajority ==
  ASSUME Shard # {}, NEW S \in SUBSET Node, NEW T \in SUBSET S, Cardinality(T) >= Quorum
  PROVE  Cardinality(S) >= Quorum
  <1>1. IsFiniteSet(S)
    BY TopologyAssumption, FS_Subset
  <1>2. IsFiniteSet(T) /\ Cardinality(T) <= Cardinality(S)
    BY <1>1, FS_Subset
  <1>3. Cardinality(T) \in Nat /\ Cardinality(S) \in Nat
    BY <1>1, <1>2, FS_CardinalityType
  <1>4. QED
    BY <1>2, <1>3, QuorumType

(* Failovers are counted up. *)
LEMMA FailoversCount ==
  ASSUME TypeOK, [Next]_vars, promotions' = 0
  PROVE  promotions = 0
  <1>1. promotions' \in {promotions, promotions + 1}
    BY DEF Next, ThreadStep, QueryLiveNodes, ConvertRoles, UpdateTopology, SelectChaosTarget,
           FindNoTarget, ExplainNoTarget, CoordinationError, AbandonCoordination,
           RefreshTargetRole, InjectChaos, ScheduleChaos, FinishSchedule, ExecuteOperation,
           OperationError, Promote, ClusterStep, DetectFailure, AutoFailover, EndWave, NextWave,
           Joined, vars, clusterVars
  <1>2. QED
    BY <1>1 DEF TypeOK

LEMMA RolesStep ==
  ASSUME TypeInv, TypeOK, RolesSettled, [Next]_vars, promotions' = 0
  PROVE  RolesSettled'
  <1> USE DEF RolesSettled, TypeOK, clusterVars, selectorVars, threadVars, waveVars
  <1>0. \A r \in Node : ~Promote(r)
    BY DEF Promote
  <1>1. ASSUME NEW t \in Thread, QueryLiveNodes(t) PROVE RolesSettled'
    <2>1. \/ snapshot' = snapshot
          \/ snapshot' = [snapshot EXCEPT ![t] = [n \in LiveNodes |-> clusterRole[n]]]
      BY <1>1 DEF QueryLiveNodes
    <2>2. clusterRole' = clusterRole /\ role' = role
      BY <1>1 DEF QueryLiveNodes
    <2>3. QED
      BY <2>1, <2>2 DEF LiveNodes
  <1>2. ASSUME NEW t \in Thread, ConvertRoles(t) PROVE RolesSettled'
    <2>1. role' = InitialRole
      BY <1>2 DEF ConvertRoles, InitialRole
    <2>2. QED
      BY <1>2, <2>1 DEF ConvertRoles
  <1>3. ASSUME NEW t \in Thread, UpdateTopology(t) PROVE RolesSettled'
    BY <1>3 DEF UpdateTopology, NoReply
  <1>4. ASSUME NEW t \in Thread, RefreshTargetRole(t) PROVE RolesSettled'
    <2>1. role' = InitialRole
      BY <1>4, InitialRoleType DEF RefreshTargetRole
    <2>2. QED
      BY <1>4, <2>1 DEF RefreshTargetRole
  <1>5. ASSUME NEW t \in Thread, ExecuteOperation(t) PROVE RolesSettled'
    BY <1>0, <1>5 DEF ExecuteOperation
  <1>6. ASSUME NEW t \in Thread,
               \/ SelectChaosTarget(t) \/ FindNoTarget(t) \/ ExplainNoTarget(t)
               \/ CoordinationError(t) \/ InjectChaos(t) \/ ScheduleChaos(t) \/ OperationError(t)
        PROVE  RolesSettled'
    BY <1>6 DEF SelectChaosTarget, FindNoTarget, ExplainNoTarget, CoordinationError,
                AbandonCoordination, InjectChaos, ScheduleChaos, FinishSchedule, OperationError
  <1>7. CASE ClusterStep
    BY <1>0, <1>7 DEF ClusterStep, DetectFailure, AutoFailover
  <1>8. CASE EndWave
    BY <1>8 DEF EndWave, NextWave
  <1>9. CASE UNCHANGED vars
    BY <1>9 DEF vars
  <1>10. QED
    BY <1>1, <1>2, <1>3, <1>4, <1>5, <1>6, <1>7, <1>8, <1>9 DEF Next, Joined, ThreadStep

LEMMA QuorumStep ==
  ASSUME SafeConfigs, Shard # {}, IInv, RolesSettled, QuorumReserved, [Next]_vars
  PROVE  QuorumReserved'
  <1> USE DEF IInv, TypeInv
  <1>1. ASSUME killedNodeIds' \subseteq killedNodeIds PROVE QuorumReserved'
    <2>1. InitialPrimaries \ killedNodeIds \subseteq InitialPrimaries \ killedNodeIds'
      BY <1>1
    <2>2. InitialPrimaries \ killedNodeIds' \subseteq Node
      BY TopologyAssumption
    <2>3. QED
      BY <2>1, <2>2, LargerMajority DEF QuorumReserved, Quorum
  <1>2. ASSUME NEW t \in Thread, SelectChaosTarget(t) PROVE QuorumReserved'
    <2>1. PICK n \in Node : SelectTarget(config[t].selection, n)
      BY <1>2 DEF SelectChaosTarget
    <2>2. killedNodeIds' = killedNodeIds \cup {n}
      BY <2>1 DEF SelectTarget
    <2>3. CASE role[n] = "primary"
      <3>1. config[t].selection.strategy # "specific"
        BY DEF SafeConfigs, TypeOK
      <3>2. Cardinality((LivePrimaries \ killedNodeIds) \ {n}) >= Quorum
        BY <2>1, <2>3, <3>1 DEF SelectTarget, Selectable, SafeCandidates, QuorumSafe
      <3>3. LivePrimaries \subseteq InitialPrimaries
        BY DEF LivePrimaries, RolesSettled, InitialRole, TypeOK, SelectorTypeOK
      <3>4. (LivePrimaries \ killedNodeIds) \ {n} \subseteq InitialPrimaries \ killedNodeIds'
        BY <2>2, <3>3
      <3>5. InitialPrimaries \ killedNodeIds' \subseteq Node
        BY TopologyAssumption
      <3>6. QED
        BY <3>2, <3>4, <3>5, LargerMajority DEF QuorumReserved, Quorum
    <2>4. CASE role[n] # "primary"
      <3>1. n \notin InitialPrimaries
        BY <2>4 DEF RolesSettled, InitialRole
      <3>2. InitialPrimaries \ killedNodeIds' = InitialPrimaries \ killedNodeIds
        BY <2>2, <3>1
      <3>3. QED
        BY <3>2 DEF QuorumReserved, Quorum
    <2>5. QED
      BY <2>3, <2>4
  <1>3. ASSUME NEW t \in Thread, ThreadStep(t), ~SelectChaosTarget(t) PROVE QuorumReserved'
    <2>1. killedNodeIds' = killedNodeIds \/ \E n \in {target[t]} : UnrecordKill(n)
      BY <1>3 DEF ThreadStep, QueryLiveNodes, ConvertRoles, UpdateTopology, UpdateClusterTopology,
                  ExplainNoTarget, CoordinationError, ReleaseUnlessKilled, RefreshTargetRole,
                  InjectChaos, Killing, ScheduleChaos, Defer, ExecuteOperation, OperationError,
                  FindNoTarget, selectorVars
    <2>2. QED
      BY <1>1, <2>1 DEF UnrecordKill
  <1>4. CASE ClusterStep
    BY <1>1, <1>4 DEF ClusterStep, DetectFailure, AutoFailover, selectorVars
  <1>5. CASE EndWave
    BY <1>1, <1>5 DEF EndWave, NextWave, selectorVars
  <1>6. CASE UNCHANGED vars
    BY <1>1, <1>6 DEF vars, selectorVars
  <1>7. QED
    BY <1>2, <1>3, <1>4, <1>5, <1>6 DEF Next, Joined

(***************************************************************************)
(* Until the first failover a majority of the shards keeps a live master.  *)
(***************************************************************************)
THEOREM QuorumSafety ==
  ASSUME SafeConfigs, Shard # {}
  PROVE  Spec => []QuorumKept
<1> DEFINE Settling == promotions = 0 => RolesSettled /\ QuorumReserved
<1>1. Init => Settling
  <2> SUFFICES ASSUME Init PROVE RolesSettled /\ QuorumReserved
    OBVIOUS
  <2>1. RolesSettled
    BY DEF Init, SelectorInit, RolesSettled, NoReply
  <2>2. InitialPrimaries \ killedNodeIds = InitialPrimaries
    BY DEF Init, SelectorInit
  <2>3. QED
    BY <2>1, <2>2, QuorumType DEF QuorumReserved
<1>2. IInv /\ Settling /\ [Next]_vars => Settling'
  <2> SUFFICES ASSUME IInv, Settling, [Next]_vars, promotions' = 0
               PROVE  RolesSettled' /\ QuorumReserved'
    OBVIOUS
  <2>1. promotions = 0
    BY FailoversCount DEF IInv, TypeInv
  <2>2. QED
    BY <2>1, RolesStep, QuorumStep DEF IInv, TypeInv
<1>3. IInv /\ Settling => QuorumKept
  <2> SUFFICES ASSUME IInv, RolesSettled, QuorumReserved PROVE Cardinality(LiveMasters) >= Quorum
    BY DEF QuorumKept
  <2>1. InitialPrimaries \ killedNodeIds \subseteq LiveMasters
    BY TopologyAssumption DEF LiveMasters, RolesSettled, InitialRole, IInv, ReservationInv
  <2>2. LiveMasters \subseteq Node
    BY DEF LiveMasters
  <2>3. QED
    BY <2>1, <2>2, LargerMajority DEF QuorumReserved
<1>4. QED
  BY <1>1, <1>2, <1>3, Inductive, PTL DEF Spec

----------------------------------------------------------------------------
(* What is left to a thread                                                *)

(* Every place of a thread has its number. *)
LEMMA StepsLeftAt ==
  ASSUME NEW t \in Thread
  PROVE  /\ pc[t] = "query" => StepsLeft(t) = 14
         /\ pc[t] = "convert" => StepsLeft(t) = 13
         /\ pc[t] = "update" => StepsLeft(t) = 12
         /\ pc[t] = "select" => StepsLeft(t) = 11
         /\ pc[t] = "refresh" /\ phase[t] = "before" => StepsLeft(t) = 10
         /\ pc[t] = "kill" /\ phase[t] = "before" => StepsLeft(t) = 9
         /\ pc[t] = "refresh" /\ phase[t] = "during" => StepsLeft(t) = 8
         /\ pc[t] = "kill" /\ phase[t] = "during" => StepsLeft(t) = 7
         /\ pc[t] \in {"explain", "schedule"} => StepsLeft(t) = 6
         /\ pc[t] = "operate" => StepsLeft(t) = 5
         /\ pc[t] = "refresh" /\ phase[t] = "after" => StepsLeft(t) = 3
         /\ pc[t] = "kill" /\ phase[t] = "after" => StepsLeft(t) = 2
         /\ pc[t] = "done" => StepsLeft(t) = 1
         /\ pc[t] = "joined" => StepsLeft(t) = 0
  BY DEF StepsLeft

LEMMA StepsLeftThen ==
  ASSUME NEW t \in Thread
  PROVE  /\ pc'[t] = "convert" => StepsLeft(t)' = 13
         /\ pc'[t] = "update" => StepsLeft(t)' = 12
         /\ pc'[t] = "select" => StepsLeft(t)' = 11
         /\ pc'[t] = "refresh" /\ phase'[t] = "before" => StepsLeft(t)' = 10
         /\ pc'[t] = "kill" /\ phase'[t] = "before" => StepsLeft(t)' = 9
         /\ pc'[t] = "refresh" /\ phase'[t] = "during" => StepsLeft(t)' = 8
         /\ pc'[t] = "kill" /\ phase'[t] = "during" => StepsLeft(t)' = 7
         /\ pc'[t] \in {"explain", "schedule"} => StepsLeft(t)' = 6
         /\ pc'[t] = "operate" => StepsLeft(t)' = 5
         /\ pc'[t] = "refresh" /\ phase'[t] = "after" => StepsLeft(t)' = 3
         /\ pc'[t] = "kill" /\ phase'[t] = "after" => StepsLeft(t)' = 2
         /\ pc'[t] = "done" => StepsLeft(t)' = 1
         /\ pc'[t] = "joined" => StepsLeft(t)' = 0
  BY DEF StepsLeft

LEMMA LeftType ==
  ASSUME TypeOK', NEW t \in Thread
  PROVE  Left(t)' \in Amounts(2)
  <1>1. StepsLeft(t)' \in Nat
    BY DEF TypeOK, StepsLeft
  <1>2. \A y \in Nat : \A x \in 1 .. y : (y - x) \in Nat
    OBVIOUS
  <1>3. wave' \in 1 .. MaxWaves /\ MaxWaves \in Nat
    BY WaveAssumption DEF TypeOK
  <1>4. QED
    BY <1>1, <1>2, <1>3 DEF Left, Amounts

LEMMA LessLeft ==
  ASSUME NEW t \in Thread,
         \/ (MaxWaves - wave)' < MaxWaves - wave
         \/ UNCHANGED wave /\ StepsLeft(t)' < StepsLeft(t)
  PROVE  Less(Left(t)', Left(t))
  BY DEF Less, Left

(* A thread moves on, never back. *)
LEMMA ThreadMovesOn ==
  ASSUME TypeInv, NEW t \in Thread, ThreadStep(t)
  PROVE  UNCHANGED wave /\ StepsLeft(t)' < StepsLeft(t)
  <1> USE DEF TypeInv, TypeOK, ControlType
  <1>1. CASE QueryLiveNodes(t) \/ ConvertRoles(t) \/ UpdateTopology(t)
    <2>1. /\ UNCHANGED wave
          /\ \/ pc[t] = "query" /\ pc'[t] \in {"convert", "select"}
             \/ pc[t] = "convert" /\ pc'[t] = "update"
             \/ pc[t] = "update" /\ pc'[t] = "select"
      BY <1>1 DEF QueryLiveNodes, ConvertRoles, UpdateTopology, waveVars
    <2>2. QED
      BY <2>1, StepsLeftAt, StepsLeftThen
  <1>2. CASE SelectChaosTarget(t)
    <2>1. /\ UNCHANGED wave /\ pc[t] = "select"
          /\ \/ pc'[t] = "schedule"
             \/ pc'[t] = "refresh" /\ phase'[t] \in {"before", "during"}
      BY <1>2, EnterControl DEF SelectChaosTarget, waveVars
    <2>2. QED
      BY <2>1, StepsLeftAt, StepsLeftThen
  <1>3. CASE FindNoTarget(t) \/ ExplainNoTarget(t)
    <2>1. /\ UNCHANGED wave
          /\ \/ pc[t] = "select" /\ pc'[t] = "explain"
             \/ pc[t] = "explain" /\ pc'[t] = "operate"
      BY <1>3 DEF FindNoTarget, ExplainNoTarget, waveVars
    <2>2. QED
      BY <2>1, StepsLeftAt, StepsLeftThen
  <1>4. CASE CoordinationError(t)
    <2>1. /\ UNCHANGED wave /\ pc'[t] = "operate"
          /\ pc[t] = "schedule" \/ (pc[t] = "refresh" /\ phase[t] \in {"before", "during"})
      BY <1>4 DEF CoordinationError, AbandonCoordination, DelayRaises, waveVars, Phase
    <2>2. QED
      BY <2>1, StepsLeftAt, StepsLeftThen
  <1>5. CASE RefreshTargetRole(t)
    <2>1. /\ UNCHANGED <<wave, phase>> /\ pc[t] = "refresh" /\ pc'[t] = "kill"
          /\ phase[t] \in Phase
      BY <1>5 DEF RefreshTargetRole, waveVars
    <2>2. QED
      BY <2>1, StepsLeftAt, StepsLeftThen DEF Phase
  <1>6. CASE InjectChaos(t)
    <2>1. UNCHANGED wave /\ pc[t] = "kill" /\ phase[t] \in Phase
      BY <1>6 DEF InjectChaos, waveVars
    <2>2. CASE phase[t] = "after"
      <3>1. pc'[t] = "done"
        BY <1>6, <2>2 DEF InjectChaos
      <3>2. QED
        BY <2>1, <2>2, <3>1, StepsLeftAt, StepsLeftThen
    <2>3. CASE phase[t] \in {"before", "during"}
      <3>1. Enter(t, ImmediatePhaseAfter(phase[t], config[t]))
        BY <1>6, <2>3 DEF InjectChaos
      <3>2. \/ pc'[t] = "schedule"
            \/ pc'[t] = "refresh" /\ phase'[t] = "during" /\ phase[t] = "before"
        BY <2>3, <3>1, EnterControl
      <3>3. QED
        BY <2>1, <2>3, <3>2, StepsLeftAt, StepsLeftThen
    <2>4. QED
      BY <2>1, <2>2, <2>3 DEF Phase
  <1>7. CASE ScheduleChaos(t)
    <2>1. UNCHANGED wave /\ pc[t] = "schedule" /\ pc'[t] = "operate"
      BY <1>7 DEF ScheduleChaos, FinishSchedule, waveVars
    <2>2. QED
      BY <2>1, StepsLeftAt, StepsLeftThen
  <1>8. CASE ExecuteOperation(t)
    <2>1. /\ UNCHANGED wave /\ pc[t] = "operate"
          /\ pc'[t] = "done" \/ (pc'[t] = "refresh" /\ phase'[t] = "after")
      BY <1>8 DEF ExecuteOperation, waveVars
    <2>2. QED
      BY <2>1, StepsLeftAt, StepsLeftThen
  <1>9. CASE OperationError(t)
    <2>1. UNCHANGED wave /\ pc[t] = "refresh" /\ phase[t] = "after" /\ pc'[t] = "done"
      BY <1>9 DEF OperationError, DeferredSleepRaises, waveVars
    <2>2. QED
      BY <2>1, StepsLeftAt, StepsLeftThen
  <1>10. QED
    BY <1>1, <1>2, <1>3, <1>4, <1>5, <1>6, <1>7, <1>8, <1>9 DEF ThreadStep

(***************************************************************************)
(* Whatever moves a thread leaves less to it, in any configuration, with   *)
(* any errors (chaos_coordinator.py:193, parallel_executor.py:133, :166).  *)
(***************************************************************************)
THEOREM ThreadsShorten == Spec => ThreadsRunOut
<1> DEFINE Shorter(t) == \/ UNCHANGED <<pc[t], wave>>
                         \/ Left(t)' \in Amounts(2) /\ Less(Left(t)', Left(t))
<1>1. ASSUME TypeInv, TypeInv', [Next]_vars, NEW u \in Thread PROVE Shorter(u)
  <2>1. Left(u)' \in Amounts(2)
    BY <1>1, LeftType DEF TypeInv
  <2>2. ASSUME NEW t \in Thread, ThreadStep(t) PROVE Shorter(u)
    <3>1. CASE u = t
      BY <1>1, <2>1, <2>2, <3>1, ThreadMovesOn, LessLeft
    <3>2. CASE u # t
      BY <1>1, <2>2, <3>2, ThreadMovesOn, OtherThreads DEF TypeInv
    <3>3. QED
      BY <3>1, <3>2
  <2>3. CASE EndWave
    <3>1. CASE wave' = wave
      <4>1. pc'[u] = "joined" /\ pc[u] \in {"done", "joined"}
        BY <1>1, <2>3, <3>1 DEF EndWave, NextWave, TypeInv, TypeOK
      <4>2. CASE pc[u] = "done"
        BY <2>1, <3>1, <4>1, <4>2, StepsLeftAt, StepsLeftThen, LessLeft
      <4>3. QED
        BY <3>1, <4>1, <4>2
    <3>2. CASE wave' = wave + 1
      <4>1. wave \in Nat /\ MaxWaves \in Nat
        BY <1>1, WaveAssumption DEF TypeInv, TypeOK
      <4>2. (MaxWaves - wave)' < MaxWaves - wave
        BY <3>2, <4>1
      <4>3. QED
        BY <2>1, <4>2, LessLeft
    <3>3. QED
      BY <2>3, <3>1, <3>2 DEF EndWave, NextWave
  <2>4. CASE ClusterStep
    BY <2>4 DEF ClusterStep, DetectFailure, AutoFailover, threadVars, waveVars
  <2>5. CASE UNCHANGED vars
    BY <2>5 DEF vars, threadVars, waveVars
  <2>6. QED
    BY <1>1, <2>2, <2>3, <2>4, <2>5 DEF Next, Joined
<1>2. TypeInv /\ TypeInv' /\ [Next]_vars =>
        [\A t \in Thread :
           \/ UNCHANGED <<pc[t], wave>>
           \/ Left(t)' \in Amounts(2) /\ Less(Left(t)', Left(t))]_vars
  BY <1>1
<1> HIDE DEF Shorter
<1>3. Init => TypeInv
  BY InitType
<1>4. TypeInv /\ [Next]_vars => TypeInv'
  BY StepType, StepControl DEF TypeInv
<1>5. QED
  BY <1>2, <1>3, <1>4, PTL DEF Spec, ThreadsRunOut
=============================================================================
