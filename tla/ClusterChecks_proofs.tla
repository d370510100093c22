-------------------------- MODULE ClusterChecks_proofs --------------------------
(***************************************************************************)
(* Proofs about ClusterChecks, for any shards, replicas, settings of the   *)
(* validators and numbers of kills, crashes, restarts and failovers.       *)
(***************************************************************************)
EXTENDS ClusterChecks, FiniteSetTheorems, TLAPS

\* What the best informed nodes know is the truth: a connection is broken just
\* when its node is dead, every shard has an owner of its own with the master
\* flag, and a living node with the flag is an owner.
CurrentInv ==
  /\ \A n \in Node : current.condition[n] = "connected" <=> n \in alive
  /\ \A s \in Shard : current.owner[s] \in Members(s) \cap current.masters
  /\ \A n \in current.masters \cap alive : current.owner[ShardOf(n)] = n

\* If the last event gave a shard another owner, that one has not died since.
PreviousInv ==
  behind # {} =>
    \A s \in Shard : previous.owner[s] # current.owner[s] => current.owner[s] \in alive

TypeInv == TypeOK /\ CurrentInv /\ PreviousInv

LEMMA NodeType ==
  ASSUME NEW n \in Node
  PROVE  ShardOf(n) \in Shard /\ n \in Members(ShardOf(n))
BY DEF Node, ShardOf, Members

LEMMA MemberType ==
  ASSUME NEW s, NEW n \in Members(s)
  PROVE  n \in Node /\ ShardOf(n) = s
BY DEF Members

LEMMA CountType ==
  ASSUME TypeOK, NEW event \in {"kills", "crashes", "restarts", "failovers"}, NEW bound,
         Count(event, bound)
  PROVE  counts' \in [{"kills", "crashes", "restarts", "failovers"} -> Nat]
BY DEF TypeOK, Count

LEMMA HappensType ==
  ASSUME TypeOK, NEW v \in View, NEW living, living \subseteq alive', Happens(v, living)
  PROVE  /\ current' = v /\ previous' = current
         /\ current' \in View /\ previous' \in View /\ behind' \subseteq alive'
BY DEF TypeOK, Happens

LEMMA TypeInit ==
  ASSUME Init
  PROVE  TypeInv
<1>1. \A s \in Shard : <<s, 0>> \in Node /\ ShardOf(<<s, 0>>) = s
  BY ChecksAssumption DEF Node, ShardOf
<1>2. FirstView \in View
  BY <1>1 DEF FirstView, View, Condition
<1>3. TypeOK
  BY <1>2 DEF Init, TypeOK
<1>4. CurrentInv
  <2>1. \A n \in Node : current.condition[n] = "connected" /\ n \in alive
    BY DEF Init, FirstView
  <2>2. \A s \in Shard : current.owner[s] = <<s, 0>>
    BY DEF Init, FirstView
  <2>3. current.masters = {<<s, 0>> : s \in Shard}
    BY DEF Init, FirstView
  <2> QED
    BY <1>1, <2>1, <2>2, <2>3 DEF CurrentInv, Members
<1> QED
  BY <1>3, <1>4 DEF Init, TypeInv, PreviousInv

\* One event: what it must do to the view for the invariants to survive it.
LEMMA EventKeeps ==
  ASSUME TypeInv, NEW v \in View, NEW living, living \subseteq alive', Happens(v, living),
         \A n \in Node : v.condition[n] = "connected" <=> n \in alive',
         \A s \in Shard : v.owner[s] \in Members(s) \cap v.masters,
         \A n \in v.masters \cap alive' : v.owner[ShardOf(n)] = n,
         \A s \in Shard : v.owner[s] # current.owner[s] => v.owner[s] \in alive'
  PROVE  /\ current' \in View /\ previous' \in View /\ behind' \subseteq alive'
         /\ CurrentInv' /\ PreviousInv'
<1>1. /\ current' = v /\ previous' = current
      /\ current' \in View /\ previous' \in View /\ behind' \subseteq alive'
  BY HappensType DEF TypeInv
<1>2. CurrentInv'
  BY <1>1 DEF CurrentInv
<1>3. PreviousInv'
  BY <1>1 DEF PreviousInv
<1> QED
  BY <1>1, <1>2, <1>3

\* A new condition of one node.
LEMMA ConditionChange ==
  ASSUME TypeOK, NEW n \in Node, NEW c \in Condition, NEW v,
         v = [current EXCEPT !.condition[n] = c]
  PROVE  /\ v \in View /\ v.owner = current.owner /\ v.masters = current.masters
         /\ \A m \in Node : v.condition[m] = IF m = n THEN c ELSE current.condition[m]
BY DEF TypeOK, View

LEMMA DiesKeeps ==
  ASSUME TypeInv, NEW n \in Node, Dies(n)
  PROVE  /\ alive' = alive \ {n}
         /\ current' \in View /\ previous' \in View /\ behind' \subseteq alive'
         /\ CurrentInv' /\ PreviousInv'
<1> DEFINE v == [current EXCEPT !.condition[n] = "disconnected"]
<1>1. alive' = alive \ {n} /\ Happens(v, alive') /\ TypeOK /\ CurrentInv
  BY DEF Dies, TypeInv
<1>2. /\ v \in View /\ v.owner = current.owner /\ v.masters = current.masters
      /\ \A m \in Node : v.condition[m] = IF m = n THEN "disconnected" ELSE current.condition[m]
  BY <1>1, ConditionChange DEF Condition
<1> HIDE DEF v
<1>3. \A m \in Node : v.condition[m] = "connected" <=> m \in alive'
  BY <1>1, <1>2 DEF CurrentInv
<1>4. /\ \A s \in Shard : v.owner[s] \in Members(s) \cap v.masters
      /\ \A m \in v.masters \cap alive' : v.owner[ShardOf(m)] = m
  BY <1>1, <1>2 DEF CurrentInv
<1> QED
  BY <1>1, <1>2, <1>3, <1>4, EventKeeps

LEMMA FlagKeeps ==
  ASSUME TypeInv, NEW n \in Node, Flag(n)
  PROVE  TypeInv'
<1> DEFINE v == [current EXCEPT !.condition[n] = "fail"]
<1>1. alive' = alive /\ Happens(v, alive') /\ TypeOK /\ CurrentInv /\ n \notin alive
  BY DEF Flag, TypeInv, CurrentInv
<1>2. /\ v \in View /\ v.owner = current.owner /\ v.masters = current.masters
      /\ \A m \in Node : v.condition[m] = IF m = n THEN "fail" ELSE current.condition[m]
  BY <1>1, ConditionChange DEF Condition
<1> HIDE DEF v
<1>3. \A m \in Node : v.condition[m] = "connected" <=> m \in alive'
  BY <1>1, <1>2 DEF CurrentInv
<1>4. /\ \A s \in Shard : v.owner[s] \in Members(s) \cap v.masters
      /\ \A m \in v.masters \cap alive' : v.owner[ShardOf(m)] = m
  BY <1>1, <1>2 DEF CurrentInv
<1>5. /\ current' \in View /\ previous' \in View /\ behind' \subseteq alive'
      /\ CurrentInv' /\ PreviousInv'
  BY <1>1, <1>2, <1>3, <1>4, EventKeeps
<1> QED
  BY <1>1, <1>5 DEF Flag, TypeInv, TypeOK

LEMMA PromoteKeeps ==
  ASSUME TypeInv, NEW s \in Shard, Promote(s)
  PROVE  TypeInv'
<1>1. PICK r \in (Members(s) \cap alive) \ {current.owner[s]} :
        Happens([current EXCEPT !.owner[s] = r, !.masters = @ \cup {r}], alive)
  BY DEF Promote
<1> DEFINE masters == current.masters \cup {r}
<1> DEFINE v == [current EXCEPT !.owner[s] = r, !.masters = masters]
<1>2. alive' = alive /\ Happens(v, alive') /\ TypeOK /\ CurrentInv
  BY <1>1 DEF Promote, TypeInv
<1>3. r \in Node /\ ShardOf(r) = s /\ r \in alive /\ current.owner[s] \in Node
  BY <1>1, <1>2, MemberType DEF CurrentInv
<1>4. current.owner[s] \notin alive
  BY <1>2, <1>3 DEF Promote, CurrentInv
<1>5. masters \subseteq Node
  BY <1>2, <1>3 DEF TypeOK, View
<1>6. /\ v \in View /\ v.condition = current.condition /\ v.masters = masters
      /\ \A t \in Shard : v.owner[t] = IF t = s THEN r ELSE current.owner[t]
  BY <1>2, <1>3, <1>5 DEF TypeOK, View
<1> HIDE DEF v
<1>7. \A m \in Node : v.condition[m] = "connected" <=> m \in alive'
  BY <1>2, <1>6 DEF CurrentInv
<1>8. \A t \in Shard : v.owner[t] \in Members(t) \cap v.masters
  BY <1>1, <1>2, <1>6 DEF CurrentInv
<1>9. ASSUME NEW m \in v.masters \cap alive'
      PROVE  v.owner[ShardOf(m)] = m
  <2>1. CASE m = r
    BY <2>1, <1>3, <1>6
  <2>2. CASE m # r
    <3>1. m \in Node /\ ShardOf(m) \in Shard /\ current.owner[ShardOf(m)] = m
      BY <2>2, <1>2, <1>5, <1>6, <1>9, NodeType DEF CurrentInv
    <3> QED
      BY <3>1, <1>2, <1>4, <1>6, <1>9
  <2> QED
    BY <2>1, <2>2
<1>10. \A t \in Shard : v.owner[t] # current.owner[t] => v.owner[t] \in alive'
  BY <1>2, <1>3, <1>6
<1>11. /\ current' \in View /\ previous' \in View /\ behind' \subseteq alive'
       /\ CurrentInv' /\ PreviousInv'
  BY <1>2, <1>6, <1>7, <1>8, <1>9, <1>10, EventKeeps
<1> QED
  BY <1>2, <1>11 DEF Promote, TypeInv, TypeOK

LEMMA FailoverKeeps ==
  ASSUME TypeInv, NEW s \in Shard, Failover(s)
  PROVE  TypeInv'
<1>1. PICK r \in (Members(s) \cap alive) \ {current.owner[s]} :
        Happens([current EXCEPT !.owner[s] = r,
                                !.masters = (@ \ {current.owner[s]}) \cup {r}], alive)
  BY DEF Failover
<1> DEFINE masters == (current.masters \ {current.owner[s]}) \cup {r}
<1> DEFINE v == [current EXCEPT !.owner[s] = r, !.masters = masters]
<1>2. alive' = alive /\ Happens(v, alive') /\ TypeOK /\ CurrentInv
  BY <1>1 DEF Failover, TypeInv
<1>3. r \in Node /\ ShardOf(r) = s /\ r \in alive
  BY <1>1, <1>2, MemberType
<1>4. \A t \in Shard : ShardOf(current.owner[t]) = t
  BY <1>2, MemberType DEF CurrentInv
<1>5. masters \subseteq Node
  BY <1>2, <1>3 DEF TypeOK, View
<1>6. /\ v \in View /\ v.condition = current.condition /\ v.masters = masters
      /\ \A t \in Shard : v.owner[t] = IF t = s THEN r ELSE current.owner[t]
  BY <1>2, <1>3, <1>5 DEF TypeOK, View
<1> HIDE DEF v
<1>7. \A m \in Node : v.condition[m] = "connected" <=> m \in alive'
  BY <1>2, <1>6 DEF CurrentInv
<1>8. \A t \in Shard : v.owner[t] \in Members(t) \cap v.masters
  BY <1>1, <1>2, <1>4, <1>6 DEF CurrentInv
<1>9. ASSUME NEW m \in v.masters \cap alive'
      PROVE  v.owner[ShardOf(m)] = m
  <2>1. CASE m = r
    BY <2>1, <1>3, <1>6
  <2>2. CASE m # r
    <3>1. m \in Node /\ ShardOf(m) \in Shard /\ current.owner[ShardOf(m)] = m
      BY <2>2, <1>2, <1>5, <1>6, <1>9, NodeType DEF CurrentInv
    <3>2. m # current.owner[s]
      BY <2>2, <1>6, <1>9
    <3> QED
      BY <3>1, <3>2, <1>6
  <2> QED
    BY <2>1, <2>2
<1>10. \A t \in Shard : v.owner[t] # current.owner[t] => v.owner[t] \in alive'
  BY <1>2, <1>3, <1>6
<1>11. /\ current' \in View /\ previous' \in View /\ behind' \subseteq alive'
       /\ CurrentInv' /\ PreviousInv'
  BY <1>2, <1>6, <1>7, <1>8, <1>9, <1>10, EventKeeps
<1>12. counts' \in [{"kills", "crashes", "restarts", "failovers"} -> Nat]
  BY <1>2, CountType DEF Failover
<1> QED
  BY <1>2, <1>11, <1>12 DEF Failover, TypeInv, TypeOK

LEMMA RestartKeeps ==
  ASSUME TypeInv, NEW n \in Node, Restart(n)
  PROVE  TypeInv'
<1> DEFINE owns == current.owner[ShardOf(n)] = n
<1> DEFINE masters == IF owns THEN current.masters ELSE current.masters \ {n}
<1> DEFINE v == [current EXCEPT !.condition[n] = "connected", !.masters = masters]
<1>1. Happens(v, alive) /\ alive' = alive \cup {n} /\ TypeOK /\ CurrentInv
  BY DEF Restart, TypeInv
<1>2. masters \subseteq Node
  BY <1>1 DEF TypeOK, View
<1>3. /\ v \in View /\ v.owner = current.owner /\ v.masters = masters
      /\ \A m \in Node : v.condition[m] = IF m = n THEN "connected" ELSE current.condition[m]
  BY <1>1, <1>2 DEF TypeOK, View, Condition
<1> HIDE DEF v
<1>4. \A m \in Node : v.condition[m] = "connected" <=> m \in alive'
  BY <1>1, <1>3 DEF CurrentInv
<1>5. ASSUME NEW s \in Shard
      PROVE  v.owner[s] \in Members(s) \cap v.masters
  <2>1. v.owner[s] = current.owner[s] /\ current.owner[s] \in Members(s) \cap current.masters
    BY <1>1, <1>3 DEF CurrentInv
  <2>2. ShardOf(current.owner[s]) = s
    BY <2>1, MemberType
  <2> QED
    BY <2>1, <2>2, <1>3
<1>6. \A m \in v.masters \cap alive' : v.owner[ShardOf(m)] = m
  BY <1>1, <1>3 DEF CurrentInv
<1>7. alive \subseteq alive'
  BY <1>1
<1>8. /\ current' \in View /\ previous' \in View /\ behind' \subseteq alive'
      /\ CurrentInv' /\ PreviousInv'
  BY <1>1, <1>3, <1>4, <1>5, <1>6, <1>7, EventKeeps
<1>9. counts' \in [{"kills", "crashes", "restarts", "failovers"} -> Nat]
  BY <1>1, CountType DEF Restart
<1> QED
  BY <1>1, <1>8, <1>9 DEF Restart, TypeInv, TypeOK

LEMMA CrashKeeps ==
  ASSUME TypeInv, NEW n \in Node, Crash(n)
  PROVE  TypeInv'
<1>1. /\ alive' = alive \ {n}
      /\ current' \in View /\ previous' \in View /\ behind' \subseteq alive'
      /\ CurrentInv' /\ PreviousInv'
  BY DiesKeeps DEF Crash
<1>2. counts' \in [{"kills", "crashes", "restarts", "failovers"} -> Nat]
  BY CountType DEF Crash, TypeInv
<1> QED
  BY <1>1, <1>2 DEF Crash, TypeInv, TypeOK

LEMMA KillKeeps ==
  ASSUME TypeInv, NEW n \in Node, Kill(n)
  PROVE  TypeInv'
<1>1. /\ alive' = alive \ {n}
      /\ current' \in View /\ previous' \in View /\ behind' \subseteq alive'
      /\ CurrentInv' /\ PreviousInv'
  BY DiesKeeps DEF Kill
<1>2. counts' \in [{"kills", "crashes", "restarts", "failovers"} -> Nat]
  BY CountType DEF Kill, TypeInv
<1>3. PICK v \in {previous, current} : roleAtDeath' = [roleAtDeath EXCEPT ![n] = RoleIn(v, n)]
  BY DEF Kill
<1>4. RoleIn(v, n) \in {"primary", "replica"}
  BY DEF RoleIn
<1>5. roleAtDeath' \in [Node -> {"none", "primary", "replica"}]
  BY <1>3, <1>4 DEF TypeInv, TypeOK
<1>6. \A m \in Node : roleAtDeath'[m] = IF m = n THEN RoleIn(v, n) ELSE roleAtDeath[m]
  BY <1>3 DEF TypeInv, TypeOK
<1>7. killed' = killed \cup {n}
  BY DEF Kill
<1>8. \A m \in Node : roleAtDeath'[m] # "none" <=> m \in killed'
  BY <1>4, <1>6, <1>7 DEF TypeInv, TypeOK
<1> QED
  BY <1>1, <1>2, <1>5, <1>7, <1>8 DEF TypeInv, TypeOK

LEMMA TypeStep ==
  ASSUME TypeInv, [Next]_vars
  PROVE  TypeInv'
<1>1. CASE Gossip
  BY <1>1 DEF Gossip, TypeInv, TypeOK, CurrentInv, PreviousInv
<1>2. CASE UNCHANGED vars
  BY <1>2 DEF vars, TypeInv, TypeOK, CurrentInv, PreviousInv
<1>3. CASE \E n \in Node : Kill(n) \/ Crash(n) \/ Flag(n) \/ Restart(n)
  BY <1>3, KillKeeps, CrashKeeps, FlagKeeps, RestartKeeps
<1>4. CASE \E s \in Shard : Promote(s) \/ Failover(s)
  BY <1>4, PromoteKeeps, FailoverKeeps
<1> QED
  BY <1>1, <1>2, <1>3, <1>4 DEF Next

LEMMA Invariance == Spec => []TypeInv
<1>1. TypeInv /\ [Next]_vars => TypeInv'
  BY TypeStep
<1> QED
  BY <1>1, TypeInit, PTL DEF Spec

\* Every variable keeps its type, and the views keep up with the cluster, for
\* any numbers of events (state_validator.py:2535, :2565).
THEOREM ChecksTypeCorrect == Spec => []TypeOK
<1>1. TypeInv => TypeOK
  BY DEF TypeInv
<1> QED
  BY <1>1, Invariance, PTL

\* Theorem: a node that died without chaos is a critical failure of the
\* topology, for any cluster and any history (state_validator_helpers.py:159,
\* models.py:301, :652).
THEOREM CrashReported == Spec => []CrashIsCritical
<1>1. ASSUME TypeInv
      PROVE  CrashIsCritical
  <2>1. SUFFICES ASSUME NEW n \in alive \ behind, NEW m \in Node \ (alive \cup killed),
                        NEW st \in OverallStates
                 PROVE  ~Topology(ViewOf(n)) /\ Critical(ViewOf(n), st)
    BY DEF CrashIsCritical
  <2>2. ViewOf(n) = current
    BY <2>1 DEF ViewOf
  <2>3. m \in UnexpectedFailures(current)
    BY <1>1, <2>1 DEF TypeInv, CurrentInv, UnexpectedFailures, Failed
  <2> QED
    BY <2>2, <2>3 DEF Topology, Critical
<1> QED
  BY <1>1, Invariance, PTL

\* All nodes of a reply name the owner that the cluster has, if that one is dead.
LEMMA ClaimsAgree ==
  ASSUME TypeInv, NEW s \in Shard, current.owner[s] \notin alive, NEW v, Queried(v) # {}
  PROVE  ClaimedOwners(v, s) = {current.owner[s]}
<1>1. \A k \in Node : ViewOf(k).owner[s] = current.owner[s]
  BY DEF ViewOf, TypeInv, PreviousInv
<1>2. Queried(v) \subseteq Node
  BY DEF Queried
<1> QED
  BY <1>1, <1>2 DEF ClaimedOwners

\* Theorem: slots on a killed node whose shard has members left fail the slot
\* check at every living node, until a member takes over
\* (state_validator.py:929-961).
THEOREM UnservedReported == Spec => []UnservedSlotsReported
<1>1. ASSUME TypeInv
      PROVE  UnservedSlotsReported
  <2>1. SUFFICES ASSUME NEW s \in Shard \ (LiveOwners \cup FullyKilled),
                        current.owner[s] \in killed, NEW n \in alive
                 PROVE  ~SlotCoverage(ViewOf(n))
    BY DEF UnservedSlotsReported
  <2> DEFINE v == ViewOf(n)
  <2> HIDE DEF v
  <2>2. CASE Queried(v) = {}
    BY <2>2 DEF SlotCoverage, v
  <2>3. CASE Queried(v) # {}
    <3>1. ClaimedOwners(v, s) = {current.owner[s]}
      BY <1>1, <2>1, <2>3, ClaimsAgree DEF LiveOwners
    <3>2. s \in SlotsOnKilled(v)
      BY <2>1, <3>1 DEF SlotsOnKilled
    <3> QED
      BY <3>2 DEF SlotCoverage, v
  <2> QED
    BY <2>2, <2>3
<1> QED
  BY <1>1, Invariance, PTL

LEMMA NodesFinite == IsFiniteSet(Node) /\ IsFiniteSet(Shard)
<1>1. IsFiniteSet(0 .. Replicas)
  BY ChecksAssumption, FS_Interval
<1> QED
  BY <1>1, ChecksAssumption, FS_Product DEF Node

LEMMA HalfMonotone ==
  ASSUME NEW a \in Nat, NEW b \in Nat, a <= b
  PROVE  a \div 2 <= b \div 2
OBVIOUS

\* There are no fewer nodes with the master flag than shards.
LEMMA EnoughMasters ==
  ASSUME TypeInv
  PROVE  Cardinality(Shard) <= Cardinality(current.masters) /\ IsFiniteSet(current.masters)
<1> DEFINE f == [s \in Shard |-> current.owner[s]]
<1>1. current.masters \subseteq Node
  BY DEF TypeInv, TypeOK, View
<1>2. IsFiniteSet(current.masters)
  BY <1>1, NodesFinite, FS_Subset
<1>3. \A s \in Shard : f[s] \in current.masters /\ ShardOf(f[s]) = s
  BY MemberType DEF TypeInv, CurrentInv
<1>4. f \in Injection(Shard, current.masters)
  <2>1. f \in [Shard -> current.masters]
    BY <1>3
  <2>2. \A s, t \in Shard : f[s] = f[t] => s = t
    BY <1>3
  <2> HIDE DEF f
  <2> QED
    BY <2>1, <2>2 DEF Injection, IsInjective
<1> QED
  BY <1>2, <1>4, FS_Injection

\* Living nodes with the flag are owners of different shards.
LEMMA LivingMastersServe ==
  ASSUME TypeInv
  PROVE  Cardinality(current.masters \cap alive) <= Cardinality(LiveOwners)
<1> DEFINE M == current.masters \cap alive
<1> DEFINE f == [n \in M |-> ShardOf(n)]
<1>1. \A n \in M : n \in Node /\ current.owner[ShardOf(n)] = n
  BY DEF TypeInv, TypeOK, CurrentInv, View
<1>2. \A n \in M : ShardOf(n) \in LiveOwners
  BY <1>1, NodeType DEF LiveOwners
<1>3. f \in Injection(M, LiveOwners)
  <2>1. f \in [M -> LiveOwners]
    BY <1>2
  <2>2. \A m, n \in M : f[m] = f[n] => m = n
    BY <1>1
  <2> HIDE DEF f, M
  <2> QED
    BY <2>1, <2>2 DEF Injection, IsInjective
<1>4. IsFiniteSet(LiveOwners)
  BY NodesFinite, FS_Subset DEF LiveOwners
<1> HIDE DEF f, M
<1>5. Cardinality(M) <= Cardinality(LiveOwners)
  BY <1>3, <1>4, FS_Injection
<1> QED
  BY <1>5 DEF M

\* Theorem: "has quorum" means a majority of the shards is served, although
\* nodes are counted, dead ones among them (state_validator.py:614-625).
THEOREM QuorumHonest == Spec => []QuorumNotOverstated
<1>1. ASSUME TypeInv
      PROVE  QuorumNotOverstated
  <2> DEFINE shards  == Cardinality(Shard)
             masters == Cardinality(current.masters)
             living  == Cardinality(current.masters \cap alive)
             served  == Cardinality(LiveOwners)
  <2>1. shards <= masters /\ living <= served
    BY <1>1, EnoughMasters, LivingMastersServe
  <2>2. shards \in Nat /\ masters \in Nat /\ served \in Nat /\ living \in Nat
    <3>1. IsFiniteSet(current.masters) /\ IsFiniteSet(current.masters \cap alive)
      BY <1>1, EnoughMasters, FS_Subset
    <3>2. IsFiniteSet(LiveOwners)
      BY NodesFinite, FS_Subset DEF LiveOwners
    <3> QED
      BY <3>1, <3>2, NodesFinite, FS_CardinalityType
  <2> HIDE DEF shards, masters, living, served
  <2>3. shards \div 2 <= masters \div 2
    BY <2>1, <2>2, HalfMonotone
  <2>4. living >= masters \div 2 + 1 => served >= shards \div 2 + 1
    BY <2>1, <2>2, <2>3
  <2> QED
    BY <2>4 DEF QuorumNotOverstated, HasQuorum, Majority, shards, masters, living, served
<1> QED
  BY <1>1, Invariance, PTL
----------------------------------------------------------------------------
(***************************************************************************)
(* The two properties about a settled cluster.  Its dead nodes are those   *)
(* the reply calls failed, and a shard is served unless all its members    *)
(* are dead.                                                               *)
(***************************************************************************)

\* The last node to die is never flagged: nobody is left to do it.
LastUnflagged == alive = {} => \E n \in Node : current.condition[n] # "fail"

LEMMA MajorityLives ==
  ASSUME Cardinality(LiveOwners) >= Majority
  PROVE  alive # {}
<1>1. Cardinality(Shard) \in Nat
  BY ChecksAssumption, FS_CardinalityType
<1>2. Majority >= 1 /\ Majority \in Nat
  BY <1>1 DEF Majority
<1>3. Cardinality({}) = 0
  BY FS_EmptySet
<1>4. LiveOwners # {}
  BY <1>2, <1>3
<1> QED
  BY <1>4 DEF LiveOwners

LEMMA UnflaggedInit ==
  ASSUME Init
  PROVE  LastUnflagged
<1>1. PICK s \in Shard : TRUE
  BY ChecksAssumption
<1>2. <<s, 0>> \in Node
  BY ChecksAssumption DEF Node
<1> QED
  BY <1>2 DEF Init, LastUnflagged

LEMMA UnflaggedDies ==
  ASSUME TypeInv, NEW n \in Node, Dies(n)
  PROVE  LastUnflagged'
<1> DEFINE v == [current EXCEPT !.condition[n] = "disconnected"]
<1>1. current' = v
  BY DEF Dies, Happens
<1>2. \A m \in Node : v.condition[m] = IF m = n THEN "disconnected" ELSE current.condition[m]
  BY DEF TypeInv, TypeOK, View
<1> HIDE DEF v
<1> QED
  BY <1>1, <1>2 DEF LastUnflagged

LEMMA UnflaggedStep ==
  ASSUME TypeInv, LastUnflagged, [Next]_vars
  PROVE  LastUnflagged'
<1>1. CASE Gossip \/ UNCHANGED vars
  BY <1>1 DEF Gossip, vars, LastUnflagged
<1>2. ASSUME NEW n \in Node, Kill(n) \/ Crash(n)
      PROVE  LastUnflagged'
  BY <1>2, UnflaggedDies DEF Kill, Crash
<1>3. ASSUME NEW n \in Node, Flag(n)
      PROVE  LastUnflagged'
  BY <1>3, MajorityLives DEF Flag, LastUnflagged
<1>4. ASSUME NEW n \in Node, Restart(n)
      PROVE  LastUnflagged'
  BY <1>4 DEF Restart, LastUnflagged
<1>5. ASSUME NEW s \in Shard, Promote(s) \/ Failover(s)
      PROVE  LastUnflagged'
  BY <1>5 DEF Promote, Failover, LastUnflagged
<1> QED
  BY <1>1, <1>2, <1>3, <1>4, <1>5 DEF Next

LEMMA UnflaggedInvariance == Spec => [](TypeInv /\ LastUnflagged)
<1>1. TypeInv /\ LastUnflagged /\ [Next]_vars => LastUnflagged'
  BY UnflaggedStep
<1> QED
  BY <1>1, UnflaggedInit, Invariance, PTL DEF Spec

LEMMA SettledFacts ==
  ASSUME TypeInv, LastUnflagged, Settled
  PROVE  /\ alive # {}
         /\ \A n : ViewOf(n) = current
         /\ Failed(current) = Node \ alive
         /\ Queried(current) = alive
         /\ \A s \in Shard : s \in LiveOwners <=> Members(s) \cap alive # {}
         /\ \A s \in Shard : ClaimedOwners(current, s) = {current.owner[s]}
<1>1. alive # {}
  BY DEF Settled, LastUnflagged
<1>2. \A n : ViewOf(n) = current
  BY DEF Settled, ViewOf
<1>3. Failed(current) = Node \ alive
  BY DEF TypeInv, CurrentInv, Failed
<1>4. Queried(current) = alive
  BY <1>3 DEF Queried, TypeInv, TypeOK
<1>5. \A s \in Shard : s \in LiveOwners <=> Members(s) \cap alive # {}
  BY DEF Settled, LiveOwners, TypeInv, CurrentInv
<1>6. \A s \in Shard : ClaimedOwners(current, s) = {current.owner[s]}
  BY <1>1, <1>2, <1>4 DEF ClaimedOwners
<1> QED
  BY <1>1, <1>2, <1>3, <1>4, <1>5, <1>6

\* Settled and hit by chaos alone, the failed nodes are the killed ones, and
\* the shards that are not served are those that were killed completely.
LEMMA ChaosFacts ==
  ASSUME TypeInv, LastUnflagged, Settled, ChaosOnly
  PROVE  /\ Failed(current) = killed
         /\ killed = Node \ alive
         /\ \A s \in Shard : s \in LiveOwners <=> s \notin FullyKilled
<1>1. Failed(current) = killed /\ killed = Node \ alive
  BY SettledFacts DEF ChaosOnly
<1>2. \A s \in Shard : Members(s) \subseteq killed <=> Members(s) \cap alive = {}
  BY <1>1 DEF Members
<1> QED
  BY <1>1, <1>2, SettledFacts DEF FullyKilled

\* No living replica is without its master, so only killed replicas are
\* disconnected.
LEMMA OnlyKilledDisconnected ==
  ASSUME TypeInv, LastUnflagged, Settled, ChaosOnly
  PROVE  LinkDown(current) = {} /\ Disconnected(current) = ListedReplicas(current) \cap killed
<1>1. ASSUME NEW n \in LinkDown(current)
      PROVE  FALSE
  <2>1. n \in Node /\ n \in alive /\ n \notin current.masters
    BY <1>1, SettledFacts DEF LinkDown, ListedReplicas
  <2>2. current.owner[ShardOf(n)] \in (Node \ alive) \cup {n}
    BY <1>1 DEF LinkDown
  <2>3. ShardOf(n) \in Shard /\ n \in Members(ShardOf(n))
    BY <2>1, NodeType
  <2>4. current.owner[ShardOf(n)] \in current.masters
    BY <2>3 DEF TypeInv, CurrentInv
  <2>5. ShardOf(n) \in LiveOwners
    BY <2>1, <2>3, SettledFacts
  <2> QED
    BY <2>1, <2>2, <2>4, <2>5 DEF LiveOwners
<1>2. Queried(current) = alive /\ killed = Node \ alive
  BY SettledFacts, ChaosFacts
<1>3. LinkDown(current) = {}
  BY <1>1
<1> QED
  BY <1>2, <1>3 DEF Disconnected, ListedReplicas

LEMMA ReplicationPasses ==
  ASSUME TypeInv, LastUnflagged, Settled, ChaosOnly, ListedReplicas(current) # {}
  PROVE  Replication(current)
<1> DEFINE gone == ListedReplicas(current) \cap killed
<1>1. Disconnected(current) = gone
  BY OnlyKilledDisconnected
<1>2. UnexpectedDisconnections(current) = {}
  BY <1>1 DEF UnexpectedDisconnections
<1>3. UnexpectedSurvivals(current) = {}
  BY <1>1 DEF UnexpectedSurvivals
<1>4. ~RedundancyLost(current)
  BY <1>1 DEF RedundancyLost
<1> QED
  BY <1>2, <1>3, <1>4 DEF Replication, ReplicationError

LEMMA SlotCoveragePasses ==
  ASSUME TypeInv, LastUnflagged, Settled, ChaosOnly
  PROVE  SlotCoverage(current)
<1>1. Queried(current) # {}
  BY SettledFacts
<1>2. SlotsOnKilled(current) = {}
  BY SettledFacts, ChaosFacts DEF SlotsOnKilled, LiveOwners
<1>3. ~SlotConflict(current)
  <2>1. ASSUME NEW s \in Shard
        PROVE  Cardinality(ClaimedOwners(current, s)) = 1
    <3>1. Cardinality({current.owner[s]}) = 1
      BY FS_Singleton
    <3> QED
      BY <3>1, SettledFacts
  <2> QED
    BY <2>1 DEF SlotConflict
<1> QED
  BY <1>1, <1>2, <1>3 DEF SlotCoverage

LEMMA ViewsAgree ==
  ASSUME TypeInv, LastUnflagged, Settled, NEW n
  PROVE  ViewConsistency(current, n)
<1>1. ~SplitBrain(current)
  BY SettledFacts DEF SplitBrain
<1>2. Queried(current) # {}
  BY SettledFacts
<1>3. \A m : ~UnexpectedDiscrepancy(ViewOf(n), ViewOf(m))
  BY SettledFacts DEF UnexpectedDiscrepancy
<1> QED
  BY <1>1, <1>2, <1>3 DEF ViewConsistency

\* The living nodes with the master flag are as many as the served shards.
LEMMA LivePrimariesCounted ==
  ASSUME TypeInv
  PROVE  Cardinality(current.masters \cap alive) = Cardinality(LiveOwners)
<1> DEFINE M == current.masters \cap alive
<1> DEFINE f == [s \in LiveOwners |-> current.owner[s]]
<1>1. \A s \in LiveOwners : current.owner[s] \in M /\ ShardOf(current.owner[s]) = s
  BY MemberType DEF LiveOwners, TypeInv, CurrentInv
<1>2. f \in Injection(LiveOwners, M)
  <2>1. f \in [LiveOwners -> M]
    BY <1>1
  <2>2. \A s, t \in LiveOwners : f[s] = f[t] => s = t
    BY <1>1
  <2> HIDE DEF f, M
  <2> QED
    BY <2>1, <2>2 DEF Injection, IsInjective
<1>3. IsFiniteSet(M) /\ IsFiniteSet(LiveOwners)
  BY EnoughMasters, NodesFinite, FS_Subset DEF LiveOwners
<1> HIDE DEF f, M
<1>4. Cardinality(LiveOwners) <= Cardinality(M)
  BY <1>2, <1>3, FS_Injection
<1>5. Cardinality(LiveOwners) \in Nat /\ Cardinality(M) \in Nat
  BY <1>3, FS_CardinalityType
<1>6. Cardinality(M) <= Cardinality(LiveOwners)
  BY LivingMastersServe DEF M
<1> QED
  BY <1>4, <1>5, <1>6 DEF M

\* With the role of every killed node on record, the killed nodes are the
\* killed primaries and the killed replicas.
LEMMA KilledByRole ==
  ASSUME TypeOK, Failed(current) = killed
  PROVE  /\ IsFiniteSet(killed)
         /\ Cardinality(killed) = Cardinality(KilledWithRole(current, "primary"))
                                  + Cardinality(KilledWithRole(current, "replica"))
<1> DEFINE P == KilledWithRole(current, "primary")
           R == KilledWithRole(current, "replica")
<1>1. killed = P \cup R /\ P \cap R = {}
  BY DEF KilledWithRole, TypeOK
<1>2. IsFiniteSet(killed) /\ IsFiniteSet(P) /\ IsFiniteSet(R)
  <2>1. IsFiniteSet(killed)
    BY NodesFinite, FS_Subset DEF TypeOK
  <2> QED
    BY <1>1, <2>1, FS_Subset
<1> HIDE DEF P, R
<1>3. Cardinality(killed) = Cardinality(P) + Cardinality(R) - Cardinality(P \cap R)
  BY <1>1, <1>2, FS_Union
<1>4. Cardinality(P \cap R) = 0
  BY <1>1, FS_EmptySet
<1>5. Cardinality(P) \in Nat /\ Cardinality(R) \in Nat
  BY <1>2, FS_CardinalityType
<1>6. Cardinality(killed) = Cardinality(P) + Cardinality(R)
  BY <1>3, <1>4, <1>5
<1> QED
  BY <1>2, <1>6 DEF P, R

LEMMA NodesCounted ==
  Cardinality(Node) = Replicas * Cardinality(Shard) + Cardinality(Shard)
<1>1. IsFiniteSet(0 .. Replicas) /\ Cardinality(0 .. Replicas) = Replicas + 1
  <2>1. 0 \in Int /\ Replicas \in Int /\ ~(0 > Replicas) /\ Replicas - 0 + 1 = Replicas + 1
    BY ChecksAssumption
  <2>2. /\ IsFiniteSet(0 .. Replicas)
        /\ Cardinality(0 .. Replicas) = IF 0 > Replicas THEN 0 ELSE Replicas - 0 + 1
    BY <2>1, FS_Interval
  <2> QED
    BY <2>1, <2>2
<1>2. Cardinality(Node) = Cardinality(Shard) * (Replicas + 1)
  BY <1>1, ChecksAssumption, FS_Product DEF Node
<1>3. Cardinality(Shard) \in Nat /\ Replicas \in Nat
  BY ChecksAssumption, FS_CardinalityType
<1>4. \A a, b \in Nat : a * (b + 1) = b * a + a
  OBVIOUS
<1> QED
  BY <1>2, <1>3, <1>4

LEMMA ReplicasExist ==
  ASSUME TypeInv, ListedReplicas(current) # {}
  PROVE  Replicas # 0
<1> SUFFICES ASSUME Replicas = 0
             PROVE  FALSE
  OBVIOUS
<1>1. PICK n \in Node : n \notin current.masters
  BY DEF ListedReplicas
<1>2. \A m \in Node : ShardOf(m) \in Shard /\ m = <<ShardOf(m), 0>>
  BY DEF Node, ShardOf
<1>3. current.owner[ShardOf(n)] \in Node /\ ShardOf(current.owner[ShardOf(n)]) = ShardOf(n)
  BY <1>2, MemberType DEF TypeInv, CurrentInv
<1>4. current.owner[ShardOf(n)] = n
  BY <1>2, <1>3
<1> QED
  BY <1>1, <1>2, <1>4 DEF TypeInv, CurrentInv

\* The arithmetic of the expected topology comes out right: what it expects is
\* what is left.
LEMMA TopologyPasses ==
  ASSUME TypeInv, LastUnflagged, Settled, ChaosOnly, RolesRecorded,
         ListedReplicas(current) # {}
  PROVE  Topology(current)
<1> DEFINE shards   == Cardinality(Shard)
           served   == Cardinality(LiveOwners)
           lost     == Cardinality(FullyKilled)
           nodes    == Cardinality(Node)
           living   == Cardinality(alive)
           dead     == Cardinality(killed)
           primary  == Cardinality(KilledWithRole(current, "primary"))
           replica  == Cardinality(KilledWithRole(current, "replica"))
           planned  == Replicas * shards
<1>1. Failed(current) = killed /\ killed = Node \ alive
  BY ChaosFacts
<1>2. KilledPrimaryShards(current) = FullyKilled
  <2>1. ASSUME NEW s \in FullyKilled
        PROVE  s \in {ShardOf(n) : n \in KilledWithRole(current, "primary")}
    <3>1. PICK n \in Members(s) : roleAtDeath[n] = "primary"
      BY DEF RolesRecorded
    <3>2. n \in KilledWithRole(current, "primary") /\ ShardOf(n) = s
      BY <1>1, <2>1, <3>1, MemberType DEF KilledWithRole, FullyKilled
    <3> QED
      BY <3>2
  <2> QED
    BY <2>1 DEF KilledPrimaryShards
<1>3. Replicas # 0
  BY ReplicasExist
<1>4. /\ IsFiniteSet(Node) /\ IsFiniteSet(Shard) /\ IsFiniteSet(alive) /\ IsFiniteSet(killed)
      /\ IsFiniteSet(LiveOwners) /\ IsFiniteSet(FullyKilled)
      /\ IsFiniteSet(KilledWithRole(current, "primary"))
      /\ IsFiniteSet(KilledWithRole(current, "replica"))
  <2>1. alive \subseteq Node /\ killed \subseteq Node
    BY DEF TypeInv, TypeOK
  <2>2. LiveOwners \subseteq Shard /\ FullyKilled \subseteq Shard
    BY DEF LiveOwners, FullyKilled
  <2>3. \A r : KilledWithRole(current, r) \subseteq Node
    BY DEF KilledWithRole, Failed
  <2> QED
    BY <2>1, <2>2, <2>3, NodesFinite, FS_Subset
<1>5. /\ shards \in Nat /\ served \in Nat /\ lost \in Nat /\ nodes \in Nat /\ living \in Nat
      /\ dead \in Nat /\ primary \in Nat /\ replica \in Nat
  BY <1>4, FS_CardinalityType
<1>6. planned \in Nat
  BY <1>5, ChecksAssumption
<1>7. shards = served + lost
  <2>1. LiveOwners \cup FullyKilled = Shard /\ LiveOwners \cap FullyKilled = {}
    BY ChaosFacts DEF LiveOwners, FullyKilled
  <2>2. Cardinality(LiveOwners \cup FullyKilled) = served + lost - Cardinality(LiveOwners \cap FullyKilled)
    BY <1>4, FS_Union
  <2>3. Cardinality(LiveOwners \cap FullyKilled) = 0
    BY <2>1, FS_EmptySet
  <2>4. shards = served + lost - 0
    BY <2>1, <2>2, <2>3
  <2> HIDE DEF shards, served, lost
  <2> QED
    BY <1>5, <2>4
<1>8. nodes = living + dead
  <2>1. alive \cup killed = Node /\ alive \cap killed = {}
    BY <1>1 DEF TypeInv, TypeOK
  <2>2. Cardinality(alive \cup killed) = living + dead - Cardinality(alive \cap killed)
    BY <1>4, FS_Union
  <2>3. Cardinality(alive \cap killed) = 0
    BY <2>1, FS_EmptySet
  <2>4. nodes = living + dead - 0
    BY <2>1, <2>2, <2>3
  <2> HIDE DEF nodes, living, dead
  <2> QED
    BY <1>5, <2>4
<1>9. dead = primary + replica
  BY <1>1, KilledByRole DEF TypeInv
<1>10. nodes = planned + shards
  BY NodesCounted
<1>11. Cardinality(LivePrimaries(current)) = served
  <2>1. LivePrimaries(current) = current.masters \cap alive
    BY <1>1 DEF LivePrimaries, TypeInv, TypeOK, View
  <2> QED
    BY <2>1, LivePrimariesCounted
<1>12. Cardinality(LiveReplicas(current)) = living - served
  <2>1. LiveReplicas(current) = alive \ current.masters
    BY <1>1 DEF LiveReplicas, ListedReplicas, TypeInv, TypeOK
  <2>2. Cardinality(alive \ current.masters) = living - Cardinality(alive \cap current.masters)
    BY <1>4, FS_Difference
  <2>3. alive \cap current.masters = current.masters \cap alive
    OBVIOUS
  <2> QED
    BY <2>1, <2>2, <2>3, LivePrimariesCounted
<1>13. served <= living
  <2>1. Cardinality(current.masters \cap alive) <= living
    BY <1>4, FS_Intersection
  <2> QED
    BY <2>1, LivePrimariesCounted
<1>14. AdjustedPrimaries(current) = shards - lost
  BY <1>2, <1>3 DEF AdjustedPrimaries
<1>15. AdjustedReplicas(current) = living - served
  <2> DEFINE expected == planned - replica - (primary - lost)
  <2>1. AdjustedReplicas(current) = IF expected < 0 THEN 0 ELSE expected
    BY <1>2, <1>3 DEF AdjustedReplicas
  <2> HIDE DEF shards, served, lost, nodes, living, dead, primary, replica, planned
  <2>2. expected = living - served
    BY <1>5, <1>6, <1>7, <1>8, <1>9, <1>10
  <2>3. living - served >= 0
    BY <1>5, <1>13
  <2> QED
    BY <1>5, <2>1, <2>2, <2>3
<1>16. UnexpectedFailures(current) = {}
  BY <1>1 DEF UnexpectedFailures
<1>17. shards - lost = served
  <2> HIDE DEF shards, served, lost
  <2> QED
    BY <1>5, <1>7
<1> QED
  BY <1>11, <1>12, <1>14, <1>15, <1>16, <1>17 DEF Topology

\* Theorem: the replication, slot, topology and view checks pass when the
\* cluster has recovered from chaos alone, for any size of cluster and any
\* history of kills and failovers (state_validator.py:112, :761, :1073, :1423).
THEOREM ChaosRaisesNoAlarm == Spec => []NoFalseAlarm
<1>1. ASSUME TypeInv, LastUnflagged
      PROVE  NoFalseAlarm
  BY <1>1, ReplicationPasses, SlotCoveragePasses, TopologyPasses, ViewsAgree DEF NoFalseAlarm
<1> QED
  BY <1>1, UnflaggedInvariance, PTL

----------------------------------------------------------------------------

\* Some state is the most common one.
LEMMA SomeStateWins ==
  ASSUME TypeOK
  PROVE  OverallStates # {}
<1> DEFINE states   == {"ok", "fail", "unknown"}
           votes(st) == Cardinality({n \in alive : StateAt(n) = st})
<1>1. \A st \in states : votes(st) \in Nat
  <2>1. ASSUME NEW st \in states
        PROVE  votes(st) \in Nat
    <3>1. IsFiniteSet(alive)
      BY NodesFinite, FS_Subset DEF TypeOK
    <3>2. IsFiniteSet({n \in alive : StateAt(n) = st})
      BY <3>1, FS_Subset
    <3> QED
      BY <3>2, FS_CardinalityType
  <2> QED
    BY <2>1
<1>2. OverallStates = {st \in states : \A other \in states : votes(st) >= votes(other)}
  BY DEF OverallStates
<1> HIDE DEF votes
<1>3. \E st \in states : \A other \in states : votes(st) >= votes(other)
  BY <1>1
<1> QED
  BY <1>2, <1>3

\* Theorem: a killed node that runs again fails some check when another node is
\* down or when it serves slots although members of its shard were spared
\* (state_validator.py:317, :673).
THEOREM SurvivorsFound == Spec => []SurvivorsReported
<1>1. ASSUME TypeInv, LastUnflagged
      PROVE  SurvivorsReported
  <2> SUFFICES ASSUME Settled, killed \cap alive # {},
                      \/ Failed(current) # {}
                      \/ \E s \in Shard \ FullyKilled : current.owner[s] \in killed
               PROVE  ~Passes(current)
    BY DEF SurvivorsReported
  <2>1. CASE Failed(current) # {}
    <3>1. ~KilledMatchFailed(current)
      BY <1>1, SettledFacts DEF KilledMatchFailed
    <3>2. \A st : ~ClusterStatus(current, st)
      BY <2>1, <3>1 DEF ClusterStatus
    <3> QED
      BY <1>1, <3>2, SomeStateWins DEF Passes, TypeInv
  <2>2. CASE \E s \in Shard \ FullyKilled : current.owner[s] \in killed
    <3>1. SlotsOnKilled(current) # {}
      BY <1>1, <2>2, SettledFacts DEF SlotsOnKilled
    <3> QED
      BY <3>1 DEF Passes, SlotCoverage
  <2> QED
    BY <2>1, <2>2
<1> QED
  BY <1>1, UnflaggedInvariance, PTL

\* Theorem: a validation that passes certifies that nobody died but by chaos,
\* that what chaos left is served, and a majority, for any cluster and history
\* (state_validator.py:2590).
THEOREM PassIsCertificate == Spec => []PassCertifiesHealth
<1>1. ASSUME TypeInv, CrashIsCritical, UnservedSlotsReported, QuorumNotOverstated
      PROVE  PassCertifiesHealth
  <2>1. SUFFICES ASSUME NEW n \in alive \ behind, Passes(ViewOf(n))
                 PROVE  /\ Node \ alive \subseteq killed
                        /\ Shard \ FullyKilled \subseteq LiveOwners
                        /\ behind = {} => Cardinality(LiveOwners) >= Majority
    BY DEF PassCertifiesHealth
  <2>2. PICK st \in OverallStates : TRUE
    BY <1>1, SomeStateWins DEF TypeInv
  <2>3. Node \ alive \subseteq killed
    BY <1>1, <2>1, <2>2 DEF CrashIsCritical, Passes
  <2>4. Shard \ FullyKilled \subseteq LiveOwners
    <3>1. SUFFICES ASSUME NEW s \in Shard \ FullyKilled, s \notin LiveOwners
                   PROVE  FALSE
      OBVIOUS
    <3>2. current.owner[s] \in Node \ alive
      BY <1>1, <3>1, MemberType DEF TypeInv, CurrentInv, LiveOwners
    <3> QED
      BY <1>1, <2>1, <2>3, <3>1, <3>2 DEF UnservedSlotsReported, Passes
  <2>5. ASSUME behind = {}
        PROVE  Cardinality(LiveOwners) >= Majority
    <3>1. ViewOf(n) = current
      BY <2>1 DEF ViewOf
    <3>2. HasQuorum(current)
      BY <2>1, <2>2, <3>1 DEF Passes, ClusterStatus
    <3> QED
      BY <1>1, <2>5, <3>2 DEF QuorumNotOverstated
  <2> QED
    BY <2>3, <2>4, <2>5
<1> QED
  BY <1>1, Invariance, CrashReported, UnservedReported, QuorumHonest, PTL
=============================================================================
