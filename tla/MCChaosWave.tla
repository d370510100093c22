----------------------------- MODULE MCChaosWave -----------------------------
(* Instances of ChaosWave for TLC: the smallest cluster the scenario       *)
(* validator accepts (three shards), one replica each, and two threads.    *)
EXTENDS ChaosWave, TLC

CONSTANTS p1, r1, p2, r2, p3, r3, s1, s2, s3, t1, t2

Node3 == {p1, r1, p2, r2, p3, r3}
ShardOf3 == p1 :> s1 @@ r1 :> s1 @@ p2 :> s2 @@ r2 :> s2 @@ p3 :> s3 @@ r3 :> s3

Select(strategy) == [strategy |-> strategy, nodes |-> {}]

\* A scenario without randomisation: random targets, given phases and delays.
Fixed(phases, raises) ==
  [selection |-> Select("random"), phases |-> phases, raises |-> raises]

\* Whatever phases a scenario without names asks for, randomised per operation.
Randomised == RandomizeChaosConfig(Fixed({"before", "during"}, {}))

\* Enough of these for two waves: chaos at once or deferred, on any node or on a
\* primary.
Sampled ==
  {c \in Randomised : "before" \notin c.phases /\ c.selection.strategy # "replica_only"}

\* Hand-written scenarios with no phase, one phase and a malformed delay;
\* randomising a delay that is no number raises whatever the phase.
Malformed ==
  {Fixed({}, {}), Fixed({"during"}, {}), Fixed({"before"}, {"before"}),
   Fixed({"after"}, {"schedule"}), Fixed({"after"}, {"after"}),
   Fixed({"during"}, {"timing"}), Fixed({"after"}, {"timing"})}

\* Hand-written scenarios that combine phases.  chaos_during_operation is TRUE
\* unless the scenario switches it off.
BeforeAndDuring == {Fixed({"before", "during"}, {})}
AllPhases ==
  {Fixed(ps, {}) : ps \in SUBSET Phase \ {{}}} \cup {Fixed({"during", "after"}, {"schedule"})}
Written == AllPhases \cup Malformed

\* A scenario that names its victims: both members of one shard.
Named ==
  {[selection |-> [strategy |-> "specific", nodes |-> {p1, r1}],
    phases |-> {"during"}, raises |-> {}]}
MalformedOrNamed == Malformed \cup Named

\* Renaming a shard together with its nodes, and renaming threads, maps
\* behaviours to behaviours.
Symmetry ==
  {[x \in Node \cup Shard \cup Thread |->
      IF x \in Shard THEN shards[x]
      ELSE IF x \in Thread THEN threads[x]
      ELSE CHOOSE n \in Node : /\ ShardOf[n] = shards[ShardOf[x]]
                               /\ n \in InitialPrimaries <=> x \in InitialPrimaries] :
     shards \in Permutations(Shard), threads \in Permutations(Thread)}
=============================================================================
