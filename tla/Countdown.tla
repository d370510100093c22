------------------------------ MODULE Countdown ------------------------------
(***************************************************************************)
(* How it is stated that something runs out, whatever the clock and the    *)
(* cluster do: what is left of it is a tuple of natural numbers, and every *)
(* step makes the tuple less.                                              *)
(***************************************************************************)
EXTENDS Integers

\* What may be left, in n numbers, the most important first.
Amounts(n) == [1 .. n -> Nat]

\* The lexicographic order of such tuples.
Less(a, b) ==
  \E j \in DOMAIN b : a[j] < b[j] /\ \A i \in 1 .. j - 1 : a[i] = b[i]
=============================================================================
