----------------------------- MODULE MCFailoverOp -----------------------------
(***************************************************************************)
(* Instances of FailoverOp: two shards of a primary and a replica, so that *)
(* one operation can be in the other's way, on the same shard or not.      *)
(***************************************************************************)
EXTENDS FailoverOp, TLC

CONSTANTS s1, s2, o1

Role(s) == [kind |-> "role", shard |-> s]
Port(n) == [kind |-> "port", node |-> n]

\* The generator names primaries by shard; a written scenario may name ports.
AnyTarget == {Role(s1), Port(<<s1, 0>>), Port(<<s1, 1>>)}

=============================================================================
