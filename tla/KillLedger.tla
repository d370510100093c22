----------------------------- MODULE KillLedger -----------------------------
(***************************************************************************)
(* What chaos injection promises, whoever carries it out: a node is killed *)
(* only under a reservation, a reservation is granted only while another   *)
(* member of the node's shard stays unreserved, and a reservation is given *)
(* back only if its node was not killed.  This is the contract the class   *)
(* documentation of ChaosTargetSelector states (base.py:190-198).          *)
(***************************************************************************)
EXTENDS TLAPS

CONSTANTS Node, Shard, ShardOf

VARIABLES
  reserved,  \* nodes killed or reserved to be killed
  dead       \* nodes whose process was killed

ledgerVars == <<reserved, dead>>

LedgerInit ==
  /\ reserved = {}
  /\ dead = {}

Reserve(n) ==
  /\ n \notin reserved
  /\ \E m \in Node \ reserved : m # n /\ ShardOf[m] = ShardOf[n]
  /\ reserved' = reserved \cup {n}
  /\ UNCHANGED dead

Kill(n) ==
  /\ n \in reserved \ dead
  /\ dead' = dead \cup {n}
  /\ UNCHANGED reserved

Release(n) ==
  /\ n \in reserved \ dead
  /\ reserved' = reserved \ {n}
  /\ UNCHANGED dead

LedgerNext == \E n \in Node : Reserve(n) \/ Kill(n) \/ Release(n)

LedgerSpec == LedgerInit /\ [][LedgerNext]_ledgerVars

\* Every shard that had a member keeps one that is neither dead nor about to
\* be killed.
LedgerSafe ==
  /\ dead \subseteq reserved
  /\ \A k \in Node : \E m \in Node \ reserved : ShardOf[m] = ShardOf[k]

(***************************************************************************)
(* The contract is strong enough: it keeps a survivor in every shard.      *)
(***************************************************************************)
THEOREM LedgerKeepsSurvivors == LedgerSpec => []LedgerSafe
<1>1. LedgerInit => LedgerSafe
  BY DEF LedgerInit, LedgerSafe
<1>2. LedgerSafe /\ [LedgerNext]_ledgerVars => LedgerSafe'
  <2> SUFFICES ASSUME LedgerSafe, [LedgerNext]_ledgerVars
               PROVE  LedgerSafe'
    OBVIOUS
  <2>1. ASSUME NEW n \in Node, Reserve(n)
        PROVE  LedgerSafe'
    BY <2>1 DEF Reserve, LedgerSafe
  <2>2. ASSUME NEW n \in Node, Kill(n)
        PROVE  LedgerSafe'
    BY <2>2 DEF Kill, LedgerSafe
  <2>3. ASSUME NEW n \in Node, Release(n)
        PROVE  LedgerSafe'
    BY <2>3 DEF Release, LedgerSafe
  <2>4. CASE UNCHANGED ledgerVars
    BY <2>4 DEF ledgerVars, LedgerSafe
  <2>5. QED
    BY <2>1, <2>2, <2>3, <2>4 DEF LedgerNext
<1>3. QED
  BY <1>1, <1>2, PTL DEF LedgerSpec
=============================================================================
