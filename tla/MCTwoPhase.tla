----------------------------- MODULE MCTwoPhase -----------------------------
(***************************************************************************)
(* Instances of TwoPhaseCommit: a root with two leaves, a root with a      *)
(* chain below it, a root with one leaf.                                   *)
(***************************************************************************)
EXTENDS TwoPhaseCommit

CONSTANTS r, a, b

Star == [q \in {a, b} |-> r]
Chain == [q \in {a, b} |-> IF q = a THEN r ELSE a]
Pair == [q \in {a} |-> r]
=============================================================================
