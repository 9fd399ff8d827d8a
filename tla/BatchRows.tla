----------------------------- MODULE BatchRows -----------------------------
(***************************************************************************)
(* ObBatchRows: a batch of s positions and the set of the positions that   *)
(* its skip bits exclude.                                                  *)
(***************************************************************************)
EXTENDS Integers, FiniteSets

\* How many of the s positions are not skipped, and the k-th of them.
Active(s, skip) == Cardinality((1..s) \ skip)
ActiveAt(s, skip, k) ==
  CHOOSE i \in (1..s) \ skip : Cardinality((1..i) \ skip) = k
=============================================================================
