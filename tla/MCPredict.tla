----------------------------- MODULE MCPredict -----------------------------
(* Instances of the prediction operator for TLC. *)
EXTENDS PredictDocs

\* Two of three rows satisfy the filter, so some batches are dropped whole.
MCSelected == {r \in 1..MaxRows : r % 3 # 2}
=============================================================================
