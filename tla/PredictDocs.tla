---------------------------- MODULE PredictDocs ----------------------------
(***************************************************************************)
(* What a comment in the source says of the prediction operator, and the   *)
(* operator does not do in every plan: a run finds the behaviour that      *)
(* contradicts it.                                                         *)
(***************************************************************************)
EXTENDS PredictProps

\* inner_get_next_batch, steps 1 to 3 of its comment: for every batch of the
\* child the arguments of the UDF are evaluated and copied to the input
\* buffer.  So the rows in a cell are those beside them in other_store_.
ArgumentsOfTheirRows ==
  pc = "fill" => \A c \in Cells : cells[c].saved = other.saved
=============================================================================
