--------------------------- MODULE PredictStream ---------------------------
(***************************************************************************)
(* What the prediction operator promises to its parent, whatever buffering *)
(* and batch sizes happen inside: the child's rows come out in the child's *)
(* order, each one exactly once if the filter selects it, with every UDF's *)
(* result computed from that very row; the end is reported when all rows   *)
(* have been consumed and not before.  An execution may fail at any time,  *)
(* but what it delivered until then is right.                              *)
(***************************************************************************)
EXTENDS BatchRows, Sequences

CONSTANTS NumUdf, Selected, MaxBatch, MaxRows

VARIABLES
  st,       \* "unopened", "open", "end", "failed" or "closed"
  total,    \* rows of the child
  next,     \* rows of the child that have been dealt with
  emitted   \* what the parent has received in this scan

vars == <<st, total, next, emitted>>

\* The output for row r.
Answer(r) == [row |-> r, udf |-> [e \in 1..NumUdf |-> r], proj |-> r]

\* The answers for the selected ones among the n rows after the first b.
Answers(b, n) ==
  LET drop == {i \in 1..n : b + i \notin Selected}
  IN [k \in 1..Active(n, drop) |-> Answer(b + ActiveAt(n, drop, k))]

Init == st = "unopened" /\ total \in 0..MaxRows /\ next = 0 /\ emitted = <<>>

Open == st = "unopened" /\ st' = "open" /\ UNCHANGED <<total, next, emitted>>

\* One batch: the parent sees nothing of it if no row of it is selected.
Consume(n) ==
  /\ st = "open" /\ next + n <= total
  /\ next' = next + n
  /\ emitted' = emitted \o Answers(next, n)
  /\ UNCHANGED <<st, total>>

End == /\ st = "open" /\ next = total
       /\ st' = "end" /\ UNCHANGED <<total, next, emitted>>

Fail == /\ st \in {"unopened", "open", "end"}
        /\ st' = "failed" /\ UNCHANGED <<total, next, emitted>>

Restart == /\ st \in {"open", "end"}
           /\ st' = "open" /\ next' = 0 /\ emitted' = <<>>
           /\ UNCHANGED total

Close == /\ st # "closed"
         /\ st' = "closed" /\ UNCHANGED <<total, next, emitted>>

Next == \/ Open \/ End \/ Fail \/ Restart \/ Close
        \/ \E n \in 1..MaxBatch : Consume(n)

Spec == Init /\ [][Next]_vars

-----------------------------------------------------------------------------
\* How many of the first r rows the filter selects: the place of the answer
\* for row r, if it is selected.
Place(r) == Cardinality(Selected \cap (1..r))

\* What has been emitted are the right answers, one for each selected row up to
\* the last row consumed, in the order of the rows.
RightAnswers ==
  /\ Len(emitted) = Place(next)
  /\ \A r \in Selected \cap (1..next) : emitted[Place(r)] = Answer(r)

\* The end is never reported while a row is missing.
EndIsComplete == st = "end" => next = total
=============================================================================
