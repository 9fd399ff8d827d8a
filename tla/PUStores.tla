------------------------------ MODULE PUStores ------------------------------
(***************************************************************************)
(* The buffers of the prediction operator (ob_python_udf_op.h/.cpp), as    *)
(* operators on records.                                                   *)
(*                                                                         *)
(*   cell   one ObPythonUDFCell with its ObPUInputStore: the arguments of  *)
(*          one Python UDF, waiting to be evaluated, and the array of      *)
(*          results that the evaluation left behind;                       *)
(*   col    the ObColInputStore: the child's other columns, kept beside    *)
(*          the cells until the results are handed to the parent.          *)
(*                                                                         *)
(* A stored value is named by the child row it was computed from, so a     *)
(* buffer is a sequence of row numbers; NoRow is a value that belongs to   *)
(* no row.  Payload copies, types and allocators are left out.             *)
(***************************************************************************)
EXTENDS Naturals, Sequences

NoRow == 0

Cell == [expr : Nat, inited : BOOLEAN, length : Nat, saved : Seq(Nat),
         desirable : Nat, result : Seq(Nat), resultSize : Nat]

Col == [length : Nat, saved : Seq(Nat), outIdx : Nat]

-----------------------------------------------------------------------------
(* ObPythonUDFCell and ObPUInputStore *)

\* ObPythonUDFCell::init: a store of n rows and the plan's predict size.
CellInit(e, n, predict) ==
  [expr |-> e, inited |-> TRUE, length |-> n, saved |-> <<>>,
   desirable |-> predict, result |-> <<>>, resultSize |-> 0]

\* Variant: saved_size_ is not reset.
CellReuseKeepsRows(s) == s

\* ObPUInputStore::reuse
CellReuse(s) == [s EXCEPT !.saved = <<>>]

\* ObPUInputStore::free
StoreFree(s) == [s EXCEPT !.length = 0, !.saved = <<>>, !.inited = FALSE]

\* ObPythonUDFCell::free
CellFree(s) == [s EXCEPT !.length = 0, !.saved = <<>>, !.inited = FALSE,
                         !.result = <<>>, !.resultSize = 0]

\* ObPUInputStore::reset when the memory it asks for is granted.  A store
\* that is too short is freed and allocated again, so it is inited afterwards.
CellReset(s, n) ==
  IF n <= s.length THEN CellReuse(s)
  ELSE [s EXCEPT !.length = n, !.saved = <<>>, !.inited = TRUE]

\* The tests of ObPUInputStore::save_batch before it copies n rows.
CellFits(s, n) == Len(s.saved) + n <= s.length
CellAccepts(s, n) == s.inited /\ CellFits(s, n)

CellSave(s, rows) == [s EXCEPT !.saved = @ \o rows]

\* Variant: the last slice is not cut to the rows that are left.
EvalSizeUncapped(s, i) == s.desirable

\* The rows that the next call of the UDF evaluates (wrap_input_numpy).
EvalSize(s, i) ==
  IF i + s.desirable < Len(s.saved) THEN s.desirable ELSE Len(s.saved) - i

\* Variant: result_store_ is not cleared.
CellStartKeepsResult(s) == [s EXCEPT !.resultSize = 0]

\* do_process, before its loop.
CellStart(s) == [s EXCEPT !.result = <<>>, !.resultSize = 0]

\* ObPythonUDFCell::eval and the end of modify_desirable: the returned array
\* is appended to the results, and the cell counts n rows as evaluated
\* whatever the length of that array.
CellAbsorb(s, values, n, predict) ==
  [s EXCEPT !.result = @ \o values, !.resultSize = @ + n, !.desirable = predict]

\* The value do_restore reads at position i of the result array.
ResultAt(s, i) == IF i <= Len(s.result) THEN s.result[i] ELSE NoRow

-----------------------------------------------------------------------------
(* ObColInputStore *)

ColInit(n) == [length |-> n, saved |-> <<>>, outIdx |-> 0]

ColReuse(s) == [s EXCEPT !.saved = <<>>, !.outIdx = 0]

ColReset(s, n) ==
  IF n <= s.length THEN ColReuse(s)
  ELSE [s EXCEPT !.length = n, !.saved = <<>>, !.outIdx = 0]

ColFits(s, n) == Len(s.saved) + n <= s.length

ColSave(s, rows) == [s EXCEPT !.saved = @ \o rows]

\* Variant: output_idx_ is not advanced.
ColLoadStays(s, n) == s

\* The test of load_vector, and its effect.
ColHas(s, n) == s.outIdx + n <= Len(s.saved)
ColLoad(s, n) == [s EXCEPT !.outIdx = @ + n]
=============================================================================
