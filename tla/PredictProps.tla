---------------------------- MODULE PredictProps ----------------------------
(***************************************************************************)
(* The correctness properties of the prediction operator.                  *)
(***************************************************************************)
EXTENDS PredictOp

-----------------------------------------------------------------------------
(* Types *)

Errors == {"none", "alloc", "reinit", "child", "argument", "python",
           "overflow", "unsaved", "unprocessed", "restore"}

Frame == [1..MaxBatch -> Nat]

Answer == [row : Nat, udf : [Udf -> Nat], proj : Nat]

\* Every variable of the operator, its stores and its controller stays in the
\* range that its C++ type and its role give it.
TypeOK ==
  /\ pc \in {"unopened", "idle", "again", "fill", "process", "wrap", "python",
             "restore", "failed", "closed"}
  /\ err \in Errors
  /\ total \in 0..MaxRows /\ pulled \in 0..MaxRows
  /\ brsEnd \in BOOLEAN
  /\ maxRows \in 0..MaxBatch
  /\ ncells \in Nat /\ cells \in [Cells -> Cell] /\ other \in Col
  /\ desirable \in Nat /\ storedIn \in Nat /\ storedOut \in Nat
  /\ outIdx \in Nat
  /\ cur \in Nat /\ idx \in Nat /\ evalSize \in Nat
  /\ info \in [Udf -> [predict : Nat, tuned : BOOLEAN, round : Nat]]
  /\ args \in [evaluated : BOOLEAN, flags : SUBSET (1..MaxBatch), vals : Frame]
  /\ proj \in [projected : BOOLEAN, vals : Frame]
  /\ filt \in [evaluated : BOOLEAN, flags : SUBSET (1..MaxBatch), vals : Frame]
  /\ out \in Seq(Answer)
  /\ rescans \in Nat /\ peers \in Nat

-----------------------------------------------------------------------------
(* Safety *)

\* A batch of the child always fits: either it is no larger than the
\* prediction size that the plan starts from (is_full leaves room for one
\* prediction size in the doubled buffer), or it fits in half of the
\* DEFAULT_PU_LENGTH rows that a store has and, as long as no rescan has
\* freed it, keeps.
BatchFits ==
  \/ \A p \in StartPredicts : MaxBatch <= p
  \/ InputCols > 0 /\ 2 * MaxBatch <= DefaultLength

\* The checks that the code makes of its own bookkeeping never fire: save_batch
\* and save_vector find room ("ObPUDataStore Stack Overflow", "Other Input
\* Store overflow"), every cell holds the rows that the controller counted
\* ("Unsaved input rows"), evaluates all of them ("Unprocessed input rows") and
\* has results for what is restored ("Result Store Overflow", "Not enough data
\* to load").
NoInternalError == err \notin {"overflow", "unsaved", "unprocessed", "restore"}

\* A cell whose store has room for the doubled prediction size.
Ready(c) == cells[c].inited /\ cells[c].length >= BufferMag * desirable

\* The controller's counters agree with its stores.  While the buffer is
\* filled, every store holds storedIn rows, and has room for the doubled
\* prediction size, unless resize() got no memory for some cell b, which then
\* refuses the first batch.
FillSizes ==
  pc = "fill" =>
    /\ storedOut = 0 /\ outIdx = 0 /\ other.outIdx = 0
    /\ Len(other.saved) = storedIn
    /\ \A c \in Cells : Len(cells[c].saved) = storedIn
    /\ \E b \in 1..(ncells + 1) :
         /\ \A c \in 1..(b - 1) : Ready(c)
         /\ b <= ncells => ~cells[b].inited /\ storedIn = 0 /\ ~brsEnd
         /\ b = ncells + 1 => other.length >= BufferMag * desirable

\* While the cells are processed, those before cur are emptied and have
\* storedIn results, those from cur on still hold all rows, and cur has as many
\* results as the loop of do_process has advanced.
ProcessSizes ==
  pc \in {"process", "wrap", "python"} =>
    /\ cur \in Cells
    /\ storedOut = 0 /\ outIdx = 0 /\ other.outIdx = 0
    /\ Len(other.saved) = storedIn
    /\ \A c \in Cells :
         /\ c < cur => cells[c].saved = <<>> /\ cells[c].resultSize = storedIn
         /\ c >= cur => Len(cells[c].saved) = storedIn
    /\ pc # "process" => cells[cur].resultSize = idx /\ idx <= storedIn
    /\ pc = "python" => idx + evalSize <= storedIn

\* Otherwise the cells are empty, and other_store_ holds the rows of the
\* results that are still to be restored, or nothing.
OutputSizes ==
  pc \in {"unopened", "idle", "again", "restore"} =>
    /\ storedIn = 0
    /\ \A c \in Cells : cells[c].saved = <<>>
    /\ CanOutput => /\ Len(other.saved) = storedOut /\ other.outIdx = outIdx
                    /\ \A c \in Cells : cells[c].resultSize = storedOut
    /\ ~CanOutput => other.saved = <<>> /\ other.outIdx = 0
    /\ pc = "again" => ~brsEnd

\* The counters of ObPUStoreController describe what its stores contain, in
\* every state between two steps of inner_get_next_batch.
SizesAgree == FillSizes /\ ProcessSizes /\ OutputSizes

\* The rows waiting in other_store_ are the last ones that the child
\* delivered, in its order, and every cell holds the argument or the result of
\* exactly those rows at the same positions: store, process and restore keep
\* the stores of the operator aligned.
StoresAligned ==
  /\ \A k \in 1..Len(other.saved) :
       other.saved[k] = pulled - Len(other.saved) + k
  /\ pc = "fill" =>
       \A c \in Cells : cells[c].saved = other.saved
  /\ pc \in {"process", "wrap", "python"} =>
       \A c \in Cells : /\ c < cur => cells[c].result = other.saved
                        /\ c > cur => cells[c].saved = other.saved
  /\ pc \in {"wrap", "python"} =>
       cells[cur].result = SubSeq(other.saved, 1, idx)
  /\ pc \in {"idle", "again", "restore"} /\ CanOutput =>
       \A c \in Cells : cells[c].result = other.saved

\* A Python function is never called on an empty slice of the buffer, nor on
\* rows beyond it (wrap_input_numpy, do_process).
SlicesInBuffer ==
  pc = "python" => evalSize >= 1 /\ idx + evalSize <= storedIn

\* resize() and reuse() throw the buffered rows away, which they may do only
\* when all of them have been handed to the parent: the step that empties
\* other_store_ is the one that delivers its last rows, unless the scan starts
\* anew.
DropsOnlyDelivered ==
  [][Len(other'.saved) < Len(other.saved) /\ rescans' = rescans
       => outIdx' = Len(other.saved) /\ pulled' = pulled]_vars

-----------------------------------------------------------------------------
(* The stream that the parent sees *)

StreamState ==
  CASE pc \in {"unopened", "failed", "closed"} -> pc
    [] pc = "idle" /\ brsEnd -> "end"
    [] OTHER -> "open"

\* The rows of the child that have left the operator or were filtered out.
Delivered == pulled - (Len(other.saved) - other.outIdx)

Stream == INSTANCE PredictStream
          WITH st <- StreamState, next <- Delivered, emitted <- out

\* The operator implements the stream of right answers of PredictStream.
ImplementsStream == Stream!Spec

\* The parent has received the right answers, complete and in order.
RightAnswers == Stream!RightAnswers

-----------------------------------------------------------------------------
(* Liveness *)

\* A scan that the parent keeps asking for comes to its end, unless it fails
\* or is closed: the fill loop, the loop of do_process and the loop over
\* filtered batches all terminate.
ScanEnds == pc = "idle" ~> (pc \in {"failed", "closed"} \/ (pc = "idle" /\ brsEnd))

=============================================================================
