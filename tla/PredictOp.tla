------------------------------ MODULE PredictOp ------------------------------
(***************************************************************************)
(* ObPythonUDFOp, the prediction operator: it pulls batches of rows from   *)
(* its child, buffers them in an ObPUStoreController until there are       *)
(* enough for an efficient inference, calls the Python UDFs on slices of   *)
(* the buffer, and hands the results back in batches of the size that the  *)
(* parent asks for.                                                        *)
(*                                                                         *)
(* One operator object is modelled, from inner_open to inner_close.  A     *)
(* call of inner_get_next_batch is a chain of steps (pc), because it waits *)
(* for the child and for the Python interpreter in between, and while it   *)
(* is inside the interpreter other sessions that execute the same cached   *)
(* plan may tune the shared ObPythonUdfInfo.                               *)
(***************************************************************************)
EXTENDS PUStores, BatchRows

CONSTANTS
  NumUdf,         \* udf_exprs_.count()
  InputCols,      \* input_exprs_.count(): columns kept in other_store_
  Computed,       \* UDFs whose argument this operator calculates itself
  ComputedProj,   \* does the operator output an expression over a result?
  ComputedFilter, \* does the filter test an expression over a result?
  MaxBatch,       \* spec_.max_batch_size_
  DefaultLength,  \* DEFAULT_PU_LENGTH
  StartPredicts,  \* the predict_size values a plan may start from
  Delta,          \* ObPythonUdfInfo::delta
  RoundLimit,     \* ObPythonUdfInfo::round_limit
  ShortResults,   \* may a Python function return too few values?
  Selected,       \* rows whose result satisfies the operator's filter
  MaxRows,        \* bound: rows of the child
  MaxRescans,     \* bound: calls of rescan
  MaxPeerTunes    \* bound: adjustments made by other sessions

ASSUME ConstantsAssumption ==
  /\ NumUdf \in Nat \ {0}
  /\ InputCols \in Nat
  /\ Computed \subseteq 1..NumUdf
  /\ ComputedProj \in BOOLEAN
  /\ ComputedFilter \in BOOLEAN
  /\ MaxBatch \in Nat \ {0}
  /\ DefaultLength \in Nat \ {0}
  /\ StartPredicts \subseteq Nat
  /\ Delta \in Nat
  /\ RoundLimit \in Nat
  /\ ShortResults \in BOOLEAN
  /\ Selected \subseteq Nat
  /\ MaxRows \in Nat
  /\ MaxRescans \in Nat
  /\ MaxPeerTunes \in Nat

VARIABLES
  pc,         \* where the operator is in its handlers
  err,        \* why pc = "failed"
  total,      \* how many rows the child produces in a scan
  pulled,     \* how many of them this scan has stored
  brsEnd,     \* brs_.end_
  maxRows,    \* max_row_cnt of the current call
  ncells,     \* length of cells_list_
  cells,      \* cells_list_
  other,      \* other_store_
  desirable,  \* ObPUStoreController::desirable_
  storedIn,   \* stored_input_cnt_
  storedOut,  \* stored_output_cnt_
  outIdx,     \* output_idx_
  cur,        \* the cell that process() works on
  idx,        \* idx of do_process
  evalSize,   \* rows given to the Python function that is running
  info,       \* the plan's ObPythonUdfInfo of each UDF
  args,       \* frame and evaluated flags of the computed arguments
  proj,       \* frame and projected flag of the computed projection
  filt,       \* frame and evaluated flags of the expression the filter tests
  out,        \* what the parent received in this scan
  rescans,
  peers

control  == <<err, total, maxRows, rescans, peers>>
counters == <<desirable, storedIn, storedOut, outIdx>>
stores   == <<ncells, cells, other>>
process  == <<cur, idx, evalSize>>
frames   == <<args, proj, filt>>
vars == <<pc, control, pulled, brsEnd, stores, counters, process, info,
          frames, out>>

Udf   == 1..NumUdf
Cells == 1..ncells

-----------------------------------------------------------------------------
(* ObPUStoreController *)

BufferMag == 2

\* Variant: full only when both halves of the buffer are.
IsFullLate == storedIn > desirable * BufferMag
\* Variant: the last row of the output is forgotten.
CanOutputShort == outIdx + 1 < storedOut

IsFull    == storedIn > desirable * (BufferMag - 1)
IsEmpty   == storedIn = 0
CanOutput == outIdx < storedOut

\* get_desirable: the largest of the controller's and the cells' values.
DesirableCandidates == {desirable} \cup {cells[c].desirable : c \in Cells}
IsDesirable(d) ==
  d \in DesirableCandidates /\ \A x \in DesirableCandidates : x <= d

\* ObPUStoreController::init: k new cells behind the n cells of base.
AppendCells(base, n, k) ==
  [c \in 1..(n + k) |->
     IF c <= n THEN base[c]
     ELSE CellInit(c - n, DefaultLength, info[c - n].predict)]

\* The cell whose restore writes the result of UDF e last.
LastCell(e) == (ncells - NumUdf) + e

-----------------------------------------------------------------------------
(* modify_desirable.  The throughput that gettimeofday gives is arbitrary: *)
(* a call may look faster or slower than tps_s, and within lambda or not.  *)

Tuned(i, n) ==
  IF ~i.tuned
  THEN {[i EXCEPT !.predict = @ + Delta, !.tuned = (n > 0)]}
  ELSE IF i.round > RoundLimit \/ n # i.predict
  THEN {i}
  ELSE [predict : {i.predict, i.predict + Delta},
        tuned   : {TRUE},
        round   : {i.round, i.round + 1}]

-----------------------------------------------------------------------------
(* ObExpr::eval_vector on a computed argument or projection: a position    *)
(* whose evaluated flag is still set keeps the value that is in the frame. *)

EvalArgs(s, skip) ==
  LET flags == IF args.evaluated THEN args.flags ELSE args.flags \ (1..s)
      todo  == ((1..s) \ skip) \ flags
      RowAt(i) == pulled + Cardinality((1..i) \ skip)
  IN IF Computed = {} THEN args
     ELSE [evaluated |-> TRUE,
           flags |-> flags \cup todo,
           vals  |-> [i \in 1..MaxBatch |->
                        IF i \in todo THEN RowAt(i) ELSE args.vals[i]]]

-----------------------------------------------------------------------------
Init ==
  /\ pc = "unopened" /\ err = "none"
  /\ total \in 0..MaxRows /\ pulled = 0
  /\ brsEnd = FALSE /\ maxRows = 0
  /\ ncells = 0 /\ cells = [c \in 1..0 |-> CellInit(0, 0, 0)]
  /\ other = ColInit(0)
  /\ desirable = 0 /\ storedIn = 0 /\ storedOut = 0 /\ outIdx = 0
  /\ cur = 1 /\ idx = 0 /\ evalSize = 0
  /\ \E p \in StartPredicts :
       info = [e \in Udf |-> [predict |-> p, tuned |-> FALSE, round |-> 0]]
  /\ args = [evaluated |-> FALSE, flags |-> {},
             vals |-> [i \in 1..MaxBatch |-> NoRow]]
  /\ proj = [projected |-> FALSE, vals |-> [i \in 1..MaxBatch |-> NoRow]]
  /\ filt = args
  /\ out = <<>> /\ rescans = 0 /\ peers = 0

Fail(why) == pc' = "failed" /\ err' = why

\* A check of the code's own bookkeeping: go on to step, or fail.
Check(ok, step, why) == /\ pc' = IF ok THEN step ELSE "failed"
                        /\ err' = IF ok THEN err ELSE why

\* Variant: the output counters survive.
ResetCountersPartly == storedIn' = 0 /\ UNCHANGED <<storedOut, outIdx>>

\* The counters of the controller, as free() and resize() leave them.
ResetCounters == storedIn' = 0 /\ storedOut' = 0 /\ outIdx' = 0

-----------------------------------------------------------------------------
(* inner_open, inner_rescan, inner_close *)

\* ObPUStoreController::init, then other_store_.init: either may get no memory.
Open ==
  /\ pc = "unopened"
  /\ \E k \in 0..NumUdf :
       /\ ncells' = k
       /\ cells' = AppendCells(cells, 0, k)
       /\ \/ k = NumUdf /\ other' = ColInit(DefaultLength)
             /\ pc' = "idle" /\ UNCHANGED err
          \/ (k < NumUdf \/ InputCols > 0) /\ UNCHANGED other /\ Fail("alloc")
  /\ UNCHANGED <<total, pulled, brsEnd, maxRows, counters, process, info,
                 frames, out, rescans, peers>>

\* The child is rescanned first.  free() leaves the old cells in cells_list_,
\* so init() adds to them; and other_store_.init() runs its fixed arrays'
\* init and push_back a second time, which fails as soon as there is a column
\* to push.
Rescan ==
  /\ pc = "idle" /\ rescans < MaxRescans
  /\ rescans' = rescans + 1
  /\ \/ /\ Fail("child")
        /\ UNCHANGED <<stores, counters, pulled, brsEnd, out>>
     \/ \E k \in 0..NumUdf :
          /\ ResetCounters
          /\ ncells' = ncells + k
          /\ cells' = AppendCells([c \in Cells |-> CellFree(cells[c])],
                                  ncells, k)
          /\ UNCHANGED desirable
          /\ \/ /\ k = NumUdf /\ InputCols = 0
                /\ other' = ColInit(DefaultLength)
                /\ pc' = "idle" /\ UNCHANGED err
                /\ pulled' = 0 /\ brsEnd' = FALSE /\ out' = <<>>
             \/ /\ k = NumUdf /\ InputCols > 0 /\ Fail("reinit")
                /\ UNCHANGED <<other, pulled, brsEnd, out>>
             \/ /\ k < NumUdf /\ Fail("alloc")
                /\ UNCHANGED <<other, pulled, brsEnd, out>>
  /\ UNCHANGED <<total, maxRows, process, info, frames, peers>>

Close ==
  /\ pc \in {"idle", "failed"}
  /\ pc' = "closed"
  /\ cells' = [c \in Cells |-> CellFree(cells[c])]
  /\ ResetCounters
  /\ UNCHANGED <<control, pulled, brsEnd, ncells, other, desirable, process,
                 info, frames, out>>

-----------------------------------------------------------------------------
(* ObOperator::get_next_batch calls inner_get_next_batch until a batch     *)
(* with an unfiltered row, or the end, is reached.                         *)

Entering(m) == \/ pc = "idle" /\ ~brsEnd
               \/ pc = "again" /\ m = maxRows

\* Results of the last inference are still waiting.
ResumeOutput(m) ==
  /\ Entering(m) /\ CanOutput
  /\ pc' = "restore" /\ maxRows' = m
  /\ UNCHANGED <<err, total, rescans, peers, pulled, brsEnd, stores, counters,
                 process, info, frames, out>>

\* clear_evaluated_flag() and resize(get_desirable() * BUFFER_MAG).  resize
\* stops at the first cell that gets no memory; its result is not looked at.
\* other_store_ does not look at its own allocation: the first row that is then
\* copied ends the process, at the place where StoreFails ends the operator.
BeginFill(m) ==
  /\ Entering(m) /\ ~CanOutput
  /\ pc' = "fill" /\ maxRows' = m
  /\ args' = [args EXCEPT !.evaluated = FALSE]
  /\ proj' = [proj EXCEPT !.projected = FALSE]
  /\ filt' = [filt EXCEPT !.evaluated = FALSE]
  /\ \E d \in DesirableCandidates :
       /\ IsDesirable(d)
       /\ desirable' = d
       /\ \/ /\ cells' = [c \in Cells |-> CellReset(cells[c], BufferMag * d)]
             /\ other' = ColReset(other, BufferMag * d)
          \/ \E k \in Cells :
               /\ BufferMag * d > cells[k].length
               /\ cells' = [c \in Cells |->
                              IF c < k THEN CellReset(cells[c], BufferMag * d)
                              ELSE IF c = k THEN StoreFree(cells[c])
                              ELSE cells[c]]
               /\ UNCHANGED other
  /\ ResetCounters
  /\ UNCHANGED <<err, total, rescans, peers, pulled, brsEnd, ncells, process,
                 info, out>>

-----------------------------------------------------------------------------
(* The fill loop: child_->get_next_batch, brs_.copy, controller_.store     *)

Filling == pc = "fill" /\ ~brsEnd /\ ~IsFull

\* What the child may return: an empty batch at the end, else at least one
\* row that is not skipped.
ChildReturns(s, skip) ==
  /\ s <= maxRows /\ skip \subseteq 1..s
  /\ IF pulled = total THEN s = 0
     ELSE skip # 1..s /\ Active(s, skip) <= total - pulled

\* The values that cell c reads from the frame, and the rows they stand for.
BatchRows(s, skip) == [k \in 1..Active(s, skip) |-> pulled + k]
BatchArgs(c, s, skip) ==
  IF cells[c].expr \in Computed
  THEN [k \in 1..Active(s, skip) |->
          EvalArgs(s, skip).vals[ActiveAt(s, skip, k)]]
  ELSE BatchRows(s, skip)

CellsSaved(s, skip, upto) ==
  [c \in Cells |-> IF c < upto THEN CellSave(cells[c], BatchArgs(c, s, skip))
                   ELSE cells[c]]

StoreBatch(s, skip) ==
  LET n == Active(s, skip) IN
  /\ Filling /\ ChildReturns(s, skip)
  /\ \A c \in Cells : CellAccepts(cells[c], n)
  /\ ColFits(other, n)
  /\ pulled' = pulled + n /\ brsEnd' = (s = 0)
  /\ args' = EvalArgs(s, skip)
  /\ cells' = CellsSaved(s, skip, ncells + 1)
  /\ other' = ColSave(other, BatchRows(s, skip))
  /\ storedIn' = storedIn + n
  /\ UNCHANGED <<pc, control, ncells, desirable, storedOut, outIdx, process,
                 info, proj, filt, out>>

\* Why the k-th store refuses n rows; the last one is other_store_.
StoreError(k, n) ==
  CASE k = ncells + 1 -> IF ColFits(other, n) THEN "alloc" ELSE "overflow"
    [] OTHER -> IF ~cells[k].inited THEN "alloc"
                ELSE IF CellFits(cells[k], n) THEN "argument" ELSE "overflow"

\* A cell is not inited, is too short, or its argument cannot be evaluated;
\* or the other columns do not fit or cannot be copied.  The cells before it have stored already.
StoreFails(s, skip) ==
  LET n == Active(s, skip) IN
  /\ Filling /\ ChildReturns(s, skip)
  /\ brsEnd' = (s = 0)
  /\ args' = EvalArgs(s, skip)
  /\ \E k \in 1..(ncells + 1) :
       /\ \A c \in 1..(k - 1) : CellAccepts(cells[c], n)
       /\ cells' = CellsSaved(s, skip, k)
       /\ k = ncells + 1 => InputCols > 0 \/ ~ColFits(other, n)
       /\ Fail(StoreError(k, n))
  /\ UNCHANGED <<total, maxRows, rescans, peers, pulled, ncells, other, counters,
                 process, info, proj, filt, out>>

ChildFails ==
  /\ Filling
  /\ Fail("child")
  /\ UNCHANGED <<total, maxRows, rescans, peers, pulled, brsEnd, stores,
                 counters, process, info, frames, out>>

EndFill ==
  /\ pc = "fill" /\ (brsEnd \/ IsFull)
  /\ pc' = IF IsEmpty THEN "restore" ELSE "process"
  /\ cur' = 1
  /\ UNCHANGED <<control, pulled, brsEnd, stores, counters, idx, evalSize,
                 info, frames, out>>

-----------------------------------------------------------------------------
(* ObPUStoreController::process and ObPythonUDFCell::do_process            *)

StartCell ==
  LET saved == Len(cells[cur].saved) = storedIn IN
  /\ pc = "process"
  /\ Check(saved, "wrap", "unsaved")
  /\ cells' = IF saved THEN [cells EXCEPT ![cur] = CellStart(@)] ELSE cells
  /\ idx' = 0
  /\ UNCHANGED <<total, maxRows, rescans, peers, pulled, brsEnd, ncells,
                 other, counters, cur, evalSize, info, frames, out>>

CallPython ==
  /\ pc = "wrap" /\ idx < Len(cells[cur].saved)
  /\ pc' = "python" /\ evalSize' = EvalSize(cells[cur], idx)
  /\ UNCHANGED <<control, pulled, brsEnd, stores, counters, cur, idx, info,
                 frames, out>>

\* The function returns one value per argument, in their order (or fewer,
\* if ShortResults); then modify_desirable runs.
PythonReturns ==
  LET e == cells[cur].expr IN
  /\ pc = "python" /\ pc' = "wrap"
  /\ \E len \in IF ShortResults THEN 0..evalSize ELSE {evalSize},
        i \in Tuned(info[e], evalSize) :
       /\ info' = [info EXCEPT ![e] = i]
       /\ cells' = [cells EXCEPT ![cur] =
                      CellAbsorb(@, SubSeq(@.saved, idx + 1, idx + len),
                                 evalSize, i.predict)]
  /\ idx' = idx + evalSize
  /\ UNCHANGED <<control, pulled, brsEnd, ncells, other, counters, cur,
                 evalSize, frames, out>>

PythonRaises ==
  /\ pc = "python"
  /\ Fail("python")
  /\ UNCHANGED <<total, maxRows, rescans, peers, pulled, brsEnd, stores,
                 counters, process, info, frames, out>>

\* Another session finishes a call of the same UDF expression of this plan,
\* which it can while this one does not hold the interpreter lock.
PeerTunes(e) ==
  /\ pc \in {"unopened", "idle", "python"} /\ peers < MaxPeerTunes
  /\ peers' = peers + 1
  /\ \E i \in Tuned(info[e], info[e].predict) : info' = [info EXCEPT ![e] = i]
  /\ UNCHANGED <<pc, err, total, maxRows, rescans, pulled, brsEnd, stores,
                 counters, process, frames, out>>

FinishCell ==
  LET done == cells[cur].resultSize = storedIn
      last == done /\ cur = ncells
  IN
  /\ pc = "wrap" /\ idx >= Len(cells[cur].saved)
  /\ Check(done, IF last THEN "restore" ELSE "process", "unprocessed")
  /\ cells' = IF done THEN [cells EXCEPT ![cur] = CellReset(@, 0)] ELSE cells
  /\ cur' = IF done /\ ~last THEN cur + 1 ELSE cur
  /\ storedOut' = IF last THEN storedIn ELSE storedOut
  /\ storedIn' = IF last THEN 0 ELSE storedIn
  /\ outIdx' = IF last THEN 0 ELSE outIdx
  /\ UNCHANGED <<total, maxRows, rescans, peers, pulled, brsEnd, ncells,
                 other, desirable, idx, evalSize, info, frames, out>>

-----------------------------------------------------------------------------
(* ObPUStoreController::restore, then the filter and the projection of     *)
(* ObOperator::get_next_batch                                              *)

OutputSize ==
  IF maxRows < storedOut - outIdx THEN maxRows ELSE storedOut - outIdx

Restorable(n) == /\ \A c \in Cells : outIdx + n <= cells[c].resultSize
                 /\ ColHas(other, n)

\* Variant: every batch is read from the start of the result array.
UdfValuesFromStart(i) == [e \in Udf |-> ResultAt(cells[LastCell(e)], i)]

\* The results at position i of the batch that is restored.
UdfValues(i) == [e \in Udf |-> ResultAt(cells[LastCell(e)], outIdx + i)]

\* The frame of the expression that the filter tests, after the restored batch.
\* inner_get_next_batch clears the flags of the filter itself and not of what
\* it is computed from, which keeps its values until the next clear.
FilterEval(n) ==
  LET flags == IF filt.evaluated THEN filt.flags ELSE filt.flags \ (1..n)
      todo  == (1..n) \ flags
  IN [evaluated |-> TRUE,
      flags |-> flags \cup todo,
      vals  |-> [i \in 1..MaxBatch |->
                   IF i \in todo THEN UdfValues(i)[1] ELSE filt.vals[i]]]

\* The value that the filter tests at position i of the restored batch.
Tested(n, i) == IF ComputedFilter THEN FilterEval(n).vals[i] ELSE UdfValues(i)[1]

\* The positions of the restored batch that the filter drops.
FilteredOut(n) == {i \in 1..n : Tested(n, i) \notin Selected}

\* The frame of the computed projection after the restored batch.
Projected(n) ==
  IF proj.projected THEN proj.vals
  ELSE [i \in 1..MaxBatch |-> IF i \in (1..n) \ FilteredOut(n)
                              THEN UdfValues(i)[1] ELSE proj.vals[i]]

OutputRow(n, i) ==
  [row  |-> other.saved[other.outIdx + i],
   udf  |-> UdfValues(i),
   proj |-> IF ComputedProj THEN Projected(n)[i] ELSE UdfValues(i)[1]]

RestoreBatch ==
  LET n    == OutputSize
      ok   == Restorable(n)
      drop == FilteredOut(n)
      kept == Active(n, drop)
  IN
  /\ pc = "restore" /\ CanOutput
  /\ Check(ok, IF kept = 0 THEN "again" ELSE "idle", "restore")
  /\ outIdx' = IF ok THEN outIdx + n ELSE outIdx
  /\ other' = IF ~ok THEN other
              ELSE IF outIdx + n = storedOut THEN ColReuse(other)
              ELSE ColLoad(other, n)
  /\ brsEnd' = (brsEnd /\ ~ok)
  /\ out' = IF ok THEN out \o [k \in 1..kept |->
                                 OutputRow(n, ActiveAt(n, drop, k))]
            ELSE out
  /\ proj' = IF ok /\ ComputedProj /\ kept > 0
             THEN [projected |-> TRUE, vals |-> Projected(n)] ELSE proj
  /\ filt' = IF ok /\ ComputedFilter THEN FilterEval(n) ELSE filt
  /\ UNCHANGED <<total, maxRows, rescans, peers, pulled, ncells, cells,
                 desirable, storedIn, storedOut, process, info, args>>

\* Variant: the end of the child is not looked at.
RestoreNothingAgain ==
  /\ pc = "restore" /\ ~CanOutput
  /\ pc' = "again"
  /\ UNCHANGED <<control, pulled, brsEnd, stores, counters, process, info,
                 frames, out>>

\* At the end of the child there is nothing to restore.
RestoreNothing ==
  /\ pc = "restore" /\ ~CanOutput
  /\ pc' = IF brsEnd THEN "idle" ELSE "again"
  /\ UNCHANGED <<control, pulled, brsEnd, stores, counters, process, info,
                 frames, out>>

-----------------------------------------------------------------------------
(* The parent calls; the operator works; other sessions and the end. *)

\* Variant: max_row_cnt is not cut to max_batch_size_.
EnterUncapped == \E m \in 1..(MaxBatch + 1) : ResumeOutput(m) \/ BeginFill(m)

\* get_next_batch(max_row_cnt) with any count of the parent's choice.
Enter == \E m \in 1..MaxBatch : ResumeOutput(m) \/ BeginFill(m)

Fetch == \/ \E s \in 0..MaxBatch : \E skip \in SUBSET (1..s) :
              StoreBatch(s, skip) \/ StoreFails(s, skip)
         \/ ChildFails

Work == \/ Fetch \/ EndFill
        \/ StartCell \/ CallPython \/ PythonReturns \/ PythonRaises
        \/ FinishCell
        \/ RestoreBatch \/ RestoreNothing

Terminated == pc = "closed" /\ UNCHANGED vars

Next == \/ Open \/ Rescan \/ Close \/ Enter \/ Work
        \/ \E e \in Udf : PeerTunes(e)
        \/ Terminated

Spec == Init /\ [][Next]_vars

\* The thread that runs the operator keeps running, the child and the Python
\* function return, and the parent goes on asking for batches.
FairSpec == Spec /\ WF_vars(Work) /\ WF_vars(Enter)

=============================================================================
