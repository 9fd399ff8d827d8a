--------------------------- MODULE PredictProofs ---------------------------
(***************************************************************************)
(* The prediction operator keeps its books: proofs for every number of     *)
(* UDFs, columns and rows, every batch size and every prediction size.     *)
(*                                                                         *)
(* Types and sizes are proved together, because the code reads a slice of  *)
(* a buffer, or a cell of the list, only where the counters say that there *)
(* is one.                                                                 *)
(***************************************************************************)
EXTENDS PredictProps, FiniteSetTheorems, WellFoundedInduction, TLAPS

-----------------------------------------------------------------------------
(* Facts about the active positions of a batch. *)

\* A non-empty set of numbers has a least one: the principle that replaces
\* induction below.
LEMMA LeastNumber ==
  ASSUME NEW T \in SUBSET Nat, T # {}
  PROVE  \E m \in T : \A k \in T : m <= k
<1>1. PICK m \in T : \A k \in T : <<k, m>> \notin OpToRel(<, Nat)
  BY WFMin, NatLessThanWellFounded, Zenon
<1>2. \A k \in T : ~(k < m)
  BY <1>1 DEF OpToRel
<1>. QED  BY <1>2

\* A batch has at most as many active positions as positions.
LEMMA ActiveType ==
  ASSUME NEW s \in Nat, NEW skip
  PROVE  /\ Active(s, skip) \in Nat
         /\ Active(s, skip) <= s
         /\ IsFiniteSet((1..s) \ skip)
<1>1. IsFiniteSet(1..s) /\ Cardinality(1..s) = s
  BY FS_Interval
<1>2. (1..s) \ skip \in SUBSET (1..s)
  OBVIOUS
<1>3. IsFiniteSet((1..s) \ skip) /\ Cardinality((1..s) \ skip) <= s
  BY <1>1, <1>2, FS_Subset
<1>. QED  BY <1>3, FS_CardinalityType DEF Active

\* One more position adds at most one active position, and none if it is
\* skipped.
LEMMA ActiveStep ==
  ASSUME NEW s \in Nat, NEW skip
  PROVE  Active(s + 1, skip) = IF s + 1 \in skip THEN Active(s, skip)
                               ELSE Active(s, skip) + 1
<1>1. IsFiniteSet((1..s) \ skip)
  BY ActiveType
<1>2. CASE s + 1 \in skip
  <2>1. (1..(s + 1)) \ skip = (1..s) \ skip
    BY <1>2
  <2>. QED  BY <1>2, <2>1 DEF Active
<1>3. CASE s + 1 \notin skip
  <2>1. (1..(s + 1)) \ skip = ((1..s) \ skip) \cup {s + 1}
    BY <1>3
  <2>2. s + 1 \notin (1..s) \ skip
    OBVIOUS
  <2>. QED  BY <1>1, <1>3, <2>1, <2>2, FS_AddElement DEF Active
<1>. QED  BY <1>2, <1>3

\* The k-th active position is one of the batch's active positions, and is the
\* k-th.
LEMMA ActiveAtType ==
  ASSUME NEW s \in Nat, NEW skip, NEW k \in 1..Active(s, skip)
  PROVE  /\ ActiveAt(s, skip, k) \in (1..s) \ skip
         /\ Active(ActiveAt(s, skip, k), skip) = k
<1>. DEFINE T == {i \in 1..s : Active(i, skip) >= k}
<1>0. Active(0, skip) = 0
  <2>1. (1..0) \ skip = {}
    OBVIOUS
  <2>. QED  BY <2>1, FS_EmptySet DEF Active
<1>1. Active(s, skip) \in Nat /\ s # 0
  <2>1. Active(s, skip) \in Nat
    BY ActiveType
  <2>. QED  BY <1>0, <2>1
<1>2. s \in T /\ T \in SUBSET Nat
  BY <1>1
<1>3. PICK m \in T : \A j \in T : m <= j
  BY <1>2, LeastNumber
<1>4. Active(m - 1, skip) \in Nat /\ Active(m - 1, skip) < k
  <2>1. m - 1 \in Nat /\ m - 1 \notin T
    BY <1>3
  <2>2. CASE m - 1 = 0
    BY <2>2, <1>0
  <2>3. CASE m - 1 # 0
    <3>1. Active(m - 1, skip) \in Nat
      BY <2>1, ActiveType
    <3>. QED  BY <2>1, <2>3, <3>1
  <2>. QED  BY <2>2, <2>3
<1>5. Active(m, skip) = IF m \in skip THEN Active(m - 1, skip)
                        ELSE Active(m - 1, skip) + 1
  BY ActiveStep, m - 1 \in Nat, (m - 1) + 1 = m
<1>6. m \in (1..s) \ skip /\ Active(m, skip) = k
  BY <1>3, <1>4, <1>5
<1>. QED  BY <1>6 DEF ActiveAt, Active

-----------------------------------------------------------------------------
(* What the operations on the stores preserve and establish. *)

\* The empty sequence, named so that the provers find it.
LEMMA EmptyRows == <<>> \in Seq(Nat) /\ Len(<<>>) = 0
OBVIOUS

\* A new cell is empty.
LEMMA CellInitType ==
  ASSUME NEW e \in Nat, NEW n \in Nat, NEW p \in Nat
  PROVE  /\ CellInit(e, n, p) \in Cell
         /\ CellInit(e, n, p).expr = e
         /\ CellInit(e, n, p).inited
         /\ CellInit(e, n, p).length = n
         /\ CellInit(e, n, p).saved = <<>>
         /\ CellInit(e, n, p).desirable = p
BY DEF CellInit, Cell

\* ObPUInputStore::reset empties the store, never shrinks it and leaves the
\* results alone.
LEMMA CellResetType ==
  ASSUME NEW s \in Cell, NEW n \in Nat
  PROVE  /\ CellReset(s, n) \in Cell
         /\ CellReset(s, n).expr = s.expr
         /\ s.inited => CellReset(s, n).inited
         /\ CellReset(s, n).length >= n
         /\ CellReset(s, n).length >= s.length
         /\ CellReset(s, n).saved = <<>>
         /\ CellReset(s, n).desirable = s.desirable
         /\ CellReset(s, n).resultSize = s.resultSize
<1>1. CellReuse(s) \in Cell
  BY EmptyRows, Zenon DEF CellReuse, Cell
<1>2. [s EXCEPT !.length = n, !.saved = <<>>, !.inited = TRUE] \in Cell
  BY EmptyRows, Zenon DEF Cell
<1>3. CellReset(s, n) \in Cell
  BY <1>1, <1>2 DEF CellReset
<1>4. s.inited => CellReset(s, n).inited
  BY Zenon DEF CellReset, CellReuse, Cell
<1>. QED  BY <1>3, <1>4 DEF CellReset, CellReuse, Cell

\* Freeing empties the store and, for a cell, its results.
LEMMA CellFreeType ==
  ASSUME NEW s \in Cell
  PROVE  /\ CellFree(s) \in Cell /\ StoreFree(s) \in Cell
         /\ CellFree(s).expr = s.expr /\ StoreFree(s).expr = s.expr
         /\ CellFree(s).saved = <<>> /\ StoreFree(s).saved = <<>>
         /\ ~StoreFree(s).inited
         /\ CellFree(s).desirable = s.desirable
         /\ StoreFree(s).desirable = s.desirable
         /\ StoreFree(s).resultSize = s.resultSize
<1>1. CellFree(s) \in Cell /\ StoreFree(s) \in Cell
  <2>1. 0 \in Nat
    OBVIOUS
  <2>. QED  BY <2>1, EmptyRows, Zenon DEF CellFree, StoreFree, Cell
<1>. QED  BY <1>1 DEF CellFree, StoreFree, Cell

\* Saving rows appends them and changes nothing else.
LEMMA CellSaveType ==
  ASSUME NEW s \in Cell, NEW rows \in Seq(Nat)
  PROVE  /\ CellSave(s, rows) \in Cell
         /\ CellSave(s, rows).expr = s.expr
         /\ CellSave(s, rows).inited = s.inited
         /\ CellSave(s, rows).length = s.length
         /\ Len(CellSave(s, rows).saved) = Len(s.saved) + Len(rows)
         /\ CellSave(s, rows).desirable = s.desirable
         /\ CellSave(s, rows).resultSize = s.resultSize
<1>1. s.saved \o rows \in Seq(Nat)
  BY DEF Cell
<1>2. CellSave(s, rows) \in Cell
  BY <1>1, Zenon DEF CellSave, Cell
<1>3. CellSave(s, rows).inited = s.inited
  BY Zenon DEF CellSave, Cell
<1>. QED  BY <1>2, <1>3 DEF CellSave, Cell

\* do_process starts without results and with the rows that were saved.
LEMMA CellStartType ==
  ASSUME NEW s \in Cell
  PROVE  /\ CellStart(s) \in Cell
         /\ CellStart(s).expr = s.expr
         /\ CellStart(s).inited = s.inited
         /\ CellStart(s).length = s.length
         /\ CellStart(s).saved = s.saved
         /\ CellStart(s).desirable = s.desirable
         /\ CellStart(s).resultSize = 0
<1>1. CellStart(s) \in Cell
  <2>1. 0 \in Nat
    OBVIOUS
  <2>. QED  BY <2>1, EmptyRows, Zenon DEF CellStart, Cell
<1>. QED  BY <1>1 DEF CellStart, Cell

\* A call of the UDF adds to the results and leaves the saved rows alone.
LEMMA CellAbsorbType ==
  ASSUME NEW s \in Cell, NEW values \in Seq(Nat), NEW n \in Nat, NEW p \in Nat
  PROVE  /\ CellAbsorb(s, values, n, p) \in Cell
         /\ CellAbsorb(s, values, n, p).expr = s.expr
         /\ CellAbsorb(s, values, n, p).inited = s.inited
         /\ CellAbsorb(s, values, n, p).length = s.length
         /\ CellAbsorb(s, values, n, p).saved = s.saved
         /\ CellAbsorb(s, values, n, p).desirable = p
         /\ CellAbsorb(s, values, n, p).resultSize = s.resultSize + n
<1>1. s.result \o values \in Seq(Nat) /\ s.resultSize + n \in Nat
  BY DEF Cell
<1>2. CellAbsorb(s, values, n, p) \in Cell
  BY <1>1, Zenon DEF CellAbsorb, Cell
<1>. QED  BY <1>2 DEF CellAbsorb, Cell

\* A slice ends within the saved rows, and is not empty if the prediction size
\* is not zero.
LEMMA EvalSizeType ==
  ASSUME NEW s \in Cell, NEW i \in Nat, i < Len(s.saved)
  PROVE  /\ EvalSize(s, i) \in Nat
         /\ i + EvalSize(s, i) <= Len(s.saved)
         /\ s.desirable >= 1 => EvalSize(s, i) >= 1
BY DEF EvalSize, Cell

\* What do_restore reads is a row or NoRow.
LEMMA ResultAtType ==
  ASSUME NEW s \in Cell, NEW i \in Nat \ {0}
  PROVE  ResultAt(s, i) \in Nat
BY DEF ResultAt, NoRow, Cell

\* The same facts for the store of the other columns.
LEMMA ColInitType ==
  ASSUME NEW n \in Nat
  PROVE  /\ ColInit(n) \in Col
         /\ ColInit(n).length = n
         /\ ColInit(n).saved = <<>>
         /\ ColInit(n).outIdx = 0
BY DEF ColInit, Col

\* ObColInputStore::reset.
LEMMA ColResetType ==
  ASSUME NEW s \in Col, NEW n \in Nat
  PROVE  /\ ColReset(s, n) \in Col
         /\ ColReset(s, n).length >= n
         /\ ColReset(s, n).length >= s.length
         /\ ColReset(s, n).saved = <<>>
         /\ ColReset(s, n).outIdx = 0
<1>1. 0 \in Nat
  OBVIOUS
<1>2. ColReuse(s) \in Col
  BY <1>1, EmptyRows, Zenon DEF ColReuse, Col
<1>3. [s EXCEPT !.length = n, !.saved = <<>>, !.outIdx = 0] \in Col
  BY <1>1, EmptyRows, Zenon DEF Col
<1>4. ColReset(s, n) \in Col
  BY <1>2, <1>3 DEF ColReset
<1>. QED  BY <1>4 DEF ColReset, ColReuse, Col

\* ObColInputStore::save_vector.
LEMMA ColSaveType ==
  ASSUME NEW s \in Col, NEW rows \in Seq(Nat)
  PROVE  /\ ColSave(s, rows) \in Col
         /\ ColSave(s, rows).length = s.length
         /\ Len(ColSave(s, rows).saved) = Len(s.saved) + Len(rows)
         /\ ColSave(s, rows).outIdx = s.outIdx
<1>1. s.saved \o rows \in Seq(Nat)
  BY DEF Col
<1>2. ColSave(s, rows) \in Col
  BY <1>1, Zenon DEF ColSave, Col
<1>. QED  BY <1>2 DEF ColSave, Col

\* ObColInputStore::load_vector, and reuse.
LEMMA ColLoadType ==
  ASSUME NEW s \in Col, NEW n \in Nat
  PROVE  /\ ColLoad(s, n) \in Col
         /\ ColLoad(s, n).length = s.length
         /\ ColLoad(s, n).saved = s.saved
         /\ ColLoad(s, n).outIdx = s.outIdx + n
         /\ ColReuse(s) \in Col
         /\ ColReuse(s).length = s.length
         /\ ColReuse(s).saved = <<>>
         /\ ColReuse(s).outIdx = 0
<1>1. 0 \in Nat /\ s.outIdx + n \in Nat
  BY DEF Col
<1>2. ColLoad(s, n) \in Col /\ ColReuse(s) \in Col
  BY <1>1, EmptyRows, Zenon DEF ColLoad, ColReuse, Col
<1>. QED  BY <1>2 DEF ColLoad, ColReuse, Col

-----------------------------------------------------------------------------
(* The inductive invariant of the operator. *)

\* Every cell belongs to one of the operator's UDFs, and each UDF has one once the
\* operator is open.
CellsOK == /\ \A c \in Cells : cells[c].expr \in Udf
           /\ pc \notin {"unopened", "failed", "closed"} => ncells >= NumUdf
           /\ pc = "unopened" => ~CanOutput

IInv == TypeOK /\ CellsOK /\ SizesAgree

-----------------------------------------------------------------------------
\* The initial state.
LEMMA InitIInv == Init => IInv
<1>. SUFFICES ASSUME Init PROVE IInv
  OBVIOUS
<1>. USE ConstantsAssumption
<1>0. Cells = {}
  BY DEF Init, Cells
<1>1. other \in Col /\ other.saved = <<>> /\ other.outIdx = 0
  BY ColInitType DEF Init
<1>2. TypeOK
  <2>1. cells \in [Cells -> Cell]
    BY <1>0 DEF Init
  <2>2. info \in [Udf -> [predict : Nat, tuned : BOOLEAN, round : Nat]]
    BY DEF Init
  <2>3. args \in [evaluated : BOOLEAN, flags : SUBSET (1..MaxBatch),
                  vals : Frame]
    BY DEF Init, Frame, NoRow
  <2>4. proj \in [projected : BOOLEAN, vals : Frame] /\ filt = args
    BY DEF Init, Frame, NoRow
  <2>5. out \in Seq(Answer)
    BY DEF Init
  <2>6. /\ total \in 0..MaxRows /\ pulled \in 0..MaxRows
        /\ maxRows \in 0..MaxBatch /\ err \in Errors
    BY DEF Init, Errors
  <2>. QED  BY <1>1, <2>1, <2>2, <2>3, <2>4, <2>5, <2>6 DEF Init, TypeOK
<1>. QED  BY <1>0, <1>1, <1>2
          DEF Init, IInv, CellsOK, SizesAgree, FillSizes, ProcessSizes,
              OutputSizes, CanOutput

-----------------------------------------------------------------------------
\* The steps that leave all stores alone.
LEMMA ResumeIInv ==
  ASSUME IInv, NEW m \in 1..MaxBatch, ResumeOutput(m)
  PROVE  IInv'
<1>. USE ConstantsAssumption DEF IInv, ResumeOutput, Entering, stores, counters,
         process, frames
<1>1. TypeOK'
  BY DEF TypeOK, Cells, Errors
<1>2. CellsOK'
  BY DEF CellsOK, Cells, CanOutput
<1>3. SizesAgree'
  BY DEF SizesAgree, FillSizes, ProcessSizes, OutputSizes, CanOutput, Cells
<1>. QED  BY <1>1, <1>2, <1>3

\* The child fails: the execution ends.
LEMMA ChildFailsIInv ==
  ASSUME IInv, ChildFails
  PROVE  IInv'
<1>. USE ConstantsAssumption DEF IInv, ChildFails, Filling, Fail, stores,
         counters, process, frames
<1>1. TypeOK'
  BY DEF TypeOK, Cells, Errors
<1>2. CellsOK'
  BY DEF CellsOK, Cells, CanOutput
<1>3. SizesAgree'
  BY DEF SizesAgree, FillSizes, ProcessSizes, OutputSizes
<1>. QED  BY <1>1, <1>2, <1>3

\* The fill loop ends with as many rows in every store.
LEMMA EndFillIInv ==
  ASSUME IInv, EndFill
  PROVE  IInv'
<1>. USE ConstantsAssumption DEF IInv, EndFill, control, stores, counters,
         frames
<1>1. TypeOK'
  BY DEF TypeOK, Cells, Errors
<1>2. CellsOK'
  BY DEF CellsOK, Cells, CanOutput
<1>3. SizesAgree'
  <2>1. FillSizes'
    BY DEF FillSizes
  <2>2. ProcessSizes'
    BY DEF SizesAgree, FillSizes, ProcessSizes, IsEmpty, Cells, TypeOK, CellsOK
  <2>3. OutputSizes'
    BY DEF SizesAgree, FillSizes, OutputSizes, CanOutput, IsEmpty, Cells,
           TypeOK, Cell, Col
  <2>. QED  BY <2>1, <2>2, <2>3 DEF SizesAgree
<1>. QED  BY <1>1, <1>2, <1>3

\* The slice of the next call lies within the saved rows.
LEMMA CallPythonIInv ==
  ASSUME IInv, CallPython
  PROVE  IInv'
<1>. USE ConstantsAssumption DEF IInv, CallPython, control, stores, counters,
         frames
<1>0. /\ cur \in Cells /\ cells[cur] \in Cell /\ Len(cells[cur].saved) = storedIn
      /\ idx \in Nat /\ idx < Len(cells[cur].saved)
  BY DEF SizesAgree, ProcessSizes, TypeOK, Cells
<1>1. evalSize' \in Nat /\ idx + evalSize' <= storedIn
  BY <1>0, EvalSizeType
<1>2. TypeOK'
  BY <1>1 DEF TypeOK, Cells, Errors
<1>3. CellsOK'
  BY DEF CellsOK, Cells, CanOutput
<1>4. SizesAgree'
  BY <1>1 DEF SizesAgree, FillSizes, ProcessSizes, OutputSizes, Cells
<1>. QED  BY <1>2, <1>3, <1>4

\* The Python function raises: the execution ends.
LEMMA PythonRaisesIInv ==
  ASSUME IInv, PythonRaises
  PROVE  IInv'
<1>. USE ConstantsAssumption DEF IInv, PythonRaises, Fail, stores, counters,
         process, frames
<1>1. TypeOK'
  BY DEF TypeOK, Cells, Errors
<1>2. CellsOK'
  BY DEF CellsOK, Cells, CanOutput
<1>3. SizesAgree'
  BY DEF SizesAgree, FillSizes, ProcessSizes, OutputSizes
<1>. QED  BY <1>1, <1>2, <1>3

\* At the end of the child nothing is restored.
LEMMA RestoreNothingIInv ==
  ASSUME IInv, RestoreNothing
  PROVE  IInv'
<1>. USE ConstantsAssumption DEF IInv, RestoreNothing, control, stores,
         counters, process, frames
<1>1. TypeOK'
  BY DEF TypeOK, Cells, Errors
<1>2. CellsOK'
  BY DEF CellsOK, Cells, CanOutput
<1>3. SizesAgree'
  BY DEF SizesAgree, FillSizes, ProcessSizes, OutputSizes, CanOutput, Cells,
         TypeOK
<1>. QED  BY <1>1, <1>2, <1>3

-----------------------------------------------------------------------------
\* modify_desirable keeps the plan's tuning state well typed and never lowers
\* the prediction size.
LEMMA TunedType ==
  ASSUME NEW i \in [predict : Nat, tuned : BOOLEAN, round : Nat],
         NEW n \in Nat, NEW j \in Tuned(i, n)
  PROVE  /\ j \in [predict : Nat, tuned : BOOLEAN, round : Nat]
         /\ j.predict >= i.predict
<1>. USE ConstantsAssumption
<1>1. CASE ~i.tuned
  <2>1. j = [i EXCEPT !.predict = i.predict + Delta, !.tuned = (n > 0)]
    BY <1>1 DEF Tuned
  <2>2. i.predict + Delta \in Nat /\ i.predict + Delta >= i.predict
    OBVIOUS
  <2>3. (n > 0) \in BOOLEAN
    OBVIOUS
  <2>4. j \in [predict : Nat, tuned : BOOLEAN, round : Nat]
    BY <2>1, <2>2, <2>3, Zenon
  <2>5. j.predict = i.predict + Delta
    BY <2>1
  <2>. QED  BY <2>2, <2>4, <2>5
<1>2. CASE i.tuned /\ (i.round > RoundLimit \/ n # i.predict)
  <2>1. j = i
    BY <1>2, Zenon DEF Tuned
  <2>2. i.predict >= i.predict
    OBVIOUS
  <2>. QED  BY <2>1, <2>2
<1>3. CASE i.tuned /\ ~(i.round > RoundLimit \/ n # i.predict)
  <2>1. j \in [predict : {i.predict, i.predict + Delta}, tuned : {TRUE},
               round : {i.round, i.round + 1}]
    BY <1>3 DEF Tuned
  <2>2. /\ {i.predict, i.predict + Delta} \subseteq Nat
        /\ {i.round, i.round + 1} \subseteq Nat
    OBVIOUS
  <2>3. j \in [predict : Nat, tuned : BOOLEAN, round : Nat]
    BY <2>1, <2>2, Zenon
  <2>4. j.predict \in {i.predict, i.predict + Delta}
    BY <2>1, Zenon
  <2>5. j.predict >= i.predict
    BY <2>4
  <2>. QED  BY <2>3, <2>5
<1>. QED  BY <1>1, <1>2, <1>3

\* Another session changes the plan's prediction size only.
LEMMA PeerTunesIInv ==
  ASSUME IInv, NEW e \in Udf, PeerTunes(e)
  PROVE  IInv'
<1>. USE ConstantsAssumption DEF IInv, PeerTunes, stores, counters, process,
         frames
<1>0. PICK j \in Tuned(info[e], info[e].predict) :
        info' = [info EXCEPT ![e] = j]
  OBVIOUS
<1>1. info' \in [Udf -> [predict : Nat, tuned : BOOLEAN, round : Nat]]
  <2>1. /\ info[e] \in [predict : Nat, tuned : BOOLEAN, round : Nat]
        /\ info[e].predict \in Nat
    BY DEF TypeOK
  <2>2. j \in [predict : Nat, tuned : BOOLEAN, round : Nat]
    BY <2>1, TunedType
  <2>. QED  BY <1>0, <2>2, Zenon DEF TypeOK
<1>2. TypeOK'
  BY <1>1 DEF TypeOK, Cells, Errors
<1>3. CellsOK'
  BY DEF CellsOK, Cells, Udf, CanOutput
<1>4. SizesAgree'
  BY DEF SizesAgree, FillSizes, ProcessSizes, OutputSizes, CanOutput, Cells
<1>. QED  BY <1>2, <1>3, <1>4
-----------------------------------------------------------------------------
\* init() behind n emptied cells gives n + k emptied cells.
LEMMA AppendCellsType ==
  ASSUME IInv, NEW n \in Nat, NEW k \in 0..NumUdf,
         NEW base \in [1..n -> Cell],
         \A c \in 1..n : base[c].saved = <<>> /\ base[c].expr \in Udf
  PROVE  /\ AppendCells(base, n, k) \in [1..(n + k) -> Cell]
         /\ \A c \in 1..(n + k) : /\ AppendCells(base, n, k)[c].saved = <<>>
                                  /\ AppendCells(base, n, k)[c].expr \in Udf
<1>. USE ConstantsAssumption
<1>. DEFINE A == AppendCells(base, n, k)
<1>0. A = [c \in 1..(n + k) |->
             IF c <= n THEN base[c]
             ELSE CellInit(c - n, DefaultLength, info[c - n].predict)]
  BY DEF AppendCells
<1>. HIDE DEF A
<1>1. ASSUME NEW c \in 1..(n + k)
      PROVE  A[c] \in Cell /\ A[c].saved = <<>> /\ A[c].expr \in Udf
  <2>1. CASE c <= n
    <3>1. A[c] = base[c] /\ c \in 1..n
      BY <1>0, <2>1
    <3>. QED  BY <3>1
  <2>2. CASE ~(c <= n)
    <3>1. A[c] = CellInit(c - n, DefaultLength, info[c - n].predict)
      BY <1>0, <2>2
    <3>2. c - n \in Udf /\ c - n \in Nat
      BY <2>2 DEF Udf
    <3>3. info[c - n].predict \in Nat
      BY <3>2 DEF IInv, TypeOK
    <3>. DEFINE new == CellInit(c - n, DefaultLength, info[c - n].predict)
    <3>4. new \in Cell /\ new.saved = <<>> /\ new.expr = c - n
      BY <3>2, <3>3, EmptyRows DEF CellInit, Cell
    <3>. HIDE DEF new
    <3>5. A[c] = new
      BY <3>1 DEF new
    <3>. QED  BY <3>2, <3>4, <3>5
  <2>. QED  BY <2>1, <2>2
<1>. QED  BY <1>0, <1>1 DEF A

\* free() empties every cell.
LEMMA FreedCellsType ==
  ASSUME IInv
  PROVE  /\ [c \in Cells |-> CellFree(cells[c])] \in [Cells -> Cell]
         /\ \A c \in Cells : /\ CellFree(cells[c]).saved = <<>>
                             /\ CellFree(cells[c]).expr \in Udf
BY CellFreeType DEF IInv, TypeOK, CellsOK

\* inner_open.
LEMMA OpenIInv ==
  ASSUME IInv, Open
  PROVE  IInv'
<1>. USE ConstantsAssumption DEF IInv
<1>1. PICK k \in 0..NumUdf :
        /\ ncells' = k
        /\ cells' = AppendCells(cells, 0, k)
        /\ \/ k = NumUdf /\ other' = ColInit(DefaultLength)
              /\ pc' = "idle" /\ UNCHANGED err
           \/ UNCHANGED other /\ Fail("alloc")
  BY DEF Open
<1>2. /\ pc = "unopened"
      /\ UNCHANGED <<total, pulled, brsEnd, maxRows, desirable, storedIn,
                     storedOut, outIdx, cur, idx, evalSize, info, args, proj,
                     filt, out, rescans, peers>>
  BY DEF Open, counters, process, frames
<1>3. /\ cells' \in [1..k -> Cell]
      /\ \A c \in 1..k : cells'[c].saved = <<>> /\ cells'[c].expr \in Udf
  <2>1. AppendCells(cells, 0, k) = AppendCells([c \in 1..0 |-> cells[c]], 0, k)
    BY DEF AppendCells
  <2>2. /\ [c \in 1..0 |-> cells[c]] \in [1..0 -> Cell]
        /\ \A c \in 1..0 : /\ [d \in 1..0 |-> cells[d]][c].saved = <<>>
                           /\ [d \in 1..0 |-> cells[d]][c].expr \in Udf
    OBVIOUS
  <2>. HIDE DEF IInv
  <2>3. /\ AppendCells([c \in 1..0 |-> cells[c]], 0, k) \in [1..(0 + k) -> Cell]
        /\ \A c \in 1..(0 + k) :
             /\ AppendCells([d \in 1..0 |-> cells[d]], 0, k)[c].saved = <<>>
             /\ AppendCells([d \in 1..0 |-> cells[d]], 0, k)[c].expr \in Udf
    BY <2>2, AppendCellsType
  <2>. QED  BY <1>1, <2>1, <2>3
<1>4. /\ other' \in Col /\ (pc' = "idle" => other'.saved = <<>>)
      /\ (pc' = "idle" => other'.outIdx = 0)
      /\ pc' \in {"idle", "failed"} /\ err' \in Errors
  BY <1>1, ColInitType DEF Fail, Errors, TypeOK
<1>5. TypeOK'
  BY <1>1, <1>2, <1>3, <1>4 DEF TypeOK, Cells
<1>6. CellsOK'
  BY <1>1, <1>3 DEF CellsOK, Cells, Udf, Fail
<1>7. SizesAgree'
  <2>1. storedIn = 0 /\ ~(outIdx < storedOut)
    BY <1>2 DEF SizesAgree, OutputSizes, CellsOK, CanOutput
  <2>. QED  BY <1>1, <1>2, <1>3, <1>4, <2>1
            DEF SizesAgree, FillSizes, ProcessSizes, OutputSizes, CanOutput,
                Cells, TypeOK
<1>. QED  BY <1>5, <1>6, <1>7

\* inner_close.
LEMMA CloseIInv ==
  ASSUME IInv, Close
  PROVE  IInv'
<1>. USE ConstantsAssumption
<1>1. cells' \in [Cells -> Cell] /\ \A c \in Cells : cells'[c].expr \in Udf
  BY FreedCellsType DEF Close
<1>. USE DEF IInv, Close, ResetCounters, control, process, frames
<1>2. TypeOK'
  BY <1>1 DEF TypeOK, Cells
<1>3. CellsOK'
  BY <1>1 DEF CellsOK, Cells, Udf
<1>4. SizesAgree'
  BY DEF SizesAgree, FillSizes, ProcessSizes, OutputSizes
<1>. QED  BY <1>2, <1>3, <1>4

\* inner_rescan: old cells are emptied and new ones are added.
LEMMA RescanIInv ==
  ASSUME IInv, Rescan
  PROVE  IInv'
<1>. USE ConstantsAssumption
<1>0. /\ pc = "idle" /\ rescans' = rescans + 1
      /\ UNCHANGED <<total, maxRows, cur, idx, evalSize, info, args, proj, filt,
                     peers>>
  BY DEF Rescan, process, frames
<1>1. CASE /\ Fail("child")
           /\ UNCHANGED <<stores, counters, pulled, brsEnd, out>>
  <2>. USE <1>0, <1>1 DEF IInv, Fail, stores, counters
  <2>1. TypeOK'
    BY DEF TypeOK, Cells, Errors
  <2>2. CellsOK'
    BY DEF CellsOK, Cells, Udf
  <2>3. SizesAgree'
    BY DEF SizesAgree, FillSizes, ProcessSizes, OutputSizes
  <2>. QED  BY <2>1, <2>2, <2>3
<1>2. ASSUME NEW k \in 0..NumUdf,
             ResetCounters, ncells' = ncells + k,
             cells' = AppendCells([c \in Cells |-> CellFree(cells[c])],
                                  ncells, k),
             UNCHANGED desirable,
             \/ /\ k = NumUdf /\ other' = ColInit(DefaultLength)
                /\ pc' = "idle" /\ UNCHANGED err
                /\ pulled' = 0 /\ brsEnd' = FALSE /\ out' = <<>>
             \/ /\ pc' = "failed" /\ err' \in {"reinit", "alloc"}
                /\ UNCHANGED <<other, pulled, brsEnd, out>>
      PROVE  IInv'
  <2>0. ncells \in Nat /\ Cells = 1..ncells
    BY DEF IInv, TypeOK, Cells
  <2>1. /\ cells' \in [1..(ncells + k) -> Cell]
        /\ \A c \in 1..(ncells + k) : /\ cells'[c].saved = <<>>
                                    /\ cells'[c].expr \in Udf
    <3>. DEFINE base == [c \in Cells |-> CellFree(cells[c])]
    <3>1. /\ base \in [1..ncells -> Cell]
          /\ \A c \in 1..ncells : base[c].saved = <<>> /\ base[c].expr \in Udf
      BY <2>0, FreedCellsType
    <3>. HIDE DEF base
    <3>2. /\ AppendCells(base, ncells, k) \in [1..(ncells + k) -> Cell]
          /\ \A c \in 1..(ncells + k) :
               /\ AppendCells(base, ncells, k)[c].saved = <<>>
               /\ AppendCells(base, ncells, k)[c].expr \in Udf
      BY <2>0, <3>1, AppendCellsType
    <3>3. cells' = AppendCells(base, ncells, k)
      BY <1>2 DEF base
    <3>. QED  BY <3>2, <3>3
  <2>2. /\ other' \in Col /\ pulled' \in 0..MaxRows /\ brsEnd' \in BOOLEAN
        /\ out' \in Seq(Answer) /\ err' \in Errors /\ pc' \in {"idle", "failed"}
    <3>1. <<>> \in Seq(Answer)
      OBVIOUS
    <3>2. other \in Col /\ ColInit(DefaultLength) \in Col
      BY ColInitType DEF IInv, TypeOK
    <3>3. /\ pulled \in 0..MaxRows /\ brsEnd \in BOOLEAN /\ out \in Seq(Answer)
          /\ err \in Errors /\ 0 \in 0..MaxRows
      BY DEF IInv, TypeOK
    <3>. QED  BY <1>2, <3>1, <3>2, <3>3, Zenon DEF Errors
  <2>3. TypeOK'
    <3>1. /\ cells' \in [Cells' -> Cell] /\ ncells' \in Nat
          /\ desirable' \in Nat /\ storedIn' = 0 /\ storedOut' = 0 /\ outIdx' = 0
      BY <1>2, <2>0, <2>1 DEF IInv, TypeOK, Cells, ResetCounters
    <3>2. rescans' \in Nat
      BY <1>0 DEF IInv, TypeOK
    <3>. QED  BY <1>0, <2>2, <3>1, <3>2 DEF IInv, TypeOK
  <2>4. Cells' = 1..(ncells + k)
    BY <1>2 DEF Cells
  <2>5. CellsOK'
    <3>1. pc' = "idle" => ncells' >= NumUdf
      BY <1>2, <2>0
    <3>2. \A c \in Cells' : cells'[c].expr \in Udf
      BY <2>1, <2>4
    <3>. QED  BY <2>2, <3>1, <3>2 DEF CellsOK, Udf
  <2>6. SizesAgree'
    <3>1. pc' = "idle" => other'.saved = <<>> /\ other'.outIdx = 0
      BY <1>2, ColInitType
    <3>2. storedIn' = 0 /\ storedOut' = 0 /\ outIdx' = 0 /\ ~CanOutput'
      BY <1>2 DEF ResetCounters, CanOutput
    <3>3. \A c \in Cells' : cells'[c].saved = <<>>
      BY <2>1, <2>4
    <3>4. OutputSizes'
      BY <2>2, <3>1, <3>2, <3>3 DEF OutputSizes
    <3>. QED  BY <2>2, <3>4 DEF SizesAgree, FillSizes, ProcessSizes
  <2>. QED  BY <2>3, <2>5, <2>6 DEF IInv
<1>. QED  BY <1>1, <1>2 DEF Rescan, Fail

-----------------------------------------------------------------------------
\* resize() leaves empty stores with room, or one without memory.
LEMMA BeginFillIInv ==
  ASSUME IInv, NEW m \in 1..MaxBatch, BeginFill(m)
  PROVE  IInv'
<1>. USE ConstantsAssumption
<1>. DEFINE Grown(d) == /\ cells' = [c \in Cells |->
                                      CellReset(cells[c], BufferMag * d)]
                        /\ other' = ColReset(other, BufferMag * d)
            Stuck(d, k) ==
              /\ cells' = [c \in Cells |->
                             IF c < k THEN CellReset(cells[c], BufferMag * d)
                             ELSE IF c = k THEN StoreFree(cells[c])
                             ELSE cells[c]]
              /\ UNCHANGED other
<1>0. /\ pc \in {"idle", "again"} /\ ~CanOutput /\ ~brsEnd
      /\ pc' = "fill" /\ maxRows' = m
      /\ args' = [args EXCEPT !.evaluated = FALSE]
      /\ proj' = [proj EXCEPT !.projected = FALSE]
      /\ filt' = [filt EXCEPT !.evaluated = FALSE]
      /\ storedIn' = 0 /\ storedOut' = 0 /\ outIdx' = 0
      /\ UNCHANGED <<err, total, rescans, peers, pulled, brsEnd, ncells, cur,
                     idx, evalSize, info, out>>
  BY DEF BeginFill, Entering, ResetCounters, process, IInv, SizesAgree,
         OutputSizes
<1>1. PICK d \in DesirableCandidates :
        /\ desirable' = d
        /\ Grown(d) \/ \E k \in Cells : Stuck(d, k)
  BY DEF BeginFill
<1>2. d \in Nat /\ BufferMag * d \in Nat
  <2>1. desirable \in Nat /\ \A c \in Cells : cells[c].desirable \in Nat
    BY DEF IInv, TypeOK, Cell
  <2>2. d \in Nat
    BY <2>1 DEF DesirableCandidates
  <2>. QED  BY <2>2 DEF BufferMag
<1>3. /\ \A c \in Cells : cells[c] \in Cell /\ cells[c].saved = <<>>
                         /\ cells[c].expr \in Udf
      /\ other \in Col /\ other.saved = <<>> /\ other.outIdx = 0
  BY <1>0 DEF IInv, TypeOK, SizesAgree, OutputSizes, CellsOK
<1>4. /\ cells' \in [Cells -> Cell]
      /\ \A c \in Cells : cells'[c].saved = <<>> /\ cells'[c].expr \in Udf
  <2>1. ASSUME NEW c \in Cells
        PROVE  /\ CellReset(cells[c], BufferMag * d) \in Cell
               /\ CellReset(cells[c], BufferMag * d).saved = <<>>
               /\ CellReset(cells[c], BufferMag * d).expr \in Udf
    BY <1>2, <1>3, CellResetType
  <2>2. ASSUME NEW c \in Cells
        PROVE  /\ StoreFree(cells[c]) \in Cell
               /\ StoreFree(cells[c]).saved = <<>>
               /\ StoreFree(cells[c]).expr \in Udf
    BY <1>3, CellFreeType
  <2>. QED  BY <1>1, <1>3, <2>1, <2>2
<1>5. other' \in Col /\ other'.saved = <<>> /\ other'.outIdx = 0
  BY <1>1, <1>2, <1>3, ColResetType
<1>6. \E b \in 1..(ncells + 1) :
         /\ \A c \in 1..(b - 1) :
              cells'[c].inited /\ cells'[c].length >= BufferMag * d
         /\ b <= ncells => ~cells'[b].inited
         /\ b = ncells + 1 => other'.length >= BufferMag * d
  <2>. DEFINE U == {c \in Cells : ~cells'[c].inited}
  <2>0. ncells \in Nat /\ Cells = 1..ncells
    BY DEF IInv, TypeOK, Cells
  <2>1. \A c \in Cells : CellReset(cells[c], BufferMag * d).length >= BufferMag * d
    BY <1>2, <1>3, CellResetType
  <2>2. CASE U = {}
    <3>1. ASSUME NEW k \in Cells, Stuck(d, k)
          PROVE  FALSE
      <4>1. cells'[k] = StoreFree(cells[k])
        BY <2>0, <3>1
      <4>2. ~cells'[k].inited
        BY <1>3, <4>1, CellFreeType
      <4>. QED  BY <2>2, <4>2
    <3>2. Grown(d)
      BY <1>1, <3>1
    <3>3. other'.length >= BufferMag * d
      BY <1>2, <1>3, <3>2, ColResetType
    <3>4. \A c \in Cells : cells'[c].inited /\ cells'[c].length >= BufferMag * d
      BY <2>1, <2>2, <3>2
    <3>5. /\ ncells + 1 \in 1..(ncells + 1) /\ ~(ncells + 1 <= ncells)
          /\ 1..((ncells + 1) - 1) = Cells
      BY <2>0
    <3>. QED  BY <3>3, <3>4, <3>5
  <2>3. CASE U # {}
    <3>1. PICK b \in U : \A c \in U : b <= c
      <4>1. U \in SUBSET Nat
        BY <2>0
      <4>. QED  BY <2>3, <4>1, LeastNumber, Zenon
    <3>2. ASSUME NEW c \in 1..(b - 1)
          PROVE  cells'[c].inited /\ cells'[c].length >= BufferMag * d
      <4>1. c \in Cells /\ c < b /\ c \notin U
        BY <2>0, <3>1
      <4>2. CASE Grown(d)
        BY <2>1, <4>1, <4>2
      <4>3. ASSUME NEW k \in Cells, Stuck(d, k)
            PROVE  cells'[c].length >= BufferMag * d
        <5>1. cells'[k] = StoreFree(cells[k])
          BY <2>0, <4>3
        <5>2. k \in U
          BY <1>3, <5>1, CellFreeType
        <5>3. c < k
          BY <2>0, <3>1, <4>1, <5>2
        <5>. QED  BY <2>1, <4>1, <4>3, <5>3
      <4>. QED  BY <1>1, <4>1, <4>2, <4>3
    <3>. QED  BY <2>0, <3>1, <3>2
  <2>. QED  BY <2>2, <2>3
<1>7. TypeOK'
  <2>1. args' \in [evaluated : BOOLEAN, flags : SUBSET (1..MaxBatch),
                   vals : Frame]
    BY <1>0, Zenon DEF IInv, TypeOK
  <2>2. /\ proj' \in [projected : BOOLEAN, vals : Frame]
        /\ filt' \in [evaluated : BOOLEAN, flags : SUBSET (1..MaxBatch),
                      vals : Frame]
    BY <1>0, Zenon DEF IInv, TypeOK
  <2>3. /\ maxRows' \in 0..MaxBatch /\ desirable' \in Nat
        /\ cells' \in [1..ncells' -> Cell]
    BY <1>0, <1>1, <1>2, <1>4 DEF Cells
  <2>. QED  BY <1>0, <1>5, <2>1, <2>2, <2>3 DEF IInv, TypeOK, Cells
<1>8. CellsOK'
  BY <1>0, <1>4 DEF IInv, CellsOK, Cells, Udf
<1>9. SizesAgree'
  <2>1. FillSizes'
    BY <1>0, <1>1, <1>4, <1>5, <1>6, EmptyRows DEF FillSizes, Ready, Cells
  <2>. QED  BY <1>0, <2>1 DEF SizesAgree, ProcessSizes, OutputSizes
<1>. QED  BY <1>7, <1>8, <1>9 DEF IInv
-----------------------------------------------------------------------------
\* Evaluating the computed arguments keeps their frame well typed.
LEMMA EvalArgsType ==
  ASSUME IInv, NEW s \in 0..MaxBatch, NEW skip
  PROVE  EvalArgs(s, skip) \in [evaluated : BOOLEAN,
                                flags : SUBSET (1..MaxBatch), vals : Frame]
<1>. USE ConstantsAssumption
<1>. DEFINE ArgsType == [evaluated : BOOLEAN, flags : SUBSET (1..MaxBatch),
                         vals : Frame]
            flags == IF args.evaluated THEN args.flags ELSE args.flags \ (1..s)
            todo  == ((1..s) \ skip) \ flags
            vals  == [i \in 1..MaxBatch |->
                        IF i \in todo
                        THEN pulled + Cardinality((1..i) \ skip)
                        ELSE args.vals[i]]
<1>0. args \in ArgsType /\ pulled \in Nat
  BY DEF IInv, TypeOK
<1>1. flags \cup todo \in SUBSET (1..MaxBatch)
  BY <1>0
<1>2. vals \in Frame
  <2>1. ASSUME NEW i \in 1..MaxBatch
        PROVE  pulled + Cardinality((1..i) \ skip) \in Nat
    <3>1. i \in Nat
      OBVIOUS
    <3>2. Active(i, skip) \in Nat
      BY <3>1, ActiveType, Zenon
    <3>. QED  BY <1>0, <3>2 DEF Active
  <2>2. \A i \in 1..MaxBatch : args.vals[i] \in Nat
    BY <1>0 DEF Frame
  <2>. QED  BY <2>1, <2>2 DEF Frame
<1>3. EvalArgs(s, skip) = IF Computed = {} THEN args
                          ELSE [evaluated |-> TRUE, flags |-> flags \cup todo,
                                vals |-> vals]
  BY DEF EvalArgs
<1>. HIDE DEF flags, todo, vals
<1>4. [evaluated |-> TRUE, flags |-> flags \cup todo, vals |-> vals] \in ArgsType
  BY <1>1, <1>2, Zenon
<1>. QED  BY <1>0, <1>3, <1>4, Zenon

\* What a batch adds to every store is one entry per active position.
LEMMA FetchedRows ==
  ASSUME IInv, NEW s \in 0..MaxBatch, NEW skip
  PROVE  /\ BatchRows(s, skip) \in Seq(Nat)
         /\ Len(BatchRows(s, skip)) = Active(s, skip)
         /\ \A c \in Cells : /\ BatchArgs(c, s, skip) \in Seq(Nat)
                             /\ Len(BatchArgs(c, s, skip)) = Active(s, skip)
<1>. USE ConstantsAssumption
<1>. s \in Nat
  OBVIOUS
<1>0. Active(s, skip) \in Nat
  BY ActiveType, Zenon
<1>1. /\ BatchRows(s, skip) \in Seq(Nat)
      /\ Len(BatchRows(s, skip)) = Active(s, skip)
  <2>1. pulled \in Nat
    BY DEF IInv, TypeOK
  <2>. QED  BY <1>0, <2>1 DEF BatchRows
<1>2. ASSUME NEW c \in Cells
      PROVE  /\ BatchArgs(c, s, skip) \in Seq(Nat)
             /\ Len(BatchArgs(c, s, skip)) = Active(s, skip)
  <2>. DEFINE v == EvalArgs(s, skip).vals
              a == [k \in 1..Active(s, skip) |-> v[ActiveAt(s, skip, k)]]
  <2>1. v \in Frame
    BY EvalArgsType
  <2>2. ASSUME NEW k \in 1..Active(s, skip)
        PROVE  v[ActiveAt(s, skip, k)] \in Nat
    <3>1. ActiveAt(s, skip, k) \in 1..s
      BY <1>0, ActiveAtType
    <3>2. ActiveAt(s, skip, k) \in 1..MaxBatch
      BY <3>1
    <3>. HIDE DEF v
    <3>. QED  BY <2>1, <3>2 DEF Frame
  <2>3. a \in Seq(Nat) /\ Len(a) = Active(s, skip)
    <3>. HIDE DEF v
    <3>. QED  BY <1>0, <2>2
  <2>4. BatchArgs(c, s, skip) = IF cells[c].expr \in Computed THEN a
                                ELSE BatchRows(s, skip)
    BY DEF BatchArgs
  <2>. HIDE DEF a
  <2>. QED  BY <1>1, <2>3, <2>4
<1>. QED  BY <1>1, <1>2

\* The cells before upto have taken the batch, the others have not.
LEMMA CellsSavedType ==
  ASSUME IInv, NEW s \in 0..MaxBatch, NEW skip, NEW upto \in Nat
  PROVE  /\ CellsSaved(s, skip, upto) \in [Cells -> Cell]
         /\ \A c \in Cells :
              LET new == CellsSaved(s, skip, upto)[c] IN
              /\ new.expr = cells[c].expr
              /\ new.inited = cells[c].inited
              /\ new.length = cells[c].length
              /\ new.desirable = cells[c].desirable
              /\ c < upto => Len(new.saved) = Len(cells[c].saved)
                                              + Active(s, skip)
<1>. DEFINE old(c) == cells[c]
            saved(c) == CellSave(cells[c], BatchArgs(c, s, skip))
<1>1. ASSUME NEW c \in Cells
      PROVE  /\ cells[c] \in Cell
             /\ saved(c) \in Cell
             /\ saved(c).expr = cells[c].expr
             /\ saved(c).inited = cells[c].inited
             /\ saved(c).length = cells[c].length
             /\ saved(c).desirable = cells[c].desirable
             /\ Len(saved(c).saved) = Len(cells[c].saved) + Active(s, skip)
  <2>1. cells[c] \in Cell
    BY DEF IInv, TypeOK
  <2>2. /\ BatchArgs(c, s, skip) \in Seq(Nat)
        /\ Len(BatchArgs(c, s, skip)) = Active(s, skip)
    BY FetchedRows
  <2>. DEFINE rows == BatchArgs(c, s, skip)
  <2>. HIDE DEF rows
  <2>3. /\ CellSave(cells[c], rows) \in Cell
        /\ CellSave(cells[c], rows).expr = cells[c].expr
        /\ CellSave(cells[c], rows).inited = cells[c].inited
        /\ CellSave(cells[c], rows).length = cells[c].length
        /\ CellSave(cells[c], rows).desirable = cells[c].desirable
        /\ Len(CellSave(cells[c], rows).saved) = Len(cells[c].saved) + Len(rows)
    BY <2>1, <2>2, CellSaveType, Zenon DEF rows
  <2>. QED  BY <2>1, <2>2, <2>3 DEF rows
<1>2. CellsSaved(s, skip, upto) =
        [c \in Cells |-> IF c < upto THEN saved(c) ELSE cells[c]]
  BY DEF CellsSaved
<1>. HIDE DEF saved
<1>. QED  BY <1>1, <1>2

\* Every store takes all rows of a batch.
LEMMA StoreBatchIInv ==
  ASSUME IInv, NEW s \in 0..MaxBatch, NEW skip, StoreBatch(s, skip)
  PROVE  IInv'
<1>. USE ConstantsAssumption
<1>. DEFINE n == Active(s, skip)
<1>0. s \in Nat /\ ncells \in Nat /\ Cells = 1..ncells
  BY DEF IInv, TypeOK, Cells
<1>1. n \in Nat
  BY <1>0, ActiveType, Zenon
<1>2. /\ pc = "fill" /\ pc' = "fill" /\ ~brsEnd
      /\ pulled' = pulled + n /\ brsEnd' = (s = 0)
      /\ args' = EvalArgs(s, skip)
      /\ cells' = CellsSaved(s, skip, ncells + 1)
      /\ other' = ColSave(other, BatchRows(s, skip))
      /\ storedIn' = storedIn + n
      /\ \A c \in Cells : CellAccepts(cells[c], n)
      /\ UNCHANGED <<err, total, maxRows, rescans, peers, ncells, desirable,
                     storedOut, outIdx, cur, idx, evalSize, info, proj, filt,
                     out>>
  BY DEF StoreBatch, Filling, control, process
<1>3. pulled' \in 0..MaxRows
  <2>1. total \in 0..MaxRows /\ pulled \in 0..MaxRows
    BY DEF IInv, TypeOK
  <2>2. CASE pulled = total
    <3>1. s = 0
      BY <2>2 DEF StoreBatch, ChildReturns
    <3>2. n <= s
      BY <1>0, ActiveType, Zenon
    <3>. QED  BY <1>1, <1>2, <2>1, <3>1, <3>2
  <2>3. CASE pulled # total
    <3>1. n <= total - pulled
      BY <2>3 DEF StoreBatch, ChildReturns
    <3>. QED  BY <1>1, <1>2, <2>1, <3>1
  <2>. QED  BY <2>2, <2>3
<1>4. /\ other' \in Col /\ Len(other'.saved) = Len(other.saved) + n
      /\ other'.length = other.length /\ other'.outIdx = other.outIdx
  <2>1. other \in Col
    BY DEF IInv, TypeOK
  <2>2. BatchRows(s, skip) \in Seq(Nat) /\ Len(BatchRows(s, skip)) = n
    BY FetchedRows
  <2>. HIDE DEF n
  <2>. QED  BY <1>2, <2>1, <2>2, ColSaveType
<1>5. /\ cells' \in [Cells -> Cell]
      /\ \A c \in Cells :
           /\ cells'[c].expr = cells[c].expr
           /\ cells'[c].inited = cells[c].inited
           /\ cells'[c].length = cells[c].length
           /\ Len(cells'[c].saved) = Len(cells[c].saved) + n
  <2>1. ncells + 1 \in Nat /\ \A c \in Cells : c < ncells + 1
    BY <1>0
  <2>. QED  BY <1>2, <2>1, CellsSavedType
<1>6. args' \in [evaluated : BOOLEAN, flags : SUBSET (1..MaxBatch), vals : Frame]
  BY <1>2, EvalArgsType
<1>. HIDE DEF n
<1>7. TypeOK'
  <2>1. storedIn' \in Nat /\ brsEnd' \in BOOLEAN
    BY <1>1, <1>2 DEF IInv, TypeOK
  <2>. QED  BY <1>0, <1>2, <1>3, <1>4, <1>5, <1>6, <2>1 DEF IInv, TypeOK, Cells
<1>8. CellsOK'
  BY <1>0, <1>2, <1>5 DEF IInv, CellsOK, Cells, Udf
<1>9. SizesAgree'
  <2>1. PICK b \in 1..(ncells + 1) :
         /\ \A c \in 1..(b - 1) : Ready(c)
         /\ b <= ncells => ~cells[b].inited /\ storedIn = 0 /\ ~brsEnd
         /\ b = ncells + 1 => other.length >= BufferMag * desirable
    BY <1>2 DEF IInv, SizesAgree, FillSizes
  <2>2. b = ncells + 1
    <3>1. ASSUME b <= ncells PROVE FALSE
      <4>1. b \in Cells /\ ~cells[b].inited
        BY <1>0, <2>1, <3>1
      <4>. QED  BY <1>2, <4>1 DEF CellAccepts
    <3>. QED  BY <1>0, <2>1, <3>1
  <2>3. \A c \in 1..(b - 1) : cells'[c].inited /\ cells'[c].length >= BufferMag * desirable'
    BY <1>0, <1>2, <1>5, <2>1, <2>2 DEF Ready
  <2>4. FillSizes'
    <3>1. /\ storedOut' = 0 /\ outIdx' = 0 /\ other'.outIdx = 0
          /\ Len(other'.saved) = storedIn'
          /\ \A c \in Cells : Len(cells'[c].saved) = storedIn'
      BY <1>2, <1>4, <1>5 DEF IInv, SizesAgree, FillSizes
    <3>2. other'.length >= BufferMag * desirable'
      BY <1>2, <1>4, <2>1, <2>2
    <3>. QED  BY <1>0, <1>2, <2>2, <2>3, <3>1, <3>2 DEF FillSizes, Ready, Cells
  <2>. QED  BY <1>2, <2>4 DEF SizesAgree, ProcessSizes, OutputSizes
<1>. QED  BY <1>7, <1>8, <1>9 DEF IInv

\* A store refuses a batch: the execution ends.
LEMMA StoreFailsIInv ==
  ASSUME IInv, NEW s \in 0..MaxBatch, NEW skip, StoreFails(s, skip)
  PROVE  IInv'
<1>. USE ConstantsAssumption
<1>0. PICK k \in 1..(ncells + 1) :
        /\ cells' = CellsSaved(s, skip, k)
        /\ Fail(StoreError(k, Active(s, skip)))
  BY DEF StoreFails
<1>1. /\ brsEnd' = (s = 0) /\ args' = EvalArgs(s, skip)
      /\ UNCHANGED <<total, maxRows, rescans, peers, pulled, ncells, other,
                     desirable, storedIn, storedOut, outIdx, cur, idx,
                     evalSize, info, proj, filt, out>>
  BY DEF StoreFails, counters, process
<1>2. /\ cells' \in [Cells -> Cell]
      /\ \A c \in Cells : cells'[c].expr = cells[c].expr
  <2>1. k \in Nat
    BY <1>0 DEF IInv, TypeOK
  <2>2. cells' = CellsSaved(s, skip, k)
    BY <1>0
  <2>. DEFINE new == CellsSaved(s, skip, k)
  <2>3. new \in [Cells -> Cell]
    BY <2>1, CellsSavedType
  <2>4. ASSUME NEW c \in Cells PROVE new[c].expr = cells[c].expr
    BY <2>1, CellsSavedType
  <2>. HIDE DEF new
  <2>. QED  BY <2>2, <2>3, <2>4 DEF new
<1>3. args' \in [evaluated : BOOLEAN, flags : SUBSET (1..MaxBatch), vals : Frame]
  BY <1>1, EvalArgsType
<1>4. pc' = "failed" /\ err' \in Errors
  BY <1>0 DEF Fail, StoreError, Errors
<1>5. TypeOK'
  BY <1>1, <1>2, <1>3, <1>4 DEF IInv, TypeOK, Cells
<1>6. CellsOK'
  BY <1>1, <1>2, <1>4 DEF IInv, CellsOK, Cells, Udf
<1>7. SizesAgree'
  BY <1>4 DEF SizesAgree, FillSizes, ProcessSizes, OutputSizes
<1>. QED  BY <1>5, <1>6, <1>7 DEF IInv

-----------------------------------------------------------------------------
\* process() turns to a cell, which holds all rows.
LEMMA StartCellIInv ==
  ASSUME IInv, StartCell
  PROVE  IInv' /\ pc' = "wrap" /\ err' = err
<1>. USE ConstantsAssumption
<1>0. /\ pc = "process" /\ cur \in Cells /\ cells[cur] \in Cell
      /\ Len(cells[cur].saved) = storedIn
  BY DEF StartCell, IInv, TypeOK, SizesAgree, ProcessSizes
<1>1. /\ pc' = "wrap" /\ err' = err /\ idx' = 0
      /\ cells' = [cells EXCEPT ![cur] = CellStart(cells[cur])]
      /\ UNCHANGED <<total, maxRows, rescans, peers, pulled, brsEnd, ncells,
                     other, desirable, storedIn, storedOut, outIdx, cur,
                     evalSize, info, args, proj, filt, out>>
  BY <1>0 DEF StartCell, Check, counters, frames
<1>2. /\ cells' \in [Cells -> Cell]
      /\ \A c \in Cells : /\ cells'[c].expr = cells[c].expr
                          /\ cells'[c].saved = cells[c].saved
                          /\ c # cur => cells'[c] = cells[c]
      /\ cells'[cur].resultSize = 0
  <2>1. /\ CellStart(cells[cur]) \in Cell
        /\ CellStart(cells[cur]).expr = cells[cur].expr
        /\ CellStart(cells[cur]).saved = cells[cur].saved
        /\ CellStart(cells[cur]).resultSize = 0
    BY <1>0, CellStartType
  <2>. QED  BY <1>0, <1>1, <2>1 DEF IInv, TypeOK
<1>3. TypeOK'
  BY <1>1, <1>2 DEF IInv, TypeOK, Cells
<1>4. CellsOK'
  <2>1. ncells' >= NumUdf /\ Cells' = Cells
    BY <1>0, <1>1 DEF IInv, CellsOK, Cells
  <2>2. \A c \in Cells : cells'[c].expr \in Udf
    BY <1>2 DEF IInv, CellsOK
  <2>. QED  BY <1>1, <2>1, <2>2 DEF CellsOK, Udf
<1>5. SizesAgree'
  <2>0. Cells' = Cells
    BY <1>1 DEF Cells
  <2>1. ProcessSizes'
    <3>1. /\ cur' \in Cells
          /\ storedOut' = 0 /\ outIdx' = 0 /\ other'.outIdx = 0
          /\ Len(other'.saved) = storedIn'
      BY <1>0, <1>1 DEF IInv, SizesAgree, ProcessSizes
    <3>2. ASSUME NEW c \in Cells
          PROVE  /\ c < cur' => cells'[c].saved = <<>>
                                /\ cells'[c].resultSize = storedIn'
                 /\ c >= cur' => Len(cells'[c].saved) = storedIn'
      <4>1. /\ c < cur => cells[c].saved = <<>> /\ cells[c].resultSize = storedIn
            /\ c >= cur => Len(cells[c].saved) = storedIn
        BY <1>0 DEF IInv, SizesAgree, ProcessSizes
      <4>2. c < cur => c # cur
        BY <1>0 DEF Cells, IInv, TypeOK
      <4>. QED  BY <1>1, <1>2, <4>1, <4>2
    <3>3. cells'[cur'].resultSize = idx' /\ idx' <= storedIn'
      BY <1>1, <1>2 DEF IInv, TypeOK
    <3>. QED  BY <1>1, <2>0, <3>1, <3>2, <3>3 DEF ProcessSizes
  <2>. QED  BY <1>1, <2>1 DEF SizesAgree, FillSizes, OutputSizes
<1>. QED  BY <1>1, <1>3, <1>4, <1>5 DEF IInv

\* A call adds one slice to the results of the cell.
LEMMA PythonReturnsIInv ==
  ASSUME IInv, PythonReturns
  PROVE  IInv'
<1>. USE ConstantsAssumption
<1>. DEFINE e == cells[cur].expr
<1>0. /\ pc = "python" /\ pc' = "wrap" /\ idx' = idx + evalSize
      /\ UNCHANGED <<err, total, maxRows, rescans, peers, pulled, brsEnd,
                     ncells, other, desirable, storedIn, storedOut, outIdx,
                     cur, evalSize, args, proj, filt, out>>
  BY DEF PythonReturns, control, counters, frames
<1>1. /\ cur \in Cells /\ cells[cur] \in Cell /\ e \in Udf
      /\ Len(cells[cur].saved) = storedIn /\ cells[cur].resultSize = idx
      /\ idx + evalSize <= storedIn /\ idx \in Nat /\ evalSize \in Nat
      /\ storedIn \in Nat /\ ncells \in Nat
  BY <1>0 DEF IInv, TypeOK, SizesAgree, ProcessSizes, CellsOK, Cells
<1>2. PICK len \in 0..evalSize, i \in Tuned(info[e], evalSize) :
        /\ info' = [info EXCEPT ![e] = i]
        /\ cells' = [cells EXCEPT ![cur] =
                       CellAbsorb(cells[cur],
                                  SubSeq(cells[cur].saved, idx + 1, idx + len),
                                  evalSize, i.predict)]
  <2>1. evalSize \in 0..evalSize
    BY <1>1
  <2>. QED  BY <1>1, <2>1, Zenon DEF PythonReturns
<1>3. info[e] \in [predict : Nat, tuned : BOOLEAN, round : Nat]
  BY <1>1 DEF IInv, TypeOK
<1>4. i \in [predict : Nat, tuned : BOOLEAN, round : Nat]
  BY <1>1, <1>3, TunedType
<1>5. info' \in [Udf -> [predict : Nat, tuned : BOOLEAN, round : Nat]]
  BY <1>1, <1>2, <1>4, Zenon DEF IInv, TypeOK
<1>6. SubSeq(cells[cur].saved, idx + 1, idx + len) \in Seq(Nat)
  <2>1. cells[cur].saved \in Seq(Nat) /\ len \in Nat
    BY <1>1 DEF Cell
  <2>. DEFINE rows == cells[cur].saved
              from == idx + 1
              to == idx + len
  <2>2. /\ rows \in Seq(Nat) /\ from \in Nat \ {0} /\ to \in Nat
        /\ to <= Len(rows)
    BY <1>1, <1>2, <2>1
  <2>. HIDE DEF rows, from, to
  <2>3. \A j \in from..to : rows[j] \in Nat
    BY <2>2
  <2>4. SubSeq(rows, from, to) \in Seq(Nat)
    BY <2>2, <2>3
  <2>. QED  BY <2>4 DEF rows, from, to
<1>7. /\ cells' \in [Cells -> Cell]
      /\ \A c \in Cells : /\ cells'[c].expr = cells[c].expr
                          /\ cells'[c].saved = cells[c].saved
                          /\ c # cur => cells'[c] = cells[c]
      /\ cells'[cur].resultSize = idx + evalSize
  <2>. DEFINE v == SubSeq(cells[cur].saved, idx + 1, idx + len)
              old == cells[cur]
              p == i.predict
              new == CellAbsorb(old, v, evalSize, p)
  <2>0. v \in Seq(Nat) /\ old \in Cell /\ p \in Nat /\ evalSize \in Nat
    BY <1>1, <1>4, <1>6
  <2>1. cells' = [cells EXCEPT ![cur] = new] /\ old = cells[cur]
    BY <1>2
  <2>. HIDE DEF v, old, p
  <2>2. /\ new \in Cell /\ new.expr = old.expr /\ new.saved = old.saved
        /\ new.resultSize = old.resultSize + evalSize
    <3>1. new \in Cell /\ new.expr = old.expr
      BY <2>0, CellAbsorbType
    <3>2. new.saved = old.saved
      BY <2>0 DEF CellAbsorb, Cell
    <3>3. new.resultSize = old.resultSize + evalSize
      BY <2>0 DEF CellAbsorb, Cell
    <3>. QED  BY <3>1, <3>2, <3>3
  <2>. HIDE DEF new
  <2>. QED  BY <1>1, <2>1, <2>2 DEF IInv, TypeOK
<1>8. TypeOK'
  BY <1>0, <1>1, <1>5, <1>7 DEF IInv, TypeOK, Cells
<1>9. CellsOK'
  <2>1. ncells' >= NumUdf /\ Cells' = Cells
    BY <1>0 DEF IInv, CellsOK, Cells
  <2>2. \A c \in Cells : cells'[c].expr \in Udf
    BY <1>7 DEF IInv, CellsOK
  <2>. QED  BY <1>0, <2>1, <2>2 DEF CellsOK, Udf
<1>10. SizesAgree'
  <2>0. Cells' = Cells
    BY <1>0 DEF Cells
  <2>1. ProcessSizes'
    <3>1. /\ cur' \in Cells
          /\ storedOut' = 0 /\ outIdx' = 0 /\ other'.outIdx = 0
          /\ Len(other'.saved) = storedIn'
      BY <1>0 DEF IInv, SizesAgree, ProcessSizes
    <3>2. ASSUME NEW c \in Cells
          PROVE  /\ c < cur' => cells'[c].saved = <<>>
                                /\ cells'[c].resultSize = storedIn'
                 /\ c >= cur' => Len(cells'[c].saved) = storedIn'
      <4>1. /\ c < cur => cells[c].saved = <<>> /\ cells[c].resultSize = storedIn
            /\ c >= cur => Len(cells[c].saved) = storedIn
        BY <1>0 DEF IInv, SizesAgree, ProcessSizes
      <4>2. c < cur => c # cur
        BY <1>1 DEF Cells
      <4>. QED  BY <1>0, <1>7, <4>1, <4>2
    <3>3. cells'[cur'].resultSize = idx' /\ idx' <= storedIn'
      BY <1>0, <1>1, <1>7
    <3>. QED  BY <1>0, <2>0, <3>1, <3>2, <3>3 DEF ProcessSizes
  <2>. QED  BY <1>0, <2>1 DEF SizesAgree, FillSizes, OutputSizes
<1>. QED  BY <1>8, <1>9, <1>10 DEF IInv

\* A cell is finished with a result for every row.
LEMMA FinishCellIInv ==
  ASSUME IInv, FinishCell
  PROVE  IInv' /\ err' = err
<1>. USE ConstantsAssumption
<1>. DEFINE last == cur = ncells
<1>0. /\ pc = "wrap" /\ cur \in Cells /\ cells[cur] \in Cell
      /\ Len(cells[cur].saved) = storedIn /\ cells[cur].resultSize = idx
      /\ idx = storedIn /\ storedIn \in Nat /\ ncells \in Nat /\ cur \in Nat
  BY DEF FinishCell, IInv, TypeOK, SizesAgree, ProcessSizes, Cells
<1>1. /\ pc' = IF last THEN "restore" ELSE "process"
      /\ err' = err
      /\ cells' = [cells EXCEPT ![cur] = CellReset(cells[cur], 0)]
      /\ cur' = IF last THEN cur ELSE cur + 1
      /\ storedOut' = IF last THEN storedIn ELSE storedOut
      /\ storedIn' = IF last THEN 0 ELSE storedIn
      /\ outIdx' = IF last THEN 0 ELSE outIdx
      /\ UNCHANGED <<total, maxRows, rescans, peers, pulled, brsEnd, ncells,
                     other, desirable, idx, evalSize, info, args, proj, filt,
                     out>>
  BY <1>0 DEF FinishCell, Check, frames
<1>. HIDE DEF last
<1>2. /\ cells' \in [Cells -> Cell]
      /\ cells'[cur].saved = <<>> /\ cells'[cur].resultSize = storedIn
      /\ cells'[cur].expr = cells[cur].expr
      /\ \A c \in Cells : c # cur => cells'[c] = cells[c]
  <2>. DEFINE new == CellReset(cells[cur], 0)
  <2>1. new = [cells[cur] EXCEPT !.saved = <<>>]
    BY <1>0 DEF CellReset, CellReuse, Cell
  <2>2. new \in Cell
    BY <1>0, <2>1, EmptyRows, Zenon DEF Cell
  <2>3. new.saved = <<>> /\ new.resultSize = storedIn /\ new.expr = cells[cur].expr
    BY <1>0, <2>1 DEF Cell
  <2>. HIDE DEF new
  <2>. QED  BY <1>0, <1>1, <2>2, <2>3 DEF IInv, TypeOK, new
<1>3. TypeOK'
  <2>1. cur' \in Nat /\ storedOut' \in Nat /\ storedIn' \in Nat /\ outIdx' \in Nat
    BY <1>0, <1>1 DEF IInv, TypeOK
  <2>2. pc' \in {"restore", "process"}
    BY <1>1
  <2>. QED  BY <1>1, <1>2, <2>1, <2>2 DEF IInv, TypeOK, Cells
<1>4. Cells' = Cells
  BY <1>1 DEF Cells
<1>5. CellsOK'
  <2>1. \A c \in Cells : cells'[c].expr \in Udf
    BY <1>0, <1>2 DEF IInv, CellsOK
  <2>2. ncells' >= NumUdf
    BY <1>0, <1>1 DEF IInv, CellsOK
  <2>. QED  BY <1>1, <1>4, <2>1, <2>2 DEF CellsOK, Udf
<1>6. /\ storedOut = 0 /\ outIdx = 0 /\ other.outIdx = 0
      /\ Len(other.saved) = storedIn
      /\ \A c \in Cells :
           /\ c < cur => cells[c].saved = <<>> /\ cells[c].resultSize = storedIn
           /\ c >= cur => Len(cells[c].saved) = storedIn
  BY <1>0 DEF IInv, SizesAgree, ProcessSizes
<1>7. CASE last
  <2>1. /\ pc' = "restore" /\ storedIn' = 0 /\ storedOut' = storedIn
        /\ outIdx' = 0 /\ other' = other
    BY <1>1, <1>7
  <2>2. ASSUME NEW c \in Cells
        PROVE  cells'[c].saved = <<>> /\ cells'[c].resultSize = storedIn
    <3>1. CASE c = cur
      BY <1>2, <3>1
    <3>2. CASE c # cur
      <4>1. c < cur
        BY <1>0, <1>7, <3>2 DEF last, Cells
      <4>. QED  BY <1>2, <1>6, <3>2, <4>1
    <3>. QED  BY <3>1, <3>2
  <2>3. ~CanOutput' => other'.saved = <<>>
    BY <1>0, <1>6, <2>1 DEF CanOutput, IInv, TypeOK, Col
  <2>4. OutputSizes'
    BY <1>4, <1>6, <2>1, <2>2, <2>3 DEF OutputSizes, CanOutput
  <2>5. SizesAgree'
    BY <2>1, <2>4 DEF SizesAgree, FillSizes, ProcessSizes
  <2>. QED  BY <1>1, <1>3, <1>5, <2>5 DEF IInv
<1>8. CASE ~last
  <2>1. /\ pc' = "process" /\ storedIn' = storedIn /\ storedOut' = 0
        /\ outIdx' = 0 /\ other' = other /\ cur' = cur + 1
    BY <1>1, <1>6, <1>8
  <2>2. cur' \in Cells
    BY <1>0, <1>8, <2>1 DEF last, Cells
  <2>3. ASSUME NEW c \in Cells
        PROVE  /\ c < cur' => cells'[c].saved = <<>>
                              /\ cells'[c].resultSize = storedIn'
               /\ c >= cur' => Len(cells'[c].saved) = storedIn'
    <3>1. CASE c = cur
      <4>1. ~(c >= cur')
        BY <1>0, <2>1, <3>1
      <4>. QED  BY <1>2, <2>1, <3>1, <4>1
    <3>2. CASE c # cur
      <4>1. (c < cur' => c < cur) /\ (c >= cur' => c >= cur)
        BY <1>0, <2>1, <3>2 DEF Cells
      <4>2. cells'[c] = cells[c]
        BY <1>2, <3>2
      <4>. QED  BY <1>6, <2>1, <4>1, <4>2
    <3>. QED  BY <3>1, <3>2
  <2>4. ProcessSizes'
    BY <1>4, <1>6, <2>1, <2>2, <2>3 DEF ProcessSizes
  <2>5. SizesAgree'
    BY <2>1, <2>4 DEF SizesAgree, FillSizes, OutputSizes
  <2>. QED  BY <1>1, <1>3, <1>5, <2>5 DEF IInv
<1>. QED  BY <1>7, <1>8

-----------------------------------------------------------------------------
\* What is restored: n rows that exist in every store, and their answers.
LEMMA RestoredSizes ==
  ASSUME IInv, pc = "restore", CanOutput
  PROVE  /\ OutputSize \in Nat /\ OutputSize <= MaxBatch
         /\ outIdx + OutputSize <= storedOut
         /\ Len(other.saved) = storedOut /\ other.outIdx = outIdx
         /\ Restorable(OutputSize)
<1>. USE ConstantsAssumption
<1>1. /\ outIdx \in Nat /\ storedOut \in Nat /\ maxRows \in Nat
      /\ maxRows <= MaxBatch /\ outIdx < storedOut
      /\ Len(other.saved) = storedOut /\ other.outIdx = outIdx
      /\ \A c \in Cells : cells[c].resultSize = storedOut
  BY DEF IInv, TypeOK, SizesAgree, OutputSizes, CanOutput
<1>2. /\ OutputSize \in Nat /\ OutputSize <= MaxBatch
      /\ outIdx + OutputSize <= storedOut
  BY <1>1 DEF OutputSize
<1>. QED  BY <1>1, <1>2 DEF Restorable, ColHas

\* What is restored for a row has one value per UDF.
LEMMA UdfValuesType ==
  ASSUME IInv, pc = "restore", NEW i \in Nat \ {0}
  PROVE  UdfValues(i) \in [Udf -> Nat] /\ UdfValues(i)[1] \in Nat
<1>. USE ConstantsAssumption
<1>1. outIdx \in Nat /\ ncells \in Nat /\ ncells >= NumUdf
  BY DEF IInv, TypeOK, CellsOK
<1>2. ASSUME NEW e \in Udf PROVE ResultAt(cells[LastCell(e)], outIdx + i) \in Nat
  <2>1. LastCell(e) \in Cells
    BY <1>1 DEF LastCell, Udf, Cells
  <2>2. cells[LastCell(e)] \in Cell
    BY <2>1 DEF IInv, TypeOK
  <2>3. outIdx + i \in Nat \ {0}
    BY <1>1
  <2>. HIDE DEF LastCell
  <2>. QED  BY <2>2, <2>3, ResultAtType
<1>3. UdfValues(i) \in [Udf -> Nat]
  BY <1>2 DEF UdfValues
<1>4. 1 \in Udf
  BY DEF Udf
<1>. QED  BY <1>3, <1>4

\* The frame of the computed projection keeps its type.
LEMMA ProjectedType ==
  ASSUME IInv, pc = "restore", NEW n \in Nat
  PROVE  Projected(n) \in Frame
<1>. USE ConstantsAssumption
<1>1. proj.vals \in Frame
  BY DEF IInv, TypeOK
<1>2. \A i \in 1..MaxBatch : UdfValues(i)[1] \in Nat /\ proj.vals[i] \in Nat
  BY <1>1, UdfValuesType DEF Frame
<1>. QED  BY <1>1, <1>2 DEF Projected, Frame

\* So does the frame of the expression that the filter tests.
LEMMA FilterEvalType ==
  ASSUME IInv, pc = "restore", NEW n \in Nat, n <= MaxBatch
  PROVE  FilterEval(n) \in [evaluated : BOOLEAN, flags : SUBSET (1..MaxBatch),
                            vals : Frame]
<1>. USE ConstantsAssumption
<1>1. filt.vals \in Frame /\ filt.flags \in SUBSET (1..MaxBatch)
  BY DEF IInv, TypeOK
<1>2. \A i \in 1..MaxBatch : UdfValues(i)[1] \in Nat /\ filt.vals[i] \in Nat
  BY <1>1, UdfValuesType DEF Frame
<1>. DEFINE flags == IF filt.evaluated THEN filt.flags ELSE filt.flags \ (1..n)
            todo  == (1..n) \ flags
            vals  == [i \in 1..MaxBatch |->
                        IF i \in todo THEN UdfValues(i)[1] ELSE filt.vals[i]]
<1>3. flags \cup todo \in SUBSET (1..MaxBatch)
  BY <1>1
<1>4. vals \in Frame
  BY <1>2 DEF Frame
<1>5. FilterEval(n) = [evaluated |-> TRUE, flags |-> flags \cup todo, vals |-> vals]
  BY DEF FilterEval
<1>. HIDE DEF flags, todo, vals
<1>. QED  BY <1>3, <1>4, <1>5

\* The parent receives answers.
LEMMA OutputRowType ==
  ASSUME IInv, pc = "restore", CanOutput, NEW i \in 1..OutputSize
  PROVE  OutputRow(OutputSize, i) \in Answer
<1>. USE ConstantsAssumption
<1>. DEFINE n == OutputSize
<1>0. /\ n \in Nat /\ n <= MaxBatch /\ outIdx + n <= storedOut
      /\ Len(other.saved) = storedOut /\ other.outIdx = outIdx
      /\ outIdx \in Nat /\ storedOut \in Nat
  BY RestoredSizes DEF IInv, TypeOK
<1>. HIDE DEF n
<1>1. i \in Nat \ {0} /\ i \in 1..MaxBatch /\ outIdx + i \in 1..storedOut
  BY <1>0 DEF n
<1>2. other.saved[other.outIdx + i] \in Nat
  <2>1. other.saved \in Seq(Nat)
    BY DEF IInv, TypeOK, Col
  <2>. QED  BY <1>0, <1>1, <2>1
<1>3. UdfValues(i) \in [Udf -> Nat] /\ UdfValues(i)[1] \in Nat
  BY <1>1, UdfValuesType
<1>4. Projected(n)[i] \in Nat
  BY <1>0, <1>1, ProjectedType DEF Frame
<1>5. OutputRow(n, i) \in Answer
  BY <1>2, <1>3, <1>4 DEF OutputRow, Answer
<1>. QED  BY <1>5 DEF n

\* A batch is restored from all stores at once.
LEMMA RestoreBatchIInv ==
  ASSUME IInv, RestoreBatch
  PROVE  IInv' /\ err' = err
<1>. USE ConstantsAssumption
<1>. DEFINE n == OutputSize
            drop == FilteredOut(n)
            kept == Active(n, drop)
            rows == [k \in 1..kept |-> OutputRow(n, ActiveAt(n, drop, k))]
<1>0. pc = "restore" /\ CanOutput /\ Restorable(n)
  BY RestoredSizes DEF RestoreBatch
<1>1. /\ n \in Nat /\ n <= MaxBatch /\ outIdx + n <= storedOut
      /\ Len(other.saved) = storedOut /\ other.outIdx = outIdx
      /\ outIdx \in Nat /\ storedOut \in Nat /\ other \in Col
  BY <1>0, RestoredSizes DEF IInv, TypeOK
<1>2. /\ pc' \in {"again", "idle"} /\ err' = err
      /\ outIdx' = outIdx + n
      /\ other' = IF outIdx + n = storedOut THEN ColReuse(other)
                  ELSE ColLoad(other, n)
      /\ brsEnd' = FALSE
      /\ out' = out \o rows
      /\ \/ proj' = proj
         \/ proj' = [projected |-> TRUE, vals |-> Projected(n)]
      /\ filt' = filt \/ filt' = FilterEval(n)
      /\ UNCHANGED <<total, maxRows, rescans, peers, pulled, ncells, cells,
                     desirable, storedIn, storedOut, cur, idx, evalSize, info,
                     args>>
  <2>1. pc' = IF kept = 0 THEN "again" ELSE "idle"
    BY <1>0 DEF RestoreBatch, Check
  <2>2. /\ proj' = IF ComputedProj /\ kept > 0
                   THEN [projected |-> TRUE, vals |-> Projected(n)] ELSE proj
    BY <1>0, Zenon DEF RestoreBatch
  <2>3. out' = out \o rows
    BY <1>0, Zenon DEF RestoreBatch
  <2>4. /\ err' = err /\ outIdx' = outIdx + n
        /\ other' = IF outIdx + n = storedOut THEN ColReuse(other)
                    ELSE ColLoad(other, n)
    BY <1>0, Zenon DEF RestoreBatch, Check
  <2>5. brsEnd' = FALSE
    BY <1>0 DEF RestoreBatch
  <2>6. UNCHANGED <<total, maxRows, rescans, peers, pulled, ncells, cells,
                    desirable, storedIn, storedOut, cur, idx, evalSize, info,
                    args>>
    BY DEF RestoreBatch, process
  <2>7. filt' = filt \/ filt' = FilterEval(n)
    BY <1>0, Zenon DEF RestoreBatch
  <2>. HIDE DEF n, rows, kept
  <2>. QED  BY <2>1, <2>2, <2>3, <2>4, <2>5, <2>6, <2>7
<1>3. rows \in Seq(Answer)
  <2>1. kept \in Nat
    BY <1>1, ActiveType, Zenon
  <2>2. ASSUME NEW k \in 1..kept PROVE OutputRow(n, ActiveAt(n, drop, k)) \in Answer
    <3>1. ActiveAt(n, drop, k) \in 1..n
      BY <1>1, <2>2, ActiveAtType, Zenon
    <3>. DEFINE i == ActiveAt(n, drop, k)
    <3>. HIDE DEF i
    <3>2. OutputRow(n, i) \in Answer
      BY <1>0, <3>1, OutputRowType DEF i
    <3>. QED  BY <3>2 DEF i
  <2>. HIDE DEF kept, n, drop
  <2>. QED  BY <2>1, <2>2
<1>4. out' \in Seq(Answer)
  <2>1. out \in Seq(Answer)
    BY DEF IInv, TypeOK
  <2>. HIDE DEF rows
  <2>. QED  BY <1>2, <1>3, <2>1
<1>5. proj' \in [projected : BOOLEAN, vals : Frame]
  <2>1. Projected(n) \in Frame /\ proj \in [projected : BOOLEAN, vals : Frame]
    BY <1>0, <1>1, ProjectedType DEF IInv, TypeOK
  <2>. DEFINE vals == Projected(n)
  <2>2. proj' = proj \/ proj' = [projected |-> TRUE, vals |-> vals]
    BY <1>2
  <2>. HIDE DEF n, rows, vals
  <2>3. [projected |-> TRUE, vals |-> vals] \in [projected : BOOLEAN, vals : Frame]
    BY <2>1 DEF vals
  <2>. QED  BY <2>1, <2>2, <2>3, Zenon
<1>10. filt' \in [evaluated : BOOLEAN, flags : SUBSET (1..MaxBatch), vals : Frame]
  <2>1. /\ FilterEval(n) \in [evaluated : BOOLEAN, flags : SUBSET (1..MaxBatch),
                              vals : Frame]
        /\ filt \in [evaluated : BOOLEAN, flags : SUBSET (1..MaxBatch), vals : Frame]
    BY <1>0, <1>1, FilterEvalType DEF IInv, TypeOK
  <2>2. filt' = filt \/ filt' = FilterEval(n)
    BY <1>2
  <2>. QED  BY <2>1, <2>2, Zenon
<1>. HIDE DEF rows, n
<1>6. /\ other' \in Col
      /\ outIdx + n = storedOut => other'.saved = <<>> /\ other'.outIdx = 0
      /\ outIdx + n # storedOut => /\ other'.saved = other.saved
                                   /\ other'.outIdx = other.outIdx + n
  BY <1>1, <1>2, ColLoadType
<1>7. TypeOK'
  <2>1. outIdx' \in Nat
    BY <1>1, <1>2
  <2>2. brsEnd' \in BOOLEAN
    BY <1>2
  <2>. QED  BY <1>2, <1>4, <1>5, <1>6, <1>10, <2>1, <2>2 DEF IInv, TypeOK, Cells
<1>8. CellsOK'
  BY <1>0, <1>2 DEF IInv, CellsOK, Cells, Udf
<1>9. SizesAgree'
  <2>1. /\ storedIn = 0 /\ \A c \in Cells : cells[c].saved = <<>>
        /\ \A c \in Cells : cells[c].resultSize = storedOut
    BY <1>0 DEF IInv, SizesAgree, OutputSizes
  <2>2. OutputSizes'
    BY <1>1, <1>2, <1>6, <2>1 DEF OutputSizes, CanOutput, Cells
  <2>. QED  BY <1>2, <2>2 DEF SizesAgree, FillSizes, ProcessSizes
<1>. QED  BY <1>2, <1>7, <1>8, <1>9 DEF IInv

-----------------------------------------------------------------------------
\* Nothing happens.
LEMMA StutterIInv ==
  ASSUME IInv, UNCHANGED vars
  PROVE  IInv'
<1>. USE DEF vars, control, stores, counters, process, frames
<1>1. TypeOK'
  BY DEF IInv, TypeOK, Cells
<1>2. CellsOK'
  BY DEF IInv, CellsOK, Cells, CanOutput, Udf
<1>3. SizesAgree'
  BY DEF IInv, SizesAgree, FillSizes, ProcessSizes, OutputSizes, Ready, Cells,
         CanOutput
<1>. QED  BY <1>1, <1>2, <1>3 DEF IInv

\* Every step keeps the invariant.
LEMMA NextIInv ==
  ASSUME IInv, [Next]_vars
  PROVE  IInv'
<1>1. CASE Open
  BY <1>1, OpenIInv
<1>2. CASE Rescan
  BY <1>2, RescanIInv
<1>3. CASE Close
  BY <1>3, CloseIInv
<1>4. CASE Enter
  BY <1>4, ResumeIInv, BeginFillIInv DEF Enter
<1>5. CASE Fetch
  BY <1>5, StoreBatchIInv, StoreFailsIInv, ChildFailsIInv DEF Fetch
<1>6. CASE EndFill \/ StartCell \/ CallPython \/ PythonReturns \/ PythonRaises
  BY <1>6, EndFillIInv, StartCellIInv, CallPythonIInv, PythonReturnsIInv,
     PythonRaisesIInv
<1>7. CASE FinishCell \/ RestoreBatch \/ RestoreNothing
  BY <1>7, FinishCellIInv, RestoreBatchIInv, RestoreNothingIInv
<1>8. CASE \E e \in Udf : PeerTunes(e)
  BY <1>8, PeerTunesIInv
<1>9. CASE UNCHANGED vars
  BY <1>9, StutterIInv
<1>. QED  BY <1>1, <1>2, <1>3, <1>4, <1>5, <1>6, <1>7, <1>8, <1>9
          DEF Next, Work, Terminated

\* The invariant holds in every reachable state.
LEMMA InvariantIInv == Spec => []IInv
<1>1. Init => IInv
  BY InitIInv
<1>2. IInv /\ [Next]_vars => IInv'
  BY NextIInv
<1>. QED  BY <1>1, <1>2, PTL DEF Spec

\* Every variable keeps its type, for every number of UDFs and columns, every
\* batch size and every prediction size.
THEOREM TypeCorrect == Spec => []TypeOK
<1>1. IInv => TypeOK
  BY DEF IInv
<1>. QED  BY <1>1, InvariantIInv, PTL

\* The counters of ObPUStoreController always describe what its stores
\* contain.
THEOREM SizesCorrect == Spec => []SizesAgree
<1>1. IInv => SizesAgree
  BY DEF IInv
<1>. QED  BY <1>1, InvariantIInv, PTL

-----------------------------------------------------------------------------
\* A step that leaves other_store_ alone, or saves a batch in it, drops nothing.
LEMMA StoreGrows ==
  ASSUME IInv, NEW s \in 0..MaxBatch, NEW skip, StoreBatch(s, skip)
  PROVE  ~(Len(other'.saved) < Len(other.saved))
<1>1. other \in Col /\ other' = ColSave(other, BatchRows(s, skip))
  BY DEF IInv, TypeOK, StoreBatch
<1>2. BatchRows(s, skip) \in Seq(Nat)
  BY FetchedRows
<1>. DEFINE rows == BatchRows(s, skip)
<1>. HIDE DEF rows
<1>3. Len(ColSave(other, rows).saved) = Len(other.saved) + Len(rows)
  BY <1>1, <1>2, ColSaveType DEF rows
<1>4. Len(rows) \in Nat /\ Len(other.saved) \in Nat
  BY <1>1, <1>2 DEF rows, Col
<1>. QED  BY <1>1, <1>3, <1>4 DEF rows

\* The buffered rows leave other_store_ only in the step that hands the last of
\* them to the parent, or when the scan starts anew.
THEOREM NoRowDropped == Spec => DropsOnlyDelivered
<1>. DEFINE Drops == Len(other'.saved) < Len(other.saved) /\ rescans' = rescans
            Delivers == outIdx' = Len(other.saved) /\ pulled' = pulled
<1>1. ASSUME IInv, [Next]_vars PROVE [Drops => Delivers]_vars
  <2>. USE ConstantsAssumption
  <2>0. Len(other.saved) \in Nat
    BY <1>1 DEF IInv, TypeOK, Col
  <2>1. CASE other' = other
    BY <2>0, <2>1
  <2>2. CASE other.saved = <<>> /\ other' \in Col
    <3>1. Len(other.saved) = 0 /\ Len(other'.saved) \in Nat
      BY <2>2 DEF Col
    <3>. QED  BY <3>1
  <2>3. CASE Rescan
    <3>1. rescans' # rescans
      BY <1>1, <2>3 DEF Rescan, IInv, TypeOK
    <3>. QED  BY <3>1
  <2>4. CASE RestoreBatch
    <3>. DEFINE n == OutputSize
    <3>1. pc = "restore" /\ CanOutput /\ Restorable(n)
      BY <1>1, <2>4, RestoredSizes DEF RestoreBatch
    <3>2. /\ Len(other.saved) = storedOut /\ other \in Col /\ n \in Nat
      BY <1>1, <3>1, RestoredSizes DEF IInv, TypeOK
    <3>3. /\ outIdx' = outIdx + n /\ pulled' = pulled
          /\ other' = IF outIdx + n = storedOut THEN ColReuse(other)
                      ELSE ColLoad(other, n)
      BY <2>4, <3>1, Zenon DEF RestoreBatch
    <3>. HIDE DEF n
    <3>4. CASE outIdx + n = storedOut
      BY <3>2, <3>3, <3>4
    <3>5. CASE outIdx + n # storedOut
      <4>1. other'.saved = other.saved
        BY <3>2, <3>3, <3>5, ColLoadType
      <4>. QED  BY <2>0, <4>1
    <3>. QED  BY <3>4, <3>5
  <2>5. CASE \E s \in 0..MaxBatch : \E skip \in SUBSET (1..s) :
               StoreBatch(s, skip)
    BY <1>1, <2>5, StoreGrows
  <2>6. CASE Open \/ Enter
    <3>1. IInv'
      BY <1>1, NextIInv
    <3>2. other' \in Col
      BY <3>1 DEF IInv, TypeOK
    <3>3. CASE other' # other
      <4>1. pc \in {"unopened", "idle", "again"} /\ ~CanOutput
        BY <1>1, <2>6, <3>3 DEF Open, Enter, ResumeOutput, BeginFill, Entering,
                                stores, IInv, CellsOK
      <4>2. other.saved = <<>>
        BY <1>1, <4>1 DEF IInv, SizesAgree, OutputSizes
      <4>. QED  BY <2>2, <3>2, <4>2
    <3>. QED  BY <2>1, <3>3
  <2>7. CASE Close \/ EndFill \/ StartCell \/ CallPython \/ PythonReturns
               \/ PythonRaises \/ FinishCell \/ RestoreNothing \/ ChildFails
    <3>1. other' = other
      BY <2>7 DEF Close, EndFill, StartCell, CallPython, PythonReturns,
                  PythonRaises, FinishCell, RestoreNothing, ChildFails, stores
    <3>. QED  BY <2>1, <3>1
  <2>8. CASE \/ UNCHANGED vars \/ \E e \in Udf : PeerTunes(e)
             \/ \E s \in 0..MaxBatch : \E skip \in SUBSET (1..s) :
                  StoreFails(s, skip)
    <3>1. other' = other
      BY <2>8 DEF vars, PeerTunes, StoreFails, stores
    <3>. QED  BY <2>1, <3>1
  <2>. QED  BY <1>1, <2>3, <2>4, <2>5, <2>6, <2>7, <2>8
            DEF Next, Work, Fetch, Terminated
<1>2. IInv /\ [Next]_vars => [Drops => Delivers]_vars
  BY <1>1
<1>. QED  BY <1>2, InvariantIInv, PTL DEF Spec, DropsOnlyDelivered
=============================================================================
