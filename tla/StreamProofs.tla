---------------------------- MODULE StreamProofs ----------------------------
(***************************************************************************)
(* The prediction operator gives right answers: proofs, for every number   *)
(* of UDFs and rows, every batch size and prediction size, that a batch of *)
(* the child always finds room, that the rows and results that travel      *)
(* through separate stores never get out of step, and that what the parent *)
(* receives is the stream of PredictStream.                                *)
(***************************************************************************)
EXTENDS PredictProofs

-----------------------------------------------------------------------------
(* There is always room: the checks of the code never fire. *)

\* Prediction sizes only grow: what every plan starts from at least, the plan,
\* the cells and the buffer keep at least.
Grown(least) ==
  (\A p \in StartPredicts : least <= p) =>
    /\ \A e \in Udf : info[e].predict >= least
    /\ \A c \in Cells : cells[c].desirable >= least
    /\ pc = "fill" => desirable >= least

\* A store never shrinks, except when it is freed: by close, by a rescan (which
\* fails if there are other columns), or by a resize that gets no memory.
Kept ==
  InputCols > 0 =>
    /\ pc \in {"idle", "again", "process", "wrap", "python", "restore"} =>
         /\ other.length >= DefaultLength
         /\ \A c \in Cells : cells[c].length >= DefaultLength
    /\ pc = "fill" =>
         /\ other.length >= DefaultLength
         /\ \A c \in Cells : cells[c].inited => cells[c].length >= DefaultLength

-----------------------------------------------------------------------------
\* The cells that open and rescan add take the plan's prediction size and a
\* store of DefaultLength rows; those before them keep what they have.
LEMMA AppendedCells ==
  ASSUME NEW base, NEW n \in Nat, NEW k \in 0..NumUdf, NEW c \in 1..(n + k)
  PROVE  IF c <= n THEN AppendCells(base, n, k)[c] = base[c]
         ELSE /\ c - n \in Udf
              /\ AppendCells(base, n, k)[c].desirable = info[c - n].predict
              /\ AppendCells(base, n, k)[c].length = DefaultLength
<1>. USE ConstantsAssumption
<1>1. AppendCells(base, n, k)[c] =
        IF c <= n THEN base[c]
        ELSE CellInit(c - n, DefaultLength, info[c - n].predict)
  BY DEF AppendCells
<1>2. ~(c <= n) => c - n \in Udf
  BY DEF Udf
<1>. QED  BY <1>1, <1>2 DEF CellInit

-----------------------------------------------------------------------------
Opened == {"idle", "again", "process", "wrap", "python", "restore"}

\* Steps that change neither a prediction size nor the length of a store.
LEMMA QuietStep ==
  ASSUME NEW least \in Nat, Grown(least), Kept,
         Cells' = Cells, info' = info, desirable' = desirable,
         other'.length = other.length,
         \A c \in Cells : /\ cells'[c].desirable = cells[c].desirable
                          /\ cells'[c].length = cells[c].length
                          /\ cells'[c].inited = cells[c].inited,
         pc' = "failed" \/ (pc' \in Opened /\ pc \in Opened) \/ pc' = pc
  PROVE  Grown(least)' /\ Kept'
<1>1. pc' = "fill" => pc = "fill"
  BY DEF Opened
<1>2. Grown(least)'
  BY <1>1 DEF Grown, Udf
<1>3. pc' \in Opened => pc \in Opened
  BY DEF Opened
<1>4. Kept'
  BY <1>1, <1>3 DEF Kept, Opened
<1>. QED  BY <1>2, <1>4

\* Resuming the output.
LEMMA ResumeRoom ==
  ASSUME NEW least \in Nat, Grown(least), Kept, NEW m, ResumeOutput(m)
  PROVE  Grown(least)' /\ Kept'
<1>1. /\ pc \in Opened /\ pc' \in Opened
      /\ UNCHANGED <<ncells, cells, other, desirable, info>>
  BY DEF ResumeOutput, Entering, Opened, stores, counters
<1>. QED  BY <1>1, QuietStep DEF Cells

\* Storing a batch, or failing to.
LEMMA StoreRoom ==
  ASSUME NEW least \in Nat, IInv, Grown(least), Kept,
         NEW s \in 0..MaxBatch, NEW skip,
         StoreBatch(s, skip) \/ StoreFails(s, skip)
  PROVE  Grown(least)' /\ Kept'
<1>. USE ConstantsAssumption
<1>1. PICK k \in Nat : cells' = CellsSaved(s, skip, k)
  <2>1. ncells \in Nat
    BY DEF IInv, TypeOK
  <2>2. ncells + 1 \in Nat /\ 1..(ncells + 1) \subseteq Nat
    BY <2>1
  <2>. QED  BY <2>2, Zenon DEF StoreBatch, StoreFails
<1>2. \A c \in Cells : /\ cells'[c].desirable = cells[c].desirable
                       /\ cells'[c].length = cells[c].length
                       /\ cells'[c].inited = cells[c].inited
  BY <1>1, CellsSavedType
<1>3. pc' \in {"failed", "fill"} /\ pc = "fill"
  BY DEF StoreBatch, StoreFails, Filling, Fail
<1>4. ncells' = ncells /\ info' = info /\ desirable' = desirable
  BY DEF StoreBatch, StoreFails, counters
<1>5. other' = ColSave(other, BatchRows(s, skip)) \/ other' = other
  BY DEF StoreBatch, StoreFails
<1>6. other'.length = other.length
  <2>1. other \in Col
    BY DEF IInv, TypeOK
  <2>. QED  BY <1>5, <2>1 DEF ColSave, Col
<1>. QED  BY <1>2, <1>3, <1>4, <1>6, QuietStep DEF Cells

\* The child fails.
LEMMA ChildFailsRoom ==
  ASSUME NEW least \in Nat, Grown(least), Kept, ChildFails
  PROVE  Grown(least)' /\ Kept'
<1>1. /\ pc' = "failed"
      /\ UNCHANGED <<ncells, cells, other, desirable, info>>
  BY DEF ChildFails, Fail, stores, counters
<1>. QED  BY <1>1, QuietStep DEF Cells

\* A call starts, or raises.
LEMMA CallRoom ==
  ASSUME NEW least \in Nat, Grown(least), Kept, CallPython \/ PythonRaises
  PROVE  Grown(least)' /\ Kept'
<1>1. /\ pc \in Opened /\ pc' \in Opened \cup {"failed"}
      /\ UNCHANGED <<ncells, cells, other, desirable, info>>
  BY DEF CallPython, PythonRaises, Fail, Opened, stores, counters
<1>. QED  BY <1>1, QuietStep DEF Cells

\* A cell is started or finished.
LEMMA CellStepRoom ==
  ASSUME NEW least \in Nat, IInv, Grown(least), Kept, StartCell \/ FinishCell
  PROVE  Grown(least)' /\ Kept'
<1>. USE ConstantsAssumption
<1>1. /\ pc \in Opened /\ cur \in Cells /\ cells[cur] \in Cell
      /\ cells \in [Cells -> Cell]
  BY DEF StartCell, FinishCell, IInv, TypeOK, SizesAgree, ProcessSizes, Opened
<1>2. /\ pc' \in Opened \cup {"failed"}
      /\ UNCHANGED <<ncells, other, desirable, info>>
  BY DEF StartCell, FinishCell, Check, Opened, counters
<1>3. PICK new : /\ cells' = [cells EXCEPT ![cur] = new]
                 /\ \/ new = CellStart(cells[cur])
                    \/ new = CellReset(cells[cur], 0)
                    \/ new = cells[cur]
  <2>1. [cells EXCEPT ![cur] = cells[cur]] = cells
    BY <1>1
  <2>2. CASE StartCell
    BY <2>1, <2>2 DEF StartCell
  <2>3. CASE FinishCell
    BY <2>1, <2>3 DEF FinishCell
  <2>. QED  BY <2>2, <2>3
<1>4. /\ new.desirable = cells[cur].desirable
      /\ new.length = cells[cur].length
  <2>1. CellReset(cells[cur], 0) = CellReuse(cells[cur])
    BY <1>1 DEF CellReset, Cell
  <2>. QED  BY <1>1, <1>3, <2>1, Zenon DEF CellStart, CellReuse, Cell
<1>5. new.inited = cells[cur].inited
  <2>1. CellReset(cells[cur], 0) = CellReuse(cells[cur])
    BY <1>1 DEF CellReset, Cell
  <2>. QED  BY <1>1, <1>3, <2>1, Zenon DEF CellStart, CellReuse, Cell
<1>6. \A c \in Cells : /\ cells'[c].desirable = cells[c].desirable
                       /\ cells'[c].length = cells[c].length
                       /\ cells'[c].inited = cells[c].inited
  BY <1>1, <1>3, <1>4, <1>5
<1>. QED  BY <1>1, <1>2, <1>6, QuietStep DEF Cells

\* Restoring a batch, or nothing.
LEMMA RestoreRoom ==
  ASSUME NEW least \in Nat, IInv, Grown(least), Kept,
         RestoreBatch \/ RestoreNothing
  PROVE  Grown(least)' /\ Kept'
<1>1. /\ pc \in Opened /\ pc' \in Opened \cup {"failed"}
      /\ UNCHANGED <<ncells, cells, desirable, info>>
  BY DEF RestoreBatch, RestoreNothing, Check, Opened, stores, counters
<1>2. \/ other' = other \/ other' = ColReuse(other)
      \/ other' = ColLoad(other, OutputSize)
  BY DEF RestoreBatch, RestoreNothing, stores
<1>3. other'.length = other.length
  <2>1. other \in Col
    BY DEF IInv, TypeOK
  <2>. QED  BY <1>2, <2>1 DEF ColReuse, ColLoad, Col
<1>. QED  BY <1>1, <1>3, QuietStep DEF Cells

\* Nothing happens.
LEMMA StutterRoom ==
  ASSUME NEW least \in Nat, Grown(least), Kept, UNCHANGED vars
  PROVE  Grown(least)' /\ Kept'
<1>1. UNCHANGED <<pc, ncells, cells, other, desirable, info>>
  BY DEF vars, stores, counters
<1>. QED  BY <1>1, QuietStep DEF Cells

-----------------------------------------------------------------------------
\* inner_open gives every cell the plan's prediction size.
LEMMA OpenRoom ==
  ASSUME NEW least \in Nat, IInv, Grown(least), Open
  PROVE  Grown(least)' /\ Kept'
<1>. USE ConstantsAssumption
<1>1. PICK k \in 0..NumUdf :
        /\ ncells' = k /\ cells' = AppendCells(cells, 0, k)
        /\ other' = ColInit(DefaultLength) \/ pc' = "failed"
        /\ pc' \in {"idle", "failed"} /\ info' = info
  BY DEF Open, Fail
<1>2. ASSUME NEW c \in Cells'
      PROVE  /\ c \in Udf /\ cells'[c].desirable = info[c].predict
             /\ cells'[c].length = DefaultLength
  <2>1. c \in 1..(0 + k) /\ ~(c <= 0) /\ c - 0 = c /\ c \in Udf
    BY <1>1, <1>2 DEF Cells, Udf
  <2>2. cells'[c] = CellInit(c, DefaultLength, info[c].predict)
    BY <1>1, <2>1 DEF AppendCells
  <2>. QED  BY <2>1, <2>2 DEF CellInit
<1>3. Grown(least)'
  BY <1>1, <1>2 DEF Grown, Udf
<1>4. pc' = "idle" => other'.length >= DefaultLength
  BY <1>1, ColInitType
<1>5. Kept'
  BY <1>1, <1>2, <1>4 DEF Kept
<1>. QED  BY <1>3, <1>5

\* inner_rescan does so for the new cells.
LEMMA RescanRoom ==
  ASSUME NEW least \in Nat, IInv, Grown(least), Kept, Rescan
  PROVE  Grown(least)' /\ Kept'
<1>. USE ConstantsAssumption
<1>1. /\ info' = info /\ pc' \in {"idle", "failed"}
      /\ InputCols > 0 => pc' = "failed"
  <2>1. InputCols > 0 => ~(InputCols = 0)
    OBVIOUS
  <2>. QED  BY <2>1, Zenon DEF Rescan, Fail
<1>2. Kept'
  BY <1>1 DEF Kept
<1>3. CASE UNCHANGED stores
  <2>1. cells' = cells /\ Cells' = Cells
    BY <1>3 DEF stores, Cells
  <2>2. pc' # "fill"
    BY <1>1
  <2>. QED  BY <1>1, <1>2, <2>1, <2>2 DEF Grown, Udf
<1>4. ASSUME NEW k \in 0..NumUdf, ncells' = ncells + k,
             cells' = AppendCells([c \in Cells |-> CellFree(cells[c])],
                                  ncells, k)
      PROVE  Grown(least)'
  <2>. DEFINE base == [c \in Cells |-> CellFree(cells[c])]
  <2>0. ncells \in Nat /\ Cells = 1..ncells /\ Cells' = 1..(ncells + k)
    BY <1>4 DEF IInv, TypeOK, Cells
  <2>1. \A c \in Cells : base[c].desirable = cells[c].desirable
    BY CellFreeType DEF IInv, TypeOK
  <2>2. cells' = AppendCells(base, ncells, k)
    BY <1>4
  <2>. HIDE DEF base
  <2>3. ASSUME NEW c \in Cells'
        PROVE  \/ c \in Cells /\ cells'[c].desirable = cells[c].desirable
               \/ c - ncells \in Udf
                  /\ cells'[c].desirable = info[c - ncells].predict
    <3>1. IF c <= ncells THEN AppendCells(base, ncells, k)[c] = base[c]
          ELSE /\ c - ncells \in Udf
               /\ AppendCells(base, ncells, k)[c].desirable
                    = info[c - ncells].predict
               /\ AppendCells(base, ncells, k)[c].length = DefaultLength
      BY <2>0, AppendedCells
    <3>. QED  BY <2>0, <2>1, <2>2, <3>1
  <2>. QED  BY <1>1, <2>3 DEF Grown, Udf
<1>. QED  BY <1>2, <1>3, <1>4 DEF Rescan, stores

\* inner_close.
LEMMA CloseRoom ==
  ASSUME NEW least \in Nat, IInv, Grown(least), Close
  PROVE  Grown(least)' /\ Kept'
<1>1. /\ pc' = "closed" /\ info' = info /\ ncells' = ncells
      /\ cells' = [c \in Cells |-> CellFree(cells[c])]
  BY DEF Close
<1>2. \A c \in Cells : cells'[c].desirable = cells[c].desirable
  BY <1>1, CellFreeType DEF IInv, TypeOK
<1>. QED  BY <1>1, <1>2 DEF Grown, Kept, Udf, Cells

\* resize() never lowers the size of the buffer.
LEMMA BeginFillRoom ==
  ASSUME NEW least \in Nat, IInv, Grown(least), Kept,
         NEW m \in 1..MaxBatch, BeginFill(m)
  PROVE  Grown(least)' /\ Kept'
<1>. USE ConstantsAssumption
<1>1. /\ pc \in {"idle", "again"} /\ pc' = "fill"
      /\ ncells' = ncells /\ info' = info
  BY DEF BeginFill, Entering
<1>2. PICK d \in DesirableCandidates :
        /\ IsDesirable(d) /\ desirable' = d
        /\ other' = ColReset(other, BufferMag * d) \/ other' = other
        /\ \E k \in Nat : cells' =
             [c \in Cells |-> IF c < k THEN CellReset(cells[c], BufferMag * d)
                              ELSE IF c = k THEN StoreFree(cells[c])
                              ELSE cells[c]]
  <2>1. ncells \in Nat /\ Cells = 1..ncells
    BY DEF IInv, TypeOK, Cells
  <2>2. ASSUME NEW d \in DesirableCandidates
        PROVE  [c \in Cells |-> CellReset(cells[c], BufferMag * d)] =
               [c \in Cells |-> IF c < ncells + 1
                                THEN CellReset(cells[c], BufferMag * d)
                                ELSE IF c = ncells + 1 THEN StoreFree(cells[c])
                                ELSE cells[c]]
    BY <2>1
  <2>3. ncells + 1 \in Nat /\ Cells \subseteq Nat
    BY <2>1
  <2>4. PICK d \in DesirableCandidates :
          /\ IsDesirable(d) /\ desirable' = d
          /\ \/ /\ cells' = [c \in Cells |-> CellReset(cells[c], BufferMag * d)]
                /\ other' = ColReset(other, BufferMag * d)
             \/ \E k \in Cells :
                  /\ cells' = [c \in Cells |->
                                 IF c < k THEN CellReset(cells[c], BufferMag * d)
                                 ELSE IF c = k THEN StoreFree(cells[c])
                                 ELSE cells[c]]
                  /\ UNCHANGED other
    BY Zenon DEF BeginFill
  <2>5. CASE other' = ColReset(other, BufferMag * d)
             /\ cells' = [c \in Cells |-> CellReset(cells[c], BufferMag * d)]
    BY <2>2, <2>3, <2>4, <2>5, Zenon
  <2>6. CASE \E k \in Cells :
               /\ cells' = [c \in Cells |->
                              IF c < k THEN CellReset(cells[c], BufferMag * d)
                              ELSE IF c = k THEN StoreFree(cells[c])
                              ELSE cells[c]]
               /\ UNCHANGED other
    BY <2>3, <2>4, <2>6, Zenon
  <2>. QED  BY <2>4, <2>5, <2>6, Zenon
<1>3. d \in Nat /\ BufferMag * d \in Nat
  BY DEF DesirableCandidates, IInv, TypeOK, Cell, BufferMag
<1>4. \A c \in Cells : cells[c] \in Cell /\ cells[c].desirable <= d
  BY <1>2 DEF IInv, TypeOK, IsDesirable, DesirableCandidates
<1>5. ASSUME NEW c \in Cells
      PROVE  /\ cells'[c].desirable = cells[c].desirable
             /\ cells'[c].inited => cells'[c].length >= cells[c].length
  <2>1. /\ CellReset(cells[c], BufferMag * d).desirable = cells[c].desirable
        /\ CellReset(cells[c], BufferMag * d).length >= cells[c].length
    BY <1>3, <1>4, CellResetType
  <2>2. /\ StoreFree(cells[c]).desirable = cells[c].desirable
        /\ ~StoreFree(cells[c]).inited
    BY <1>4, CellFreeType
  <2>3. cells[c].length >= cells[c].length
    BY <1>4 DEF Cell
  <2>. QED  BY <1>2, <2>1, <2>2, <2>3
<1>6. other'.length >= other.length /\ other.length \in Nat
      /\ other'.length \in Nat
  <2>1. other \in Col
    BY DEF IInv, TypeOK
  <2>2. ColReset(other, BufferMag * d) \in Col
        /\ ColReset(other, BufferMag * d).length >= other.length
    BY <1>3, <2>1, ColResetType
  <2>. QED  BY <1>2, <2>1, <2>2 DEF Col
<1>7. Cells' = Cells
  BY <1>1 DEF Cells
<1>8. Grown(least)'
  <2>1. 1 \in Cells
    BY <1>1 DEF IInv, CellsOK, TypeOK, Cells
  <2>2. cells[1].desirable \in Nat /\ cells[1].desirable <= d
    BY <1>4, <2>1 DEF Cell
  <2>. QED  BY <1>1, <1>2, <1>3, <1>5, <1>7, <2>1, <2>2 DEF Grown, Udf
<1>9. Kept'
  <2>1. InputCols > 0 => /\ other.length >= DefaultLength
                         /\ \A c \in Cells : cells[c].length >= DefaultLength
    BY <1>1 DEF Kept
  <2>2. \A c \in Cells : cells'[c].length \in Nat /\ cells[c].length \in Nat
    <3>1. IInv'
      BY BeginFillIInv
    <3>. QED  BY <1>4, <1>7, <3>1 DEF IInv, TypeOK, Cell
  <2>. QED  BY <1>1, <1>5, <1>6, <1>7, <2>1, <2>2 DEF Kept
<1>. QED  BY <1>8, <1>9

\* The fill loop ends only after every store has been granted its memory.
LEMMA EndFillRoom ==
  ASSUME NEW least \in Nat, IInv, Grown(least), Kept, EndFill
  PROVE  Grown(least)' /\ Kept'
<1>. USE ConstantsAssumption
<1>1. /\ pc = "fill" /\ pc' # "fill" /\ (brsEnd \/ IsFull)
      /\ UNCHANGED <<ncells, cells, other, info>>
  BY DEF EndFill, stores
<1>2. storedIn \in Nat /\ desirable \in Nat /\ ncells \in Nat
  BY DEF IInv, TypeOK
<1>3. PICK b \in 1..(ncells + 1) :
        /\ \A c \in 1..(b - 1) : Ready(c)
        /\ b <= ncells => ~cells[b].inited /\ storedIn = 0 /\ ~brsEnd
  BY <1>1 DEF IInv, SizesAgree, FillSizes
<1>4. b = ncells + 1
  <2>1. storedIn = 0 => ~IsFull
    BY <1>2 DEF IsFull, BufferMag
  <2>2. ~(b <= ncells)
    BY <1>1, <1>3, <2>1
  <2>. QED  BY <1>2, <1>3, <2>2
<1>5. \A c \in Cells : cells[c].inited
  BY <1>2, <1>3, <1>4 DEF Ready, Cells
<1>6. Grown(least)'
  BY <1>1 DEF Grown, Udf, Cells
<1>7. Kept'
  BY <1>1, <1>5 DEF Kept, Cells
<1>. QED  BY <1>6, <1>7

\* modify_desirable never lowers a prediction size.
LEMMA TunedRoom ==
  ASSUME NEW least \in Nat, IInv, Grown(least),
         NEW e \in Udf, NEW n \in Nat, NEW j \in Tuned(info[e], n),
         info' = [info EXCEPT ![e] = j],
         \A p \in StartPredicts : least <= p
  PROVE  \A f \in Udf : info'[f].predict >= least
<1>. USE ConstantsAssumption
<1>1. info \in [Udf -> [predict : Nat, tuned : BOOLEAN, round : Nat]]
  BY DEF IInv, TypeOK
<1>2. \A f \in Udf : info[f].predict \in Nat /\ info[f].predict >= least
  BY <1>1 DEF Grown
<1>3. /\ j \in [predict : Nat, tuned : BOOLEAN, round : Nat]
      /\ j.predict >= info[e].predict
  <2>1. info[e] \in [predict : Nat, tuned : BOOLEAN, round : Nat]
    BY <1>1
  <2>. QED  BY <2>1, TunedType
<1>4. j.predict >= least
  BY <1>2, <1>3
<1>5. \A f \in Udf : info'[f] = IF f = e THEN j ELSE info[f]
  BY <1>1, Zenon
<1>. QED  BY <1>2, <1>4, <1>5

\* Another session tunes the plan.
LEMMA PeerTunesRoom ==
  ASSUME NEW least \in Nat, IInv, Grown(least), Kept,
         NEW e \in Udf, PeerTunes(e)
  PROVE  Grown(least)' /\ Kept'
<1>1. UNCHANGED <<pc, ncells, cells, other, desirable>>
  BY DEF PeerTunes, stores, counters
<1>2. (\A p \in StartPredicts : least <= p) =>
        \A f \in Udf : info'[f].predict >= least
  <2>1. info[e].predict \in Nat
    BY DEF IInv, TypeOK
  <2>2. PICK j \in Tuned(info[e], info[e].predict) :
          info' = [info EXCEPT ![e] = j]
    BY DEF PeerTunes
  <2>. QED  BY <2>1, <2>2, TunedRoom
<1>3. Grown(least)'
  BY <1>1, <1>2 DEF Grown, Udf, Cells
<1>4. Kept'
  BY <1>1 DEF Kept, Cells
<1>. QED  BY <1>3, <1>4

\* This session tunes the plan and the cell.
LEMMA PythonReturnsRoom ==
  ASSUME NEW least \in Nat, IInv, Grown(least), Kept, PythonReturns
  PROVE  Grown(least)' /\ Kept'
<1>. USE ConstantsAssumption
<1>. DEFINE e == cells[cur].expr
<1>1. /\ pc = "python" /\ pc' = "wrap"
      /\ UNCHANGED <<ncells, other, desirable>>
  BY DEF PythonReturns, counters
<1>2. /\ cur \in Cells /\ cells \in [Cells -> Cell] /\ cells[cur] \in Cell
      /\ e \in Udf /\ evalSize \in Nat
  BY <1>1 DEF IInv, TypeOK, SizesAgree, ProcessSizes, CellsOK
<1>. HIDE DEF e
<1>3. PICK i \in Tuned(info[e], evalSize) :
        /\ info' = [info EXCEPT ![e] = i]
        /\ \E v : cells' = [cells EXCEPT ![cur] =
                              CellAbsorb(cells[cur], v, evalSize, i.predict)]
  BY <1>2, Zenon DEF PythonReturns, e
<1>4. PICK v : cells' = [cells EXCEPT ![cur] =
                           CellAbsorb(cells[cur], v, evalSize, i.predict)]
  BY <1>3, Zenon
<1>. DEFINE new == CellAbsorb(cells[cur], v, evalSize, i.predict)
<1>5. new.desirable = i.predict /\ new.length = cells[cur].length
  BY <1>2, Zenon DEF CellAbsorb, Cell
<1>6. cells' = [cells EXCEPT ![cur] = new]
  BY <1>4
<1>. HIDE DEF new
<1>7. info'[e] = i
  BY <1>2, <1>3 DEF IInv, TypeOK
<1>8. \A c \in Cells : cells'[c] = IF c = cur THEN new ELSE cells[c]
  BY <1>2, <1>6, Zenon
<1>9. Cells' = Cells
  BY <1>1 DEF Cells
<1>10. Grown(least)'
  <2>1. (\A p \in StartPredicts : least <= p) =>
          \A f \in Udf : info'[f].predict >= least
    BY <1>2, <1>3, TunedRoom
  <2>. QED  BY <1>1, <1>2, <1>5, <1>7, <1>8, <1>9, <2>1 DEF Grown, Udf
<1>11. Kept'
  BY <1>1, <1>2, <1>5, <1>8, <1>9 DEF Kept
<1>. QED  BY <1>10, <1>11

\* Every step keeps the room.
LEMMA NextRoom ==
  ASSUME NEW least \in Nat, IInv, Grown(least), Kept, [Next]_vars
  PROVE  Grown(least)' /\ Kept'
<1>1. CASE Open
  BY <1>1, OpenRoom
<1>2. CASE Rescan
  BY <1>2, RescanRoom
<1>3. CASE Close
  BY <1>3, CloseRoom
<1>4. CASE Enter
  BY <1>4, ResumeRoom, BeginFillRoom DEF Enter
<1>5. CASE Fetch
  BY <1>5, StoreRoom, ChildFailsRoom DEF Fetch
<1>6. CASE EndFill \/ CallPython \/ PythonReturns \/ PythonRaises
  BY <1>6, EndFillRoom, CallRoom, PythonReturnsRoom
<1>7. CASE StartCell \/ FinishCell \/ RestoreBatch \/ RestoreNothing
  BY <1>7, CellStepRoom, RestoreRoom
<1>8. CASE \E e \in Udf : PeerTunes(e)
  BY <1>8, PeerTunesRoom
<1>9. CASE UNCHANGED vars
  BY <1>9, StutterRoom
<1>. QED  BY <1>1, <1>2, <1>3, <1>4, <1>5, <1>6, <1>7, <1>8, <1>9
          DEF Next, Work, Terminated

-----------------------------------------------------------------------------
\* A batch finds room in every store whose memory was granted.
LEMMA BatchHasRoom ==
  ASSUME BatchFits, IInv, Grown(MaxBatch), Kept, Filling,
         NEW s \in 0..MaxBatch, NEW skip
  PROVE  /\ \A c \in Cells : Ready(c) => CellFits(cells[c], Active(s, skip))
         /\ other.length >= BufferMag * desirable
              => ColFits(other, Active(s, skip))
<1>. USE ConstantsAssumption
<1>. DEFINE n == Active(s, skip)
<1>0. n \in Nat /\ n <= MaxBatch
  <2>1. s \in Nat /\ s <= MaxBatch
    OBVIOUS
  <2>2. n \in Nat /\ n <= s
    BY <2>1, ActiveType, Zenon
  <2>. HIDE DEF n
  <2>. QED  BY <2>1, <2>2
<1>. HIDE DEF n
<1>1. /\ pc = "fill" /\ storedIn \in Nat /\ desirable \in Nat
      /\ storedIn <= desirable
      /\ Len(other.saved) = storedIn /\ other \in Col
      /\ \A c \in Cells : cells[c] \in Cell /\ Len(cells[c].saved) = storedIn
  BY DEF Filling, IsFull, BufferMag, IInv, TypeOK, SizesAgree, FillSizes
<1>2. ASSUME NEW len \in Nat, len >= 2 * desirable,
             InputCols > 0 => len >= DefaultLength
      PROVE  storedIn + n <= len
  <2>1. CASE \A p \in StartPredicts : MaxBatch <= p
    <3>1. desirable >= MaxBatch
      BY <1>1, <2>1 DEF Grown
    <3>. QED  BY <1>0, <1>1, <1>2, <3>1
  <2>2. CASE InputCols > 0 /\ 2 * MaxBatch <= DefaultLength
    <3>1. CASE desirable >= MaxBatch
      BY <1>0, <1>1, <1>2, <3>1
    <3>2. CASE desirable < MaxBatch
      BY <1>0, <1>1, <1>2, <2>2, <3>2
    <3>. QED  BY <1>1, <3>1, <3>2
  <2>. QED  BY <2>1, <2>2 DEF BatchFits
<1>3. ASSUME NEW c \in Cells, Ready(c)
      PROVE  CellFits(cells[c], n)
  <2>1. /\ cells[c].length \in Nat /\ cells[c].length >= 2 * desirable
        /\ InputCols > 0 => cells[c].length >= DefaultLength
    BY <1>1, <1>3 DEF Ready, BufferMag, Kept, Cell
  <2>. QED  BY <1>1, <1>2, <2>1 DEF CellFits
<1>4. ASSUME other.length >= BufferMag * desirable
      PROVE  ColFits(other, n)
  <2>1. /\ other.length \in Nat /\ other.length >= 2 * desirable
        /\ InputCols > 0 => other.length >= DefaultLength
    BY <1>1, <1>4 DEF BufferMag, Kept, Col
  <2>. QED  BY <1>1, <1>2, <2>1 DEF ColFits
<1>. QED  BY <1>3, <1>4 DEF n

\* A batch that is not stored is refused for want of memory or by its argument,
\* never for want of room.
LEMMA StoreFailsError ==
  ASSUME BatchFits, IInv, Grown(MaxBatch), Kept,
         NEW s \in 0..MaxBatch, NEW skip, StoreFails(s, skip)
  PROVE  err' \in {"alloc", "argument"}
<1>. USE ConstantsAssumption
<1>. DEFINE n == Active(s, skip)
<1>0. Filling
  BY DEF StoreFails
<1>1. PICK k \in 1..(ncells + 1) :
        /\ \A c \in 1..(k - 1) : CellAccepts(cells[c], n)
        /\ err' = StoreError(k, n)
  BY DEF StoreFails, Fail
<1>2. ncells \in Nat /\ k \in Nat /\ Cells = 1..ncells
  BY <1>1 DEF IInv, TypeOK, Cells
<1>3. PICK b \in 1..(ncells + 1) :
        /\ \A c \in 1..(b - 1) : Ready(c)
        /\ b <= ncells => ~cells[b].inited
        /\ b = ncells + 1 => other.length >= BufferMag * desirable
  BY <1>0 DEF IInv, SizesAgree, FillSizes, Filling
<1>4. k <= b
  <2>1. ASSUME b < k PROVE FALSE
    <3>1. b \in 1..(k - 1) /\ b <= ncells
      BY <1>2, <1>3, <2>1
    <3>. QED  BY <1>1, <1>3, <3>1 DEF CellAccepts
  <2>. QED  BY <1>2, <1>3, <2>1
<1>5. CASE k = ncells + 1
  <2>1. b = ncells + 1
    BY <1>2, <1>3, <1>4, <1>5
  <2>2. ColFits(other, n)
    BY <1>0, <1>3, <2>1, BatchHasRoom
  <2>. QED  BY <1>1, <1>5, <2>2 DEF StoreError
<1>6. CASE k # ncells + 1
  <2>0. k \in Cells
    BY <1>2, <1>6
  <2>1. err' = IF ~cells[k].inited THEN "alloc"
               ELSE IF CellFits(cells[k], n) THEN "argument" ELSE "overflow"
    BY <1>1, <1>6 DEF StoreError
  <2>2. CASE k = b
    <3>1. ~cells[k].inited
      BY <1>2, <1>3, <2>0, <2>2
    <3>. QED  BY <2>1, <3>1
  <2>3. CASE k # b
    <3>1. Ready(k)
      BY <1>2, <1>3, <1>4, <2>3
    <3>2. CellFits(cells[k], n)
      BY <1>0, <2>0, <3>1, BatchHasRoom
    <3>. QED  BY <2>1, <3>2
  <2>. QED  BY <2>2, <2>3
<1>. QED  BY <1>5, <1>6

\* With room for a batch, no step ends in one of the internal errors.
LEMMA NextErrors ==
  ASSUME BatchFits, IInv, Grown(MaxBatch), Kept, NoInternalError,
         [Next]_vars
  PROVE  NoInternalError'
<1>1. CASE Open \/ Rescan \/ Close
  BY <1>1 DEF Open, Rescan, Close, Fail, control, NoInternalError
<1>2. CASE Enter
  BY <1>2 DEF Enter, ResumeOutput, BeginFill, NoInternalError
<1>3. ASSUME NEW s \in 0..MaxBatch, NEW skip,
             StoreBatch(s, skip) \/ StoreFails(s, skip)
      PROVE  NoInternalError'
  BY <1>3, StoreFailsError DEF StoreBatch, control, NoInternalError
<1>4. CASE ChildFails \/ EndFill \/ CallPython \/ PythonReturns \/ PythonRaises
  BY <1>4 DEF ChildFails, EndFill, CallPython, PythonReturns, PythonRaises,
              Fail, control, NoInternalError
<1>5. CASE StartCell \/ FinishCell \/ RestoreBatch
  BY <1>5, StartCellIInv, FinishCellIInv, RestoreBatchIInv DEF NoInternalError
<1>6. CASE RestoreNothing \/ \E e \in Udf : PeerTunes(e)
  BY <1>6 DEF RestoreNothing, PeerTunes, control, NoInternalError
<1>7. CASE UNCHANGED vars
  BY <1>7 DEF vars, control, NoInternalError
<1>. QED  BY <1>1, <1>2, <1>3, <1>4, <1>5, <1>6, <1>7
          DEF Next, Work, Fetch, Terminated

\* No check of the operator's own bookkeeping ever fires, provided that a batch
\* of the child fits (BatchFits), for every number of UDFs, columns and rows,
\* and whatever the Python functions, the other sessions and the memory
\* allocator do.
THEOREM ChecksNeverFire == BatchFits => (Spec => []NoInternalError)
<1>. SUFFICES ASSUME BatchFits PROVE Spec => []NoInternalError
  OBVIOUS
<1>. DEFINE Inv == IInv /\ Grown(MaxBatch) /\ Kept /\ NoInternalError
<1>1. Init => Inv
  <2>1. ASSUME Init PROVE Grown(MaxBatch) /\ Kept /\ NoInternalError
    <3>. USE ConstantsAssumption
    <3>1. Cells = {} /\ pc = "unopened" /\ err = "none"
      BY <2>1 DEF Init, Cells
    <3>2. PICK p \in StartPredicts : \A e \in Udf : info[e].predict = p
      BY <2>1 DEF Init
    <3>. QED  BY <3>1, <3>2 DEF Grown, Kept, NoInternalError
  <2>. QED  BY <2>1, InitIInv
<1>2. Inv /\ [Next]_vars => Inv'
  <2>1. MaxBatch \in Nat
    BY ConstantsAssumption
  <2>. QED  BY <2>1, NextIInv, NextRoom, NextErrors
<1>3. Inv => NoInternalError
  OBVIOUS
<1>. QED  BY <1>1, <1>2, <1>3, PTL DEF Spec

-----------------------------------------------------------------------------
\* A Python function is never called on an empty slice of the buffer nor on
\* rows beyond it, provided that every plan starts from a prediction size of at
\* least one.
THEOREM SlicesNeverEmpty ==
  (\A p \in StartPredicts : p >= 1) => (Spec => []SlicesInBuffer)
<1>. SUFFICES ASSUME \A p \in StartPredicts : p >= 1
              PROVE  Spec => []SlicesInBuffer
  OBVIOUS
<1>. USE ConstantsAssumption
<1>. DEFINE Inv == IInv /\ Grown(1) /\ Kept /\ SlicesInBuffer
<1>1. Init => Inv
  <2>1. ASSUME Init PROVE Grown(1) /\ Kept /\ SlicesInBuffer
    <3>1. Cells = {} /\ pc = "unopened"
      BY <2>1 DEF Init, Cells
    <3>2. PICK p \in StartPredicts : \A e \in Udf : info[e].predict = p
      BY <2>1 DEF Init
    <3>. QED  BY <3>1, <3>2 DEF Grown, Kept, SlicesInBuffer
  <2>. QED  BY <2>1, InitIInv
<1>2. ASSUME Inv, [Next]_vars PROVE Inv'
  <2>1. IInv' /\ Grown(1)' /\ Kept'
    BY <1>2, NextIInv, NextRoom
  <2>2. ASSUME pc' = "python" PROVE evalSize' >= 1
    <3>1. CASE CallPython
      <4>1. /\ cur \in Cells /\ cells[cur] \in Cell /\ idx \in Nat
            /\ idx < Len(cells[cur].saved) /\ cells[cur].desirable >= 1
            /\ evalSize' = EvalSize(cells[cur], idx)
        <5>1. \A p \in StartPredicts : 1 <= p
          OBVIOUS
        <5>2. pc = "wrap" /\ idx < Len(cells[cur].saved)
              /\ evalSize' = EvalSize(cells[cur], idx)
          BY <3>1 DEF CallPython
        <5>3. cur \in Cells /\ cells[cur] \in Cell /\ idx \in Nat
          BY <1>2, <5>2 DEF IInv, TypeOK, SizesAgree, ProcessSizes
        <5>. QED  BY <1>2, <5>1, <5>2, <5>3 DEF Grown
      <4>. QED  BY <4>1, EvalSizeType
    <3>2. CASE pc = "python" /\ evalSize' = evalSize
      BY <1>2, <3>2 DEF SlicesInBuffer
    <3>3. CallPython \/ (pc = "python" /\ evalSize' = evalSize)
      <4>1. CASE UNCHANGED vars
        BY <2>2, <4>1 DEF vars, process
      <4>2. CASE \E e \in Udf : PeerTunes(e)
        BY <2>2, <4>2 DEF PeerTunes, process
      <4>3. CASE Open \/ Rescan \/ Close \/ Enter
        BY <2>2, <4>3 DEF Open, Rescan, Close, Enter, ResumeOutput, BeginFill,
                          Fail
      <4>4. CASE Fetch
        BY <2>2, <4>4 DEF Fetch, StoreBatch, StoreFails, ChildFails, Filling,
                          Fail
      <4>5. CASE EndFill \/ StartCell \/ PythonReturns \/ PythonRaises
        BY <2>2, <4>5 DEF EndFill, StartCell, Check, PythonReturns,
                          PythonRaises, Fail
      <4>6. CASE FinishCell \/ RestoreBatch \/ RestoreNothing
        BY <2>2, <4>6 DEF FinishCell, RestoreBatch, RestoreNothing, Check
      <4>. QED  BY <1>2, <4>1, <4>2, <4>3, <4>4, <4>5, <4>6
                DEF Next, Work, Terminated
    <3>. QED  BY <3>1, <3>2, <3>3
  <2>3. pc' = "python" => idx' + evalSize' <= storedIn'
    BY <2>1 DEF IInv, SizesAgree, ProcessSizes
  <2>. QED  BY <2>1, <2>2, <2>3 DEF SlicesInBuffer
<1>3. Inv /\ [Next]_vars => Inv'
  BY <1>2
<1>4. Inv => SlicesInBuffer
  OBVIOUS
<1>. QED  BY <1>1, <1>3, <1>4, PTL DEF Spec

-----------------------------------------------------------------------------
(* Rows and results stay aligned. *)

\* A plan whose arguments come from the child (none is computed by this
\* operator, which the evaluated flags would break) and whose Python functions
\* return one value per row.  StoresAligned fails without either condition.
Plain == Computed = {} /\ ~ShortResults

\* A plan that outputs and tests the results themselves, and no expression that
\* this operator computes from them once for several batches.
FreshOutput == ~ComputedProj /\ ~ComputedFilter

\* While the cells are processed, the one at work holds the rows of
\* other_store_ as well: StoresAligned alone is not inductive.
WorkAligned ==
  pc \in {"process", "wrap", "python"} => cells[cur].saved = other.saved

\* How far the child is: brs_.end_ is raised when it has no row left.
ChildProgress ==
  /\ pulled <= total
  /\ brsEnd => pulled = total
  /\ pc = "unopened" => ~brsEnd
  /\ pc \in {"fill", "process", "wrap", "python", "restore", "again"}
       => maxRows >= 1

AlignInv == StoresAligned /\ WorkAligned /\ ChildProgress

\* The rows in other_store_ are consecutive rows of the child.
RowsInOrder ==
  \A k \in 1..Len(other.saved) : other.saved[k] = pulled - Len(other.saved) + k

-----------------------------------------------------------------------------
\* What a store holds after each operation.
LEMMA StoreContents ==
  ASSUME NEW s \in Cell
  PROVE  /\ \A n \in Nat : CellReset(s, n).result = s.result
         /\ \A rows : CellSave(s, rows).saved = s.saved \o rows
         /\ CellStart(s).result = <<>>
BY DEF CellReset, CellReuse, CellSave, CellStart, Cell

\* The same for the store of the other columns.
LEMMA ColContents ==
  ASSUME NEW s \in Col, NEW rows
  PROVE  ColSave(s, rows).saved = s.saved \o rows
BY DEF ColSave, Col

\* A sequence without elements is the empty one.
LEMMA NoElements ==
  ASSUME NEW q \in Seq(Nat), Len(q) = 0
  PROVE  q = <<>>
OBVIOUS

\* Where the elements of two joined sequences are.
LEMMA Joined ==
  ASSUME NEW p \in Seq(Nat), NEW q \in Seq(Nat)
  PROVE  /\ p \o q \in Seq(Nat) /\ Len(p \o q) = Len(p) + Len(q)
         /\ \A k \in 1..Len(p) : (p \o q)[k] = p[k]
         /\ \A k \in 1..Len(q) : (p \o q)[Len(p) + k] = q[k]
OBVIOUS

\* The results of a prefix and of the slice behind it are those of the longer
\* prefix.
LEMMA PrefixGrows ==
  ASSUME NEW q \in Seq(Nat), NEW i \in Nat, NEW n \in Nat, i + n <= Len(q)
  PROVE  SubSeq(q, 1, i) \o SubSeq(q, i + 1, i + n) = SubSeq(q, 1, i + n)
OBVIOUS

\* The empty and the full prefix.
LEMMA PrefixEnds ==
  ASSUME NEW q \in Seq(Nat)
  PROVE  SubSeq(q, 1, 0) = <<>> /\ SubSeq(q, 1, Len(q)) = q
OBVIOUS

-----------------------------------------------------------------------------
\* The initial state.
LEMMA InitAlign == Init => AlignInv
<1>. SUFFICES ASSUME Init PROVE AlignInv
  OBVIOUS
<1>. USE ConstantsAssumption
<1>1. other.saved = <<>> /\ Len(other.saved) = 0
  BY ColInitType DEF Init
<1>. QED  BY <1>1 DEF Init, AlignInv, StoresAligned, WorkAligned, ChildProgress,
                      CanOutput


-----------------------------------------------------------------------------
\* The steps that do not touch the buffered rows.
LEMMA QuietAlign ==
  ASSUME IInv, AlignInv,
         \/ EndFill \/ CallPython \/ PythonRaises \/ RestoreNothing
         \/ ChildFails \/ UNCHANGED vars
         \/ \E m \in 1..MaxBatch : ResumeOutput(m)
         \/ \E e \in Udf : PeerTunes(e)
  PROVE  AlignInv'
<1>. USE ConstantsAssumption DEF IInv, AlignInv, stores, counters, control,
         process, frames
<1>1. CASE EndFill
  <2>1. /\ pc = "fill" /\ cur' = 1 /\ other' = other /\ cells' = cells
        /\ pulled' = pulled /\ total' = total /\ brsEnd' = brsEnd
        /\ maxRows' = maxRows /\ ncells' = ncells
        /\ storedOut' = storedOut /\ outIdx' = outIdx
        /\ pc' = IF IsEmpty THEN "restore" ELSE "process"
    BY <1>1 DEF EndFill
  <2>2. ~CanOutput'
    BY <2>1 DEF SizesAgree, FillSizes, CanOutput
  <2>3. ncells >= NumUdf /\ 1 \in Cells
    BY <2>1 DEF CellsOK, TypeOK, Cells
  <2>4. StoresAligned'
    <3>1. /\ cur' = 1 /\ pc' \in {"restore", "process"}
          /\ \A c \in Cells' : ~(c < cur') /\ cells'[c].saved = other'.saved
      BY <2>1, <2>3 DEF StoresAligned, Cells, TypeOK
    <3>2. RowsInOrder'
      BY <2>1 DEF RowsInOrder, StoresAligned
    <3>. QED  BY <2>2, <3>1, <3>2 DEF StoresAligned, RowsInOrder
  <2>5. WorkAligned'
    BY <2>1, <2>3 DEF StoresAligned, WorkAligned
  <2>6. ChildProgress'
    BY <2>1 DEF ChildProgress
  <2>. QED  BY <2>4, <2>5, <2>6
<1>2. CASE CallPython
  BY <1>2 DEF CallPython, StoresAligned, WorkAligned, ChildProgress, Cells
<1>3. CASE PythonRaises
  BY <1>3 DEF PythonRaises, Fail, StoresAligned, WorkAligned, ChildProgress,
              Cells
<1>4. CASE RestoreNothing
  BY <1>4 DEF RestoreNothing, StoresAligned, WorkAligned, ChildProgress, Cells,
              CanOutput
<1>5. CASE ChildFails
  BY <1>5 DEF ChildFails, Filling, Fail, StoresAligned, WorkAligned,
              ChildProgress, Cells
<1>6. CASE UNCHANGED vars
  BY <1>6 DEF vars, StoresAligned, WorkAligned, ChildProgress, Cells, CanOutput
<1>7. ASSUME NEW m \in 1..MaxBatch, ResumeOutput(m)
      PROVE  AlignInv'
  BY <1>7 DEF ResumeOutput, Entering, StoresAligned, WorkAligned,
              ChildProgress, Cells, CanOutput
<1>8. ASSUME NEW e \in Udf, PeerTunes(e)
      PROVE  AlignInv'
  BY <1>8 DEF PeerTunes, StoresAligned, WorkAligned, ChildProgress, Cells,
              CanOutput
<1>. QED  BY <1>1, <1>2, <1>3, <1>4, <1>5, <1>6, <1>7, <1>8

\* The steps that empty the stores, or end the execution: opening, rescanning
\* and closing.
LEMMA OpenCloseAlign ==
  ASSUME IInv, AlignInv, Open \/ Rescan \/ Close
  PROVE  AlignInv'
<1>. USE ConstantsAssumption
<1>1. CASE Open
  <2>1. /\ pulled' = pulled /\ total' = total /\ brsEnd' = brsEnd
        /\ storedOut' = storedOut /\ outIdx' = outIdx /\ pc = "unopened"
        /\ \/ pc' = "idle" /\ other' = ColInit(DefaultLength)
           \/ pc' = "failed" /\ other' = other
    BY <1>1 DEF Open, Fail, counters
  <2>2. ~CanOutput'
    BY <2>1 DEF IInv, CellsOK, CanOutput
  <2>3. ColInit(DefaultLength).saved = <<>>
    BY ColInitType
  <2>4. RowsInOrder'
    BY <2>1, <2>3, EmptyRows DEF RowsInOrder, AlignInv, StoresAligned
  <2>. QED  BY <2>1, <2>2, <2>4
            DEF AlignInv, StoresAligned, RowsInOrder, WorkAligned,
                ChildProgress
<1>2. CASE Rescan
  <2>1. /\ total' = total
        /\ \/ /\ pc' = "failed" /\ other' = other /\ pulled' = pulled
              /\ brsEnd' = brsEnd
           \/ /\ pc' = "idle" /\ other' = ColInit(DefaultLength)
              /\ pulled' = 0 /\ ~brsEnd' /\ storedOut' = 0 /\ outIdx' = 0
    BY <1>2 DEF Rescan, Fail, stores, counters, ResetCounters
  <2>2. ColInit(DefaultLength).saved = <<>>
    BY ColInitType
  <2>3. RowsInOrder'
    BY <2>1, <2>2, EmptyRows DEF RowsInOrder, AlignInv, StoresAligned
  <2>4. total \in Nat
    BY DEF IInv, TypeOK
  <2>. QED  BY <2>1, <2>3, <2>4
            DEF AlignInv, StoresAligned, RowsInOrder, WorkAligned,
                ChildProgress, CanOutput
<1>3. CASE Close
  BY <1>3 DEF Close, control, AlignInv, StoresAligned, WorkAligned,
              ChildProgress
<1>. QED  BY <1>1, <1>2, <1>3

\* resize() runs on empty stores and leaves them empty.
LEMMA BeginFillAlign ==
  ASSUME IInv, AlignInv, NEW m \in 1..MaxBatch, BeginFill(m)
  PROVE  AlignInv'
<1>. USE ConstantsAssumption
<1>1. /\ pc' = "fill" /\ maxRows' = m /\ storedIn' = 0
      /\ pulled' = pulled /\ total' = total /\ brsEnd' = brsEnd
  BY DEF BeginFill, ResetCounters
<1>2. IInv'
  BY BeginFillIInv
<1>3. /\ other'.saved = <<>> /\ Len(other'.saved) = 0
      /\ \A c \in Cells' : cells'[c].saved = <<>>
  <2>1. /\ other'.saved \in Seq(Nat) /\ Len(other'.saved) = 0
        /\ \A c \in Cells' : /\ cells'[c].saved \in Seq(Nat)
                             /\ Len(cells'[c].saved) = 0
    BY <1>1, <1>2 DEF IInv, TypeOK, SizesAgree, FillSizes, Cell, Col
  <2>. QED  BY <2>1, NoElements
<1>. QED  BY <1>1, <1>3 DEF AlignInv, StoresAligned, WorkAligned, ChildProgress


-----------------------------------------------------------------------------
\* In a plain plan every cell saves the rows of the batch themselves.
LEMMA PlainArgs ==
  ASSUME Plain, NEW c, NEW s, NEW skip
  PROVE  BatchArgs(c, s, skip) = BatchRows(s, skip)
BY DEF Plain, BatchArgs

\* The child returns no more rows than it has, and an empty batch only when it
\* has none left.
LEMMA ChildBatch ==
  ASSUME IInv, pulled <= total, NEW s \in 0..MaxBatch, NEW skip,
         ChildReturns(s, skip)
  PROVE  /\ Active(s, skip) \in Nat /\ pulled + Active(s, skip) <= total
         /\ s = 0 => pulled = total /\ Active(s, skip) = 0
<1>. USE ConstantsAssumption
<1>1. s \in Nat /\ pulled \in Nat /\ total \in Nat
  BY DEF IInv, TypeOK
<1>2. Active(s, skip) \in Nat /\ Active(s, skip) <= s
  BY <1>1, ActiveType
<1>3. CASE pulled = total
  BY <1>1, <1>2, <1>3 DEF ChildReturns
<1>4. CASE pulled # total
  <2>1. /\ skip # 1..s /\ skip \subseteq 1..s
        /\ Active(s, skip) <= total - pulled
    BY <1>4 DEF ChildReturns
  <2>2. 1..0 = {}
    OBVIOUS
  <2>3. s # 0
    BY <2>1, <2>2
  <2>. QED  BY <1>1, <1>2, <2>1, <2>3
<1>. QED  BY <1>3, <1>4

\* A batch is appended to all stores at once, and its rows follow those that
\* are there.
LEMMA StoreBatchAlign ==
  ASSUME Plain, IInv, AlignInv, NEW s \in 0..MaxBatch, NEW skip,
         StoreBatch(s, skip)
  PROVE  AlignInv'
<1>. USE ConstantsAssumption
<1>. DEFINE rows == BatchRows(s, skip)
            n    == Active(s, skip)
<1>1. /\ pc = "fill" /\ pc' = "fill" /\ ncells' = ncells
      /\ total' = total /\ maxRows' = maxRows
      /\ pulled' = pulled + n /\ brsEnd' = (s = 0)
      /\ cells' = CellsSaved(s, skip, ncells + 1)
      /\ other' = ColSave(other, rows)
      /\ ChildReturns(s, skip)
  BY DEF StoreBatch, Filling, control
<1>2. /\ rows \in Seq(Nat) /\ Len(rows) = n /\ n \in Nat
      /\ \A k \in 1..n : rows[k] = pulled + k
  <2>1. BatchRows(s, skip) \in Seq(Nat) /\ Len(BatchRows(s, skip)) = n
    BY FetchedRows
  <2>2. s \in Nat
    OBVIOUS
  <2>3. n \in Nat
    BY <2>2, ActiveType
  <2>. QED  BY <2>1, <2>3 DEF BatchRows
<1>3. other \in Col /\ other.saved \in Seq(Nat) /\ pulled \in Nat /\ total \in Nat
  BY DEF IInv, TypeOK, Col
<1>. HIDE DEF rows, n
<1>4. other'.saved = other.saved \o rows
  BY <1>1, <1>3, ColContents
<1>5. RowsInOrder'
  <2>. DEFINE new == other.saved \o rows
              L   == Len(other.saved)
  <2>1. L \in Nat /\ Len(new) = L + n
    <3>1. Len(new) = Len(other.saved) + Len(rows)
      BY <1>2, <1>3, Joined
    <3>. QED  BY <1>2, <1>3, <3>1
  <2>2. ASSUME NEW k \in 1..(L + n)
        PROVE  new[k] = (pulled + n) - (L + n) + k
    <3>1. CASE k <= L
      <4>1. new[k] = other.saved[k] /\ k \in 1..Len(other.saved)
        BY <1>2, <1>3, <3>1
      <4>2. other.saved[k] = pulled - L + k
        BY <4>1 DEF AlignInv, StoresAligned
      <4>. HIDE DEF new, L
      <4>. QED  BY <1>2, <1>3, <2>1, <4>1, <4>2
    <3>2. CASE ~(k <= L)
      <4>1. new[k] = rows[k - L] /\ k - L \in 1..n
        BY <1>2, <1>3, <3>2
      <4>2. rows[k - L] = pulled + (k - L)
        BY <1>2, <4>1
      <4>. HIDE DEF new, L
      <4>. QED  BY <1>2, <1>3, <2>1, <4>1, <4>2
    <3>. QED  BY <3>1, <3>2
  <2>. HIDE DEF new, L
  <2>3. other'.saved = new
    BY <1>4 DEF new
  <2>. QED  BY <1>1, <2>1, <2>2, <2>3 DEF RowsInOrder
<1>6. \A c \in Cells' : cells'[c].saved = other'.saved
  <2>. SUFFICES ASSUME NEW c \in Cells
                PROVE  cells'[c].saved = other'.saved
    BY <1>1 DEF Cells
  <2>1. cells'[c] = CellSave(cells[c], BatchArgs(c, s, skip))
    BY <1>1 DEF CellsSaved, Cells, IInv, TypeOK
  <2>2. BatchArgs(c, s, skip) = rows
    BY PlainArgs DEF rows
  <2>3. cells[c] \in Cell /\ cells[c].saved = other.saved
    BY <1>1 DEF IInv, TypeOK, AlignInv, StoresAligned
  <2>4. cells'[c].saved = cells[c].saved \o rows
    BY <2>1, <2>2, <2>3, StoreContents
  <2>. QED  BY <1>4, <2>3, <2>4
<1>7. ChildProgress'
  <2>1. /\ pulled + n <= total
        /\ s = 0 => pulled = total /\ n = 0
    BY <1>1, ChildBatch DEF AlignInv, ChildProgress, n
  <2>2. pulled' <= total' /\ (s = 0 => pulled' = total')
    BY <1>1, <1>2, <1>3, <2>1
  <2>3. pc = "fill" /\ pc' = "fill" /\ maxRows' = maxRows /\ brsEnd' = (s = 0)
    BY <1>1
  <2>. QED  BY <2>2, <2>3 DEF ChildProgress, AlignInv
<1>. QED  BY <1>1, <1>5, <1>6, <1>7
          DEF AlignInv, StoresAligned, RowsInOrder, WorkAligned

\* A batch that some store refuses ends the execution.
LEMMA StoreFailsAlign ==
  ASSUME IInv, AlignInv, NEW s \in 0..MaxBatch, NEW skip, StoreFails(s, skip)
  PROVE  AlignInv'
<1>. USE ConstantsAssumption
<1>1. /\ pc' = "failed" /\ total' = total /\ pulled' = pulled
      /\ other' = other /\ brsEnd' = (s = 0) /\ ChildReturns(s, skip)
  BY DEF StoreFails, Fail
<1>2. s = 0 => pulled = total
  BY <1>1, ChildBatch DEF AlignInv, ChildProgress
<1>. QED  BY <1>1, <1>2
          DEF AlignInv, StoresAligned, WorkAligned, ChildProgress


-----------------------------------------------------------------------------
\* do_process starts without results, the results of an empty prefix.
LEMMA StartCellAlign ==
  ASSUME IInv, AlignInv, StartCell
  PROVE  AlignInv'
<1>. USE ConstantsAssumption
<1>1. /\ pc = "process" /\ cur \in Cells /\ cells \in [Cells -> Cell]
      /\ Len(cells[cur].saved) = storedIn /\ other.saved \in Seq(Nat)
  BY DEF StartCell, IInv, TypeOK, SizesAgree, ProcessSizes, Col
<1>2. /\ pc' = "wrap" /\ cells' = [cells EXCEPT ![cur] = CellStart(@)]
      /\ idx' = 0 /\ cur' = cur /\ ncells' = ncells /\ other' = other
      /\ pulled' = pulled /\ total' = total /\ brsEnd' = brsEnd
      /\ maxRows' = maxRows
  BY <1>1 DEF StartCell, Check
<1>3. cells'[cur].result = <<>> /\ cells'[cur].saved = cells[cur].saved
  BY <1>1, <1>2, StoreContents, CellStartType
<1>4. \A c \in Cells : c # cur => cells'[c] = cells[c]
  BY <1>1, <1>2
<1>5. \A c \in Cells : c < cur \/ c > cur => c # cur
  BY DEF IInv, TypeOK, Cells
<1>6. SubSeq(other'.saved, 1, idx') = <<>>
  BY <1>1, <1>2, PrefixEnds
<1>7. ChildProgress'
  BY <1>1, <1>2 DEF AlignInv, ChildProgress
<1>8. WorkAligned'
  BY <1>1, <1>2, <1>3 DEF AlignInv, WorkAligned
<1>9. StoresAligned'
  BY <1>1, <1>2, <1>3, <1>4, <1>5, <1>6
     DEF AlignInv, StoresAligned, Cells
<1>. QED  BY <1>7, <1>8, <1>9 DEF AlignInv

\* A call returns the results of the next slice.
LEMMA PythonReturnsAlign ==
  ASSUME Plain, IInv, AlignInv, PythonReturns
  PROVE  AlignInv'
<1>. USE ConstantsAssumption
<1>1. /\ pc = "python" /\ cur \in Cells /\ cells \in [Cells -> Cell]
      /\ other.saved \in Seq(Nat) /\ Len(other.saved) = storedIn
      /\ idx \in Nat /\ evalSize \in Nat /\ idx + evalSize <= storedIn
      /\ cells[cur].saved = other.saved
      /\ cells[cur].result = SubSeq(other.saved, 1, idx)
  BY DEF PythonReturns, IInv, TypeOK, SizesAgree, ProcessSizes, Col, AlignInv,
         StoresAligned, WorkAligned
<1>. DEFINE slice == SubSeq(cells[cur].saved, idx + 1, idx + evalSize)
<1>2. PICK i \in Tuned(info[cells[cur].expr], evalSize) :
        cells' = [cells EXCEPT ![cur] =
                    CellAbsorb(@, slice, evalSize, i.predict)]
  BY <1>1 DEF PythonReturns, Plain
<1>3. /\ pc' = "wrap" /\ idx' = idx + evalSize /\ cur' = cur
      /\ ncells' = ncells /\ other' = other /\ pulled' = pulled
      /\ total' = total /\ brsEnd' = brsEnd /\ maxRows' = maxRows
  BY DEF PythonReturns, control
<1>4. /\ cells'[cur].result = cells[cur].result \o slice
      /\ cells'[cur].saved = cells[cur].saved
  <2>1. cells'[cur] = CellAbsorb(cells[cur], slice, evalSize, i.predict)
    BY <1>1, <1>2
  <2>2. cells[cur] \in Cell
    BY <1>1
  <2>. HIDE DEF slice
  <2>3. cells'[cur].saved = cells[cur].saved
    BY <2>1, <2>2 DEF CellAbsorb, Cell
  <2>4. cells'[cur].result = cells[cur].result \o slice
    BY <2>1, <2>2 DEF CellAbsorb, Cell
  <2>. QED  BY <2>3, <2>4
<1>5. cells'[cur].result = SubSeq(other.saved, 1, idx + evalSize)
  <2>. DEFINE rows == other.saved
  <2>1. SubSeq(rows, 1, idx) \o SubSeq(rows, idx + 1, idx + evalSize)
          = SubSeq(rows, 1, idx + evalSize)
    BY <1>1, PrefixGrows
  <2>2. slice = SubSeq(rows, idx + 1, idx + evalSize)
    BY <1>1
  <2>. QED  BY <1>1, <1>4, <2>1, <2>2, Zenon
<1>6. \A c \in Cells : c # cur => cells'[c] = cells[c]
  BY <1>1, <1>2
<1>7. \A c \in Cells : c < cur \/ c > cur => c # cur
  BY DEF IInv, TypeOK, Cells
<1>8. ChildProgress'
  BY <1>1, <1>3 DEF AlignInv, ChildProgress
<1>9. WorkAligned'
  BY <1>1, <1>3, <1>4 DEF AlignInv, WorkAligned
<1>10. StoresAligned'
  BY <1>1, <1>3, <1>5, <1>6, <1>7 DEF AlignInv, StoresAligned, Cells
<1>. QED  BY <1>8, <1>9, <1>10 DEF AlignInv

\* A cell is finished when it has the results of all rows.
LEMMA FinishCellAlign ==
  ASSUME IInv, AlignInv, FinishCell
  PROVE  AlignInv'
<1>. USE ConstantsAssumption
<1>1. /\ pc = "wrap" /\ cur \in Cells /\ cells \in [Cells -> Cell]
      /\ other.saved \in Seq(Nat) /\ Len(other.saved) = storedIn
      /\ idx \in Nat /\ idx <= storedIn /\ storedIn \in Nat
      /\ cells[cur].saved = other.saved
      /\ cells[cur].result = SubSeq(other.saved, 1, idx)
      /\ cells[cur].resultSize = idx /\ ncells \in Nat /\ cur \in Nat
      /\ idx >= Len(cells[cur].saved)
  BY DEF FinishCell, IInv, TypeOK, SizesAgree, ProcessSizes, Col, AlignInv,
         StoresAligned, WorkAligned
<1>2. idx = storedIn /\ cells[cur].result = other.saved
  <2>1. idx = storedIn
    BY <1>1
  <2>. QED  BY <1>1, <2>1, PrefixEnds
<1>3. /\ pc' = IF cur = ncells THEN "restore" ELSE "process"
      /\ cells' = [cells EXCEPT ![cur] = CellReset(@, 0)]
      /\ cur' = IF cur = ncells THEN cur ELSE cur + 1
      /\ ncells' = ncells /\ other' = other /\ pulled' = pulled
      /\ total' = total /\ brsEnd' = brsEnd /\ maxRows' = maxRows
  BY <1>1, <1>2 DEF FinishCell, Check
<1>4. cells'[cur].result = other.saved
  BY <1>1, <1>2, <1>3, StoreContents
<1>5. \A c \in Cells : c # cur => cells'[c] = cells[c]
  BY <1>1, <1>3
<1>6. ChildProgress'
  BY <1>1, <1>3 DEF AlignInv, ChildProgress
<1>7. \A c \in Cells : /\ c < cur => cells[c].result = other.saved
                       /\ c > cur => cells[c].saved = other.saved
  BY <1>1 DEF AlignInv, StoresAligned
<1>8. \A c \in Cells : c <= cur => cells'[c].result = other.saved
  <2>. SUFFICES ASSUME NEW c \in Cells, c <= cur
                PROVE  cells'[c].result = other.saved
    OBVIOUS
  <2>1. CASE c = cur
    BY <1>4, <2>1
  <2>2. CASE c # cur
    <3>1. c < cur
      BY <1>1, <2>2 DEF Cells
    <3>. QED  BY <1>5, <1>7, <2>2, <3>1
  <2>. QED  BY <2>1, <2>2
<1>9. RowsInOrder'
  BY <1>3 DEF AlignInv, StoresAligned, RowsInOrder
<1>10. CASE cur = ncells
  <2>1. pc' = "restore" /\ \A c \in Cells' : cells'[c].result = other'.saved
    <3>1. pc' = "restore" /\ Cells' = Cells /\ other' = other
      BY <1>3, <1>10 DEF Cells
    <3>2. \A c \in Cells : c <= cur
      BY <1>1, <1>10 DEF Cells
    <3>. QED  BY <1>8, <3>1, <3>2
  <2>. QED  BY <1>6, <1>9, <2>1 DEF AlignInv, StoresAligned, RowsInOrder,
                                    WorkAligned
<1>11. CASE cur # ncells
  <2>1. pc' = "process" /\ cur' = cur + 1
    BY <1>3, <1>11
  <2>2. \A c \in Cells' : c >= cur' => cells'[c].saved = other'.saved
    BY <1>1, <1>3, <1>5, <1>7, <2>1 DEF Cells
  <2>3. \A c \in Cells' : c < cur' => cells'[c].result = other'.saved
    BY <1>1, <1>3, <1>8, <2>1 DEF Cells
  <2>4. cur' \in Cells'
    BY <1>1, <1>3, <1>11, <2>1 DEF Cells
  <2>5. \A c \in Cells' : c > cur' => c >= cur'
    BY <1>1, <2>1 DEF Cells
  <2>6. cells'[cur'].saved = other'.saved
    BY <1>1, <2>1, <2>2, <2>4
  <2>. QED  BY <1>6, <1>9, <2>1, <2>2, <2>3, <2>5, <2>6
            DEF AlignInv, StoresAligned, RowsInOrder, WorkAligned
<1>. QED  BY <1>10, <1>11


-----------------------------------------------------------------------------
\* Restoring reads the stores; the rows are dropped with the last batch.
LEMMA RestoreBatchAlign ==
  ASSUME IInv, AlignInv, RestoreBatch
  PROVE  AlignInv'
<1>. USE ConstantsAssumption
<1>. DEFINE n == OutputSize
<1>1. pc = "restore" /\ CanOutput
  BY DEF RestoreBatch
<1>2. /\ n \in Nat /\ Restorable(n) /\ other \in Col
      /\ outIdx \in Nat /\ storedOut \in Nat /\ pulled \in Nat
  BY <1>1, RestoredSizes DEF IInv, TypeOK
<1>3. /\ pc' \in {"again", "idle"} /\ cells' = cells /\ ncells' = ncells
      /\ pulled' = pulled /\ total' = total /\ ~brsEnd' /\ maxRows' = maxRows
      /\ outIdx' = outIdx + n /\ storedOut' = storedOut
      /\ other' = IF outIdx + n = storedOut THEN ColReuse(other)
                  ELSE ColLoad(other, n)
  BY <1>1, <1>2 DEF RestoreBatch, Check
<1>. HIDE DEF n
<1>4. ChildProgress'
  BY <1>1, <1>3 DEF AlignInv, ChildProgress
<1>5. CASE outIdx + n = storedOut
  <2>1. other'.saved = <<>> /\ Len(other'.saved) = 0
    BY <1>2, <1>3, <1>5, ColLoadType
  <2>2. ~CanOutput'
    BY <1>2, <1>3, <1>5 DEF CanOutput
  <2>3. RowsInOrder'
    BY <2>1 DEF RowsInOrder
  <2>. QED  BY <1>3, <1>4, <2>2, <2>3
            DEF AlignInv, StoresAligned, RowsInOrder, WorkAligned
<1>6. CASE outIdx + n # storedOut
  <2>1. other'.saved = other.saved
    BY <1>2, <1>3, <1>6, ColLoadType
  <2>2. RowsInOrder'
    BY <1>3, <2>1 DEF RowsInOrder, AlignInv, StoresAligned
  <2>3. \A c \in Cells' : cells'[c].result = other'.saved
    BY <1>1, <1>3, <2>1 DEF AlignInv, StoresAligned, Cells
  <2>. QED  BY <1>3, <1>4, <2>2, <2>3
            DEF AlignInv, StoresAligned, RowsInOrder, WorkAligned
<1>. QED  BY <1>5, <1>6

\* Every step keeps the stores aligned.
LEMMA NextAlign ==
  ASSUME Plain, IInv, AlignInv, [Next]_vars
  PROVE  AlignInv'
<1>1. CASE Open \/ Rescan \/ Close
  BY <1>1, OpenCloseAlign
<1>2. CASE Enter
  <2>1. PICK m \in 1..MaxBatch : ResumeOutput(m) \/ BeginFill(m)
    BY <1>2 DEF Enter
  <2>. QED  BY <2>1, QuietAlign, BeginFillAlign
<1>3. CASE Fetch
  <2>1. CASE ChildFails
    BY <2>1, QuietAlign
  <2>2. ASSUME NEW s \in 0..MaxBatch, NEW skip \in SUBSET (1..s),
               StoreBatch(s, skip) \/ StoreFails(s, skip)
        PROVE  AlignInv'
    BY <2>2, StoreBatchAlign, StoreFailsAlign
  <2>. QED  BY <1>3, <2>1, <2>2 DEF Fetch
<1>4. CASE \/ EndFill \/ CallPython \/ PythonRaises \/ RestoreNothing
           \/ UNCHANGED vars \/ \E e \in Udf : PeerTunes(e)
  BY <1>4, QuietAlign
<1>5. CASE StartCell \/ PythonReturns \/ FinishCell \/ RestoreBatch
  BY <1>5, StartCellAlign, PythonReturnsAlign, FinishCellAlign,
     RestoreBatchAlign
<1>. QED  BY <1>1, <1>2, <1>3, <1>4, <1>5 DEF Next, Work, Terminated

\* The alignment, and how far the child is, hold in every state.
LEMMA InvariantAlign == Plain /\ Spec => []AlignInv
<1>1. Plain => Plain'
  BY DEF Plain
<1>2. Plain /\ IInv /\ AlignInv /\ [Next]_vars => AlignInv'
  BY NextAlign
<1>. QED  BY <1>1, <1>2, InitAlign, InvariantIInv, PTL DEF Spec

\* The rows waiting in other_store_ are the last ones that the child delivered,
\* and every cell holds the arguments or results of exactly those rows, at the
\* same positions: for any number of UDFs, prediction sizes that other
\* sessions change at any time, and batches cut in any way.
THEOREM StoresStayAligned == Plain /\ Spec => []StoresAligned
<1>1. AlignInv => StoresAligned
  BY DEF AlignInv
<1>. QED  BY <1>1, InvariantAlign, PTL


-----------------------------------------------------------------------------
\* The stream of PredictStream counts active positions as the operator does.
LEMMA SameCounting ==
  ASSUME NEW n, NEW drop, NEW k
  PROVE  /\ Stream!Active(n, drop) = Active(n, drop)
         /\ Stream!ActiveAt(n, drop, k) = ActiveAt(n, drop, k)
<1>1. \A S : Stream!Cardinality(S) = Cardinality(S)
  BY DEF Stream!Cardinality, Cardinality
<1>. QED  BY <1>1 DEF Stream!Active, Active, Stream!ActiveAt, ActiveAt

\* The results at position i of a restored batch are those of its i-th row.
LEMMA RestoredRow ==
  ASSUME IInv, AlignInv, pc = "restore", CanOutput, NEW i \in 1..OutputSize
  PROVE  /\ other.saved[other.outIdx + i] = Delivered + i
         /\ UdfValues(i) = [e \in Udf |-> Delivered + i]
         /\ UdfValues(i)[1] = Delivered + i
<1>. USE ConstantsAssumption
<1>1. /\ outIdx + OutputSize <= storedOut /\ OutputSize \in Nat
      /\ Len(other.saved) = storedOut /\ other.outIdx = outIdx
  BY RestoredSizes
<1>2. /\ outIdx \in Nat /\ storedOut \in Nat /\ pulled \in Nat
      /\ other.saved \in Seq(Nat)
  BY DEF IInv, TypeOK, Col
<1>3. outIdx + i \in 1..Len(other.saved)
  BY <1>1, <1>2
<1>4. other.saved[outIdx + i] = pulled - Len(other.saved) + (outIdx + i)
  BY <1>3 DEF AlignInv, StoresAligned
<1>5. other.saved[outIdx + i] = Delivered + i
  BY <1>1, <1>2, <1>4 DEF Delivered
<1>6. ASSUME NEW e \in Udf
      PROVE  ResultAt(cells[LastCell(e)], outIdx + i) = Delivered + i
  <2>1. LastCell(e) \in Cells
    BY DEF IInv, TypeOK, CellsOK, LastCell, Cells, Udf
  <2>2. cells[LastCell(e)].result = other.saved
    BY <2>1 DEF AlignInv, StoresAligned
  <2>3. outIdx + i <= Len(cells[LastCell(e)].result)
    BY <1>3, <2>2
  <2>. QED  BY <1>5, <2>2, <2>3 DEF ResultAt
<1>7. UdfValues(i) = [e \in Udf |-> Delivered + i]
  BY <1>6 DEF UdfValues
<1>8. 1 \in Udf
  BY DEF Udf
<1>. QED  BY <1>1, <1>5, <1>7, <1>8

\* A restored batch is a batch of right answers.
LEMMA RestoredAnswers ==
  ASSUME FreshOutput, IInv, AlignInv, pc = "restore", CanOutput
  PROVE  LET n    == OutputSize
             drop == FilteredOut(n)
         IN [k \in 1..Active(n, drop) |-> OutputRow(n, ActiveAt(n, drop, k))]
              = Stream!Answers(Delivered, n)
<1>. USE ConstantsAssumption
<1>. DEFINE n    == OutputSize
            drop == FilteredOut(n)
<1>1. n \in Nat
  BY RestoredSizes
<1>2. drop = {i \in 1..n : Delivered + i \notin Selected}
  BY RestoredRow DEF FilteredOut, Tested, FreshOutput
<1>3. ASSUME NEW i \in 1..n
      PROVE  OutputRow(n, i) = Stream!Answer(Delivered + i)
  <2>1. /\ other.saved[other.outIdx + i] = Delivered + i
        /\ UdfValues(i) = [e \in Udf |-> Delivered + i]
        /\ UdfValues(i)[1] = Delivered + i
    BY RestoredRow
  <2>. HIDE DEF n
  <2>. QED  BY <2>1 DEF OutputRow, Stream!Answer, Udf, FreshOutput
<1>. HIDE DEF n, drop
<1>4. ASSUME NEW k \in 1..Active(n, drop)
      PROVE  OutputRow(n, ActiveAt(n, drop, k))
               = Stream!Answer(Delivered + ActiveAt(n, drop, k))
  <2>1. ActiveAt(n, drop, k) \in 1..n
    BY <1>1, ActiveAtType
  <2>. QED  BY <1>3, <2>1
<1>5. Stream!Answers(Delivered, n)
        = [k \in 1..Active(n, drop) |->
             Stream!Answer(Delivered + ActiveAt(n, drop, k))]
  BY <1>2, SameCounting DEF Stream!Answers
<1>. QED  BY <1>4, <1>5 DEF n, drop


-----------------------------------------------------------------------------
\* The initial states are initial states of the stream.
LEMMA InitStream == Init => Stream!Init
<1>. SUFFICES ASSUME Init PROVE Stream!Init
  OBVIOUS
<1>1. other.saved = <<>> /\ other.outIdx = 0 /\ Len(other.saved) = 0
  BY ConstantsAssumption, ColInitType DEF Init
<1>. QED  BY <1>1 DEF Init, Stream!Init, StreamState, Delivered

\* A step that the parent does not see: the operator stays open, and no row is
\* delivered.
LEMMA HiddenStep ==
  ASSUME StreamState' = StreamState, total' = total, out' = out,
         pulled' = pulled, other' = other
  PROVE  UNCHANGED Stream!vars
BY DEF Stream!vars, Delivered

\* A step that fails, or closes the operator, delivers nothing.
LEMMA LastStep ==
  ASSUME total' = total, out' = out, pulled' = pulled, other' = other,
         \/ pc' = "failed" /\ pc \notin {"failed", "closed"}
         \/ pc' = "closed" /\ pc # "closed"
  PROVE  Stream!Next
<1>1. UNCHANGED <<total, Delivered, out>>
  BY DEF Delivered
<1>2. CASE pc' = "failed" /\ pc \notin {"failed", "closed"}
  <2>1. StreamState' = "failed" /\ StreamState \in {"unopened", "open", "end"}
    BY <1>2 DEF StreamState
  <2>. QED  BY <1>1, <2>1 DEF Stream!Next, Stream!Fail
<1>3. CASE pc' = "closed" /\ pc # "closed"
  <2>1. StreamState' = "closed" /\ StreamState # "closed"
    BY <1>3 DEF StreamState
  <2>. QED  BY <1>1, <2>1 DEF Stream!Next, Stream!Close
<1>. QED  BY <1>2, <1>3

\* inner_open, inner_rescan and inner_close.
LEMMA OpenCloseStream ==
  ASSUME IInv, AlignInv, Open \/ Rescan \/ Close
  PROVE  Stream!Next
<1>. USE ConstantsAssumption
<1>0. /\ ColInit(DefaultLength).saved = <<>> /\ ColInit(DefaultLength).outIdx = 0
      /\ Len(<<>>) = 0
  BY ColInitType, EmptyRows
<1>1. CASE Open
  <2>1. /\ pulled' = pulled /\ total' = total /\ brsEnd' = brsEnd /\ out' = out
        /\ pc = "unopened"
        /\ \/ pc' = "idle" /\ other' = ColInit(DefaultLength)
           \/ pc' = "failed" /\ other' = other
    BY <1>1 DEF Open, Fail
  <2>2. CASE pc' = "failed" /\ other' = other
    BY <2>1, <2>2, LastStep
  <2>3. CASE pc' = "idle" /\ other' = ColInit(DefaultLength)
    <3>1. other.saved = <<>> /\ other.outIdx = 0 /\ ~brsEnd
      BY <2>1 DEF IInv, CellsOK, SizesAgree, OutputSizes, AlignInv,
                  ChildProgress
    <3>2. Delivered' = Delivered
      BY <1>0, <2>1, <2>3, <3>1 DEF Delivered
    <3>3. StreamState = "unopened" /\ StreamState' = "open"
      BY <2>1, <2>3, <3>1 DEF StreamState
    <3>. QED  BY <2>1, <3>2, <3>3 DEF Stream!Next, Stream!Open
  <2>. QED  BY <2>1, <2>2, <2>3
<1>2. CASE Rescan
  <2>1. /\ total' = total /\ pc = "idle"
        /\ \/ /\ pc' = "failed" /\ other' = other /\ pulled' = pulled
              /\ out' = out
           \/ /\ pc' = "idle" /\ other' = ColInit(DefaultLength)
              /\ pulled' = 0 /\ brsEnd' = FALSE /\ out' = <<>>
    BY <1>2 DEF Rescan, Fail, stores
  <2>2. CASE /\ pc' = "failed" /\ other' = other /\ pulled' = pulled
             /\ out' = out
    BY <2>1, <2>2, LastStep
  <2>3. CASE /\ pc' = "idle" /\ other' = ColInit(DefaultLength)
             /\ pulled' = 0 /\ brsEnd' = FALSE /\ out' = <<>>
    <3>1. StreamState \in {"open", "end"} /\ StreamState' = "open"
      BY <2>1, <2>3 DEF StreamState
    <3>2. Delivered' = 0
      BY <1>0, <2>3 DEF Delivered
    <3>. QED  BY <2>1, <2>3, <3>1, <3>2 DEF Stream!Next, Stream!Restart
  <2>. QED  BY <2>1, <2>2, <2>3
<1>3. CASE Close
  BY <1>3, LastStep DEF Close, control
<1>. QED  BY <1>1, <1>2, <1>3

\* The steps inside inner_get_next_batch before anything is restored: hidden,
\* or failures.
LEMMA InnerStream ==
  ASSUME IInv, AlignInv,
         \/ \E m \in 1..MaxBatch : ResumeOutput(m)
         \/ ChildFails \/ EndFill \/ StartCell \/ CallPython \/ PythonReturns
         \/ PythonRaises \/ FinishCell \/ UNCHANGED vars
         \/ \E e \in Udf : PeerTunes(e)
         \/ \E s \in 0..MaxBatch : \E skip \in SUBSET (1..s) :
              StoreFails(s, skip)
  PROVE  [Stream!Next]_(Stream!vars)
<1>1. total' = total /\ out' = out /\ pulled' = pulled /\ other' = other
  BY DEF ResumeOutput, ChildFails, EndFill, StartCell, CallPython,
         PythonReturns, PythonRaises, FinishCell, PeerTunes, StoreFails, vars,
         control, stores
<1>2. \/ pc' = "failed" /\ pc \notin {"failed", "closed"}
      \/ StreamState' = StreamState
  BY DEF ResumeOutput, Entering, ChildFails, Filling, EndFill, StartCell, Check,
         CallPython, PythonReturns, PythonRaises, FinishCell, PeerTunes,
         StoreFails, Fail, vars, StreamState
<1>. QED  BY <1>1, <1>2, HiddenStep, LastStep

\* A fetched batch adds as many rows to the store as it takes from the child.
LEMMA StoreBatchStream ==
  ASSUME IInv, NEW s \in 0..MaxBatch, NEW skip, StoreBatch(s, skip)
  PROVE  UNCHANGED Stream!vars
<1>. USE ConstantsAssumption
<1>. DEFINE rows == BatchRows(s, skip)
<1>1. /\ pc = "fill" /\ pc' = "fill" /\ total' = total /\ out' = out
      /\ pulled' = pulled + Active(s, skip) /\ other' = ColSave(other, rows)
  BY DEF StoreBatch, Filling, control
<1>2. rows \in Seq(Nat) /\ Len(rows) = Active(s, skip)
  BY FetchedRows
<1>3. /\ other \in Col /\ pulled \in Nat /\ Len(other.saved) \in Nat
      /\ other.outIdx \in Nat
  BY DEF IInv, TypeOK, Col
<1>. HIDE DEF rows
<1>4. /\ Len(other'.saved) = Len(other.saved) + Len(rows)
      /\ other'.outIdx = other.outIdx
  BY <1>1, <1>2, <1>3, ColSaveType
<1>5. Len(rows) \in Nat
  BY <1>2
<1>6. Delivered' = Delivered
  BY <1>1, <1>2, <1>3, <1>4, <1>5 DEF Delivered
<1>7. StreamState' = StreamState
  BY <1>1 DEF StreamState
<1>. QED  BY <1>1, <1>6, <1>7 DEF Stream!vars

\* resize() throws nothing away that the parent has not seen.
LEMMA BeginFillStream ==
  ASSUME IInv, NEW m \in 1..MaxBatch, BeginFill(m)
  PROVE  UNCHANGED Stream!vars
<1>. USE ConstantsAssumption
<1>1. /\ pc' = "fill" /\ total' = total /\ out' = out /\ pulled' = pulled
      /\ storedIn' = 0 /\ ~CanOutput
      /\ pc \in {"idle", "again"} /\ (pc = "idle" => ~brsEnd)
  BY DEF BeginFill, Entering, ResetCounters
<1>2. IInv'
  BY BeginFillIInv
<1>3. Len(other'.saved) = 0 /\ other'.outIdx = 0
  BY <1>1, <1>2 DEF IInv, SizesAgree, FillSizes
<1>4. Len(other.saved) = 0 /\ other.outIdx = 0
  BY <1>1, EmptyRows DEF IInv, SizesAgree, OutputSizes
<1>5. StreamState' = StreamState
  BY <1>1 DEF StreamState
<1>. QED  BY <1>1, <1>3, <1>4, <1>5 DEF Stream!vars, Delivered

\* The end is reported when all rows of the child have been delivered.
LEMMA RestoreNothingStream ==
  ASSUME IInv, AlignInv, RestoreNothing
  PROVE  [Stream!Next]_(Stream!vars)
<1>. USE ConstantsAssumption
<1>1. /\ pc = "restore" /\ ~CanOutput
      /\ total' = total /\ out' = out /\ pulled' = pulled /\ other' = other
      /\ pc' = (IF brsEnd THEN "idle" ELSE "again") /\ brsEnd' = brsEnd
  BY DEF RestoreNothing, control, stores
<1>2. CASE brsEnd
  <2>1. pulled = total /\ pulled \in Nat
    BY <1>2 DEF AlignInv, ChildProgress, IInv, TypeOK
  <2>2. Len(other.saved) = 0 /\ other.outIdx = 0
    BY <1>1, EmptyRows DEF IInv, SizesAgree, OutputSizes
  <2>3. Delivered = total /\ Delivered' = Delivered
    BY <1>1, <2>1, <2>2 DEF Delivered
  <2>4. StreamState = "open" /\ StreamState' = "end"
    BY <1>1, <1>2 DEF StreamState
  <2>. QED  BY <1>1, <2>3, <2>4 DEF Stream!Next, Stream!End
<1>3. CASE ~brsEnd
  <2>1. StreamState' = StreamState
    BY <1>1, <1>3 DEF StreamState
  <2>. QED  BY <1>1, <2>1, HiddenStep
<1>. QED  BY <1>2, <1>3


\* A restored batch is consumed by the parent: its rows are dealt with, and the
\* answers for the selected ones are emitted.
LEMMA RestoreBatchStream ==
  ASSUME FreshOutput, IInv, AlignInv, RestoreBatch
  PROVE  Stream!Next
<1>. USE ConstantsAssumption
<1>. DEFINE n    == OutputSize
            drop == FilteredOut(n)
<1>1. pc = "restore" /\ CanOutput
  BY DEF RestoreBatch
<1>2. /\ n \in Nat /\ n <= MaxBatch /\ outIdx + n <= storedOut
      /\ Len(other.saved) = storedOut /\ other.outIdx = outIdx /\ Restorable(n)
  BY <1>1, RestoredSizes
<1>3. /\ outIdx \in Nat /\ storedOut \in Nat /\ pulled \in Nat /\ total \in Nat
      /\ other \in Col /\ pulled <= total /\ maxRows \in Nat /\ maxRows >= 1
  BY <1>1 DEF IInv, TypeOK, AlignInv, ChildProgress
<1>4. n \in 1..MaxBatch
  BY <1>1, <1>2, <1>3 DEF OutputSize, CanOutput
<1>5. /\ pc' \in {"again", "idle"} /\ pulled' = pulled /\ total' = total
      /\ ~brsEnd'
      /\ other' = IF outIdx + n = storedOut THEN ColReuse(other)
                  ELSE ColLoad(other, n)
      /\ out' = out \o [k \in 1..Active(n, drop) |->
                          OutputRow(n, ActiveAt(n, drop, k))]
  BY <1>1, <1>2 DEF RestoreBatch, Check
<1>6. out' = out \o Stream!Answers(Delivered, n)
  BY <1>1, <1>5, RestoredAnswers
<1>. HIDE DEF n, drop
<1>7. Delivered' = Delivered + n /\ Delivered + n <= total
  <2>1. Delivered = pulled - (storedOut - outIdx)
    BY <1>2 DEF Delivered
  <2>2. CASE outIdx + n = storedOut
    <3>1. Len(other'.saved) = 0 /\ other'.outIdx = 0
      BY <1>3, <1>4, <1>5, <2>2, ColLoadType, EmptyRows
    <3>2. Delivered' = pulled - (0 - 0)
      BY <1>5, <3>1 DEF Delivered
    <3>. QED  BY <1>2, <1>3, <2>1, <2>2, <3>2
  <2>3. CASE outIdx + n # storedOut
    <3>1. other'.saved = other.saved /\ other'.outIdx = other.outIdx + n
      BY <1>2, <1>3, <1>5, <2>3, ColLoadType
    <3>2. Delivered' = pulled - (storedOut - (outIdx + n))
      BY <1>2, <1>5, <3>1 DEF Delivered
    <3>. QED  BY <1>2, <1>3, <2>1, <3>2
  <2>. QED  BY <2>2, <2>3
<1>8. StreamState = "open" /\ StreamState' = "open"
  BY <1>1, <1>5 DEF StreamState
<1>9. Stream!Consume(n)
  BY <1>5, <1>6, <1>7, <1>8 DEF Stream!Consume
<1>. QED  BY <1>4, <1>9 DEF Stream!Next

\* Every step of the operator is a step of the stream, or is not seen.
LEMMA NextStream ==
  ASSUME FreshOutput, IInv, AlignInv, [Next]_vars
  PROVE  [Stream!Next]_(Stream!vars)
<1>1. CASE Open \/ Rescan \/ Close
  BY <1>1, OpenCloseStream
<1>2. CASE Enter
  <2>1. PICK m \in 1..MaxBatch : ResumeOutput(m) \/ BeginFill(m)
    BY <1>2 DEF Enter
  <2>. QED  BY <2>1, InnerStream, BeginFillStream
<1>3. CASE Fetch
  <2>1. CASE \/ ChildFails
             \/ \E s \in 0..MaxBatch : \E skip \in SUBSET (1..s) :
                  StoreFails(s, skip)
    BY <2>1, InnerStream
  <2>2. ASSUME NEW s \in 0..MaxBatch, NEW skip \in SUBSET (1..s),
               StoreBatch(s, skip)
        PROVE  UNCHANGED Stream!vars
    BY <2>2, StoreBatchStream
  <2>. QED  BY <1>3, <2>1, <2>2 DEF Fetch
<1>4. CASE \/ EndFill \/ StartCell \/ CallPython \/ PythonReturns
           \/ PythonRaises \/ FinishCell \/ UNCHANGED vars
           \/ \E e \in Udf : PeerTunes(e)
  BY <1>4, InnerStream
<1>5. CASE RestoreBatch \/ RestoreNothing
  BY <1>5, RestoreBatchStream, RestoreNothingStream
<1>. QED  BY <1>1, <1>2, <1>3, <1>4, <1>5 DEF Next, Work, Terminated

\* The operator implements the stream of right answers: whatever the buffering,
\* the slices, the batch sizes of the parent and the tuning by other sessions,
\* the child's rows come out in order and once, each with the results of that
\* very row, and the end is reported after the last one.
THEOREM OperatorImplementsStream ==
  Plain /\ FreshOutput /\ Spec => ImplementsStream
<1>1. FreshOutput => FreshOutput'
  BY DEF FreshOutput
<1>2. FreshOutput /\ IInv /\ AlignInv /\ [Next]_vars
        => [Stream!Next]_(Stream!vars)
  BY NextStream
<1>. QED  BY <1>1, <1>2, InitStream, InvariantAlign, InvariantIInv, PTL
          DEF Spec, ImplementsStream, Stream!Spec


-----------------------------------------------------------------------------
\* Counting positions: no more active ones in a prefix than in the whole, and
\* fewer before an active position than up to it.
LEMMA ActiveMonotone ==
  ASSUME NEW n \in Nat, NEW drop, NEW j \in 0..n
  PROVE  /\ Active(j, drop) \in Nat /\ Active(j, drop) <= Active(n, drop)
         /\ \A i \in 0..(j - 1) :
              j \notin drop => Active(i, drop) < Active(j, drop)
<1>1. j \in Nat /\ IsFiniteSet((1..n) \ drop) /\ IsFiniteSet((1..j) \ drop)
  BY ActiveType
<1>2. Active(j, drop) \in Nat
  BY <1>1, ActiveType
<1>3. Active(j, drop) <= Active(n, drop)
  <2>1. (1..j) \ drop \in SUBSET ((1..n) \ drop)
    OBVIOUS
  <2>. QED  BY <1>1, <2>1, FS_Subset DEF Active
<1>4. ASSUME NEW i \in 0..(j - 1), j \notin drop
      PROVE  Active(i, drop) < Active(j, drop)
  <2>1. j - 1 \in Nat /\ (j - 1) + 1 = j /\ i \in Nat
    BY <1>4
  <2>2. /\ Active(j - 1, drop) \in Nat /\ IsFiniteSet((1..(j - 1)) \ drop)
        /\ Active(i, drop) \in Nat
    BY <2>1, ActiveType
  <2>3. (1..i) \ drop \in SUBSET ((1..(j - 1)) \ drop)
    BY <2>1
  <2>4. Active(i, drop) <= Active(j - 1, drop)
    BY <2>2, <2>3, FS_Subset DEF Active
  <2>5. Active((j - 1) + 1, drop) = IF (j - 1) + 1 \in drop
                                    THEN Active(j - 1, drop)
                                    ELSE Active(j - 1, drop) + 1
    BY <2>1, ActiveStep
  <2>6. Active(j, drop) = Active(j - 1, drop) + 1
    BY <1>4, <2>1, <2>5
  <2>. QED  BY <2>2, <2>4, <2>6
<1>. QED  BY <1>2, <1>3, <1>4

\* An active position is found at its own place.
LEMMA ActiveAtPlace ==
  ASSUME NEW n \in Nat, NEW drop, NEW i \in (1..n) \ drop
  PROVE  /\ Active(i, drop) \in 1..Active(n, drop)
         /\ ActiveAt(n, drop, Active(i, drop)) = i
<1>. DEFINE k == Active(i, drop)
            j == ActiveAt(n, drop, k)
<1>1. i \in 0..n /\ 0 \in 0..(i - 1) /\ 0 \in 0..n
  OBVIOUS
<1>2. /\ Active(0, drop) \in Nat /\ k \in Nat /\ Active(n, drop) \in Nat
      /\ Active(0, drop) < k /\ k <= Active(n, drop)
  BY <1>1, ActiveMonotone, ActiveType
<1>3. k \in 1..Active(n, drop)
  BY <1>2
<1>4. j \in (1..n) \ drop /\ Active(j, drop) = k
  BY <1>3, ActiveAtType
<1>. HIDE DEF j
<1>5. ASSUME j < i PROVE FALSE
  <2>1. j \in 0..(i - 1)
    BY <1>4, <1>5
  <2>2. Active(j, drop) < k
    BY <1>1, <2>1, ActiveMonotone
  <2>. QED  BY <1>2, <1>4, <2>2
<1>6. ASSUME i < j PROVE FALSE
  <2>1. i \in 0..(j - 1) /\ j \in 0..n
    BY <1>4, <1>6
  <2>2. k < Active(j, drop)
    BY <1>4, <2>1, ActiveMonotone
  <2>. QED  BY <1>2, <1>4, <2>2
<1>7. j = i
  BY <1>4, <1>5, <1>6
<1>. QED  BY <1>3, <1>7 DEF j

\* The rows that the filter drops, as positions behind the first b rows.
DroppedAfter(b, n) == {i \in 1..n : b + i \notin Selected}

\* The place of a row counts the positions that are not dropped.
LEMMA PlaceIsActive ==
  ASSUME NEW r \in Nat
  PROVE  Stream!Place(r) = Active(r, Nat \ Selected)
<1>1. Selected \cap (1..r) = (1..r) \ (Nat \ Selected)
  OBVIOUS
<1>2. \A S : Stream!Cardinality(S) = Cardinality(S)
  BY DEF Stream!Cardinality, Cardinality
<1>. QED  BY <1>1, <1>2 DEF Stream!Place, Active

\* Places continue behind the first b rows.  By least counterexample.
LEMMA PlaceShift ==
  ASSUME NEW b \in Nat, NEW n \in Nat, NEW i \in 0..n
  PROVE  Stream!Place(b + i) = Stream!Place(b) + Active(i, DroppedAfter(b, n))
<1>. DEFINE U == Nat \ Selected
            drop == DroppedAfter(b, n)
            Bad == {j \in 0..n : Active(b + j, U)
                                   # Active(b, U) + Active(j, drop)}
<1>1. Bad = {}
  <2>. SUFFICES ASSUME Bad # {} PROVE FALSE
    OBVIOUS
  <2>1. Bad \in SUBSET Nat
    OBVIOUS
  <2>2. PICK m \in Bad : \A j \in Bad : m <= j
    BY <2>1, LeastNumber
  <2>3. m # 0
    <3>1. (1..0) \ drop = {} /\ b + 0 = b
      OBVIOUS
    <3>2. Active(0, drop) = 0
      BY <3>1, FS_EmptySet DEF Active
    <3>3. Active(b, U) \in Nat
      BY ActiveType
    <3>. HIDE DEF U, drop
    <3>. QED  BY <2>2, <3>1, <3>2, <3>3
  <2>4. /\ m - 1 \in 0..n /\ m - 1 \in Nat /\ (m - 1) + 1 = m /\ m \in 1..n
        /\ b + (m - 1) \in Nat /\ (b + (m - 1)) + 1 = b + m
    BY <2>2, <2>3
  <2>5. Active(b + (m - 1), U) = Active(b, U) + Active(m - 1, drop)
    <3>1. m - 1 \notin Bad
      <4>. HIDE DEF Bad
      <4>. QED  BY <2>2, <2>4
    <3>. HIDE DEF U, drop
    <3>. QED  BY <2>4, <3>1
  <2>6. m \in drop <=> b + m \in U
    BY <2>4 DEF DroppedAfter
  <2>. HIDE DEF U, drop
  <2>7. Active(b + m, U) = IF b + m \in U THEN Active(b + (m - 1), U)
                           ELSE Active(b + (m - 1), U) + 1
    BY <2>4, ActiveStep
  <2>8. Active(m, drop) = IF m \in drop THEN Active(m - 1, drop)
                          ELSE Active(m - 1, drop) + 1
    BY <2>4, ActiveStep
  <2>9. Active(b, U) \in Nat /\ Active(m - 1, drop) \in Nat
    BY <2>4, ActiveType
  <2>10. Active(b + m, U) = Active(b, U) + Active(m, drop)
    BY <2>5, <2>6, <2>7, <2>8, <2>9
  <2>. QED  BY <2>2, <2>10
<1>2. Active(b + i, U) = Active(b, U) + Active(i, drop)
  <2>. HIDE DEF U, drop
  <2>. QED  BY <1>1
<1>3. b + i \in Nat
  OBVIOUS
<1>. QED  BY <1>2, <1>3, PlaceIsActive


\* The answer for a row is of the type that the parent receives.
LEMMA AnswerType ==
  ASSUME NEW r \in Nat
  PROVE  Stream!Answer(r) \in Answer
BY DEF Stream!Answer, Answer, Udf

\* The right answers for the first b rows.
RightUpTo(em, b) ==
  /\ Len(em) = Stream!Place(b)
  /\ \A r \in Selected \cap (1..b) : em[Stream!Place(r)] = Stream!Answer(r)

\* What the next n rows add to right answers makes right answers.
LEMMA AnswersExtend ==
  ASSUME NEW b \in Nat, NEW n \in Nat, NEW em \in Seq(Answer),
         RightUpTo(em, b)
  PROVE  RightUpTo(em \o Stream!Answers(b, n), b + n)
<1>0. /\ Len(em) = Stream!Place(b)
      /\ \A r \in Selected \cap (1..b) :
           em[Stream!Place(r)] = Stream!Answer(r)
  BY DEF RightUpTo
<1>. DEFINE drop == DroppedAfter(b, n)
            add  == Stream!Answers(b, n)
            new  == em \o add
<1>1. add = [k \in 1..Active(n, drop) |->
               Stream!Answer(b + ActiveAt(n, drop, k))]
  BY SameCounting DEF Stream!Answers, DroppedAfter
<1>2. Active(n, drop) \in Nat
  BY ActiveType
<1>3. add \in Seq(Answer) /\ Len(add) = Active(n, drop)
  <2>1. ASSUME NEW k \in 1..Active(n, drop)
        PROVE  Stream!Answer(b + ActiveAt(n, drop, k)) \in Answer
    <3>1. ActiveAt(n, drop, k) \in 1..n
      BY ActiveAtType
    <3>2. b + ActiveAt(n, drop, k) \in Nat
      BY <3>1
    <3>. QED  BY <3>2, AnswerType
  <2>. HIDE DEF add, drop
  <2>. QED  BY <1>1, <1>2, <2>1
<1>. HIDE DEF add
<1>4. /\ Len(new) = Len(em) + Len(add)
      /\ \A k \in 1..Len(em) : new[k] = em[k]
      /\ \A k \in 1..Len(add) : new[Len(em) + k] = add[k]
  BY <1>3
<1>. HIDE DEF new
<1>5. Len(new) = Stream!Place(b + n)
  <2>1. n \in 0..n
    OBVIOUS
  <2>2. Stream!Place(b + n) = Stream!Place(b) + Active(n, drop)
    BY <2>1, PlaceShift
  <2>. QED  BY <1>0, <1>3, <1>4, <2>2
<1>6. ASSUME NEW r \in Selected \cap (1..(b + n))
      PROVE  new[Stream!Place(r)] = Stream!Answer(r)
  <2>1. CASE r <= b
    <3>. DEFINE U == Nat \ Selected
    <3>1. r \in 0..b /\ 0 \in 0..(r - 1) /\ r \notin U /\ r \in Selected \cap (1..b)
          /\ r \in Nat /\ 0 \in 0..b
      BY <2>1
    <3>. HIDE DEF U
    <3>2. /\ Active(r, U) \in Nat /\ Active(r, U) <= Active(b, U)
          /\ Active(0, U) < Active(r, U)
      BY <3>1, ActiveMonotone
    <3>3. Active(0, U) \in Nat /\ Active(b, U) \in Nat
      BY ActiveType
    <3>4. Stream!Place(r) = Active(r, U) /\ Stream!Place(b) = Active(b, U)
      BY <3>1, PlaceIsActive DEF U
    <3>5. Stream!Place(r) \in 1..Len(em)
      BY <1>0, <3>2, <3>3, <3>4
    <3>. QED  BY <1>0, <1>4, <3>1, <3>5
  <2>2. CASE ~(r <= b)
    <3>. DEFINE i == r - b
    <3>1. i \in 1..n /\ b + i = r /\ i \in 0..n
      BY <2>2
    <3>2. i \in (1..n) \ drop
      BY <3>1 DEF DroppedAfter
    <3>. HIDE DEF i, drop
    <3>3. /\ Active(i, drop) \in 1..Active(n, drop)
          /\ ActiveAt(n, drop, Active(i, drop)) = i
      BY <3>2, ActiveAtPlace
    <3>4. Stream!Place(r) = Len(em) + Active(i, drop)
      BY <1>0, <3>1, PlaceShift DEF drop
    <3>5. new[Stream!Place(r)] = add[Active(i, drop)]
      BY <1>3, <1>4, <3>3, <3>4
    <3>6. add[Active(i, drop)] = Stream!Answer(b + i)
      BY <1>1, <3>3
    <3>. QED  BY <3>1, <3>5, <3>6
  <2>. QED  BY <2>1, <2>2
<1>. QED  BY <1>5, <1>6 DEF new, add, RightUpTo

\* RightAnswers with the number of rows that have been dealt with.
RightInv == Delivered \in Nat /\ RightAnswers

\* Nothing has been delivered yet.
LEMMA InitRight == Init => RightInv
<1>. SUFFICES ASSUME Init PROVE RightInv
  OBVIOUS
<1>1. Delivered = 0 /\ out = <<>> /\ Len(out) = 0
  BY InitStream, EmptyRows DEF Stream!Init
<1>2. Stream!Place(0) = 0
  <2>1. (1..0) \ (Nat \ Selected) = {}
    OBVIOUS
  <2>. QED  BY <2>1, PlaceIsActive, FS_EmptySet DEF Active
<1>. QED  BY <1>1, <1>2 DEF RightInv, RightAnswers, Stream!RightAnswers

\* Every step of the stream keeps the answers right.
LEMMA NextRight ==
  ASSUME IInv, RightInv, [Stream!Next]_(Stream!vars)
  PROVE  RightInv'
<1>. USE ConstantsAssumption
<1>0. out \in Seq(Answer)
  BY DEF IInv, TypeOK
<1>1. CASE UNCHANGED <<Delivered, out>>
  BY <1>1 DEF RightInv, RightAnswers, Stream!RightAnswers
<1>2. CASE Delivered' = 0 /\ out' = <<>>
  <2>1. Stream!Place(0) = 0
    <3>1. (1..0) \ (Nat \ Selected) = {}
      OBVIOUS
    <3>. QED  BY <3>1, PlaceIsActive, FS_EmptySet DEF Active
  <2>2. 1..0 = {}
    OBVIOUS
  <2>. QED  BY <1>2, <2>1, <2>2 DEF RightInv, RightAnswers, Stream!RightAnswers
<1>3. ASSUME NEW n \in 1..MaxBatch, Stream!Consume(n)
      PROVE  RightInv'
  <2>. DEFINE b == Delivered
  <2>1. b \in Nat /\ n \in Nat /\ RightUpTo(out, b)
    BY DEF RightInv, RightAnswers, Stream!RightAnswers, RightUpTo
  <2>2. Delivered' = b + n /\ out' = out \o Stream!Answers(b, n)
    BY <1>3 DEF Stream!Consume
  <2>. HIDE DEF b
  <2>3. RightUpTo(out \o Stream!Answers(b, n), b + n)
    BY <1>0, <2>1, AnswersExtend
  <2>4. b + n \in Nat
    BY <2>1
  <2>5. RightUpTo(out', Delivered')
    BY <2>2, <2>3
  <2>. QED  BY <2>2, <2>4, <2>5
            DEF RightInv, RightAnswers, Stream!RightAnswers, RightUpTo
<1>. QED  BY <1>1, <1>2, <1>3
          DEF Stream!Next, Stream!Open, Stream!End, Stream!Fail,
              Stream!Restart, Stream!Close, Stream!vars

\* What the parent has received is right, complete and in order in every state,
\* those after a failure included.
THEOREM AnswersAreRight ==
  Plain /\ FreshOutput /\ Spec => []RightAnswers
<1>1. FreshOutput => FreshOutput'
  BY DEF FreshOutput
<1>2. FreshOutput /\ IInv /\ AlignInv /\ RightInv /\ [Next]_vars => RightInv'
  BY NextStream, NextRight
<1>3. RightInv => RightAnswers
  BY DEF RightInv
<1>. QED  BY <1>1, <1>2, <1>3, InitRight, InvariantAlign, InvariantIInv, PTL
          DEF Spec
=============================================================================
