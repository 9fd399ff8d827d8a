------------------------- MODULE InterpreterProofs -------------------------
(***************************************************************************)
(* Proofs about the interpreter lock.  For every nesting of operators no   *)
(* return leaks the lock; for plans with one prediction operator each the  *)
(* bracket always owns it.  The counter of a thread state never exceeds 1, *)
(* because Ensure is only called after Check has said no; all of the       *)
(* argument is about one thread, the others only pass the lock around.     *)
(***************************************************************************)
EXTENDS PyInterpreter, TLAPS

\* Some thread receives the rows of t.
Consumed(t) == \E c \in Threads : Feeder[c] = t

\* The thread's state and the lock: one Ensure at most, and the thread gives
\* the lock up without its state only between two bytecodes.
LockFits(t) ==
  /\ counter[t] \in {0, 1}
  /\ gil = t => counter[t] = 1
  /\ counter[t] = 1 => gil = t \/ At(t, "retake")
  /\ At(t, "retake") => counter[t] = 1 /\ gil # t
  /\ At(t, "ensure") => counter[t] = 0
  /\ counter[t] = 1 => \E l \in 1..level[t] : gstate[t][l] = "UNLOCKED"

\* The stack of brackets: all but the innermost wait for their child; an
\* import has no child; a call was begun with room in the channel.
StackFits(t) ==
  /\ \A l \in 1..(level[t] - 1) : pc[t][l] = "fill"
  /\ ~compiled[t] /\ level[t] > 0 => level[t] = 1 /\ pc[t][1] \notin {"fill", "receive"}
  /\ level[t] > 0 /\ compiled[t] /\ Consumed(t) => rows[t] < ChannelCap

IndInv ==
  /\ TypeOK
  /\ \A t \in Threads : LockFits(t) /\ StackFits(t)

-----------------------------------------------------------------------------

\* The invariant of a thread survives a step in which it does nothing: the
\* lock is neither given to it nor taken from it, rows may be received.
LEMMA Bystander ==
  ASSUME TypeOK, TypeOK', NEW t \in Threads, LockFits(t), StackFits(t),
         counter'[t] = counter[t], level'[t] = level[t], pc'[t] = pc[t],
         gstate'[t] = gstate[t], compiled'[t] = compiled[t],
         rows'[t] <= rows[t], (gil' = t) <=> (gil = t)
  PROVE  LockFits(t)' /\ StackFits(t)'
<1>1. LockFits(t)'
  BY DEF LockFits, At
<1>2. StackFits(t)'
  <2>1. rows[t] \in Int /\ rows'[t] \in Int /\ ChannelCap \in Int
    BY ThreadsAssumption DEF TypeOK
  <2> QED BY <2>1 DEF StackFits, Consumed
<1> QED BY <1>1, <1>2

\* Initially no thread is inside a bracket.
LEMMA InitInv == Init => IndInv
<1> SUFFICES ASSUME Init PROVE IndInv
  OBVIOUS
<1>1. TypeOK
  <2>1. compiled \in [Threads -> BOOLEAN] /\ stopping \in BOOLEAN
    BY Zenon DEF Init
  <2> QED BY <2>1, ThreadsAssumption DEF Init, TypeOK, Levels, Lines, GStates
<1>2. ASSUME NEW t \in Threads PROVE LockFits(t) /\ StackFits(t)
  BY ThreadsAssumption DEF Init, LockFits, StackFits, At
<1> QED BY <1>1, <1>2 DEF IndInv

\* Start and stop of the interpreter disturb no thread.
LEMMA ServerInv == ASSUME IndInv, ServerStep PROVE IndInv'
<1>0. TypeOK /\ \A t \in Threads : LockFits(t) /\ StackFits(t)
  BY DEF IndInv
<1>1. TypeOK'
  BY <1>0, ThreadsAssumption DEF TypeOK, ServerStep, StartInterpreter, StopTenants,
     FinalizeInterpreter, bracket, statement
<1>2. ASSUME NEW t \in Threads PROVE LockFits(t)' /\ StackFits(t)'
  <2>1. /\ counter' = counter /\ level' = level /\ pc' = pc /\ gstate' = gstate
        /\ compiled' = compiled /\ rows' = rows
        /\ (gil' = t) <=> (gil = t)
    BY <1>0, ThreadsAssumption DEF ServerStep, StartInterpreter, StopTenants,
       FinalizeInterpreter, bracket, statement
  <2>2. rows'[t] <= rows[t]
    BY <2>1, <1>0 DEF TypeOK
  <2> QED BY <1>0, <1>1, <2>1, <2>2, Bystander
<1> QED BY <1>1, <1>2 DEF IndInv

\* A thread enters a bracket of its plan.
LEMMA EnterInv ==
  ASSUME IndInv, NEW t \in Threads, BeginImport(t) \/ BeginCall(t) \/ CallChild(t)
  PROVE  IndInv'
<1>0. TypeOK /\ \A u \in Threads : LockFits(u) /\ StackFits(u)
  BY DEF IndInv
<1> DEFINE l == level[t] + 1
<1>1. /\ gil' = gil /\ counter' = counter /\ compiled' = compiled /\ rows' = rows
      /\ failed' = failed /\ interp' = interp /\ stopping' = stopping
      /\ l \in Levels
      /\ level' = [level EXCEPT ![t] = l]
      /\ pc' = [pc EXCEPT ![t][l] = "check"]
      /\ gstate' = [gstate EXCEPT ![t][l] = "unset"]
      /\ level[t] = 0 \/ (At(t, "fill") /\ level[t] > 0)
      /\ calls' \in [Threads -> 0..MaxCalls]
  <2>1. CASE BeginImport(t)
    BY <2>1, <1>0, ThreadsAssumption DEF BeginImport, EnterBracket, Serving, TypeOK, Levels,
       server, statement
  <2>2. CASE BeginCall(t)
    BY <2>2, <1>0, ThreadsAssumption DEF BeginCall, EnterBracket, Serving, TypeOK, Levels,
       server
  <2>3. CASE CallChild(t)
    BY <2>3, <1>0, ThreadsAssumption DEF CallChild, EnterBracket, TypeOK, Levels, At,
       server, statement
  <2> QED BY <2>1, <2>2, <2>3
<1>2. compiled[t] /\ Consumed(t) => rows[t] < ChannelCap
  <2>1. CASE BeginImport(t)
    BY <2>1 DEF BeginImport
  <2>2. CASE BeginCall(t)
    BY <2>2 DEF BeginCall, Consumed
  <2>3. CASE CallChild(t)
    BY <2>3, <1>0 DEF CallChild, At, StackFits
  <2> QED BY <2>1, <2>2, <2>3
<1>3. ~compiled[t] => level[t] = 0
  <2>1. level[t] = 0 \/ (level[t] > 0 /\ pc[t][level[t]] = "fill")
    BY <1>1 DEF At
  <2>2. ~compiled[t] /\ level[t] > 0 => level[t] = 1 /\ pc[t][1] # "fill"
    BY <1>0 DEF StackFits
  <2> QED BY <2>1, <2>2
<1>4. level[t] \in Nat /\ l \in Nat
  BY <1>0, ThreadsAssumption DEF TypeOK
<1> HIDE DEF l
<1>5. TypeOK'
  <2>1. level' \in [Threads -> 0..MaxDepth]
    BY <1>0, <1>1, <1>4 DEF TypeOK, Levels
  <2>2. pc' \in [Threads -> [Levels -> Lines]]
    BY <1>0, <1>1 DEF TypeOK, Lines
  <2>3. gstate' \in [Threads -> [Levels -> GStates]]
    BY <1>0, <1>1 DEF TypeOK, GStates
  <2> QED BY <1>0, <1>1, <2>1, <2>2, <2>3 DEF TypeOK
<1>6. ASSUME NEW u \in Threads, u # t PROVE LockFits(u)' /\ StackFits(u)'
  <2>1. /\ counter'[u] = counter[u] /\ level'[u] = level[u] /\ pc'[u] = pc[u]
        /\ gstate'[u] = gstate[u] /\ compiled'[u] = compiled[u]
        /\ rows'[u] <= rows[u] /\ ((gil' = u) <=> (gil = u))
    BY <1>1, <1>0, <1>6 DEF TypeOK
  <2> QED BY <1>0, <1>5, <2>1, Bystander
<1>7. level'[t] = l /\ pc'[t][l] = "check"
      /\ \A k \in Levels \ {l} : pc'[t][k] = pc[t][k] /\ gstate'[t][k] = gstate[t][k]
  BY <1>1, <1>0 DEF TypeOK
<1>8. l = level[t] + 1 /\ level[t] \in Nat /\ l <= MaxDepth /\ MaxDepth \in Nat
  BY <1>1, <1>4, ThreadsAssumption DEF l, Levels
<1>9. LockFits(t)'
  <2>1. ~At(t, "retake")' /\ ~At(t, "ensure")'
    BY <1>7 DEF At
  <2>2. ~At(t, "retake")
    BY <1>1, <1>8 DEF At
  <2>3. ASSUME counter[t] = 1 PROVE \E k \in 1..l : gstate'[t][k] = "UNLOCKED"
    <3>1. PICK k \in 1..level[t] : gstate[t][k] = "UNLOCKED"
      BY <1>0, <2>3 DEF LockFits
    <3>2. k \in Levels \ {l} /\ k \in 1..l
      BY <1>8 DEF Levels
    <3> QED BY <3>1, <3>2, <1>7
  <2> QED BY <2>1, <2>2, <2>3, <1>0, <1>1, <1>7 DEF LockFits
<1>10. StackFits(t)'
  <2>1. ASSUME NEW k \in 1..(l - 1) PROVE pc'[t][k] = "fill"
    <3>1. k \in Levels \ {l} /\ k \in 1..level[t] /\ level[t] # 0
      BY <1>8 DEF Levels
    <3>2. pc[t][k] = "fill"
      <4>1. CASE k = level[t]
        BY <4>1, <3>1, <1>1 DEF At
      <4>2. CASE k # level[t]
        <5>1. k \in 1..(level[t] - 1)
          BY <4>2, <3>1, <1>8
        <5> QED BY <5>1, <1>0 DEF StackFits
      <4> QED BY <4>1, <4>2
    <3> QED BY <3>1, <3>2, <1>7
  <2>2. ~compiled'[t] /\ level'[t] > 0 => level'[t] = 1 /\ pc'[t][1] \notin {"fill", "receive"}
    BY <1>1, <1>3, <1>7, <1>8
  <2>3. compiled'[t] /\ Consumed(t)' => rows'[t] < ChannelCap
    BY <1>1, <1>2 DEF Consumed
  <2> QED BY <2>1, <2>2, <2>3, <1>7 DEF StackFits
<1> QED BY <1>5, <1>6, <1>9, <1>10 DEF IndInv

\* A thread goes from a line of its innermost bracket to another one, without
\* touching its thread state or the lock.
LEMMA LineInv ==
  ASSUME IndInv, NEW t \in Threads,
         CheckLock(t) \/ CallReceive(t) \/ EndFill(t) \/ ReceiveRows(t)
           \/ ReceiveTimesOut(t) \/ PythonReturns(t)
  PROVE  IndInv'
<1>0. TypeOK /\ \A u \in Threads : LockFits(u) /\ StackFits(u)
  BY DEF IndInv
<1>1. /\ gil' = gil /\ counter' = counter /\ compiled' = compiled /\ calls' = calls
      /\ level' = level /\ gstate' = gstate
      /\ interp' = interp /\ stopping' = stopping
      /\ level[t] > 0
  BY DEF CheckLock, CallReceive, EndFill, ReceiveRows, ReceiveTimesOut, PythonReturns,
     At, server, statement
<1>2. /\ failed' \in [Threads -> BOOLEAN]
      /\ rows' \in [Threads -> 0..ChannelCap]
      /\ \A u \in Threads : rows'[u] <= rows[u]
  <2>1. CASE ReceiveRows(t)
    <3>1. failed' = failed /\ rows \in [Threads -> 0..ChannelCap] /\ ChannelCap \in Nat
      BY <2>1, <1>0, ThreadsAssumption DEF ReceiveRows, TypeOK
    <3>2. rows' = rows \/ (rows[Feeder[t]] > 0 /\ rows' = [rows EXCEPT ![Feeder[t]] = @ - 1])
      BY <2>1 DEF ReceiveRows
    <3>3. Feeder[t] \in Threads \/ (Feeder[t] \notin Threads /\ rows' = rows)
      BY <3>1, <3>2
    <3>4. CASE rows' = rows
      BY <3>1, <3>4, <1>0 DEF TypeOK
    <3>5. CASE Feeder[t] \in Threads /\ rows' # rows
      <4> DEFINE f == Feeder[t]
      <4>1. rows' = [rows EXCEPT ![f] = rows[f] - 1] /\ rows[f] > 0 /\ f \in Threads
        BY <3>2, <3>5
      <4> HIDE DEF f
      <4>2. rows' \in [Threads -> 0..ChannelCap] /\ \A u \in Threads : rows'[u] <= rows[u]
        BY <4>1, <3>1
      <4> QED BY <4>2, <3>1, <1>0 DEF TypeOK
    <3> QED BY <3>3, <3>4, <3>5
  <2>2. CASE ReceiveTimesOut(t)
    BY <2>2, <1>0, ThreadsAssumption DEF ReceiveTimesOut, TypeOK
  <2>3. CASE PythonReturns(t)
    BY <2>3, <1>0, ThreadsAssumption DEF PythonReturns, TypeOK
  <2>4. CASE CheckLock(t) \/ CallReceive(t) \/ EndFill(t)
    BY <2>4, <1>0, ThreadsAssumption DEF CheckLock, CallReceive, EndFill, TypeOK, statement
  <2> QED BY <2>1, <2>2, <2>3, <2>4
<1>3. PICK line \in {"ensure", "fill", "receive", "python", "release"} :
        /\ pc' = [pc EXCEPT ![t][level[t]] = line]
        /\ line = "ensure" => ~PyGILStateCheck(t)
        /\ line \in {"fill", "receive"} => compiled[t] \/ At(t, "fill") \/ At(t, "receive")
  <2>1. CASE CheckLock(t)
    BY <2>1 DEF CheckLock, Goto
  <2>2. CASE CallReceive(t) \/ EndFill(t)
    BY <2>2 DEF CallReceive, EndFill, Goto
  <2>3. CASE ReceiveRows(t)
    BY <2>3 DEF ReceiveRows, Goto
  <2>4. CASE ReceiveTimesOut(t) \/ PythonReturns(t)
    BY <2>4 DEF ReceiveTimesOut, PythonReturns, Goto
  <2> QED BY <2>1, <2>2, <2>3, <2>4
<1>4. \E from \in {"check", "fill", "receive", "python"} : At(t, from)
  BY DEF CheckLock, CallReceive, EndFill, ReceiveRows, ReceiveTimesOut, PythonReturns
<1>5. TypeOK'
  BY <1>0, <1>1, <1>2, <1>3, ThreadsAssumption DEF TypeOK, Levels, Lines
<1>6. ASSUME NEW u \in Threads, u # t PROVE LockFits(u)' /\ StackFits(u)'
  <2>1. pc'[u] = pc[u]
    BY <1>3, <1>0, <1>6 DEF TypeOK
  <2> QED BY <1>0, <1>1, <1>2, <1>5, <2>1, Bystander
<1>7. level[t] \in Levels
  BY <1>0, <1>1, ThreadsAssumption DEF TypeOK, Levels
<1>8. pc'[t][level[t]] = line
      /\ \A k \in Levels \ {level[t]} : pc'[t][k] = pc[t][k]
  BY <1>0, <1>3, <1>7 DEF TypeOK
<1>9. LockFits(t)'
  <2>1. ~At(t, "retake") /\ ~At(t, "ensure")
    BY <1>4 DEF At
  <2>2. ~At(t, "retake")'
    BY <1>1, <1>8 DEF At
  <2>3. At(t, "ensure")' => counter'[t] = 0
    <3>1. At(t, "ensure")' => line = "ensure"
      BY <1>1, <1>8 DEF At
    <3>2. counter[t] = 0 \/ gil = t
      BY <1>0, <2>1 DEF LockFits
    <3>3. counter[t] \in {0, 1}
      BY <1>0 DEF LockFits
    <3> QED BY <3>1, <3>2, <3>3, <1>1, <1>3 DEF PyGILStateCheck
  <2> QED BY <1>0, <1>1, <2>1, <2>2, <2>3 DEF LockFits
<1>10. StackFits(t)'
  <2>1. ASSUME NEW k \in 1..(level[t] - 1) PROVE pc'[t][k] = "fill"
    <3>1. k \in Levels \ {level[t]}
      BY <1>7, ThreadsAssumption DEF Levels
    <3> QED BY <3>1, <1>8, <1>0 DEF StackFits
  <2>2. ASSUME ~compiled[t] PROVE level[t] = 1 /\ pc'[t][1] \notin {"fill", "receive"}
    <3>1. level[t] = 1 /\ pc[t][1] \notin {"fill", "receive"}
      BY <2>2, <1>1, <1>0 DEF StackFits
    <3> QED BY <3>1, <2>2, <1>3, <1>8 DEF At
  <2>3. level[t] > 0 /\ compiled[t] /\ Consumed(t) => rows'[t] < ChannelCap
    <3>1. rows[t] \in Int /\ rows'[t] \in Int /\ rows'[t] <= rows[t] /\ ChannelCap \in Int
      BY <1>0, <1>2, ThreadsAssumption DEF TypeOK
    <3> QED BY <3>1, <1>0 DEF StackFits
  <2> QED BY <2>1, <2>2, <2>3, <1>1 DEF StackFits, Consumed
<1> QED BY <1>5, <1>6, <1>9, <1>10 DEF IndInv

\* A thread takes the lock: for the first time, or again inside Python.
LEMMA AcquireInv == ASSUME IndInv, NEW t \in Threads, Acquire(t) PROVE IndInv'
<1>0. TypeOK /\ \A u \in Threads : LockFits(u) /\ StackFits(u)
  BY DEF IndInv
<1>1. /\ gil = NoThread /\ gil' = t /\ level' = level
      /\ compiled' = compiled /\ calls' = calls /\ rows' = rows /\ failed' = failed
      /\ interp' = interp /\ stopping' = stopping
      /\ level[t] > 0
  BY DEF Acquire, EnsureLock, RetakeLock, At, server, statement
<1>2. level[t] \in Levels
  BY <1>0, <1>1, ThreadsAssumption DEF TypeOK, Levels
<1>3. /\ \/ /\ At(t, "ensure")
            /\ counter' = [counter EXCEPT ![t] = counter[t] + 1]
            /\ gstate' = [gstate EXCEPT ![t][level[t]] = "UNLOCKED"]
         \/ /\ At(t, "retake")
            /\ counter' = counter
            /\ gstate' = gstate
      /\ \/ /\ compiled[t]
            /\ pc' = [pc EXCEPT ![t][level[t]] = "fill"]
         \/ pc' = [pc EXCEPT ![t][level[t]] = "python"]
  <2>1. CASE EnsureLock(t)
    BY <2>1 DEF EnsureLock, Goto
  <2>2. CASE RetakeLock(t)
    BY <2>2 DEF RetakeLock, Goto
  <2> QED BY <2>1, <2>2 DEF Acquire
<1>4. TypeOK'
  <2>0. /\ counter' = counter \/ counter' = [counter EXCEPT ![t] = counter[t] + 1]
        /\ gstate' = gstate \/ gstate' = [gstate EXCEPT ![t][level[t]] = "UNLOCKED"]
        /\ \E line \in {"fill", "python"} : pc' = [pc EXCEPT ![t][level[t]] = line]
    BY <1>3
  <2>1. counter' \in [Threads -> Nat]
    <3>1. counter \in [Threads -> Nat]
      BY <1>0 DEF TypeOK
    <3> QED BY <3>1, <2>0
  <2>2. pc' \in [Threads -> [Levels -> Lines]]
    <3>1. pc \in [Threads -> [Levels -> Lines]]
      BY <1>0 DEF TypeOK
    <3> QED BY <3>1, <1>2, <2>0 DEF Lines
  <2>3. gstate' \in [Threads -> [Levels -> GStates]]
    <3>1. gstate \in [Threads -> [Levels -> GStates]]
      BY <1>0 DEF TypeOK
    <3> QED BY <3>1, <1>2, <2>0 DEF GStates
  <2> QED BY <1>0, <1>1, <2>1, <2>2, <2>3 DEF TypeOK
<1>5. ASSUME NEW u \in Threads, u # t PROVE LockFits(u)' /\ StackFits(u)'
  <2>1. /\ counter'[u] = counter[u] /\ level'[u] = level[u] /\ pc'[u] = pc[u]
        /\ gstate'[u] = gstate[u] /\ compiled'[u] = compiled[u]
    BY <1>0, <1>1, <1>3, <1>5 DEF TypeOK
  <2>2. rows'[u] <= rows[u]
    BY <1>0, <1>1 DEF TypeOK
  <2>3. (gil' = u) <=> (gil = u)
    BY <1>1, <1>5, ThreadsAssumption
  <2> QED BY <1>0, <1>4, <2>1, <2>2, <2>3, Bystander
<1>6. counter'[t] = 1
  BY <1>0, <1>3 DEF LockFits, TypeOK
<1>7. /\ \A k \in Levels \ {level[t]} : pc'[t][k] = pc[t][k]
      /\ \/ pc'[t][level[t]] = "fill" /\ compiled[t]
         \/ pc'[t][level[t]] = "python"
  BY <1>0, <1>2, <1>3 DEF TypeOK
<1>8. LockFits(t)'
  <2>1. ~At(t, "retake")' /\ ~At(t, "ensure")'
    BY <1>1, <1>7 DEF At
  <2>2. \E k \in 1..level[t] : gstate'[t][k] = "UNLOCKED"
    <3>1. CASE At(t, "ensure") /\ gstate' = [gstate EXCEPT ![t][level[t]] = "UNLOCKED"]
      <4>1. gstate'[t][level[t]] = "UNLOCKED"
        BY <3>1, <1>0, <1>2 DEF TypeOK
      <4>2. level[t] \in 1..level[t]
        BY <1>2, ThreadsAssumption DEF Levels
      <4> QED BY <4>1, <4>2
    <3>2. CASE At(t, "retake") /\ gstate' = gstate
      BY <3>2, <1>0 DEF LockFits
    <3> QED BY <3>1, <3>2, <1>3
  <2> QED BY <1>1, <1>6, <2>1, <2>2 DEF LockFits
<1>9. StackFits(t)'
  <2>1. ASSUME NEW k \in 1..(level[t] - 1) PROVE pc'[t][k] = "fill"
    <3>1. k \in Levels \ {level[t]}
      BY <1>2, ThreadsAssumption DEF Levels
    <3> QED BY <3>1, <1>7, <1>0 DEF StackFits
  <2>2. ASSUME ~compiled[t] PROVE level[t] = 1 /\ pc'[t][1] \notin {"fill", "receive"}
    <3>1. level[t] = 1
      BY <2>2, <1>1, <1>0 DEF StackFits
    <3> QED BY <3>1, <2>2, <1>7
  <2> QED BY <2>1, <2>2, <1>0, <1>1 DEF StackFits, Consumed
<1> QED BY <1>4, <1>5, <1>8, <1>9 DEF IndInv

\* Inside Python the thread gives up the lock and keeps its state.
LEMMA DropInv == ASSUME IndInv, NEW t \in Threads, DropLock(t) PROVE IndInv'
<1>0. TypeOK /\ \A u \in Threads : LockFits(u) /\ StackFits(u)
  BY DEF IndInv
<1>1. /\ gil = t /\ gil' = NoThread /\ level' = level /\ counter' = counter /\ gstate' = gstate
      /\ compiled' = compiled /\ calls' = calls /\ rows' = rows /\ failed' = failed
      /\ interp' = interp /\ stopping' = stopping
      /\ level[t] > 0 /\ pc[t][level[t]] = "python"
      /\ pc' = [pc EXCEPT ![t][level[t]] = "retake"]
  BY DEF DropLock, Goto, At, server, statement
<1>2. level[t] \in Levels
  BY <1>0, <1>1, ThreadsAssumption DEF TypeOK, Levels
<1>3. TypeOK'
  <2>1. pc' \in [Threads -> [Levels -> Lines]]
    BY <1>0, <1>1, <1>2 DEF TypeOK, Lines
  <2> QED BY <1>0, <1>1, <2>1 DEF TypeOK
<1>4. ASSUME NEW u \in Threads, u # t PROVE LockFits(u)' /\ StackFits(u)'
  <2>1. pc'[u] = pc[u]
    BY <1>0, <1>1, <1>4 DEF TypeOK
  <2>2. rows'[u] <= rows[u]
    BY <1>0, <1>1 DEF TypeOK
  <2>3. (gil' = u) <=> (gil = u)
    BY <1>1, <1>4, ThreadsAssumption
  <2> QED BY <1>0, <1>1, <1>3, <2>1, <2>2, <2>3, Bystander
<1>5. /\ \A k \in Levels \ {level[t]} : pc'[t][k] = pc[t][k]
      /\ pc'[t][level[t]] = "retake"
  BY <1>0, <1>1, <1>2 DEF TypeOK
<1>6. LockFits(t)'
  <2>1. At(t, "retake")' /\ ~At(t, "ensure")'
    BY <1>1, <1>5 DEF At
  <2>2. counter[t] = 1 /\ t # NoThread
    BY <1>0, <1>1, ThreadsAssumption DEF LockFits
  <2> QED BY <1>0, <1>1, <2>1, <2>2 DEF LockFits
<1>7. StackFits(t)'
  <2>1. ASSUME NEW k \in 1..(level[t] - 1) PROVE pc'[t][k] = "fill"
    <3>1. k \in Levels \ {level[t]}
      BY <1>2, ThreadsAssumption DEF Levels
    <3> QED BY <3>1, <1>5, <1>0 DEF StackFits
  <2>2. ASSUME ~compiled[t] PROVE level[t] = 1 /\ pc'[t][1] \notin {"fill", "receive"}
    <3>1. level[t] = 1
      BY <2>2, <1>1, <1>0 DEF StackFits
    <3> QED BY <3>1, <1>5
  <2> QED BY <2>1, <2>2, <1>0, <1>1 DEF StackFits, Consumed
<1> QED BY <1>3, <1>4, <1>6, <1>7 DEF IndInv

\* The release of the thread's only Ensure deletes its state and frees the
\* lock; the thread is back in the bracket below, or outside.
LEMMA ReleaseInv == ASSUME IndInv, NEW t \in Threads, ReleaseLock(t) PROVE IndInv'
<1>0. TypeOK /\ \A u \in Threads : LockFits(u) /\ StackFits(u)
  BY DEF IndInv
<1>1. /\ gil = t /\ counter[t] = 1 /\ level[t] > 0 /\ pc[t][level[t]] = "release"
      /\ level' = [level EXCEPT ![t] = level[t] - 1]
      /\ gstate' = gstate /\ calls' = calls /\ failed' = failed
      /\ interp' = interp /\ stopping' = stopping
  BY <1>0 DEF ReleaseLock, ReleaseIsFatal, At, server, LockFits
<1>2. counter' = [counter EXCEPT ![t] = 0] /\ gil' = NoThread
  BY <1>1 DEF ReleaseLock, PyGILStateRelease
<1>3. level[t] \in Levels /\ level[t] \in Nat
  BY <1>0, <1>1, ThreadsAssumption DEF TypeOK, Levels
<1>4. \/ pc' = pc
      \/ /\ level[t] > 1
         /\ pc' = [pc EXCEPT ![t][level[t] - 1] = "release"]
  BY DEF ReleaseLock
<1>5. compiled' = [compiled EXCEPT ![t] = compiled[t] \/ ~failed[t]]
  BY DEF ReleaseLock
<1>6. \/ rows' = rows
      \/ /\ level[t] = 1 /\ compiled[t] /\ Consumed(t)
         /\ rows' = [rows EXCEPT ![t] = rows[t] + 1]
  BY DEF ReleaseLock, Consumed
<1>7. TypeOK'
  <2>1. counter' \in [Threads -> Nat] /\ level' \in [Threads -> 0..MaxDepth]
    BY <1>0, <1>1, <1>2, <1>3, ThreadsAssumption DEF TypeOK, Levels
  <2>2. pc' \in [Threads -> [Levels -> Lines]]
    <3>1. CASE pc' = pc
      BY <3>1, <1>0 DEF TypeOK
    <3>2. CASE level[t] > 1 /\ pc' = [pc EXCEPT ![t][level[t] - 1] = "release"]
      <4>1. level[t] - 1 \in Levels
        BY <3>2, <1>3, ThreadsAssumption DEF Levels
      <4> QED BY <4>1, <3>2, <1>0 DEF TypeOK, Lines
    <3> QED BY <3>1, <3>2, <1>4
  <2>3. rows' \in [Threads -> 0..ChannelCap]
    <3>1. CASE rows' = rows
      BY <3>1, <1>0 DEF TypeOK
    <3>2. CASE rows' # rows
      <4>1. rows[t] < ChannelCap /\ rows' = [rows EXCEPT ![t] = rows[t] + 1]
        BY <3>2, <1>6, <1>1, <1>0 DEF StackFits
      <4> QED BY <4>1, <1>0, ThreadsAssumption DEF TypeOK
    <3> QED BY <3>1, <3>2
  <2>4. compiled' \in [Threads -> BOOLEAN]
    BY <1>0, <1>5, Zenon DEF TypeOK
  <2>5. gil' \in Threads \cup {NoThread, Main}
    BY <1>2
  <2> QED BY <1>0, <1>1, <2>1, <2>2, <2>3, <2>4, <2>5 DEF TypeOK
<1>8. ASSUME NEW u \in Threads, u # t PROVE LockFits(u)' /\ StackFits(u)'
  <2>1. counter'[u] = counter[u] /\ level'[u] = level[u] /\ gstate'[u] = gstate[u]
    BY <1>0, <1>1, <1>2, <1>8 DEF TypeOK
  <2>2. pc'[u] = pc[u]
    BY <1>0, <1>4, <1>8 DEF TypeOK
  <2>3. compiled'[u] = compiled[u]
    BY <1>0, <1>5, <1>8 DEF TypeOK
  <2>4. rows'[u] <= rows[u]
    BY <1>0, <1>6, <1>8 DEF TypeOK
  <2>5. (gil' = u) <=> (gil = u)
    BY <1>1, <1>2, <1>8, ThreadsAssumption
  <2> QED BY <1>0, <1>7, <2>1, <2>2, <2>3, <2>4, <2>5, Bystander
<1>9. counter'[t] = 0 /\ level'[t] = level[t] - 1
  BY <1>0, <1>1, <1>2 DEF TypeOK
<1>10. ASSUME level'[t] > 0
       PROVE  /\ pc'[t][level'[t]] \in {"fill", "release"}
              /\ \A k \in 1..(level'[t] - 1) : pc'[t][k] = "fill"
  <2>1. level[t] - 1 \in 1..(level[t] - 1) /\ level[t] - 1 \in Levels
    BY <1>3, <1>9, <1>10, ThreadsAssumption DEF Levels
  <2>2. \A k \in 1..(level[t] - 1) : pc[t][k] = "fill"
    BY <1>0 DEF StackFits
  <2>3. CASE pc' = pc
    <3>1. \A k \in 1..(level'[t] - 1) : k \in 1..(level[t] - 1)
      BY <1>3, <1>9
    <3> QED BY <2>1, <2>2, <2>3, <3>1, <1>9
  <2>4. CASE pc' = [pc EXCEPT ![t][level[t] - 1] = "release"]
    <3>1. pc'[t][level[t] - 1] = "release"
      BY <2>1, <2>4, <1>0 DEF TypeOK
    <3>2. ASSUME NEW k \in 1..(level'[t] - 1) PROVE pc'[t][k] = "fill"
      <4>1. k \in 1..(level[t] - 1) /\ k # level[t] - 1 /\ k \in Levels
        BY <1>3, <1>9, ThreadsAssumption DEF Levels
      <4>2. pc'[t][k] = pc[t][k]
        BY <4>1, <2>1, <2>4, <1>0 DEF TypeOK
      <4> QED BY <4>1, <4>2, <2>2
    <3> QED BY <3>1, <3>2, <1>9
  <2> QED BY <2>3, <2>4, <1>4
<1>11. LockFits(t)'
  <2>1. ~At(t, "retake")'
    BY <1>10 DEF At
  <2>2. gil' # t
    BY <1>2, ThreadsAssumption
  <2> QED BY <1>9, <2>1, <2>2 DEF LockFits
<1>12. StackFits(t)'
  <2>1. \A k \in 1..(level'[t] - 1) : pc'[t][k] = "fill"
    <3>1. CASE level'[t] > 0
      BY <3>1, <1>10
    <3>2. CASE ~(level'[t] > 0)
      BY <3>2, <1>3, <1>9
    <3> QED BY <3>1, <3>2
  <2>2. level'[t] > 0 => compiled[t] /\ compiled'[t]
    <3>1. level'[t] > 0 => level[t] # 1
      BY <1>3, <1>9
    <3>2. level'[t] > 0 => compiled[t]
      BY <3>1, <1>0, <1>1 DEF StackFits
    <3>3. compiled[t] => compiled'[t]
      BY <1>0, <1>5, Zenon DEF TypeOK
    <3> QED BY <3>2, <3>3
  <2>3. level'[t] > 0 => rows' = rows
    BY <1>3, <1>6, <1>9
  <2> QED BY <2>1, <2>2, <2>3, <1>0, <1>1, <1>3, <1>9 DEF StackFits, Consumed
<1> QED BY <1>7, <1>8, <1>11, <1>12 DEF IndInv

\* Every step preserves the invariant; the end of the process keeps it too.
LEMMA NextInv == IndInv /\ [Next]_vars => IndInv'
<1> SUFFICES ASSUME IndInv, [Next]_vars PROVE IndInv'
  OBVIOUS
<1>1. CASE UNCHANGED vars
  BY <1>1 DEF IndInv, TypeOK, LockFits, StackFits, Consumed, At, vars
<1>2. CASE ServerStep
  BY <1>2, ServerInv
<1>3. ASSUME NEW t \in Threads, PythonCrashes(t) \/ ReleaseAborts(t) PROVE IndInv'
  BY <1>3 DEF PythonCrashes, ReleaseAborts, bracket, statement, IndInv, TypeOK,
     LockFits, StackFits, Consumed, At
<1>4. ASSUME NEW t \in Threads, ThreadStep(t) PROVE IndInv'
  <2>1. CASE BeginImport(t) \/ BeginCall(t) \/ CallChild(t)
    BY <2>1, EnterInv
  <2>2. CASE Acquire(t)
    BY <2>2, AcquireInv
  <2>3. CASE DropLock(t)
    BY <2>3, DropInv
  <2>4. CASE CheckLock(t) \/ CallReceive(t) \/ EndFill(t) \/ ReceiveRows(t)
               \/ ReceiveTimesOut(t) \/ PythonReturns(t)
    BY <2>4, LineInv
  <2>5. CASE ReleaseLock(t)
    BY <2>5, ReleaseInv
  <2>6. CASE PythonCrashes(t) \/ ReleaseAborts(t)
    BY <2>6, <1>3
  <2> QED BY <1>4, <2>1, <2>2, <2>3, <2>4, <2>5, <2>6 DEF ThreadStep, Proceed
<1> QED BY <1>1, <1>2, <1>4 DEF Next, Ended

\* Type correctness of the interpreter and its threads.
THEOREM InterpreterTypes == Spec => []TypeOK
<1>1. IndInv => TypeOK
  BY DEF IndInv
<1> QED BY InitInv, NextInv, <1>1, PTL DEF Spec

\* For every nesting of prediction operators, every exchange and every
\* interleaving, no return of inner_get_next_batch or import_udf leaves a
\* thread with the lock or a thread state outside the bracket that took it.
THEOREM NoLeak == Spec => []LockNotLeaked
<1>1. IndInv => LockNotLeaked
  <2> SUFFICES ASSUME IndInv, NEW t \in Threads
               PROVE  /\ gil = t => counter[t] > 0
                      /\ counter[t] > 0 => \E l \in 1..level[t] : gstate[t][l] = "UNLOCKED"
    BY DEF LockNotLeaked
  <2>1. LockFits(t)
    BY DEF IndInv
  <2>2. counter[t] > 0 <=> counter[t] = 1
    BY <2>1 DEF LockFits
  <2> QED BY <2>1, <2>2 DEF LockFits
<1> QED BY InitInv, NextInv, <1>1, PTL DEF Spec

-----------------------------------------------------------------------------
(* Threads in whose plan no prediction operator stands on another one. *)

\* What nesting breaks: past the check, the thread has its state; in front of
\* it, it has none; and the interpreter is not finalised under a bracket.
FlatFits(t) ==
  /\ level[t] \in {0, 1}
  /\ level[t] = 0 => counter[t] = 0
  /\ level[t] = 1 => interp \in {"up", "aborted"}
  /\ At(t, "check") => counter[t] = 0
  /\ InBracket(t) => counter[t] = 1

FlatInv == IndInv /\ \A t \in Threads : Depth[t] = 1 => FlatFits(t)

\* A bystander's part of the invariant, also when another thread aborts.
LEMMA FlatBystander ==
  ASSUME NEW u \in Threads, FlatFits(u), counter'[u] = counter[u], level'[u] = level[u],
         pc'[u] = pc[u], interp' = interp \/ interp' = "aborted"
  PROVE  FlatFits(u)'
BY DEF FlatFits, InBracket, At

\* What a step of one thread, nested or not, does to the others.
LEMMA OtherThreads ==
  ASSUME TypeOK, NEW t \in Threads, ThreadStep(t), NEW u \in Threads, u # t
  PROVE  /\ counter'[u] = counter[u] /\ level'[u] = level[u] /\ pc'[u] = pc[u]
         /\ interp' = interp \/ interp' = "aborted"
<1>1. CASE BeginImport(t) \/ BeginCall(t) \/ CallChild(t)
  BY <1>1 DEF BeginImport, BeginCall, CallChild, EnterBracket, server, TypeOK
<1>2. CASE EnsureLock(t)
  BY <1>2 DEF EnsureLock, Goto, server, TypeOK
<1>3. CASE RetakeLock(t) \/ DropLock(t)
  BY <1>3 DEF RetakeLock, DropLock, Goto, server, TypeOK
<1>4. CASE PythonReturns(t) \/ CheckLock(t) \/ CallReceive(t) \/ EndFill(t)
  BY <1>4 DEF PythonReturns, CheckLock, CallReceive, EndFill, Goto, server, TypeOK
<1>5. CASE ReceiveRows(t) \/ ReceiveTimesOut(t)
  BY <1>5 DEF ReceiveRows, ReceiveTimesOut, Goto, server, TypeOK
<1>6. CASE ReleaseLock(t)
  BY <1>6 DEF ReleaseLock, PyGILStateRelease, server, TypeOK
<1>7. CASE PythonCrashes(t) \/ ReleaseAborts(t)
  BY <1>7 DEF PythonCrashes, ReleaseAborts, bracket
<1> QED BY <1>1, <1>2, <1>3, <1>4, <1>5, <1>6, <1>7 DEF ThreadStep, Acquire, Proceed

\* What a step of a thread with one operator does to its own part.
LEMMA FlatThreadStep ==
  ASSUME TypeOK, TypeOK', NEW t \in Threads, Depth[t] = 1, FlatFits(t), LockFits(t),
         LockFits(t)', ThreadStep(t)
  PROVE  FlatFits(t)'
<1>0. interp = "up" /\ 1 \in Levels
  BY ThreadsAssumption DEF ThreadStep, Levels
<1>1. ~CallChild(t) /\ ~PythonCrashes(t) /\ ~ReleaseAborts(t)
  <2>1. ~CallChild(t)
    BY DEF CallChild, FlatFits, At
  <2>2. ASSUME At(t, "python") \/ At(t, "release") PROVE gil = t /\ counter[t] = 1
    BY <2>2 DEF FlatFits, LockFits, InBracket, At
  <2> QED BY <2>1, <2>2 DEF PythonCrashes, ReleaseAborts, PyGILStateCheck, ReleaseIsFatal
<1>2. interp' = interp
  BY <1>1 DEF ThreadStep, BeginImport, BeginCall, Acquire, EnsureLock, RetakeLock,
     DropLock, PythonReturns, Proceed, CheckLock, CallReceive, EndFill, ReceiveRows,
     ReceiveTimesOut, ReleaseLock, server
<1>3. CASE BeginImport(t) \/ BeginCall(t)
  <2>1. level[t] = 0 /\ level'[t] = 1 /\ pc'[t][1] = "check" /\ counter' = counter
    BY <1>0, <1>3 DEF BeginImport, BeginCall, EnterBracket, Serving, TypeOK
  <2> QED BY <2>1, <1>0, <1>2 DEF FlatFits, InBracket, At
<1>4. CASE Acquire(t)
  <2>1. level[t] > 0 /\ level'[t] = level[t] /\ gil' = t
    BY <1>4 DEF Acquire, EnsureLock, RetakeLock, At
  <2>2. level[t] = 1
    BY <2>1 DEF FlatFits
  <2>3. counter'[t] = 1
    BY <2>1 DEF LockFits
  <2>4. pc'[t][1] \in {"fill", "python"}
    <3>1. CASE EnsureLock(t)
      BY <3>1, <2>2, <1>0 DEF EnsureLock, Goto, TypeOK
    <3>2. CASE RetakeLock(t)
      BY <3>2, <2>2, <1>0 DEF RetakeLock, Goto, TypeOK
    <3> QED BY <3>1, <3>2, <1>4 DEF Acquire
  <2> QED BY <2>1, <2>2, <2>3, <2>4, <1>0, <1>2 DEF FlatFits, InBracket, At
<1>5. CASE DropLock(t)
  <2>1. level[t] > 0 /\ level'[t] = level[t]
    BY <1>5 DEF DropLock, At
  <2>2. level[t] = 1
    BY <2>1 DEF FlatFits
  <2>3. pc'[t][1] = "retake"
    BY <1>5, <2>2, <1>0 DEF DropLock, Goto, TypeOK
  <2> QED BY <2>1, <2>2, <2>3, <1>0, <1>2 DEF FlatFits, InBracket, At
<1>6. CASE CheckLock(t)
  <2>1. level[t] > 0 /\ level'[t] = level[t] /\ counter' = counter /\ At(t, "check")
    BY <1>6 DEF CheckLock, At
  <2>2. level[t] = 1 /\ counter[t] = 0
    BY <2>1 DEF FlatFits
  <2>3. ~PyGILStateCheck(t)
    BY <2>2 DEF PyGILStateCheck
  <2>4. pc'[t][1] = "ensure"
    BY <1>6, <2>2, <2>3, <1>0 DEF CheckLock, Goto, TypeOK
  <2> QED BY <2>1, <2>2, <2>4, <1>0, <1>2 DEF FlatFits, InBracket, At
<1>7. CASE PythonReturns(t) \/ CallReceive(t) \/ EndFill(t) \/ ReceiveRows(t)
             \/ ReceiveTimesOut(t)
  <2>1. level[t] > 0 /\ level'[t] = level[t] /\ counter' = counter
        /\ (At(t, "fill") \/ At(t, "receive") \/ At(t, "python"))
    BY <1>7 DEF PythonReturns, CallReceive, EndFill, ReceiveRows, ReceiveTimesOut, At
  <2>2. level[t] = 1 /\ counter[t] = 1
    BY <2>1 DEF FlatFits, InBracket
  <2>3. \E line \in {"fill", "receive", "python", "release"} :
          pc' = [pc EXCEPT ![t][level[t]] = line]
    BY <1>7 DEF PythonReturns, CallReceive, EndFill, ReceiveRows, ReceiveTimesOut, Goto
  <2>4. pc'[t][1] \in {"fill", "receive", "python", "release"}
    BY <2>2, <2>3, <1>0 DEF TypeOK
  <2> QED BY <2>1, <2>2, <2>4, <1>0, <1>2 DEF FlatFits, InBracket, At
<1>8. CASE ReleaseLock(t)
  <2>1. level[t] > 0 /\ At(t, "release") /\ level' = [level EXCEPT ![t] = level[t] - 1]
        /\ \E old \in {"LOCKED", "UNLOCKED"} : PyGILStateRelease(t, old)
    BY <1>8 DEF ReleaseLock, At
  <2>2. level[t] = 1 /\ counter[t] = 1
    BY <2>1 DEF FlatFits, InBracket
  <2>3. level'[t] = 0 /\ counter'[t] = 0
    BY <2>1, <2>2 DEF PyGILStateRelease, TypeOK
  <2> QED BY <2>3, <1>2 DEF FlatFits, InBracket, At
<1> QED BY <1>1, <1>3, <1>4, <1>5, <1>6, <1>7, <1>8 DEF ThreadStep, Proceed

\* A step preserves the invariant: a thread with one operator neither calls a
\* child operator nor makes a fatal release, and the others do not reach it.
LEMMA FlatNext == ASSUME FlatInv, [Next]_vars PROVE FlatInv'
<1>0. IndInv /\ IndInv' /\ TypeOK /\ TypeOK'
      /\ \A t \in Threads : /\ Depth[t] = 1 => FlatFits(t)
                            /\ LockFits(t) /\ StackFits(t) /\ LockFits(t)'
  BY NextInv DEF FlatInv, IndInv
<1>1. CASE UNCHANGED vars
  <2>1. \A u \in Threads : Depth[u] = 1 => FlatFits(u)'
    BY <1>0, <1>1, FlatBystander DEF vars
  <2> QED BY <1>0, <2>1 DEF FlatInv
<1>2. CASE ServerStep
  <2>1. level' = level /\ counter' = counter /\ pc' = pc
        /\ (interp' = interp \/ interp' = "up" \/ \A u \in Threads : level[u] = 0)
    <3>1. CASE StartInterpreter
      BY <3>1 DEF StartInterpreter, bracket
    <3>2. CASE StopTenants \/ FinalizeInterpreter
      BY <3>2 DEF StopTenants, FinalizeInterpreter, bracket
    <3> QED BY <1>2, <3>1, <3>2 DEF ServerStep
  <2>2. \A u \in Threads : Depth[u] = 1 => FlatFits(u)'
    BY <1>0, <2>1 DEF FlatFits, InBracket, At
  <2> QED BY <1>0, <2>2 DEF FlatInv
<1>3. ASSUME NEW t \in Threads, ThreadStep(t), ~UNCHANGED vars
      PROVE  FlatInv'
  <2>1. ASSUME NEW u \in Threads, u # t, Depth[u] = 1 PROVE FlatFits(u)'
    <3>1. /\ counter'[u] = counter[u] /\ level'[u] = level[u] /\ pc'[u] = pc[u]
          /\ interp' = interp \/ interp' = "aborted"
      BY <1>0, <1>3, <2>1, OtherThreads
    <3> QED BY <3>1, <2>1, <1>0, FlatBystander
  <2>2. ASSUME Depth[t] = 1 PROVE FlatFits(t)'
    BY <1>0, <1>3, <2>2, FlatThreadStep
  <2> QED BY <1>0, <2>1, <2>2 DEF FlatInv
<1> QED BY <1>1, <1>2, <1>3 DEF Next, Ended

\* A thread with one operator, or one that imports a function, owns the lock
\* and its thread state between Ensure and Release, and the interpreter is
\* not finalised under it, however many threads, exchanges and nested plans of
\* other threads there are.
THEOREM FlatPlansHoldLock == Spec => []FlatBracketHoldsLock
<1>1. Init => FlatInv
  BY InitInv DEF FlatInv, FlatFits, Init, InBracket, At
<1>2. FlatInv /\ [Next]_vars => FlatInv'
  BY FlatNext
<1>3. FlatInv => FlatBracketHoldsLock
  <2> SUFFICES ASSUME FlatInv, NEW t \in Threads, Depth[t] = 1, InBracket(t)
               PROVE  interp # "final" /\ PyGILStateCheck(t)
    BY DEF FlatBracketHoldsLock
  <2>1. FlatFits(t) /\ LockFits(t)
    BY DEF FlatInv, IndInv
  <2>2. counter[t] = 1 /\ interp # "final"
    BY <2>1 DEF FlatFits, InBracket, At
  <2>3. gil = t
    BY <2>1, <2>2 DEF LockFits, InBracket, At
  <2> QED BY <2>2, <2>3 DEF PyGILStateCheck
<1> QED BY <1>1, <1>2, <1>3, PTL DEF Spec
=============================================================================
