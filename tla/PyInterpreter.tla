--------------------------- MODULE PyInterpreter ---------------------------
(***************************************************************************)
(* The Python interpreter embedded in an observer process, and the threads *)
(* that use it.  ObMultiTenant starts and finalises it; a thread enters it *)
(* when it imports a function (ObExprPythonUdf::import_udf) and in every   *)
(* call of a prediction operator (ObPythonUDFOp::inner_get_next_batch).    *)
(* Both bracket their work with the same lines: check, ensure, release.    *)
(*                                                                         *)
(* A thread executes a plan in which Depth[t] prediction operators stand   *)
(* on top of each other; operator l calls operator l + 1 as its child.     *)
(* The lowest one reads a table or, when Feeder[t] is a thread, the rows   *)
(* that this thread sends through a PX exchange.  CPython's side of the    *)
(* bracket (gilstate counters, thread states, the switch of the lock       *)
(* between bytecodes) is external and modelled from how the code uses it.  *)
(***************************************************************************)
EXTENDS Integers

CONSTANTS
  Threads,      \* worker threads of the tenants
  MaxDepth,     \* bound on the operators stacked in one plan
  Depth,        \* prediction operators stacked in a thread's plan
  Feeder,       \* the thread whose rows the lowest operator receives
  Compiles,     \* threads that compile their statement, and so import
  NoThread,     \* nobody
  Main,         \* the thread that starts and stops the observer
  MaxCalls,     \* bound: calls of the root operator per thread
  ChannelCap    \* batches that fit in the channel of an exchange

Levels == 1..MaxDepth

ASSUME ThreadsAssumption ==
  /\ NoThread \notin Threads
  /\ Main \notin Threads \cup {NoThread}
  /\ MaxDepth \in Nat \ {0}
  /\ Depth \in [Threads -> Levels]
  /\ Feeder \in [Threads -> Threads \cup {NoThread}]
  /\ Compiles \subseteq Threads
  /\ MaxCalls \in Nat
  /\ ChannelCap \in Nat \ {0}

VARIABLES
  interp,    \* "down", "up", "final", or "aborted" with the process
  stopping,  \* ObMultiTenant::stop has begun
  gil,       \* the thread whose thread state is current
  counter,   \* gilstate_counter of a thread's state; 0: it has none
  level,     \* how many operators of its plan a thread is inside
  pc,        \* per thread and level: the next line of the bracket
  gstate,    \* per thread and level: the local variable gstate
  compiled,  \* the thread's statement has its plan
  calls,     \* calls of its root operator so far
  rows,      \* batches a thread has sent and nobody has received yet
  failed     \* the thread's statement has failed or timed out

vars == <<interp, stopping, gil, counter, level, pc, gstate, compiled, calls, rows, failed>>
bracket == <<gil, counter, level, pc, gstate>>
statement == <<compiled, calls, rows, failed>>
server == <<interp, stopping>>

Lines == {"check", "ensure", "fill", "receive", "python", "retake", "release"}
GStates == {"unset", "LOCKED", "UNLOCKED"}

\* Every variable has its type.
TypeOK ==
  /\ interp \in {"down", "up", "final", "aborted"}
  /\ stopping \in BOOLEAN
  /\ gil \in Threads \cup {NoThread, Main}
  /\ counter \in [Threads -> Nat]
  /\ level \in [Threads -> 0..MaxDepth]
  /\ pc \in [Threads -> [Levels -> Lines]]
  /\ gstate \in [Threads -> [Levels -> GStates]]
  /\ compiled \in [Threads -> BOOLEAN]
  /\ calls \in [Threads -> 0..MaxCalls]
  /\ rows \in [Threads -> 0..ChannelCap]
  /\ failed \in [Threads -> BOOLEAN]

Init ==
  /\ interp = "down"
  /\ stopping = FALSE
  /\ gil = NoThread
  /\ counter = [t \in Threads |-> 0]
  /\ level = [t \in Threads |-> 0]
  /\ pc = [t \in Threads |-> [l \in Levels |-> "check"]]
  /\ gstate = [t \in Threads |-> [l \in Levels |-> "unset"]]
  /\ compiled = [t \in Threads |-> t \notin Compiles]
  /\ calls = [t \in Threads |-> 0]
  /\ rows = [t \in Threads |-> 0]
  /\ failed = [t \in Threads |-> FALSE]

-----------------------------------------------------------------------------
(* CPython. *)

\* PyGILState_Check: the current thread state is the caller's.
PyGILStateCheck(t) == gil = t /\ counter[t] > 0

\* PyGILState_Release calls Py_FatalError, which aborts the observer.
ReleaseIsFatal(t) == gil # t \/ counter[t] = 0

\* PyGILState_Release(old): the last release deletes the thread's state and
\* gives the lock up, an earlier one gives it up if old says it was not held.
PyGILStateRelease(t, old) ==
  /\ counter' = [counter EXCEPT ![t] = @ - 1]
  /\ gil' = IF counter[t] = 1 \/ old = "UNLOCKED" THEN NoThread ELSE gil

-----------------------------------------------------------------------------
(* ObMultiTenant. *)

\* init(): Py_InitializeEx, the imports and PyEval_SaveThread, before any
\* tenant has threads.
StartInterpreter ==
  /\ interp = "down"
  /\ interp' = "up"
  /\ UNCHANGED <<stopping, bracket, statement>>

\* stop(): no request is processed any more; remove_tenant is tried again
\* until the threads of the tenants have left.
StopTenants ==
  /\ interp = "up"
  /\ ~stopping
  /\ stopping' = TRUE
  /\ UNCHANGED <<interp, bracket, statement>>

\* destroy(): PyEval_RestoreThread waits for the lock, then Py_FinalizeEx.
FinalizeInterpreter ==
  /\ stopping
  /\ interp = "up"
  /\ \A t \in Threads : level[t] = 0
  /\ gil = NoThread
  /\ interp' = "final"
  /\ gil' = Main
  /\ UNCHANGED <<stopping, counter, level, pc, gstate, statement>>

-----------------------------------------------------------------------------
(* One thread. *)

At(t, line) == level[t] > 0 /\ pc[t][level[t]] = line

\* The thread, inside its innermost bracket, goes on at the line.
Goto(t, line) == pc' = [pc EXCEPT ![t][level[t]] = line]

\* A bracket of the level is entered: gstate is declared, not initialised.
EnterBracket(t, l) ==
  /\ level' = [level EXCEPT ![t] = l]
  /\ pc' = [pc EXCEPT ![t][l] = "check"]
  /\ gstate' = [gstate EXCEPT ![t][l] = "unset"]

\* The thread serves a tenant whose threads run.
Serving(t) == interp = "up" /\ ~stopping /\ level[t] = 0 /\ ~failed[t]

\* The consumer of a thread's rows has failed, and interrupts its producers.
Interrupted(t) == \E c \in Threads : Feeder[c] = t /\ failed[c]

\* Code generation visits a Python UDF: init_udf calls import_udf.
BeginImport(t) ==
  /\ Serving(t)
  /\ ~compiled[t]
  /\ EnterBracket(t, 1)
  /\ UNCHANGED <<server, gil, counter, statement>>

\* Variant: the transmit operator does not wait while the channel is full.
BeginCallUnthrottled(t) ==
  /\ Serving(t)
  /\ compiled[t]
  /\ calls[t] < MaxCalls
  /\ ~Interrupted(t)
  /\ calls' = [calls EXCEPT ![t] = @ + 1]
  /\ EnterBracket(t, 1)
  /\ UNCHANGED <<server, gil, counter, compiled, rows, failed>>

\* The parent of the root operator asks for a batch; in a PX worker that is
\* the transmit operator, which waits while the channel is full.
BeginCall(t) ==
  /\ Serving(t)
  /\ compiled[t]
  /\ calls[t] < MaxCalls
  /\ ~Interrupted(t)
  /\ (\E c \in Threads : Feeder[c] = t) => rows[t] < ChannelCap
  /\ calls' = [calls EXCEPT ![t] = @ + 1]
  /\ EnterBracket(t, 1)
  /\ UNCHANGED <<server, gil, counter, compiled, rows, failed>>

\* Variant: the test of nStatus is inverted.
CheckLockInverted(t) ==
  /\ At(t, "check")
  /\ Goto(t, IF PyGILStateCheck(t) THEN "ensure" ELSE IF compiled[t] THEN "fill" ELSE "python")
  /\ UNCHANGED <<server, gil, counter, level, gstate, statement>>

\* nStatus = PyGILState_Check().
CheckLock(t) ==
  /\ At(t, "check")
  /\ Goto(t, IF ~PyGILStateCheck(t) THEN "ensure" ELSE IF compiled[t] THEN "fill" ELSE "python")
  /\ UNCHANGED <<server, gil, counter, level, gstate, statement>>

\* gstate = PyGILState_Ensure(): waits for the lock.
EnsureLock(t) ==
  /\ At(t, "ensure")
  /\ gil = NoThread
  /\ gil' = t
  /\ counter' = [counter EXCEPT ![t] = @ + 1]
  /\ gstate' = [gstate EXCEPT ![t][level[t]] = "UNLOCKED"]
  /\ Goto(t, IF compiled[t] THEN "fill" ELSE "python")
  /\ UNCHANGED <<server, level, statement>>

\* child_->get_next_batch(): the child is a prediction operator too.
CallChild(t) ==
  /\ At(t, "fill")
  /\ level[t] < Depth[t]
  /\ EnterBracket(t, level[t] + 1)
  /\ UNCHANGED <<server, gil, counter, statement>>

\* child_->get_next_batch(): the child receives from an exchange.
CallReceive(t) ==
  /\ At(t, "fill")
  /\ level[t] = Depth[t]
  /\ Feeder[t] # NoThread
  /\ Goto(t, "receive")
  /\ UNCHANGED <<server, gil, counter, level, gstate, statement>>

\* The fill loop ends: the buffer is full, the child has no more rows, or
\* earlier results are still to be handed out and there is nothing to fill.
EndFill(t) ==
  /\ At(t, "fill")
  /\ Goto(t, "python")
  /\ UNCHANGED <<server, gil, counter, level, gstate, statement>>

\* ObPxFifoReceiveOp::fetch_rows: a batch arrives, or the producer is done.
ReceiveRows(t) ==
  /\ At(t, "receive")
  /\ LET f == Feeder[t] IN
     \/ /\ rows[f] > 0
        /\ rows' = [rows EXCEPT ![f] = @ - 1]
        /\ Goto(t, "fill")
     \/ /\ rows[f] = 0
        /\ level[f] = 0
        /\ calls[f] = MaxCalls
        /\ ~failed[f]
        /\ Goto(t, "python")
        /\ rows' = rows
  /\ UNCHANGED <<server, gil, counter, level, gstate, compiled, calls, failed>>

\* Variant: OB_EAGAIN is tried again for ever.
ReceiveRetriesForEver(t) == At(t, "receive") /\ UNCHANGED vars

\* fetch_rows: nothing has arrived at the statement's timeout, or the
\* producer's error has interrupted the wait.
ReceiveTimesOut(t) ==
  /\ At(t, "receive")
  /\ rows[Feeder[t]] = 0
  /\ failed' = [failed EXCEPT ![t] = TRUE]
  /\ Goto(t, "release")
  /\ UNCHANGED <<server, gil, counter, level, gstate, compiled, calls, rows>>

\* The interpreter passes the lock on between two bytecodes of the function,
\* and native code such as NumPy's releases it.
DropLock(t) ==
  /\ At(t, "python")
  /\ gil = t
  /\ gil' = NoThread
  /\ Goto(t, "retake")
  /\ UNCHANGED <<server, counter, level, gstate, statement>>

RetakeLock(t) ==
  /\ At(t, "retake")
  /\ gil = NoThread
  /\ gil' = t
  /\ Goto(t, "python")
  /\ UNCHANGED <<server, counter, level, gstate, statement>>

\* The call into Python returns; an exception fails the statement.
PythonReturns(t) ==
  /\ At(t, "python")
  /\ \E fails \in BOOLEAN : failed' = [failed EXCEPT ![t] = @ \/ fails]
  /\ Goto(t, "release")
  /\ UNCHANGED <<server, gil, counter, level, gstate, compiled, calls, rows>>

\* Python is used without the lock and a thread state: it may crash.
PythonCrashes(t) ==
  /\ At(t, "python")
  /\ ~PyGILStateCheck(t)
  /\ interp' = "aborted"
  /\ UNCHANGED <<stopping, bracket, statement>>

\* Py_FatalError.
ReleaseAborts(t) ==
  /\ At(t, "release")
  /\ ReleaseIsFatal(t)
  /\ interp' = "aborted"
  /\ UNCHANGED <<stopping, bracket, statement>>

\* Variant: an error returns before the release.
ReleaseUnlessFailed(t) ==
  /\ At(t, "release")
  /\ ~ReleaseIsFatal(t)
  /\ IF failed[t] THEN UNCHANGED <<gil, counter>> ELSE PyGILStateRelease(t, "UNLOCKED")
  /\ level' = [level EXCEPT ![t] = @ - 1]
  /\ compiled' = [compiled EXCEPT ![t] = @ \/ ~failed[t]]
  /\ rows' = IF /\ level[t] = 1 /\ compiled[t] /\ ~failed[t]
                /\ \E c \in Threads : Feeder[c] = t
             THEN [rows EXCEPT ![t] = @ + 1] ELSE rows
  /\ UNCHANGED <<server, pc, gstate, calls, failed>>

\* if (nStatus) PyGILState_Release(gstate), and the return to the caller: the
\* parent operator goes on filling or fails too, the root's batch is sent,
\* an import has the statement compiled.
ReleaseLock(t) ==
  /\ At(t, "release")
  /\ ~ReleaseIsFatal(t)
  /\ \E old \in {"LOCKED", "UNLOCKED"} :
       /\ gstate[t][level[t]] \in {"unset", old}
       /\ PyGILStateRelease(t, old)
  /\ level' = [level EXCEPT ![t] = @ - 1]
  /\ pc' = IF level[t] > 1 /\ failed[t]
           THEN [pc EXCEPT ![t][level[t] - 1] = "release"] ELSE pc
  /\ compiled' = [compiled EXCEPT ![t] = @ \/ ~failed[t]]
  /\ rows' = IF /\ level[t] = 1 /\ compiled[t] /\ ~failed[t]
                /\ \E c \in Threads : Feeder[c] = t
             THEN [rows EXCEPT ![t] = @ + 1] ELSE rows
  /\ UNCHANGED <<server, gstate, calls, failed>>

-----------------------------------------------------------------------------

\* A thread takes the lock, for the first time or again.
Acquire(t) == EnsureLock(t) \/ RetakeLock(t)

\* What a thread inside the bracket does next without waiting for the lock.
Proceed(t) ==
  \/ CheckLock(t) \/ CallChild(t) \/ CallReceive(t) \/ EndFill(t)
  \/ ReceiveRows(t) \/ ReceiveTimesOut(t)
  \/ PythonCrashes(t) \/ ReleaseAborts(t) \/ ReleaseLock(t)

ThreadStep(t) ==
  /\ interp = "up"
  /\ \/ BeginImport(t) \/ BeginCall(t)
     \/ Acquire(t) \/ DropLock(t) \/ PythonReturns(t) \/ Proceed(t)

ServerStep == StartInterpreter \/ StopTenants \/ FinalizeInterpreter

\* After the end of the interpreter or of the process nothing runs.
Ended == interp \in {"final", "aborted"} /\ UNCHANGED vars

Next == ServerStep \/ (\E t \in Threads : ThreadStep(t)) \/ Ended

Spec == Init /\ [][Next]_vars

(***************************************************************************)
(* The operating system runs every thread; the interpreter hands the lock  *)
(* to every thread that waits for it again and again, a function that is   *)
(* called returns in the end, and a buffer is full after finitely many     *)
(* batches of the child.  Nothing says that requests arrive or that the    *)
(* observer is stopped.                                                    *)
(***************************************************************************)
Fairness ==
  /\ \A t \in Threads :
       /\ WF_vars(interp = "up" /\ Proceed(t))
       /\ SF_vars(interp = "up" /\ Acquire(t))
       /\ SF_vars(interp = "up" /\ PythonReturns(t))
       /\ \A l \in 1..Depth[t] : SF_vars(interp = "up" /\ level[t] = l /\ EndFill(t))
  /\ WF_vars(FinalizeInterpreter)

FairSpec == Spec /\ Fairness

-----------------------------------------------------------------------------
(* Properties. *)

\* A thread is inside the bracket, past the check and PyGILState_Ensure.
InBracket(t) == \E line \in {"fill", "receive", "python", "release"} : At(t, line)

\* "Ensure GIL" to "Release GIL" (inner_get_next_batch): a thread owns the lock
\* and its thread state in all of the fill loop, the calls of Python and the
\* release itself, whatever operators stand on each other.
BracketHoldsLock == \A t \in Threads : InBracket(t) => PyGILStateCheck(t)

\* A thread whose plan has one prediction operator, or that imports a function,
\* owns the lock and its thread state throughout the bracket, and the
\* interpreter is not finalised under it, whatever the other threads do, those
\* with nested operators included.
FlatBracketHoldsLock ==
  \A t \in Threads : Depth[t] = 1 /\ InBracket(t) => interp # "final" /\ PyGILStateCheck(t)

\* Whatever the nesting of operators, a thread that owns the lock or a thread
\* state is still inside a bracket that took it: none of the returns of
\* inner_get_next_batch and import_udf leaks the lock.
LockNotLeaked ==
  \A t \in Threads :
    /\ gil = t => counter[t] > 0
    /\ counter[t] > 0 => \E l \in 1..level[t] : gstate[t][l] = "UNLOCKED"

\* Every import and every call of the root operator returns, also when the
\* operator holds the lock while it waits for a thread that needs the lock,
\* unless a thread has aborted the process.
EveryCallReturns == \A t \in Threads : level[t] > 0 ~> level[t] = 0 \/ interp = "aborted"

\* Once tenants are being stopped, all threads leave and the interpreter is
\* finalised, unless a thread has aborted the process.
ServerStops == stopping ~> interp \in {"final", "aborted"}
=============================================================================
