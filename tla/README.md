# Verification of IMBridge's prediction queries

IMBridge is a prototype on top of OceanBase 4.3 that runs Python inference
functions inside SQL queries. Its own logic is small compared with the engine
around it: a prediction operator that buffers rows so that a Python function is
called on batches of an efficient size, the tuning of that size, the import of
functions into one embedded interpreter, and the metadata of the functions
(`CREATE/DROP PYTHON_UDF`). No test of the repository covers any of it. Of the
engine below, the commit of a distributed transaction is modelled too: every
statement that changes rows of several log streams rests on it.

This directory models that logic in TLA+, checks it with TLC on small
instances, and proves the central facts with TLAPS for all instances. Source
paths below are relative to `src/src/`.

## 1. The system

| Component | State | Operations | Talks to |
|---|---|---|---|
| Prediction operator `ObPythonUDFOp` (`sql/engine/python_udf_engine/ob_python_udf_op.*`) | `brs_` of the base class, a controller | `inner_open`, `inner_get_next_batch`, `inner_rescan`, `inner_close` | pulls from its child, is called by its parent through `ObOperator` |
| `ObPUStoreController` (same files) | `cells_list_`, `other_store_`, `desirable_`, `stored_input_cnt_`, `stored_output_cnt_`, `output_idx_` | `init`, `resize`, `store`, `process`, `restore`, `free` | the cells and the stores |
| `ObPythonUDFCell` with its `ObPUInputStore` | arguments of one UDF, results, `result_size_`, `desirable_`, `length_`, `inited_` | `do_store`, `do_process` (slices, Python call, tuning), `do_restore` | the interpreter, the plan's `ObPythonUdfInfo` |
| `ObColInputStore` | the child's other columns, `output_idx_` | `save_vector`, `load_vector`, `reset`, `reuse` | the frame |
| Batch size tuner `modify_desirable`, `ObPythonUdfInfo` (`sql/engine/expr/ob_expr_python_udf.*`) | `predict_size`, `tps_s`, `round` per UDF of a cached plan | after each Python call | shared by all sessions that execute the plan |
| Operator protocol `ObOperator::get_next_batch`, `rescan` (`sql/engine/ob_operator.cpp`) | `brs_`, `projected_` flags | loop, filter, projection | every operator |
| Expression flags `ObExpr::eval_vector` (`sql/engine/expr/ob_expr.cpp`) | evaluated flags and values in the frame | evaluate what is not flagged | arguments and projections |
| Interpreter and its lock (`observer/omt/ob_multi_tenant.cpp`, the operator, `import_udf`) | one interpreter per process, the GIL, thread states | initialise, check, ensure, release, finalise | all sessions, PX exchanges |
| UDF expression `ObExprPythonUdf` | handlers `<name>_pyfun`, `<name>_pyinitial` in `__main__`, the context that `pyinitial` sets up | import when a plan is compiled | interpreter, plan cache, catalog |
| Metadata and DDL (`rootserver/ob_ddl_service.cpp`, `share/schema/ob_python_udf_sql_service.cpp`, ...) | table `__all_python_udf`, DDL epoch, the tenant's lock | create, drop | RPC proxy, root servers, resolver |
| Root server role and RPC (`rootserver/ob_root_service.cpp`, `rootserver/ob_rs_rpc_processor.h`, `share/ob_common_rpc_proxy.h`) | who is in service, the DDL lock | start, stop, process, retry | sessions that execute DDL |
| Schema cache `ObPythonUDFMgr` (`share/schema/ob_python_udf_mgr.cpp`) | a sorted vector and a hash map | add, remove | never filled, see section 5 |
| Two-phase commit `ObTxCycleTwoPhaseCommitter`, `ObPartTransCtx` (`storage/tx/ob_two_phase_*.cpp`, `ob_tx_2pc_*.cpp`, `ob_trans_part_ctx.cpp`) | a context per participant, its log, messages | requests and responses of each phase, log callbacks, timers, replay after a leader switch | scheduler, log service, other participants |
| Plan generation, code generation, resolver | none beyond the statement | place the operator, choose its inputs | -- |

What is hard here, and hardly reachable with a test:

* one inference is filled from several child batches and handed out in several
  output batches of sizes that the parent chooses; arguments, other columns and
  results live in separate stores with counters of their own;
* a call stops in the middle: waiting for the child, inside the interpreter;
  other sessions change the prediction size of the shared plan meanwhile;
* memory may be refused in the middle of a resize, whose result is ignored; a
  batch may be refused in the middle of the cells; a Python function may raise,
  or return fewer values than it got;
* a rescan initialises again what was initialised before;
* flags that say "already computed" outlive the batch they were set for;
* buffer limits depend on a configuration parameter, a constant and a tuned
  value at once;
* the interpreter lock is taken conditionally and held while an operator waits
  for its child, which may be another prediction operator or wait for a thread
  that needs the lock;
* imports of several sessions interleave in one `__main__`, while cached plans
  call what they find there;
* the master root server changes in the middle of a DDL, and the old one goes on
  with what it has begun; RPCs are retried, and time out while their DDL goes on;
  a commit may end with an unknown result;
* a commit is decided by messages that are lost, repeated and overtaken, by
  leaders that lose all but their synced log, and answered before the last log.

`PROJECT.json` lists these hazards at their lines with the properties that
would catch them.

Properties that make the components correct: the operator delivers each child
row exactly once, in order, with the predictions of that row, and reports the
end exactly when nothing is left; its counters describe its stores; its own
"unexpected" checks never fire; it drops no row that was not delivered; a
Python function is called on a non-empty slice of the buffer; a scan ends. The
lock that is released is the one that was taken, every call returns and the
server can stop; a running plan calls the function it was compiled against, with
a context that is set up; concurrent DDL acts like one map that changes at one
moment per statement, also across masters; the tuner stops once larger calls
are no faster; all
participants of a transaction end alike, in the way the client was told.

## 2. Modules

| Module | Content |
|---|---|
| `BatchRows` | a batch with skip bits: how many positions are active, and the k-th of them |
| `PUStores` | the buffers as records, one operator per method of `ObPythonUDFCell`, `ObPUInputStore`, `ObColInputStore` |
| `PredictOp` | the prediction operator: state, `Init`, one action per step of its handlers, `Spec`, `FairSpec` |
| `PredictStream` | the abstract specification: what the parent is promised |
| `PredictProps` | type invariant, safety, the refinement mapping, liveness |
| `PredictDocs` | a statement of the source's comments that the code does not keep |
| `MCPredict` + `*.cfg` | instances for TLC |
| `BatchTuner` | `modify_desirable` with its arithmetic, shared by sessions |
| `PyInterpreter`, `MCPyInterpreter` | threads, the interpreter lock, nested operators, exchanges, start and stop |
| `UdfImport`, `MCUdfImport` | import into `__main__`, plan cache, calls |
| `UdfTable` | the abstract specification of the metadata service |
| `UdfCatalog`, `MCUdfCatalog` | `CREATE/DROP PYTHON_UDF` from session to commit |
| `TwoPhaseCommit`, `MCTwoPhase` | the tree two-phase commit |
| `PredictProofs` | lemmas on the operators of `BatchRows` and `PUStores`; types and sizes of `PredictOp` |
| `StreamProofs` | `PredictOp` has room, stays aligned and implements `PredictStream` |
| `TwoPhaseProofs`, `AgreementProofs` | `TwoPhaseCommit`: types and logs; the outcome |
| `InterpreterProofs`, `ImportProofs`, `CatalogProofs`, `TunerProofs` | the theorems about `PyInterpreter`, `UdfImport`, `UdfCatalog`, `BatchTuner` |

A definition whose comment begins with "Variant" is a plausible mistake in the
code next to it; no specification uses it. Variants show that the properties
notice the mistake.

### How `PredictOp` corresponds to the code

A value is named by the number of the child row it was computed from, so
"prediction of row r" is `r` and a store is a sequence of row numbers. Payloads,
types and formatting are abstracted; every counter, flag, guard and error path
is kept. `cells`, `other`, `desirable`, `storedIn`, `storedOut`, `outIdx` are
`cells_list_`, `other_store_`, `desirable_`, `stored_input_cnt_`,
`stored_output_cnt_`, `output_idx_`. `pc` is the place inside the handler where
another actor can step in:

| `pc` | Meaning | Actions from there |
|---|---|---|
| `unopened` | before `inner_open` | `Open` (also with an allocation failure at any cell or in `other_store_`) |
| `idle` | between two calls of the parent | `ResumeOutput`, `BeginFill`, `Rescan`, `Close` |
| `fill` | loop over child batches | `StoreBatch`, `StoreFails`, `ChildFails`, `EndFill` |
| `process` / `wrap` / `python` | `process()`, the slice loop of `do_process`, inside the interpreter | `StartCell`; `CallPython`, `FinishCell`; `PythonReturns`, `PythonRaises` |
| `restore` | `restore()`, then the base operator's filter and projection | `RestoreBatch`, `RestoreNothing` |
| `again` | the filter dropped the whole batch: the base operator calls again with the same size | `ResumeOutput`, `BeginFill` |
| `failed`, `closed` | an error was returned; closed | `Close`; none |

`err` records why an execution failed. `"overflow"`, `"unsaved"`,
`"unprocessed"`, `"restore"` are the code's checks of its own bookkeeping;
`"alloc"`, `"child"`, `"argument"`, `"python"`, `"reinit"` come from outside or
from the rescan.

Other sessions are one action, `PeerTunes`: they run `modify_desirable` on the
shared `ObPythonUdfInfo` when this session does not hold the interpreter lock
(between its calls, and inside a Python call, which may release it). The
throughput that decides about the next prediction size is measured time, so
`Tuned` allows every outcome that the code's comparisons have.

`with_batch_control_` is a file-level constant `true`; the branches for `false`
are dead code and are not modelled.

Arguments, projections and expressions under the filter that the operator
computes itself have a frame and flags (`args`, `proj`, `filt`; `EvalArgs`,
`Projected`, `FilterEval`), because the code clears the flags at fixed points and
`eval_vector` keeps what is flagged. After a restore the flags of a filter are
cleared, but not those of an expression that it tests: with `ComputedFilter` the
filter tests such an expression. Columns that the child has already evaluated
have none.

External: the child (`ChildReturns`: an empty batch at the end, otherwise a
batch with at least one active row, never more than asked for, which is what
`ObOperator::get_next_batch` guarantees), the Python function (one value per
argument in order, or, with `ShortResults`, fewer; or an exception), the
allocator (may refuse any request of a cell that asks for more memory, and the
first one of `other_store_`). `ObColInputStore::reset` does not look at the
result of its allocation; the null buffer ends the process at the first row that
is copied into it. In the model this is `StoreFails`: nothing happens after it.

### How the other modules correspond to the code

*`PyInterpreter`.* `StartInterpreter`, `StopTenants`, `FinalizeInterpreter` are
`init`, `stop`, `destroy` of `ObMultiTenant`. A thread is in `level[t]` brackets
at once; `pc[t][l]` is the next line of bracket `l`: `PyGILState_Check`,
`PyGILState_Ensure`, the fill loop (or the wait in `fetch_rows` of a receive
operator), Python, `PyGILState_Release`. `gstate[t][l]` is the local variable of
that name, `"unset"` where the code leaves it uninitialised, so that `ReleaseLock`
takes both values. Both users of the bracket are there: the operator and
`import_udf`. External: CPython's counter per thread state, the lock, and its
fatal errors.

*`UdfImport`.* One statement at a time per session: a hit in the plan cache goes
straight to the call; otherwise resolve, run the code (which binds the two
handlers, each a step, since Python switches threads in between), look up and run
`pyinitial`, add the plan to the cache. Every step can fail. `Handler` is the
naming of the handlers in `__main__`. `pyinitial` assigns its context in two
halves (`RunInitial`, `FinishInitial`): other threads run in between, and it may
raise there and leave one half behind. `AddPlan` is `pc_add_plan`: when another
session was quicker, or the cache is full, the statement executes its own plan and
the cache keeps what it has. The catalog of this module is the map that
`UdfCatalog` is shown to implement.

*`UdfCatalog`.* `Call`, `Send`, `Retry`, `Answer` are the executor and
`CALL_WITH_RETRY` of the proxy; `Refuse`, `Process` the RPC processor with
`ddl_wlock`; `CheckExist`, `GetEpoch`, `LockTenant`, `ChangeRow`, `Commit`,
`EpochChanged` the DDL service and its transaction; `Fail` an error of any
statement in between; `StartService`, `StopService` the role of master. Each
server has its own belief about the role; the tables are shared.

A client can be told an error while its statement is not over. `Timeout`: its RPC
times out, wherever the DDL is; the DDL goes on and answers nobody. `CommitUnknown`:
`trans.end(true)` returns a timeout or an unknown result (after `expire_ts` the
"commit result is not concerned for the caller", `ob_trans_part_ctx.cpp:776`), or the
server dies; the DDL lock is given back, and the transaction keeps the tenant's
lock and the row of the epoch until it commits (`CommitLate`) or aborts (`Fail`).
`waiting` says whether somebody still waits. A session of the model stands for
one request until nothing of it is left; what a client that gave up sends next is
the request of another one. A failed promotion of the epoch may have written the
new epoch (`GetEpoch`). `OB_SERVER_IS_INIT`, the answer of a server that is starting
its service, is treated by the proxy like `OB_RS_NOT_MASTER` and is the same here.

The mapping to `UdfTable` is the identity but for `outcome`, of which results that
will be retried and errors count as pending. In `UdfTable` a client that waits to
the end is told the truth; one that gave up (`AbsGiveUp`) was told an error, and its
statement may take effect afterwards, once.

*`BatchTuner`.* `FirstCall`, `Ignored`, `Faster`, `Slower` are the branches of
`modify_desirable`. The code divides by wall time, in which other sessions take the
interpreter lock, so every call chooses its throughput anew: any of `Speeds` for a
full call below `Knee` and for a shorter rest, any of `Plateau` for a full call from
`Knee` on. What can be said of the search is said under `Steady`: two measurements
on the plateau differ by less than the code's own threshold of 10 %.

*`TwoPhaseCommit`.* `up` and `down` are `upstream_state_` and
`exec_info_.state_`; `logging` the log in flight or the wait for the GTS. One
action per message type and role, `LogSynced`, `GtsElapsed`, `Timeout`
(`handle_timeout`: repeat requests, submit a log again), `CommitRequest` and, with
`SlowLookup`, the same request split at the lock of the context, `LocalAbort`,
`SwitchLeader` (the context is rebuilt from the records that survived), and the
answers for a participant that has no context. With `Lossy = FALSE` a message
stays in the network and is handled any number of times, in any order.

### Abstraction

`PredictStream` knows no buffers: `Consume(n)` deals with the next `n` rows and
emits the right answers for those that the filter selects; `End`, `Fail`,
`Restart`, `Close`. `PredictProps!ImplementsStream` is its specification under
the mapping `next <- pulled - (Len(other.saved) - other.outIdx)` (what has left
the buffer), `emitted <- out`, `st <- StreamState`.

## 3. Runs

| Run | Question | Result |
|---|---|---|
| `predict_core` | two UDFs, another column, a filter that empties some batches, prediction sizes that grow from 1, one other session, allocation and Python failures, one rescan: are rows lost, doubled, reordered or mixed up; do the counters agree with the stores; do the internal checks fire? | holds |
| `predict_rescan` | without other columns a rescan succeeds but leaves the old cells in the list, which are then filled and evaluated beside the new ones: are the answers of every scan still right, and do the three nested loops end? | holds, the last under fairness |
| `interpreter` | a coordinator with one operator, fed by a worker with two nested ones, and an import: does a single operator's bracket own the lock, does nothing leak, does every call return although a receive waits with the lock, can the server stop? | holds, the last two under fairness |
| `catalog` | two servers, two sessions, take-overs, retries, failures, clients that time out, commits of unknown result: does DDL act like one map, do commits follow the epochs, does every statement end? | holds, the last under fairness |
| `import` | two functions, two sessions, imports that interleave and fail half-way, also inside `pyinitial`, cached plans, functions that are dropped and created again: is the function found, is it the right one, is it initialised? | holds |
| `tuner` | two sessions tune one plan, with a throughput that varies from call to call: how far can the size grow, does tuning end? | holds, the last under fairness |
| `two_phase_star` | root and two leaves, three faults, repeated and reordered messages: do all end alike, is "committed" true, does no message or log meet an error branch? | holds |
| `two_phase_chain` | the same for agreement and the log in a chain of three, with slow commit requests | holds |
| `two_phase_live` | root and one leaf, lost messages: do all contexts end, is the scheduler told? | holds under fairness |
| `stale_args` | comment of `inner_get_next_batch`, steps 1-3, when the operator itself computes an argument of a UDF | violated |
| `nested_release` | "Ensure GIL ... Release GIL" with nested operators: does the outer bracket keep the lock? | violated |
| `commit_tree` | comment of `commit()`, "has committed", in a chain, where an internal participant answers for a subtree that aborted | violated |

The violated runs are the findings of `PROJECT.json`, each with the line it
contradicts.

**What else the code does**, seen in the models and not kept as runs of their own:

* An output expression over a UDF's result is evaluated for the first batch that
  is restored and keeps these values for the next ones of the same fill
  (`Projected`, `ob_python_udf_op.cpp:214`).
* A filter over an expression over a UDF's result does the same: only the flags of
  the filter itself are cleared (`:216`), so later batches of a fill are filtered by
  the values of the first one. With `ComputedFilter` TLC finds `RightAnswers`
  violated, while the bookkeeping stays right.
* The prediction size has no limit of its own. When calls of one size differ by
  more than 10 %, say 400, 80 and again 400 rows per second, a slow call lowers the
  throughput to beat without counting a round and the next one raises the size:
  the search need not end, and the size and the buffers grow with it (`:1261`).
* A rescan of an operator with other columns fails, since the arrays of
  `other_store_` are initialised twice (`:115`); `predict_core` has this outcome.
* A function that returns too few values is noticed by nobody: `do_restore` tests
  a count of rows evaluated, not the length of the result (`:1242`).
* With `_rowsets_max_rows` above 4096 (default 256) and no tuning yet, a batch
  may not fit into the buffer; the query then fails with the overflow check
  (`:739`). `ChecksNeverFire` states the condition under which it cannot.
* A plan whose expression info was copied or sent to another server has no
  prediction size; with 0 a function is called on no rows
  (`ob_expr_python_udf.cpp:909`). `SlicesNeverEmpty` needs a start of at least 1.
* A function that is dropped and created again, or a second tenant's function of
  the same name, takes the place of the first one in `__main__`: cached plans then
  call the new code, perhaps in the old context. The properties of `UdfImport`
  promise the plan's own code only for functions that are the only ones of
  their name (`Redefined`), and the model contains the others.
* The context is set up again for every compiled statement, because `init_` is
  reset (`ob_raw_expr.cpp:4643`); the repository's README speaks of a one-off
  setup. A server that executes a plan it did not compile does not import at all
  (`ob_python_udf_op.cpp:67`).
* A batch size that a statement fixes is dropped by `deep_copy_udf_meta`.
* The id that DROP looks up before its transaction may be that of an older
  function when the row is deleted (`ob_ddl_service.cpp:34947`): the row is still
  the right one, found by name, but the id given to `modify_dep_obj_status` is not.
* A commit request that waits for the lock of a context which meanwhile aborts
  and clears is answered "committed" (`ob_trans_part_ctx.cpp:831`; `SlowLookup`
  with `CommittedIsTrue`). `commit()` answers "killed" when the ABORT log is only
  submitted, and a leader switch may lose it (`ob_tx_2pc_ctx_impl.cpp:95`).

**Bounds.** In `PredictOp`, `MaxRows`, `MaxRescans` and `MaxPeerTunes` bound the
run, nothing else does. Five rows with `MaxBatch = 2` and prediction sizes 1, 2, 3
give fills of several batches, slices of different sizes within one buffer, a
short last slice, restores in several pieces, a second fill, and a filter that
empties a batch. `DefaultLength = 4` is small enough that buffers are enlarged.
One other session is enough to change the prediction size at each point where
that is possible. Two UDFs show what a cell does to the next one.
`predict_rescan` uses one UDF and two rescans, so three generations of cells
coexist.

`PyInterpreter`: two threads are a cycle of waits through lock and channel, one
of them nested and the other flat, which also imports; two calls each, so that a
state left by the first is met by the second; a channel of one batch.
`UdfCatalog`: two servers and two take-overs let an old master go on beside a
new one; two statements on one name, which may have a function at the beginning
(`FirstId = 2`), let every pair of CREATE and DROP fall between the other's check
and commit, each with one retry; `MaxId` leaves an id for every attempt.
`UdfImport`: two versions per name, so that one function is
redefined while the other is in use or both are; the two sessions are
interchangeable, hence the symmetry. `BatchTuner`: a plateau of two speeds that
differ by less than the threshold, a lower and a much higher one below the knee,
which is at the third size.
`TwoPhaseCommit`: three faults let every participant lose its leader once or one
of them at three phases; star and chain are the two trees of three nodes;
`two_phase_live` has one fault and two participants because liveness with strong
fairness of each message is costly.

**Fairness** of `PredictOp` (`FairSpec`): weak fairness of `Work`, because the thread that
executes the operator keeps running and its child and the Python function
return, and of `Enter`, because `ScanEnds` is about a parent that keeps asking
for batches. `ScanEnds` allows failure and close.

`PyInterpreter`: weak for a thread's steps, strong for taking the lock (CPython
forces a switch when another thread asks for it), for the return from Python,
which is delayed while the lock is away, and, at each level of nesting, for the
end of the fill loop, whose buffer is full after finitely many batches;
`fetch_rows` ends at the statement's timeout, so its wait is a step like others.
`UdfCatalog`: strong for the steps of a statement, since the queues of the two
locks are served and a transaction in doubt is ended by the commit protocol;
`Timeout`, `Fail` and `CommitUnknown` are never forced.
`BatchTuner`: functions return, and full calls keep being made. `TwoPhaseCommit`:
a message that is sent again and again is received (the timers repeat it), logs
get synced, timers fire, the scheduler asks until it is told.

**Deadlock** is checked in the runs of `PredictOp` (the only final state is
`closed`), `PyInterpreter` (final: the interpreter is) and `BatchTuner`. It is not
checked where the system may stop: a catalog whose bounded statements are done,
sessions without functions to call, a transaction that has ended everywhere.

## 4. Proofs

For every number of UDFs, columns, rows, sessions and rescans, every batch size
and every prediction size:

* `TypeCorrect`: `Spec => []TypeOK`;
* `SizesCorrect`: `Spec => []SizesAgree`, the counters describe the stores;
* `NoRowDropped`: `Spec => DropsOnlyDelivered`;
* `ChecksNeverFire`: `BatchFits => (Spec => []NoInternalError)`;
* `SlicesNeverEmpty`: if plans start from a prediction size of at least 1,
  `Spec => []SlicesInBuffer`;
* `StoresStayAligned`: `Plain /\ Spec => []StoresAligned`;
* `OperatorImplementsStream`: `Plain /\ FreshOutput /\ Spec =>
  ImplementsStream`, the refinement of `PredictStream`;
* `AnswersAreRight`: `Plain /\ FreshOutput /\ Spec => []RightAnswers`.

The only assumption on the constants is `ConstantsAssumption` (naturals, at
least one UDF, batches of at least one row), which TLC evaluates in every run.

*The inductive invariant* of `PredictProofs` is `IInv == TypeOK /\ CellsOK /\
SizesAgree`. Types cannot be proved alone: `SubSeq`, `other.saved[i]` and
`cells[LastCell(e)]` have a type only where the counters say that there is
something to read, so types and sizes are proved together. `SizesAgree` is
written per phase (`FillSizes`, `ProcessSizes`, `OutputSizes`). The part that is
easy to miss is the witness `b` in `FillSizes`: after a resize that ran out of
memory, the cells before `b` have room, cell `b` is not inited, and nothing has
been stored yet, so the first batch is refused and the fill cannot end.

`StreamProofs` first adds two facts about room. `Grown(least)`: prediction sizes only grow, so a
lower bound of the starting values is one of the plan, of the cells and of the
buffer. `Kept`: as long as there are other columns (a rescan then fails) no
store that is inited becomes shorter than `DEFAULT_PU_LENGTH`. Together with
`is_full` they give room for one more batch under `BatchFits`, which is a
condition on the configuration: batches are no larger than the starting
prediction size, or two of them fit in `DEFAULT_PU_LENGTH` and there are other
columns. Without it TLC finds that the check fires.

Then it follows the rows. `Plain` says that no argument is computed by the
operator (`Computed = {}`) and that functions return one value per row
(`~ShortResults`), `FreshOutput` that neither an output nor the filter is computed
over a result (`~ComputedProj /\ ~ComputedFilter`). All four are needed: in
`MCPredictCore.cfg` with any one of them dropped TLC finds `StoresAligned` or
`RightAnswers` violated, and the run `stale_args` shows the first in the code's
own terms. `AlignInv` strengthens `StoresAligned` by two facts: the cell at work
still has the saved rows of `other_store_` (`WorkAligned`; the property speaks of
the cells before and after it only), and `brs_.end_` is raised only when the child
has no row left, with a batch size of at least one (`ChildProgress`). For the
refinement `Delivered`, the mapped number of consumed rows, must not move while
rows are fetched, evaluated or thrown away by `resize()`; a restored batch is one
`Consume(n)` step, because by the alignment the value at position i of every
result array and of the other columns is row `Delivered + i` (`RestoredRow`), so
that operator and stream drop the same positions. `RightAnswers` is then an
invariant of the stream: `AnswersExtend` shows that the answers of the next n rows
continue the places of the selected rows (`PlaceShift`, `ActiveAtPlace`).

Facts by induction on a number (`PlaceShift`, `ActiveAtType`) are proved by a least counterexample, which the theorem `WFMin`
gives without an operator as parameter.

`InterpreterProofs`, for every set of threads, nesting, exchange and channel
(`ThreadsAssumption`):

* `InterpreterTypes`: `Spec => []TypeOK`;
* `NoLeak`: `Spec => []LockNotLeaked`, for every nesting;
* `FlatPlansHoldLock`: `Spec => []FlatBracketHoldsLock`: a thread with one
  prediction operator keeps the lock throughout its bracket, whatever nested
  plans other threads execute. `nested_release` shows that the thread's own
  operator must be the only one.

`IndInv` adds to the types what each thread knows (`LockFits`: the counter is at
most 1, because Ensure is called only after Check said no; `StackFits`: outer
brackets wait at the fill loop, an import has no child, a call was begun with room
in the channel). The last is what `rows <= ChannelCap` needs, and the first what
makes a release, whatever the uninitialised `gstate` says, give the lock up.
`FlatFits` adds, for a thread with one operator, that past the check the thread
state exists; the other threads can abort the process but not reach it. Lemmas
`Bystander` and `OtherThreads` reduce every step to the thread that makes it.

`ImportProofs`, for any servers, sessions, tenants, names and number of versions
(`ImportAssumption`):

* `ImportTypes`: `Spec => []TypeOK`;
* `FunctionAlwaysFound`: `Spec => []FunctionFound`;
* `OwnFunctionCalled`: `Spec => []CallsOwnFunction`;
* `OwnContextCalled`: `OwnVariables /\ Spec => []CallsInitialised`. `OwnVariables`
  says that no two functions keep their context in the same global variable.
  The code cannot enforce this; with a shared variable the last `pyinitial` wins.

`IndInv` says that whatever is kept under a name, in `__main__`, in a cached plan
or in a running statement, is a version that some tenant has created of a function
of that name (`CodeFits`), and that each step of an import has bound what the next
steps look up (`SessionFits`). Handlers are bound again but never unbound, so
other sessions and failures half-way cannot take them away. If the name was
created once, there is only one code that fits (`OnlyCode`), which turns "some
version" into "this code". `ContextFits` is the same for each half of a context:
once the first half was assigned by a statement's own `pyinitial`, every later
assignment of it is one of the same function (`ContextKept`), so that a second run
of `pyinitial`, or one that fails half-way, takes nothing away.

`CatalogProofs`, for any servers, sessions, names and bounds
(`CatalogAssumption`):

* `CatalogTypes`: `Spec => []TypeOK`;
* `EpochOrder`: `Spec => CommitsInEpochOrder`;
* `CatalogRefinesTable`: `Spec => ImplementsTable`, the refinement.

The refinement covers clients that gave up: a statement that is answered with a
result took effect once between call and answer; one that is answered with an
error at most once, at any time until its DDL is over.

The invariant says per session (`SessionFits`) that from `work` until its
transaction has ended, in doubt or not, it has the tenant's lock, that the epoch
cannot change under a transaction in doubt, that a DROP about to commit has its row, and a CREATE no row
and an id that nobody has used; ids in use are below `fresh`; no commit is newer
than the epoch. The lock is what makes the facts of one session stable under the
commits of others; the check before the transaction contributes nothing, so that
it may be stale while the refinement holds.

`TwoPhaseProofs`, for every tree, and any number of faults (`TreeAssumption`):

* `TwoPhaseTypes`: `Spec => []TypeOK`;
* `LogAlwaysApplies`: `Spec => []LogApplies`.

`IndInv` is `TypeOK` with `Coherent(ctx[p])` for every participant: which pairs of
upstream and downstream state a context can be in (`StatesFit`), and which log
can be in flight in them (`LogFits`). It is local, since every handler is a
function of one context and one message, so the network needs no invariant beyond
its type. Types alone are not inductive because the tables of requests and
responses are defined only for the states in which they are used.

`AgreementProofs`, under the same assumption:

* `CommitIsAtomic`: `Spec => []Agreement`, in every tree;
* `FlatCommitsTruthfully`: `Flat /\ ~SlowLookup /\ Spec => []CommittedIsTrue`;
* `FlatNoProtocolError`: `Flat /\ Spec => []NoProtocolError`.

`Flat` says that all participants but the root are leaves, the usual shape without
transfers. It is needed: the run `commit_tree` refutes `CommittedIsTrue` in a chain
of three, and TLC refutes `NoProtocolError` there, too; with `SlowLookup` it
refutes `CommittedIsTrue` in the star.

`AgreeInv` is about facts that stay true once they are: records are never taken
back and a context that is gone does not come back. So what a message says when it
is sent it still says when it arrives, however late, and what a context has
collected needs no knowledge of when (`MsgStays`, `GrowFacts`). Three of them
carry the proof. `Whole(Prep)`, the participants that are prepared with all that
is below them: a `PRE_COMMIT_RESP` stands for its sender's whole subtree, and
`Whole` at the root is everybody (`WholeRoot`, from the assumption that every
participant is below the root). `AllPrep`, which is what entering `COMMIT` needs.
`Hopeless`, somebody has left without being prepared: as long as it is false
nobody aborts and who leaves has committed (`NoAbort`, `MsgNoAbort`); once it is
true, nobody can ever commit. A prepared context that is asked to abort or clear
is the hard case; it is settled by which of the two holds. An internal participant
that is about to abort may answer a repeated PREPARE_REQ although its subtree is not
prepared (`commit_tree`), so a PREPARE_RESP is trusted in flat trees only
(`FlatFits`, `MsgFlat`), and the proof for all trees rests on PRE_COMMIT_RESP.

`TunerProofs`, for any sessions, throughputs, knee and limit (`TunerAssumption`):

* `TunerTypes`: `Spec => []TypeOK`;
* `GrowthCounted`: `Spec => []GrowthIsCounted`, that is, if measurements on the
  plateau are `Steady`, `size <= Knee + 1 + round`;
* `SizeBounded`: then `size <= Knee + RoundLimit + 2`, always.

`TunerInv` adds that only the first size is without a measurement, and that past
the knee the throughput to beat is at least one of the plateau's. It is so when the
size passes the knee, since the call that made it do so was a full one at the knee, and
smoothing (`SmoothedBetween`) never falls below the call that it takes in. So a call
past the knee, if it is faster at all, gains less than 10 % when the plateau is
steady, and the step that enlarges the size counts a round, whatever the sessions
measured before and whichever of them comes first. The hypothesis is part of the
property: without it the step is not counted (section 3).

Only model-checked is what holds under fairness (`ScanEnds`, `EveryCallReturns`,
`ServerStops`, `StatementsEnd`, `TuningEnds`, `ContextsEnd`, `SchedulerTold`),
which is beyond the prover. Every invariant and action property of a passing run
is a theorem, with the hypotheses above.

## 5. Not modelled

* Payload conversions (32-bit integers, lost NULLs): visible at the line, no
  sequence of steps is involved.
* `ObPythonUDFMgr`, the schema cache: `CREATE/DROP PYTHON_UDF` log no schema
  operation, so no refresh ever adds to it or removes from it, and the resolver
  reads the inner table.
* `eval_python_udf`, the row-wise evaluation: returns `OB_NOT_SUPPORTED` first.
* The one-row interface of operators; `inner_get_next_row` ("not support yet")
  passes the child's row on without a prediction.
* Memory amounts, monitoring, logging; the
  rewriting of trees by the optimizer and the resolver, which keeps no state; the
  parse of the argument list and privileges of DDL.
* Of two-phase commit: transfers of log streams (fake upstreams, intermediate
  participants), XA, duplicate tables, transactions of one participant, forced
  kills, a deposed leader that still answers, the check that the leader of a
  participant has not changed since execution, and the rows of a transaction.
  `HandleClearReq` leaves out the data of a CLEAR_REQ (`max_commit_log_scn`,
  `ob_tx_2pc_msg_handler.cpp:645`). Of the answers to the scheduler only those about
  the outcome are modelled, not TIMEOUT, STMT_TIMEOUT and NOT_MASTER
  (`ob_trans_part_ctx.cpp:604`) nor the "killed" of `on_failure` for a PREPARE in
  flight (`:2669`). `do_clear` of the root answers `OB_SUCCESS` also after an abort
  (`ob_tx_2pc_ctx_impl.cpp:358`); only the commit version, which such a message lacks,
  keeps it from being sent (`ObTxCommitRespMsg::is_valid`, `ob_tx_msg.cpp:268`), and
  the model has no such answer. `SwitchLeader` always rebuilds the context; a
  replica that is elected again keeps its upstream state, which is a failed
  submission in effect.
* The rest of OceanBase (storage, replication, the other operators, schema and
  DDL of tables, resource management): not this project's subject. The models
  take what they use of it as a child operator, an allocator, a log that syncs or
  loses what was submitted, a table with a key. By lines of code it is nearly all
  of the repository.
* Plans that are executed on a server which did not compile them.

## 6. Plan

1. *Done*: all modules of section 2; every safety property that a run checks is
   proved.
2. Proofs: what remains true in deep trees of what `FlatCommitsTruthfully` says,
   that is, which records the scheduler's "committed" does guarantee there.
3. `TwoPhaseCommit` with transfers, which change the tree while it commits.
