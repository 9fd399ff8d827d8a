----------------------------- MODULE UdfCatalog -----------------------------
(***************************************************************************)
(* CREATE and DROP PYTHON_UDF, from the session that executes the command  *)
(* to the row in __all_python_udf.  The session sends an RPC to the server *)
(* that it takes for the master root server (ObCommonRpcProxy, with        *)
(* retries), whose RPC processor runs one such DDL at a time under its DDL *)
(* lock: check that the function exists, start a DDL transaction (DDL      *)
(* epoch, lock of the tenant, schema version), change the row, compare the *)
(* epoch and commit.  The role of master moves between servers at any      *)
(* time; a server learns late that it has lost it and still finishes what  *)
(* it has begun.  A client gives up when its RPC times out, and a commit   *)
(* may end with an error of which nobody knows yet what became of the      *)
(* transaction; in both cases the DDL goes on without a client.            *)
(* Python UDF DDL logs no schema operation, so the schema version that     *)
(* start() compares does not change with it.                               *)
(***************************************************************************)
EXTENDS Integers

CONSTANTS
  Servers,      \* servers that can be the master root server
  Sessions,     \* client sessions; one that gave up takes part in the
                \* model again when nothing of its statement is left
  Names,        \* names of functions of one tenant
  NoRow,        \* no function has the name
  Nobody,       \* a lock is free, no request is out
  FirstId,      \* smaller ids were given out before the first statement
  MaxId,        \* bound: functions ever created
  MaxMasters,   \* bound: times that a server takes over
  MaxCalls,     \* bound: statements
  RetryTimes    \* RETRY_TIMES of CALL_WITH_RETRY

ASSUME CatalogAssumption ==
  /\ Nobody \notin Sessions
  /\ NoRow \notin Nat
  /\ FirstId \in 1..(MaxId + 1)
  /\ MaxId \in Nat /\ MaxMasters \in Nat /\ MaxCalls \in Nat /\ RetryTimes \in Nat

VARIABLES
  table,      \* __all_python_udf: the udf_id of each name
  fresh,      \* fetch_new_python_udf_id: the next id
  used,       \* history: the ids of the functions that were created
  epoch,      \* ddl_epoch in the tenant's inner table
  tenantLock, \* the DDL transaction that has the tenant's exclusive lock
  lastEpoch,  \* history: the epoch of the last commit
  inService,  \* per server: rs_status_ is one of the IN_SERVICE kind
  cached,     \* per server: ObDDLEpochMgr's epoch of the tenant; 0: none
  ddlLock,    \* per server: the session whose DDL has ddl_lock_
  masters,    \* take-overs so far
  calls,      \* statements so far
  stmt,       \* per session: its statement
  waiting,    \* per session: the client of its statement waits
  pc,         \* per session: where its DDL is
  server,     \* per session: the server that has its request, or Nobody
  tries,      \* per session: retries so far
  newId,      \* per session: the udf_id of the function that it creates
  myEpoch,    \* per session: trans_start_ddl_epoch_
  outcome     \* per session: what the answer will be

table_vars == <<table, fresh, used, epoch, tenantLock, lastEpoch>>
server_vars == <<inService, cached, ddlLock, masters>>
session_vars == <<calls, stmt, waiting, pc, server, tries, newId, myEpoch, outcome>>
vars == <<table_vars, server_vars, session_vars>>

Ops == {"create", "drop", "drop_if_exists"}
NoStmt == [op |-> "none", name |-> NoRow]
Stmts == [op : Ops, name : Names]
Places == {"idle", "send", "queue", "check", "epoch", "lock", "work", "commit", "doubt", "answer"}
Outcomes == {"pending", "ok", "duplicate", "unknown", "not_master", "error"}

\* Every variable has its type.
TypeOK ==
  /\ table \in [Names -> 1..MaxId \cup {NoRow}]
  /\ fresh \in 1..(MaxId + 1)
  /\ used \subseteq 1..MaxId
  /\ epoch \in Nat /\ lastEpoch \in Nat
  /\ tenantLock \in Sessions \cup {Nobody}
  /\ inService \in [Servers -> BOOLEAN]
  /\ cached \in [Servers -> Nat]
  /\ ddlLock \in [Servers -> Sessions \cup {Nobody}]
  /\ masters \in 0..MaxMasters /\ calls \in 0..MaxCalls
  /\ stmt \in [Sessions -> Stmts \cup {NoStmt}]
  /\ waiting \in [Sessions -> BOOLEAN]
  /\ pc \in [Sessions -> Places]
  /\ server \in [Sessions -> Servers \cup {Nobody}]
  /\ tries \in [Sessions -> 0..RetryTimes]
  /\ newId \in [Sessions -> 1..MaxId \cup {NoRow}]
  /\ myEpoch \in [Sessions -> Nat]
  /\ outcome \in [Sessions -> Outcomes]

\* Functions with ids below FirstId were created earlier; some still exist.
Init ==
  /\ table \in [Names -> 1..(FirstId - 1) \cup {NoRow}]
  /\ \A m, n \in Names : table[m] = table[n] => m = n \/ table[n] = NoRow
  /\ fresh = FirstId
  /\ used = 1..(FirstId - 1)
  /\ epoch = 1
  /\ lastEpoch = 0
  /\ tenantLock = Nobody
  /\ inService = [r \in Servers |-> FALSE]
  /\ cached = [r \in Servers |-> 0]
  /\ ddlLock = [r \in Servers |-> Nobody]
  /\ masters = 0
  /\ calls = 0
  /\ stmt = [s \in Sessions |-> NoStmt]
  /\ waiting = [s \in Sessions |-> TRUE]
  /\ pc = [s \in Sessions |-> "idle"]
  /\ server = [s \in Sessions |-> Nobody]
  /\ tries = [s \in Sessions |-> 0]
  /\ newId = [s \in Sessions |-> NoRow]
  /\ myEpoch = [s \in Sessions |-> 0]
  /\ outcome = [s \in Sessions |-> "pending"]

-----------------------------------------------------------------------------
(* Root servers. *)

\* ObRootService::start_service of the leader of the system log stream: in
\* the end it forgets the epochs it knew as an earlier master.
StartService(r) ==
  /\ ~inService[r]
  /\ masters < MaxMasters
  /\ masters' = masters + 1
  /\ inService' = [inService EXCEPT ![r] = TRUE]
  /\ cached' = [cached EXCEPT ![r] = 0]
  /\ UNCHANGED <<table_vars, ddlLock, session_vars>>

\* revoke_rs and stop_service: the server has learnt that it lost the role.
\* The DDL that it executes goes on; its cache of epochs stays.
StopService(r) ==
  /\ inService[r]
  /\ inService' = [inService EXCEPT ![r] = FALSE]
  /\ UNCHANGED <<table_vars, cached, ddlLock, masters, session_vars>>

-----------------------------------------------------------------------------
(* A session and the server that executes its statement. *)

Goto(s, place) == pc' = [pc EXCEPT ![s] = place]
IsDrop(s) == stmt[s].op # "create"

\* The executor calls create_python_udf or drop_python_udf of the proxy.
Call(s) ==
  /\ pc[s] = "idle"
  /\ calls < MaxCalls
  /\ calls' = calls + 1
  /\ \E c \in Stmts : stmt' = [stmt EXCEPT ![s] = c]
  /\ Goto(s, "send")
  /\ UNCHANGED <<table_vars, server_vars, waiting, server, tries, newId, myEpoch, outcome>>

\* get_master_root_server may name any server: the location may be stale.
Send(s) ==
  /\ pc[s] = "send"
  /\ \E r \in Servers : server' = [server EXCEPT ![s] = r]
  /\ Goto(s, "queue")
  /\ UNCHANGED <<table_vars, server_vars, calls, stmt, waiting, tries, newId, myEpoch, outcome>>

\* What the DDL of the session kept at the server is gone.
ForgetDdl(s) ==
  /\ server' = [server EXCEPT ![s] = Nobody]
  /\ newId' = [newId EXCEPT ![s] = NoRow]
  /\ myEpoch' = [myEpoch EXCEPT ![s] = 0]

\* Variant: ddl_unlock is forgotten when the DDL fails.
LeaveLocked(s, result) ==
  /\ ddlLock' = IF result = "ok" THEN [ddlLock EXCEPT ![server[s]] = Nobody] ELSE ddlLock
  /\ outcome' = [outcome EXCEPT ![s] = result]
  /\ ForgetDdl(s)
  /\ Goto(s, "answer")

\* The DDL leaves the server with this result: ddl_unlock, and any failure of
\* leader_process on a server that is not in service becomes OB_RS_SHUTDOWN.
Leave(s, result) ==
  /\ ddlLock' = [r \in Servers |-> IF ddlLock[r] = s THEN Nobody ELSE ddlLock[r]]
  /\ outcome' = [outcome EXCEPT ![s] =
       IF result # "ok" /\ ~inService[server[s]] /\ ddlLock[server[s]] = s
       THEN "error" ELSE result]
  /\ ForgetDdl(s)
  /\ Goto(s, "answer")

\* follower_process: OB_RS_NOT_MASTER.  A server that is still starting its
\* service answers OB_SERVER_IS_INIT, which the client treats alike.
Refuse(s) ==
  /\ pc[s] = "queue"
  /\ ~inService[server[s]]
  /\ Leave(s, "not_master")
  /\ UNCHANGED <<table_vars, inService, cached, masters, calls, stmt, waiting, tries>>

\* process_: the server is in service, ddl_wlock.
Process(s) ==
  /\ pc[s] = "queue"
  /\ inService[server[s]]
  /\ ddlLock[server[s]] = Nobody
  /\ ddlLock' = [ddlLock EXCEPT ![server[s]] = s]
  /\ Goto(s, "check")
  /\ UNCHANGED <<table_vars, inService, cached, masters, calls, stmt, waiting, server, tries, newId, myEpoch, outcome>>

\* check_python_udf_exist, outside any transaction.  create_python_udf does
\* not look at the result; drop_python_udf ends when there is no function, and
\* has no use for the id it found but the state of dependent objects.
CheckExist(s) ==
  /\ pc[s] = "check"
  /\ IF IsDrop(s) /\ table[stmt[s].name] = NoRow
     THEN Leave(s, IF stmt[s].op = "drop" THEN "unknown" ELSE "ok")
     ELSE /\ Goto(s, "epoch")
          /\ UNCHANGED <<ddlLock, server, newId, myEpoch, outcome>>
  /\ UNCHANGED <<table_vars, inService, cached, masters, calls, stmt, waiting, tries>>

\* The transaction of a DDL has the row of the epoch from the comparison to
\* its end.  The comparison and a commit with a known end are one step.
EpochLocked == \E s \in Sessions : pc[s] = "doubt"

\* lock_all_ddl_operation: the cached epoch of the tenant, or, on a server
\* in service, a new one that promote_ddl_epoch writes to the inner table; it
\* may fail after that (refresh of the schema), and the server caches none.
GetEpoch(s) ==
  LET r == server[s] IN
  /\ pc[s] = "epoch"
  /\ \/ /\ cached[r] # 0
        /\ myEpoch' = [myEpoch EXCEPT ![s] = cached[r]]
        /\ Goto(s, "lock")
        /\ UNCHANGED <<epoch, cached, ddlLock, server, newId, outcome>>
     \/ /\ cached[r] = 0
        /\ inService[r]
        /\ ~EpochLocked
        /\ epoch' = epoch + 1
        /\ Leave(s, "error")
        /\ UNCHANGED cached
     \/ /\ cached[r] = 0
        /\ inService[r]
        /\ ~EpochLocked
        /\ epoch' = epoch + 1
        /\ cached' = [cached EXCEPT ![r] = epoch + 1]
        /\ myEpoch' = [myEpoch EXCEPT ![s] = epoch + 1]
        /\ Goto(s, "lock")
        /\ UNCHANGED <<ddlLock, server, newId, outcome>>
     \/ /\ cached[r] = 0
        /\ ~inService[r]
        /\ Leave(s, "not_master")
        /\ UNCHANGED <<epoch, cached>>
  /\ UNCHANGED <<table, fresh, used, tenantLock, lastEpoch, inService, masters, calls, stmt, waiting, tries>>

\* lock_obj on the tenant, exclusive.  The schema version that start()
\* compares afterwards is the one read before, whatever Python UDF DDL ran.
LockTenant(s) ==
  /\ pc[s] = "lock"
  /\ tenantLock = Nobody
  /\ tenantLock' = s
  /\ Goto(s, "work")
  /\ UNCHANGED <<table, fresh, used, epoch, lastEpoch, server_vars, calls, stmt, waiting, server, tries, newId, myEpoch, outcome>>

Unlock(s) == tenantLock' = IF tenantLock = s THEN Nobody ELSE tenantLock

\* Variant: the row is written with REPLACE instead of INSERT.
ChangeRowReplace(s) ==
  /\ pc[s] = "work"
  /\ \/ /\ ~IsDrop(s)
        /\ fresh <= MaxId
        /\ newId' = [newId EXCEPT ![s] = fresh]
        /\ fresh' = fresh + 1
        /\ Goto(s, "commit")
        /\ UNCHANGED <<tenantLock, ddlLock, server, myEpoch, outcome>>
     \/ /\ IsDrop(s)
        /\ table[stmt[s].name] # NoRow
        /\ Goto(s, "commit")
        /\ UNCHANGED <<tenantLock, ddlLock, server, newId, myEpoch, outcome, fresh>>
     \/ /\ IsDrop(s)
        /\ table[stmt[s].name] = NoRow
        /\ Leave(s, "error")
        /\ Unlock(s)
        /\ UNCHANGED fresh
  /\ UNCHANGED <<table, used, epoch, lastEpoch, inService, cached, masters, calls, stmt, waiting, tries>>

\* ObDDLOperator: INSERT with a new id, which fails when the key exists, or
\* DELETE by name, which must hit one row (affected_rows).
ChangeRow(s) ==
  /\ pc[s] = "work"
  /\ \/ /\ ~IsDrop(s)
        /\ table[stmt[s].name] = NoRow
        /\ fresh <= MaxId
        /\ newId' = [newId EXCEPT ![s] = fresh]
        /\ fresh' = fresh + 1
        /\ Goto(s, "commit")
        /\ UNCHANGED <<tenantLock, ddlLock, server, myEpoch, outcome>>
     \/ /\ ~IsDrop(s)
        /\ table[stmt[s].name] # NoRow
        /\ Leave(s, "duplicate")
        /\ Unlock(s)
        /\ UNCHANGED fresh
     \/ /\ IsDrop(s)
        /\ table[stmt[s].name] # NoRow
        /\ Goto(s, "commit")
        /\ UNCHANGED <<tenantLock, ddlLock, server, newId, myEpoch, outcome, fresh>>
     \/ /\ IsDrop(s)
        /\ table[stmt[s].name] = NoRow
        /\ Leave(s, "error")
        /\ Unlock(s)
        /\ UNCHANGED fresh
  /\ UNCHANGED <<table, used, epoch, lastEpoch, inService, cached, masters, calls, stmt, waiting, tries>>

\* The transaction commits: the row changes and the lock of the tenant is free.
Apply(s) ==
  /\ table' = [table EXCEPT ![stmt[s].name] = IF IsDrop(s) THEN NoRow ELSE newId[s]]
  /\ used' = IF IsDrop(s) THEN used ELSE used \cup {newId[s]}
  /\ lastEpoch' = myEpoch[s]
  /\ Unlock(s)
  /\ Leave(s, "ok")
  /\ UNCHANGED <<fresh, epoch, inService, cached, masters, calls, stmt, waiting, tries>>

\* Variant: the epoch is not compared.
CommitUnfenced(s) ==
  /\ pc[s] = "commit"
  /\ Apply(s)

\* trans.end(true): check_and_lock_ddl_epoch, then the commit, in which the
\* row of the epoch stays locked.  publish_schema never fails the statement.
Commit(s) ==
  /\ pc[s] = "commit"
  /\ myEpoch[s] = epoch
  /\ Apply(s)

\* trans.end(true) ends with a timeout or an unknown result, or its server
\* dies: the client is told an error, the DDL lock is free, and the
\* transaction keeps its locks until it commits or aborts by itself.
CommitUnknown(s) ==
  /\ pc[s] = "commit"
  /\ myEpoch[s] = epoch
  /\ waiting' = [waiting EXCEPT ![s] = FALSE]
  /\ tries' = [tries EXCEPT ![s] = 0]
  /\ ddlLock' = [r \in Servers |-> IF ddlLock[r] = s THEN Nobody ELSE ddlLock[r]]
  /\ Goto(s, "doubt")
  /\ UNCHANGED <<table_vars, inService, cached, masters, calls, stmt, server, newId, myEpoch, outcome>>

\* The transaction of which nobody waits for the result commits.
CommitLate(s) ==
  /\ pc[s] = "doubt"
  /\ Apply(s)

\* The epoch has changed: rollback, and the server forgets its epoch.
EpochChanged(s) ==
  /\ pc[s] = "commit"
  /\ myEpoch[s] # epoch
  /\ cached' = [cached EXCEPT ![server[s]] = 0]
  /\ Unlock(s)
  /\ Leave(s, "not_master")
  /\ UNCHANGED <<table, fresh, used, epoch, lastEpoch, inService, masters, calls, stmt, waiting, tries>>

\* The request is refused or lost in the queue, a statement of the DDL fails
\* (sql_proxy_ inactive, timeout, lost leader, a schema version that other DDL
\* has changed) or a transaction in doubt aborts: rollback.
Fail(s) ==
  /\ pc[s] \in {"queue", "check", "epoch", "lock", "work", "commit", "doubt"}
  /\ Unlock(s)
  /\ Leave(s, "error")
  /\ UNCHANGED <<table, fresh, used, epoch, lastEpoch, inService, cached, masters, calls, stmt, waiting, tries>>

\* The RPC of the client times out, or its server or the answer is lost: the
\* client is told an error and the request goes on without it.
Timeout(s) ==
  /\ pc[s] \notin {"idle", "send"}
  /\ waiting[s]
  /\ waiting' = [waiting EXCEPT ![s] = FALSE]
  /\ tries' = [tries EXCEPT ![s] = 0]
  /\ UNCHANGED <<table_vars, server_vars, calls, stmt, pc, server, newId, myEpoch, outcome>>

\* Variant: the retries are not counted.
RetryUnbounded(s) ==
  /\ pc[s] = "answer"
  /\ outcome[s] = "not_master"
  /\ waiting[s]
  /\ tries' = [tries EXCEPT ![s] = @ + 1]
  /\ outcome' = [outcome EXCEPT ![s] = "pending"]
  /\ Goto(s, "send")
  /\ UNCHANGED <<table_vars, server_vars, calls, stmt, waiting, server, newId, myEpoch>>

\* CALL_WITH_RETRY: OB_RS_NOT_MASTER, and nothing else, is sent again, to the
\* master known now.
Retry(s) ==
  /\ pc[s] = "answer"
  /\ outcome[s] = "not_master"
  /\ waiting[s]
  /\ tries[s] < RetryTimes
  /\ tries' = [tries EXCEPT ![s] = @ + 1]
  /\ outcome' = [outcome EXCEPT ![s] = "pending"]
  /\ Goto(s, "send")
  /\ UNCHANGED <<table_vars, server_vars, calls, stmt, waiting, server, newId, myEpoch>>

\* The statement ends: its client, when it still waits, gets the outcome, or an
\* error when no master can be found to send it to (again).
Answer(s) ==
  /\ pc[s] \in {"send", "answer"}
  /\ stmt' = [stmt EXCEPT ![s] = NoStmt]
  /\ waiting' = [waiting EXCEPT ![s] = TRUE]
  /\ tries' = [tries EXCEPT ![s] = 0]
  /\ outcome' = [outcome EXCEPT ![s] = "pending"]
  /\ Goto(s, "idle")
  /\ UNCHANGED <<table_vars, server_vars, calls, server, newId, myEpoch>>

-----------------------------------------------------------------------------

Step(s) ==
  \/ Send(s) \/ Refuse(s) \/ Process(s) \/ CheckExist(s) \/ GetEpoch(s)
  \/ LockTenant(s) \/ ChangeRow(s) \/ Commit(s) \/ CommitLate(s) \/ EpochChanged(s)
  \/ Retry(s) \/ Answer(s)

Fault(s) == Fail(s) \/ Timeout(s) \/ CommitUnknown(s)

Next ==
  \/ \E r \in Servers : StartService(r) \/ StopService(r)
  \/ \E s \in Sessions : Call(s) \/ Step(s) \/ Fault(s)

Spec == Init /\ [][Next]_vars

(***************************************************************************)
(* Every thread is run.  A lock that is free again and again is obtained;  *)
(* the code bounds every wait by a timeout, which the model does not need. *)
(* A transaction in doubt ends: the commit protocol goes on without the    *)
(* thread that waited for it.                                              *)
(***************************************************************************)
Fairness == \A s \in Sessions : SF_vars(Step(s))

FairSpec == Spec /\ Fairness

-----------------------------------------------------------------------------
(* Properties. *)

\* A statement that has its outcome at the server shows it to UdfTable; the
\* ones that failed or will be tried again show "pending".
AbsOutcome ==
  [s \in Sessions |-> IF outcome[s] \in {"not_master", "error"} THEN "pending" ELSE outcome[s]]

Abs == INSTANCE UdfTable WITH call <- stmt, outcome <- AbsOutcome

\* The protocol of check, epoch, lock, change and commit implements one map:
\* every statement that is answered with a result took effect exactly once,
\* between its call and its answer, and told the truth about that moment,
\* also when two servers believe to be the master and when it was retried.
\* One that is answered with an error, because it failed, its RPC timed out
\* or its commit has an unknown result, takes effect at most once, perhaps
\* after its answer.
ImplementsTable == Abs!AbsSpec

\* DDL commits in the order of epochs: once a newer master has committed, no
\* transaction that an older one began commits any more (check_and_lock_ddl_epoch).
CommitsInEpochOrder == [][lastEpoch' >= lastEpoch]_vars

\* Every CREATE or DROP statement is answered in the end.
StatementsEnd == \A s \in Sessions : pc[s] # "idle" ~> pc[s] = "idle"
=============================================================================
