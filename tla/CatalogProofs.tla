--------------------------- MODULE CatalogProofs ---------------------------
(***************************************************************************)
(* Proofs about CREATE and DROP PYTHON_UDF: the types, the order of the    *)
(* epochs, and that the protocol implements UdfTable, for any number of    *)
(* servers, sessions, names, take-overs and retries.  The lock of the      *)
(* tenant carries the argument: from the change of the row to the end of   *)
(* the transaction, also of one in doubt, no other session can change the  *)
(* table or use an id; the lock of the epoch's row does the same for it.   *)
(***************************************************************************)
EXTENDS UdfCatalog, TLAPS

\* The transaction of the session has changed its row and has not ended.
Ending(s) == pc[s] \in {"commit", "doubt"}

\* What a session knows where its DDL is.
SessionFits(s) ==
  /\ pc[s] = "idle" => stmt[s] = NoStmt
  /\ pc[s] # "idle" => stmt[s] \in Stmts
  /\ pc[s] # "answer" => outcome[s] = "pending"
  /\ pc[s] \notin {"idle", "send", "answer"} => server[s] \in Servers
  /\ pc[s] \in {"work", "commit", "doubt"} => tenantLock = s
  /\ pc[s] = "doubt" => myEpoch[s] = epoch
  /\ Ending(s) /\ IsDrop(s) => table[stmt[s].name] # NoRow
  /\ Ending(s) /\ ~IsDrop(s) =>
       /\ table[stmt[s].name] = NoRow
       /\ newId[s] \in 1..MaxId \ used
       /\ newId[s] < fresh

IndInv ==
  /\ TypeOK
  /\ lastEpoch <= epoch
  /\ \A i \in used : i < fresh
  /\ \A s \in Sessions : SessionFits(s)

-----------------------------------------------------------------------------

\* What Leave does to the places, the answers and what the server knew.
LEMMA LeaveFacts ==
  ASSUME TypeOK, NEW s \in Sessions, NEW result \in Outcomes, Leave(s, result)
  PROVE  /\ ddlLock' \in [Servers -> Sessions \cup {Nobody}]
         /\ pc' = [pc EXCEPT ![s] = "answer"]
         /\ server' = [server EXCEPT ![s] = Nobody]
         /\ newId' = [newId EXCEPT ![s] = NoRow]
         /\ myEpoch' = [myEpoch EXCEPT ![s] = 0]
         /\ \E o \in Outcomes :
              /\ outcome' = [outcome EXCEPT ![s] = o]
              /\ result = "ok" => o = "ok"
              /\ o \in {result, "error"}
<1>1. ddlLock' \in [Servers -> Sessions \cup {Nobody}]
  BY DEF Leave, TypeOK
<1>2. /\ pc' = [pc EXCEPT ![s] = "answer"]
      /\ server' = [server EXCEPT ![s] = Nobody]
      /\ newId' = [newId EXCEPT ![s] = NoRow]
      /\ myEpoch' = [myEpoch EXCEPT ![s] = 0]
  BY DEF Leave, Goto, ForgetDdl
<1>3. \E o \in Outcomes :
        /\ outcome' = [outcome EXCEPT ![s] = o]
        /\ result = "ok" => o = "ok"
        /\ o \in {result, "error"}
  <2> DEFINE o == IF result # "ok" /\ ~inService[server[s]] /\ ddlLock[server[s]] = s
                  THEN "error" ELSE result
  <2>1. o \in Outcomes /\ (result = "ok" => o = "ok") /\ o \in {result, "error"}
    BY DEF Outcomes
  <2>2. outcome' = [outcome EXCEPT ![s] = o]
    BY DEF Leave
  <2> QED BY <2>1, <2>2
<1> QED BY <1>1, <1>2, <1>3

\* A session keeps its part of the invariant in a step of another one: no
\* lock is taken from it, and the rows and the epoch change only when it is
\* not ending its transaction.
LEMMA OtherSession ==
  ASSUME TypeOK, TypeOK', NEW u \in Sessions, SessionFits(u),
         pc'[u] = pc[u], stmt'[u] = stmt[u], outcome'[u] = outcome[u], newId'[u] = newId[u],
         server'[u] = server[u], myEpoch'[u] = myEpoch[u],
         tenantLock = u => tenantLock' = u,
         fresh <= fresh',
         pc[u] = "doubt" => epoch' = epoch,
         Ending(u) => table' = table /\ used' = used
  PROVE  SessionFits(u)'
<1>1. fresh \in Int /\ fresh' \in Int
  BY DEF TypeOK
<1>2. (IsDrop(u)' <=> IsDrop(u)) /\ (Ending(u)' <=> Ending(u))
  BY DEF IsDrop, Ending
<1>3. CASE ~Ending(u)
  BY <1>3, <1>2 DEF SessionFits, Ending
<1>4. CASE Ending(u) /\ IsDrop(u)
  BY <1>4, <1>2 DEF SessionFits
<1>5. CASE Ending(u) /\ ~IsDrop(u)
  <2>1. newId[u] \in 1..MaxId \ used /\ newId[u] < fresh
    BY <1>5 DEF SessionFits
  <2>2. newId[u] < fresh'
    BY <2>1, <1>1
  <2> QED BY <1>5, <1>2, <2>1, <2>2 DEF SessionFits
<1> QED BY <1>3, <1>4, <1>5

\* Initially every session is idle.
LEMMA InitInv == Init => IndInv
<1> SUFFICES ASSUME Init PROVE IndInv
  OBVIOUS
<1>1. TypeOK
  <2>1. inService \in [Servers -> BOOLEAN] /\ waiting \in [Sessions -> BOOLEAN]
    BY Zenon DEF Init
  <2>2. stmt \in [Sessions -> Stmts \cup {NoStmt}]
    BY DEF Init
  <2>3. /\ table \in [Names -> 1..MaxId \cup {NoRow}]
        /\ fresh \in 1..(MaxId + 1) /\ used \subseteq 1..MaxId
    BY CatalogAssumption DEF Init
  <2> QED BY <2>1, <2>2, <2>3, CatalogAssumption DEF Init, TypeOK, Places, Outcomes
<1>2. ASSUME NEW s \in Sessions PROVE SessionFits(s)
  BY DEF Init, SessionFits, Ending
<1>3. \A i \in used : i < fresh
  BY CatalogAssumption DEF Init
<1> QED BY <1>1, <1>2, <1>3 DEF IndInv, Init

\* The servers take and lose the role of master.
LEMMA ServersInv ==
  ASSUME IndInv, NEW r \in Servers, StartService(r) \/ StopService(r)
  PROVE  IndInv'
<1>0. TypeOK /\ lastEpoch <= epoch /\ (\A i \in used : i < fresh)
      /\ \A u \in Sessions : SessionFits(u)
  BY DEF IndInv
<1>1. UNCHANGED <<table, fresh, used, epoch, tenantLock, lastEpoch, ddlLock, calls, stmt, waiting,
                  pc, server, tries, newId, myEpoch, outcome>>
  BY DEF StartService, StopService, table_vars, session_vars
<1>2. /\ inService' \in [Servers -> BOOLEAN]
      /\ cached' \in [Servers -> Nat]
      /\ masters' \in 0..MaxMasters
  <2>1. CASE StartService(r)
    BY <2>1, <1>0, CatalogAssumption DEF StartService, TypeOK
  <2>2. CASE StopService(r)
    BY <2>2, <1>0 DEF StopService, TypeOK
  <2> QED BY <2>1, <2>2
<1>3. TypeOK'
  BY <1>0, <1>1, <1>2 DEF TypeOK
<1>4. \A u \in Sessions : SessionFits(u)'
  BY <1>0, <1>1 DEF SessionFits, IsDrop, Ending
<1> QED BY <1>0, <1>1, <1>3, <1>4 DEF IndInv

\* The steps of a session before the lock of the tenant, outside the server,
\* and the ones that leave the server without a change of the table.  What
\* they have in common is stated once.
LEMMA QuietInv ==
  ASSUME IndInv, TypeOK', NEW s \in Sessions,
         UNCHANGED <<table, used, lastEpoch>>, fresh' = fresh, epoch <= epoch',
         epoch' = epoch \/ \A u \in Sessions : pc[u] # "doubt",
         \A u \in Sessions \ {s} :
           /\ pc'[u] = pc[u] /\ stmt'[u] = stmt[u]
           /\ outcome'[u] = outcome[u] /\ newId'[u] = newId[u]
           /\ server'[u] = server[u] /\ myEpoch'[u] = myEpoch[u],
         tenantLock' = tenantLock \/ tenantLock' = (IF tenantLock = s THEN Nobody ELSE tenantLock),
         pc'[s] \notin {"work", "commit", "doubt"},
         pc'[s] = "idle" => stmt'[s] = NoStmt,
         pc'[s] # "idle" => stmt'[s] \in Stmts,
         pc'[s] # "answer" => outcome'[s] = "pending",
         pc'[s] \notin {"idle", "send", "answer"} => server'[s] \in Servers
  PROVE  IndInv'
<1>0. TypeOK /\ lastEpoch <= epoch /\ (\A i \in used : i < fresh)
      /\ \A u \in Sessions : SessionFits(u)
  BY DEF IndInv
<1>1. lastEpoch' <= epoch'
  BY <1>0 DEF TypeOK
<1>2. SessionFits(s)'
  BY DEF SessionFits, Ending
<1>3. ASSUME NEW u \in Sessions, u # s PROVE SessionFits(u)'
  <2>1. tenantLock = u => tenantLock' = u
    BY <1>3
  <2>2. fresh <= fresh'
    BY <1>0 DEF TypeOK
  <2>3. pc[u] = "doubt" => epoch' = epoch
    OBVIOUS
  <2>4. /\ pc'[u] = pc[u] /\ stmt'[u] = stmt[u]
        /\ outcome'[u] = outcome[u] /\ newId'[u] = newId[u]
        /\ server'[u] = server[u] /\ myEpoch'[u] = myEpoch[u]
    BY <1>3
  <2> QED BY <1>0, <1>3, <2>1, <2>2, <2>3, <2>4, OtherSession
<1> QED BY <1>0, <1>1, <1>2, <1>3 DEF IndInv

\* The client's side: call, send, retry and answer.
LEMMA ClientInv ==
  ASSUME IndInv, NEW s \in Sessions, Call(s) \/ Send(s) \/ Retry(s) \/ Answer(s)
  PROVE  IndInv'
<1>0. TypeOK /\ SessionFits(s)
  BY DEF IndInv
<1>1. UNCHANGED <<table, fresh, used, epoch, tenantLock, lastEpoch,
                  inService, cached, ddlLock, masters>>
  BY DEF Call, Send, Retry, Answer, table_vars, server_vars
<1>2. epoch <= epoch'
  BY <1>0, <1>1 DEF TypeOK
<1>3. CASE Call(s)
  <2>1. PICK c \in Stmts : stmt' = [stmt EXCEPT ![s] = c]
    BY <1>3 DEF Call
  <2>2. /\ calls' \in 0..MaxCalls
        /\ pc[s] = "idle" /\ pc' = [pc EXCEPT ![s] = "send"]
        /\ UNCHANGED <<waiting, server, tries, newId, myEpoch, outcome>>
    BY <1>3, <1>0, CatalogAssumption DEF Call, Goto, TypeOK
  <2>3. TypeOK'
    BY <1>0, <1>1, <2>1, <2>2, CatalogAssumption DEF TypeOK, Places, Outcomes
  <2>4. outcome[s] = "pending"
    BY <1>0, <2>2 DEF SessionFits
  <2> QED BY <1>0, <1>1, <1>2, <2>1, <2>2, <2>3, <2>4, QuietInv DEF TypeOK
<1>4. CASE Send(s)
  <2>1. PICK r \in Servers : server' = [server EXCEPT ![s] = r]
    BY <1>4 DEF Send
  <2>2. /\ pc[s] = "send"
        /\ pc' = [pc EXCEPT ![s] = "queue"]
        /\ UNCHANGED <<calls, stmt, waiting, tries, newId, myEpoch, outcome>>
    BY <1>4 DEF Send, Goto
  <2>3. TypeOK'
    BY <1>0, <1>1, <2>1, <2>2 DEF TypeOK, Places
  <2>4. stmt[s] \in Stmts /\ outcome[s] = "pending"
    BY <1>0, <2>2 DEF SessionFits
  <2> QED BY <1>0, <1>1, <1>2, <2>1, <2>2, <2>3, <2>4, QuietInv DEF TypeOK
<1>5. CASE Retry(s)
  <2>1. /\ pc[s] = "answer" /\ tries[s] < RetryTimes
        /\ tries' = [tries EXCEPT ![s] = tries[s] + 1]
        /\ outcome' = [outcome EXCEPT ![s] = "pending"]
        /\ pc' = [pc EXCEPT ![s] = "send"]
        /\ UNCHANGED <<calls, stmt, waiting, server, newId, myEpoch>>
    BY <1>5 DEF Retry, Goto
  <2>4. /\ tries' \in [Sessions -> 0..RetryTimes] /\ pc' \in [Sessions -> Places]
        /\ outcome' \in [Sessions -> Outcomes]
    BY <1>0, <2>1, CatalogAssumption DEF TypeOK, Places, Outcomes
  <2>2. TypeOK'
    BY <1>0, <1>1, <2>1, <2>4 DEF TypeOK
  <2>3. stmt[s] \in Stmts
    BY <1>0, <2>1 DEF SessionFits
  <2> QED BY <1>0, <1>1, <1>2, <2>1, <2>2, <2>3, QuietInv DEF TypeOK
<1>6. CASE Answer(s)
  <2>1. /\ stmt' = [stmt EXCEPT ![s] = NoStmt]
        /\ tries' = [tries EXCEPT ![s] = 0]
        /\ outcome' = [outcome EXCEPT ![s] = "pending"]
        /\ pc' = [pc EXCEPT ![s] = "idle"]
        /\ UNCHANGED <<calls, server, newId, myEpoch>>
    BY <1>6 DEF Answer, Goto
  <2>2. waiting' \in [Sessions -> BOOLEAN]
    BY <1>0, <1>6 DEF Answer, TypeOK
  <2>4. /\ tries' \in [Sessions -> 0..RetryTimes] /\ pc' \in [Sessions -> Places]
        /\ outcome' \in [Sessions -> Outcomes]
        /\ stmt' \in [Sessions -> Stmts \cup {NoStmt}]
    BY <1>0, <2>1, CatalogAssumption DEF TypeOK, Places, Outcomes
  <2>3. TypeOK'
    BY <1>0, <1>1, <2>1, <2>2, <2>4 DEF TypeOK
  <2> QED BY <1>0, <1>1, <1>2, <2>1, <2>3, QuietInv DEF TypeOK
<1> QED BY <1>3, <1>4, <1>5, <1>6

\* The client gives up: only that it no longer waits is seen.
LEMMA TimeoutInv == ASSUME IndInv, NEW s \in Sessions, Timeout(s) PROVE IndInv'
<1>0. TypeOK /\ lastEpoch <= epoch /\ (\A i \in used : i < fresh)
      /\ \A u \in Sessions : SessionFits(u)
  BY DEF IndInv
<1>1. UNCHANGED <<table, fresh, used, epoch, tenantLock, lastEpoch, inService, cached, ddlLock,
                  masters, calls, stmt, pc, server, newId, myEpoch, outcome>>
  BY DEF Timeout, table_vars, server_vars
<1>2. waiting' \in [Sessions -> BOOLEAN]
  BY <1>0 DEF Timeout, TypeOK
<1>3. tries' \in [Sessions -> 0..RetryTimes]
  BY <1>0, CatalogAssumption DEF Timeout, TypeOK
<1>4. TypeOK'
  BY <1>0, <1>1, <1>2, <1>3 DEF TypeOK
<1>5. \A u \in Sessions : SessionFits(u)'
  BY <1>0, <1>1 DEF SessionFits, IsDrop, Ending
<1> QED BY <1>0, <1>1, <1>4, <1>5 DEF IndInv

\* A DDL leaves the server, with any result, and has changed no row.
LEMMA LeaveInv ==
  ASSUME IndInv, NEW s \in Sessions, NEW result \in Outcomes, Leave(s, result),
         pc[s] # "idle",
         UNCHANGED <<table, fresh, used, lastEpoch, inService, masters, calls, stmt,
                     waiting, tries>>,
         epoch' \in Nat, epoch <= epoch',
         epoch' = epoch \/ \A u \in Sessions : pc[u] # "doubt",
         cached' \in [Servers -> Nat],
         tenantLock' = tenantLock \/ Unlock(s)
  PROVE  IndInv'
<1>0. TypeOK /\ SessionFits(s)
  BY DEF IndInv
<1>1. PICK o \in Outcomes : outcome' = [outcome EXCEPT ![s] = o]
  BY <1>0, LeaveFacts
<1>2. /\ pc' = [pc EXCEPT ![s] = "answer"] /\ ddlLock' \in [Servers -> Sessions \cup {Nobody}]
      /\ server' = [server EXCEPT ![s] = Nobody]
      /\ newId' = [newId EXCEPT ![s] = NoRow]
      /\ myEpoch' = [myEpoch EXCEPT ![s] = 0]
  BY <1>0, LeaveFacts
<1>4. tenantLock' = tenantLock \/ tenantLock' = (IF tenantLock = s THEN Nobody ELSE tenantLock)
  BY DEF Unlock
<1>5. tenantLock' \in Sessions \cup {Nobody}
  BY <1>0, <1>4 DEF TypeOK
<1>6. /\ pc' \in [Sessions -> Places] /\ outcome' \in [Sessions -> Outcomes]
      /\ newId' \in [Sessions -> 1..MaxId \cup {NoRow}]
      /\ server' \in [Sessions -> Servers \cup {Nobody}]
      /\ myEpoch' \in [Sessions -> Nat]
  BY <1>0, <1>1, <1>2 DEF TypeOK, Places
<1>7. TypeOK'
  BY <1>0, <1>2, <1>5, <1>6 DEF TypeOK
<1>8. stmt[s] \in Stmts /\ pc'[s] = "answer"
  BY <1>0, <1>2 DEF SessionFits, TypeOK
<1> QED BY <1>0, <1>1, <1>2, <1>4, <1>7, <1>8, QuietInv DEF TypeOK

\* At the server, up to the lock of the tenant.
LEMMA ServeInv ==
  ASSUME IndInv, NEW s \in Sessions,
         Refuse(s) \/ Process(s) \/ CheckExist(s) \/ GetEpoch(s) \/ EpochChanged(s) \/ Fail(s)
  PROVE  IndInv'
<1>0. TypeOK /\ SessionFits(s)
  BY DEF IndInv
<1>b. {"not_master", "error", "unknown", "ok"} \subseteq Outcomes
  BY DEF Outcomes
<1>c. epoch \in Nat /\ epoch <= epoch
  BY <1>0 DEF TypeOK
<1>1. CASE Refuse(s)
  <2>1. /\ Leave(s, "not_master") /\ pc[s] # "idle"
        /\ UNCHANGED <<table, fresh, used, epoch, tenantLock, lastEpoch, inService, cached,
                       masters, calls, stmt, waiting, tries>>
    BY <1>1 DEF Refuse, table_vars
  <2>2. cached' \in [Servers -> Nat]
    BY <2>1, <1>0 DEF TypeOK
  <2> QED BY <2>1, <2>2, <1>b, <1>c, LeaveInv
<1>2. CASE Process(s)
  <2>1. /\ pc[s] = "queue"
        /\ ddlLock' = [ddlLock EXCEPT ![server[s]] = s]
        /\ pc' = [pc EXCEPT ![s] = "check"]
        /\ UNCHANGED <<table, fresh, used, epoch, tenantLock, lastEpoch, inService, cached,
                       masters, calls, stmt, waiting, server, tries, newId, myEpoch, outcome>>
    BY <1>2 DEF Process, Goto, table_vars
  <2>2. TypeOK'
    BY <1>0, <2>1 DEF TypeOK, Places
  <2>3. stmt[s] \in Stmts /\ outcome[s] = "pending" /\ server[s] \in Servers /\ epoch <= epoch'
    BY <1>0, <2>1 DEF SessionFits, TypeOK
  <2> QED BY <1>0, <2>1, <2>2, <2>3, QuietInv DEF TypeOK
<1>3. CASE CheckExist(s)
  <2>1. /\ pc[s] = "check" /\ stmt[s] \in Stmts /\ outcome[s] = "pending"
        /\ server[s] \in Servers
        /\ UNCHANGED <<table, fresh, used, epoch, tenantLock, lastEpoch, inService, cached,
                       masters, calls, stmt, waiting, tries>>
    BY <1>3, <1>0 DEF CheckExist, SessionFits, table_vars
  <2>2. cached' \in [Servers -> Nat]
    BY <1>0, <2>1 DEF TypeOK
  <2>3. CASE \E result \in {"unknown", "ok"} : Leave(s, result)
    BY <2>1, <2>2, <2>3, <1>b, <1>c, LeaveInv
  <2>4. CASE pc' = [pc EXCEPT ![s] = "epoch"]
             /\ UNCHANGED <<ddlLock, server, newId, myEpoch, outcome>>
    <3>1. pc' \in [Sessions -> Places]
      BY <1>0, <2>1, <2>4 DEF TypeOK, Places
    <3>2. TypeOK'
      BY <1>0, <2>1, <2>4, <3>1 DEF TypeOK
    <3>3. epoch <= epoch'
      BY <1>0, <2>1 DEF TypeOK
    <3> QED BY <1>0, <2>1, <2>4, <3>2, <3>3, QuietInv DEF TypeOK
  <2> QED BY <1>3, <2>3, <2>4 DEF CheckExist, Goto
<1>4. CASE GetEpoch(s)
  <2>1. /\ pc[s] = "epoch" /\ stmt[s] \in Stmts /\ outcome[s] = "pending" /\ server[s] \in Servers
        /\ UNCHANGED <<table, fresh, used, tenantLock, lastEpoch, inService, masters, calls,
                       stmt, waiting, tries>>
    BY <1>4, <1>0 DEF GetEpoch, SessionFits, TypeOK
  <2>0. epoch' = epoch \/ (epoch' = epoch + 1 /\ \A u \in Sessions : pc[u] # "doubt")
    BY <1>4 DEF GetEpoch, EpochLocked
  <2>5. epoch' \in Nat /\ epoch <= epoch'
    BY <2>0, <1>c
  <2>2. CASE \E result \in {"not_master", "error"} : Leave(s, result) /\ UNCHANGED cached
    <3>1. cached' \in [Servers -> Nat]
      BY <2>2, <1>0 DEF TypeOK
    <3> QED BY <2>0, <2>1, <2>2, <2>5, <3>1, <1>b, LeaveInv
  <2>3. CASE ~\E result \in {"not_master", "error"} : Leave(s, result) /\ UNCHANGED cached
    <3>1. /\ pc' = [pc EXCEPT ![s] = "lock"] /\ UNCHANGED <<ddlLock, server, newId, outcome>>
          /\ \/ /\ epoch' = epoch /\ cached' = cached
                /\ myEpoch' = [myEpoch EXCEPT ![s] = cached[server[s]]]
             \/ /\ epoch' = epoch + 1
                /\ cached' = [cached EXCEPT ![server[s]] = epoch + 1]
                /\ myEpoch' = [myEpoch EXCEPT ![s] = epoch + 1]
      BY <1>4, <2>3 DEF GetEpoch, Goto
    <3>2. cached' \in [Servers -> Nat] /\ myEpoch' \in [Sessions -> Nat]
      BY <1>0, <2>1, <3>1 DEF TypeOK
    <3>3. pc' \in [Sessions -> Places]
      BY <1>0, <3>1 DEF TypeOK, Places
    <3>4. TypeOK'
      BY <1>0, <2>1, <2>5, <3>1, <3>2, <3>3 DEF TypeOK
    <3> QED BY <1>0, <2>0, <2>1, <2>5, <3>1, <3>4, QuietInv DEF TypeOK
  <2> QED BY <2>2, <2>3
<1>5. CASE EpochChanged(s)
  <2>1. /\ Leave(s, "not_master") /\ pc[s] # "idle" /\ Unlock(s)
        /\ cached' = [cached EXCEPT ![server[s]] = 0]
        /\ UNCHANGED <<table, fresh, used, epoch, lastEpoch, inService, masters, calls, stmt,
                       waiting, tries>>
    BY <1>5 DEF EpochChanged
  <2>2. cached' \in [Servers -> Nat]
    BY <2>1, <1>0 DEF TypeOK
  <2> QED BY <2>1, <2>2, <1>b, <1>c, LeaveInv
<1>6. CASE Fail(s)
  <2>1. /\ Leave(s, "error") /\ pc[s] # "idle" /\ Unlock(s)
        /\ UNCHANGED <<table, fresh, used, epoch, lastEpoch, inService, cached, masters, calls,
                       stmt, waiting, tries>>
    BY <1>6 DEF Fail
  <2>2. cached' \in [Servers -> Nat]
    BY <2>1, <1>0 DEF TypeOK
  <2> QED BY <2>1, <2>2, <1>b, <1>c, LeaveInv
<1> QED BY <1>1, <1>2, <1>3, <1>4, <1>5, <1>6

\* Under the lock of the tenant, up to the change of the row, and the commit
\* with an unknown end.
LEMMA LockedInv ==
  ASSUME IndInv, NEW s \in Sessions, LockTenant(s) \/ ChangeRow(s) \/ CommitUnknown(s)
  PROVE  IndInv'
<1>0. TypeOK /\ SessionFits(s) /\ lastEpoch <= epoch /\ (\A i \in used : i < fresh)
      /\ \A u \in Sessions : SessionFits(u)
  BY DEF IndInv
<1>1. UNCHANGED <<table, used, epoch, lastEpoch, inService, cached, masters, calls, stmt>>
  BY DEF LockTenant, ChangeRow, CommitUnknown, table_vars, server_vars
<1>2. fresh \in Int /\ MaxId \in Int /\ used \subseteq Int
  BY <1>0, CatalogAssumption DEF TypeOK
<1>3. CASE LockTenant(s)
  <2>1. /\ pc[s] = "lock" /\ tenantLock = Nobody /\ tenantLock' = s
        /\ pc' = [pc EXCEPT ![s] = "work"]
        /\ UNCHANGED <<fresh, ddlLock, waiting, server, tries, newId, myEpoch, outcome>>
    BY <1>3 DEF LockTenant, Goto, server_vars
  <2>2. pc' \in [Sessions -> Places]
    BY <1>0, <2>1 DEF TypeOK, Places
  <2>3. TypeOK'
    BY <1>0, <1>1, <2>1, <2>2 DEF TypeOK
  <2>4. SessionFits(s)'
    <3>1. pc'[s] = "work"
      BY <1>0, <2>1 DEF TypeOK
    <3> QED BY <1>0, <1>1, <2>1, <3>1 DEF SessionFits, Ending
  <2>5. ASSUME NEW u \in Sessions, u # s PROVE SessionFits(u)'
    <3>1. pc'[u] = pc[u] /\ fresh <= fresh'
      BY <1>0, <2>1, <2>5 DEF TypeOK
    <3>2. tenantLock # u
      BY <2>1, CatalogAssumption
    <3> QED BY <1>0, <1>1, <2>1, <2>3, <3>1, <3>2, OtherSession
  <2> QED BY <1>0, <1>1, <2>1, <2>3, <2>4, <2>5 DEF IndInv
<1>4. CASE ChangeRow(s)
  <2>1. /\ pc[s] = "work" /\ stmt[s] \in Stmts /\ outcome[s] = "pending" /\ tenantLock = s
        /\ server[s] \in Servers /\ UNCHANGED <<waiting, tries>>
    BY <1>4, <1>0 DEF ChangeRow, SessionFits
  <2>2. \/ /\ ~IsDrop(s) /\ table[stmt[s].name] = NoRow /\ fresh <= MaxId
           /\ newId' = [newId EXCEPT ![s] = fresh] /\ fresh' = fresh + 1
           /\ pc' = [pc EXCEPT ![s] = "commit"]
           /\ UNCHANGED <<tenantLock, ddlLock, server, myEpoch, outcome>>
        \/ /\ IsDrop(s) /\ table[stmt[s].name] # NoRow
           /\ pc' = [pc EXCEPT ![s] = "commit"]
           /\ UNCHANGED <<tenantLock, ddlLock, server, myEpoch, outcome, newId, fresh>>
        \/ /\ \E result \in {"duplicate", "error"} : Leave(s, result)
           /\ Unlock(s)
           /\ UNCHANGED fresh
    BY <1>4 DEF ChangeRow, Goto
  <2>3. CASE /\ \E result \in {"duplicate", "error"} : Leave(s, result)
             /\ Unlock(s)
             /\ UNCHANGED fresh
    <3>1. cached' \in [Servers -> Nat] /\ epoch' \in Nat /\ epoch <= epoch'
      BY <1>0, <1>1 DEF TypeOK
    <3>2. {"duplicate", "error"} \subseteq Outcomes
      BY DEF Outcomes
    <3> QED BY <2>1, <2>3, <3>1, <3>2, <1>1, LeaveInv
  <2>4. CASE /\ pc' = [pc EXCEPT ![s] = "commit"]
             /\ UNCHANGED <<tenantLock, ddlLock, server, myEpoch, outcome>>
             /\ \/ /\ ~IsDrop(s) /\ table[stmt[s].name] = NoRow /\ fresh <= MaxId
                   /\ newId' = [newId EXCEPT ![s] = fresh] /\ fresh' = fresh + 1
                \/ IsDrop(s) /\ table[stmt[s].name] # NoRow /\ UNCHANGED <<newId, fresh>>
    <3>1. pc' \in [Sessions -> Places] /\ pc'[s] = "commit"
      BY <1>0, <2>4 DEF TypeOK, Places
    <3>2. /\ fresh' \in 1..(MaxId + 1) /\ fresh <= fresh'
          /\ newId' \in [Sessions -> 1..MaxId \cup {NoRow}]
      BY <1>0, <2>4, CatalogAssumption DEF TypeOK
    <3>3. TypeOK'
      BY <1>0, <1>1, <2>1, <2>4, <3>1, <3>2 DEF TypeOK
    <3>4. \A i \in used : i < fresh'
      BY <1>0, <1>2, <3>2
    <3>5. SessionFits(s)'
      <4>1. IsDrop(s)' <=> IsDrop(s)
        BY <1>1 DEF IsDrop
      <4>2. CASE IsDrop(s) /\ table[stmt[s].name] # NoRow
        BY <4>1, <4>2, <1>1, <2>1, <2>4, <3>1 DEF SessionFits, Ending
      <4>3. CASE /\ ~IsDrop(s) /\ table[stmt[s].name] = NoRow /\ fresh <= MaxId
                 /\ newId' = [newId EXCEPT ![s] = fresh] /\ fresh' = fresh + 1
        <5>1. newId'[s] = fresh /\ fresh \in 1..MaxId /\ fresh < fresh' /\ fresh \notin used
          BY <1>0, <1>2, <4>3 DEF TypeOK
        <5> QED BY <4>1, <4>3, <5>1, <1>1, <2>1, <2>4, <3>1 DEF SessionFits, Ending
      <4> QED BY <4>2, <4>3, <2>4
    <3>6. ASSUME NEW u \in Sessions, u # s PROVE SessionFits(u)'
      <4>1. pc'[u] = pc[u] /\ newId'[u] = newId[u]
        BY <1>0, <2>4, <3>6 DEF TypeOK
      <4> QED BY <1>0, <1>1, <2>4, <3>2, <3>3, <4>1, OtherSession
    <3> QED BY <1>0, <1>1, <3>3, <3>4, <3>5, <3>6 DEF IndInv
  <2> QED BY <2>2, <2>3, <2>4
<1>5. CASE CommitUnknown(s)
  <2>1. /\ pc[s] = "commit" /\ myEpoch[s] = epoch
        /\ pc' = [pc EXCEPT ![s] = "doubt"]
        /\ UNCHANGED <<fresh, tenantLock, server, newId, myEpoch, outcome>>
    BY <1>5 DEF CommitUnknown, Goto, table_vars
  <2>2. pc' \in [Sessions -> Places] /\ pc'[s] = "doubt"
    BY <1>0, <2>1 DEF TypeOK, Places
  <2>3. waiting' \in [Sessions -> BOOLEAN]
    BY <1>0, <1>5 DEF CommitUnknown, TypeOK
  <2>4. tries' \in [Sessions -> 0..RetryTimes] /\ ddlLock' \in [Servers -> Sessions \cup {Nobody}]
    BY <1>0, <1>5, CatalogAssumption DEF CommitUnknown, TypeOK
  <2>5. TypeOK'
    BY <1>0, <1>1, <2>1, <2>2, <2>3, <2>4 DEF TypeOK
  <2>6. SessionFits(s)'
    <3>1. (IsDrop(s)' <=> IsDrop(s)) /\ Ending(s) /\ Ending(s)'
      BY <1>1, <2>1, <2>2 DEF IsDrop, Ending
    <3> QED BY <1>0, <1>1, <2>1, <2>2, <3>1 DEF SessionFits
  <2>7. ASSUME NEW u \in Sessions, u # s PROVE SessionFits(u)'
    <3>1. pc'[u] = pc[u] /\ fresh <= fresh'
      BY <1>0, <2>1, <2>7 DEF TypeOK
    <3> QED BY <1>0, <1>1, <2>1, <2>5, <3>1, OtherSession
  <2> QED BY <1>0, <1>1, <2>1, <2>5, <2>6, <2>7 DEF IndInv
<1> QED BY <1>3, <1>4, <1>5

\* The commit, known or late, changes the row, and only this session is ending
\* its transaction; it has the current epoch.
LEMMA CommitInv ==
  ASSUME IndInv, NEW s \in Sessions, Commit(s) \/ CommitLate(s)
  PROVE  IndInv' /\ lastEpoch' = epoch
<1>0. TypeOK /\ SessionFits(s) /\ lastEpoch <= epoch /\ (\A i \in used : i < fresh)
      /\ \A u \in Sessions : SessionFits(u)
  BY DEF IndInv
<1>1. /\ Ending(s) /\ pc[s] # "idle" /\ lastEpoch' = epoch /\ Unlock(s)
      /\ Leave(s, "ok")
      /\ UNCHANGED <<fresh, epoch, inService, cached, masters, calls, stmt, waiting, tries>>
      /\ table' = [table EXCEPT ![stmt[s].name] = IF IsDrop(s) THEN NoRow ELSE newId[s]]
      /\ used' = IF IsDrop(s) THEN used ELSE used \cup {newId[s]}
  BY <1>0 DEF Commit, CommitLate, Apply, Ending, SessionFits
<1>2. stmt[s] \in Stmts /\ tenantLock = s /\ tenantLock' = Nobody
  BY <1>0, <1>1 DEF Unlock, SessionFits, Ending
<1>3. /\ pc' = [pc EXCEPT ![s] = "answer"]
      /\ ddlLock' \in [Servers -> Sessions \cup {Nobody}]
      /\ outcome' = [outcome EXCEPT ![s] = "ok"]
      /\ server' = [server EXCEPT ![s] = Nobody]
      /\ newId' = [newId EXCEPT ![s] = NoRow]
      /\ myEpoch' = [myEpoch EXCEPT ![s] = 0]
  <2>1. "ok" \in Outcomes
    BY DEF Outcomes
  <2> QED BY <2>1, <1>0, <1>1, LeaveFacts
<1>4. /\ table' \in [Names -> 1..MaxId \cup {NoRow}]
      /\ used' \subseteq 1..MaxId
      /\ \A i \in used' : i < fresh
  <2>1. stmt[s].name \in Names
    BY <1>2 DEF Stmts
  <2>2. CASE IsDrop(s)
    BY <2>1, <2>2, <1>0, <1>1 DEF TypeOK
  <2>3. CASE ~IsDrop(s)
    <3>1. newId[s] \in 1..MaxId /\ newId[s] < fresh
      BY <2>3, <1>0, <1>1 DEF SessionFits
    <3>2. table' = [table EXCEPT ![stmt[s].name] = newId[s]] /\ used' = used \cup {newId[s]}
      BY <2>3, <1>1
    <3> QED BY <2>1, <3>1, <3>2, <1>0 DEF TypeOK
  <2> QED BY <2>2, <2>3
<1>5. /\ pc' \in [Sessions -> Places] /\ outcome' \in [Sessions -> Outcomes]
      /\ newId' \in [Sessions -> 1..MaxId \cup {NoRow}]
      /\ server' \in [Sessions -> Servers \cup {Nobody}]
      /\ myEpoch' \in [Sessions -> Nat]
  BY <1>0, <1>3 DEF TypeOK, Places, Outcomes
<1>6. TypeOK'
  <2>1. lastEpoch' \in Nat
    BY <1>0, <1>1 DEF TypeOK
  <2> QED BY <1>0, <1>1, <1>2, <1>3, <1>4, <1>5, <2>1 DEF TypeOK
<1>7. SessionFits(s)'
  <2>1. pc'[s] = "answer"
    BY <1>0, <1>3 DEF TypeOK
  <2> QED BY <2>1, <1>1, <1>2 DEF SessionFits, Ending
<1>8. ASSUME NEW u \in Sessions, u # s PROVE SessionFits(u)'
  <2>1. pc'[u] = pc[u] /\ outcome'[u] = outcome[u] /\ fresh <= fresh'
        /\ newId'[u] = newId[u] /\ server'[u] = server[u] /\ myEpoch'[u] = myEpoch[u]
    BY <1>0, <1>1, <1>3, <1>8 DEF TypeOK
  <2>2. tenantLock # u /\ ~Ending(u)
    BY <1>0, <1>2, <1>8 DEF SessionFits, Ending
  <2> QED BY <1>0, <1>1, <1>6, <2>1, <2>2, OtherSession
<1>9. lastEpoch' <= epoch'
  BY <1>0, <1>1 DEF TypeOK
<1> QED BY <1>1, <1>4, <1>6, <1>7, <1>8, <1>9 DEF IndInv

\* Every step preserves the invariant.
LEMMA NextInv == IndInv /\ [Next]_vars => IndInv'
<1> SUFFICES ASSUME IndInv, [Next]_vars PROVE IndInv'
  OBVIOUS
<1>1. CASE UNCHANGED vars
  BY <1>1 DEF IndInv, TypeOK, SessionFits, Ending, IsDrop, vars, table_vars, server_vars, session_vars
<1>2. CASE \E r \in Servers : StartService(r) \/ StopService(r)
  BY <1>2, ServersInv
<1>3. ASSUME NEW s \in Sessions, Call(s) \/ Step(s) \/ Fault(s) PROVE IndInv'
  BY <1>3, ClientInv, ServeInv, LockedInv, CommitInv, TimeoutInv DEF Step, Fault
<1> QED BY <1>1, <1>2, <1>3 DEF Next

\* Type correctness of the metadata service.
THEOREM CatalogTypes == Spec => []TypeOK
<1>1. IndInv => TypeOK
  BY DEF IndInv
<1> QED BY InitInv, NextInv, <1>1, PTL DEF Spec

\* Whatever servers believe to be the master, DDL transactions commit in the
\* order of the epochs that they started under (check_and_lock_ddl_epoch),
\* also the ones whose end nobody waits for.
THEOREM EpochOrder == Spec => CommitsInEpochOrder
<1>1. IndInv /\ [Next]_vars => [lastEpoch' >= lastEpoch]_vars
  <2> SUFFICES ASSUME IndInv, Next PROVE lastEpoch' >= lastEpoch
    OBVIOUS
  <2>0. lastEpoch \in Nat /\ epoch \in Nat /\ lastEpoch <= epoch
    BY DEF IndInv, TypeOK
  <2>1. lastEpoch' = lastEpoch \/ \E s \in Sessions : Commit(s) \/ CommitLate(s)
    BY DEF Next, StartService, StopService, Call, Step, Fault, Send, Refuse, Process, CheckExist,
       GetEpoch, LockTenant, ChangeRow, EpochChanged, Retry, Answer, Fail, Timeout,
       CommitUnknown, table_vars
  <2>2. ASSUME NEW s \in Sessions, Commit(s) \/ CommitLate(s) PROVE lastEpoch' = epoch
    BY <2>2, CommitInv
  <2> QED BY <2>0, <2>1, <2>2
<1> QED BY InitInv, NextInv, <1>1, PTL DEF Spec, CommitsInEpochOrder

-----------------------------------------------------------------------------
(* The refinement. *)

\* Initially UdfTable has the functions that exist, and nobody has called.
LEMMA AbstractInit == Init => Abs!AbsInit
<1> SUFFICES ASSUME Init PROVE Abs!AbsInit
  OBVIOUS
<1>0. waiting = [s \in Sessions |-> TRUE]
  BY DEF Init
<1>1. AbsOutcome = [s \in Sessions |-> "pending"]
  BY DEF Init, AbsOutcome
<1>2. stmt = [s \in Sessions |-> Abs!Idle]
  BY DEF Init, NoStmt, Abs!Idle
<1>3. used \subseteq 1..MaxId /\ table \in [Names -> used \cup {NoRow}]
  BY CatalogAssumption DEF Init
<1> QED BY <1>0, <1>1, <1>2, <1>3 DEF Init, Abs!AbsInit

\* Only the steps that set a result change what UdfTable sees of an outcome.
LEMMA SameOutcome ==
  ASSUME TypeOK, NEW s \in Sessions, NEW o, outcome' = [outcome EXCEPT ![s] = o],
         AbsOutcome[s] = (IF o \in {"not_master", "error"} THEN "pending" ELSE o)
  PROVE  AbsOutcome' = AbsOutcome
<1>1. ASSUME NEW u \in Sessions
      PROVE  (IF outcome'[u] \in {"not_master", "error"} THEN "pending" ELSE outcome'[u])
             = AbsOutcome[u]
  BY <1>1 DEF AbsOutcome, TypeOK
<1> QED BY <1>1 DEF AbsOutcome

\* A step that sets a result o shows it as the result of the session.
LEMMA NewOutcome ==
  ASSUME TypeOK, NEW s \in Sessions, NEW o \in {"ok", "duplicate", "unknown"},
         outcome' = [outcome EXCEPT ![s] = o]
  PROVE  AbsOutcome' = [AbsOutcome EXCEPT ![s] = o]
<1>1. ASSUME NEW u \in Sessions
      PROVE  (IF outcome'[u] \in {"not_master", "error"} THEN "pending" ELSE outcome'[u])
             = [AbsOutcome EXCEPT ![s] = o][u]
  BY <1>1 DEF AbsOutcome, TypeOK
<1>2. DOMAIN [AbsOutcome EXCEPT ![s] = o] = Sessions
  BY DEF AbsOutcome
<1> QED BY <1>1, <1>2 DEF AbsOutcome

\* A session that is not at its answer shows no result.
LEMMA PendingOutcome ==
  ASSUME NEW s \in Sessions, SessionFits(s), pc[s] # "answer"
  PROVE  AbsOutcome[s] = "pending"
BY DEF SessionFits, AbsOutcome

\* The DDL leaves the server with an error or to be tried again: UdfTable
\* stutters.
LEMMA FailureStep ==
  ASSUME IndInv, NEW s \in Sessions, NEW o \in {"not_master", "error"},
         outcome' = [outcome EXCEPT ![s] = o], pc[s] # "answer",
         UNCHANGED <<table, used, stmt, waiting>>
  PROVE  UNCHANGED Abs!absvars
<1>0. TypeOK /\ SessionFits(s)
  BY DEF IndInv
<1>1. AbsOutcome[s] = "pending"
  BY <1>0, PendingOutcome
<1>2. AbsOutcome' = AbsOutcome
  BY <1>0, <1>1, SameOutcome
<1> QED BY <1>2 DEF Abs!absvars

\* The DDL leaves the server with a refusal, which UdfTable sees unless the
\* server has turned it into OB_RS_SHUTDOWN.
LEMMA RefusalStep ==
  ASSUME IndInv, NEW s \in Sessions, NEW result \in {"ok", "duplicate", "unknown"},
         Leave(s, result), pc[s] \notin {"idle", "answer"},
         UNCHANGED <<table, used, stmt, waiting>>,
         result = IF stmt[s].op = "create" THEN "duplicate"
                  ELSE IF stmt[s].op = "drop" THEN "unknown" ELSE "ok",
         (table[stmt[s].name] # NoRow) <=> (stmt[s].op = "create")
  PROVE  Abs!AbsRefuse(s) \/ UNCHANGED Abs!absvars
<1>0. TypeOK /\ SessionFits(s)
  BY DEF IndInv
<1>1. AbsOutcome[s] = "pending"
  BY <1>0, PendingOutcome
<1>2. PICK o \in {result, "error"} : outcome' = [outcome EXCEPT ![s] = o]
  <2>1. result \in Outcomes
    BY DEF Outcomes
  <2> QED BY <2>1, <1>0, LeaveFacts
<1>3. CASE o = "error"
  BY <1>2, <1>3, FailureStep
<1>4. CASE o = result
  <2>1. AbsOutcome' = [AbsOutcome EXCEPT ![s] = result]
    BY <1>0, <1>2, <1>4, NewOutcome
  <2>2. stmt[s] # Abs!Idle
    <3>1. stmt[s] \in Stmts
      BY <1>0 DEF SessionFits
    <3>2. stmt[s].op # "none"
      BY <3>1 DEF Stmts, Ops
    <3> QED BY <3>2 DEF Abs!Idle
  <2> QED BY <1>1, <2>1, <2>2 DEF Abs!AbsRefuse
<1> QED BY <1>2, <1>3, <1>4

\* The client is told an error while its statement goes on, or has been told.
LEMMA GiveUpStep ==
  ASSUME IndInv, NEW s \in Sessions, pc[s] # "idle",
         waiting' = [waiting EXCEPT ![s] = FALSE], UNCHANGED <<table, used, stmt, outcome>>
  PROVE  Abs!AbsGiveUp(s) \/ UNCHANGED Abs!absvars
<1>0. TypeOK /\ SessionFits(s)
  BY DEF IndInv
<1>1. AbsOutcome' = AbsOutcome
  BY DEF AbsOutcome
<1>2. CASE waiting[s]
  <2>1. stmt[s] \in Stmts
    BY <1>0 DEF SessionFits
  <2>2. stmt[s].op # "none"
    BY <2>1 DEF Stmts, Ops
  <2>3. stmt[s] # Abs!Idle
    BY <2>2 DEF Abs!Idle
  <2> QED BY <1>1, <1>2, <2>3 DEF Abs!AbsGiveUp
<1>3. CASE ~waiting[s]
  <2>1. waiting \in [Sessions -> BOOLEAN]
    BY <1>0 DEF TypeOK
  <2>2. waiting' = waiting
    BY <1>3, <2>1
  <2> QED BY <1>1, <2>2 DEF Abs!absvars
<1> QED BY <1>2, <1>3

\* The commit of a CREATE or DROP, with a client that waits or without, is the moment at which it takes effect.
LEMMA CommitStep ==
  ASSUME IndInv, NEW s \in Sessions, Commit(s) \/ CommitLate(s)
  PROVE  Abs!AbsCreate(s) \/ Abs!AbsDrop(s)
<1>0. TypeOK /\ SessionFits(s)
  BY DEF IndInv
<1>1. /\ Ending(s) /\ pc[s] # "idle" /\ pc[s] # "answer" /\ Leave(s, "ok")
      /\ stmt' = stmt /\ waiting' = waiting
      /\ table' = [table EXCEPT ![stmt[s].name] = IF IsDrop(s) THEN NoRow ELSE newId[s]]
      /\ used' = IF IsDrop(s) THEN used ELSE used \cup {newId[s]}
  BY DEF Commit, CommitLate, Apply, Ending
<1>2. AbsOutcome[s] = "pending" /\ stmt[s] \in Stmts
  BY <1>0, <1>1, PendingOutcome DEF SessionFits
<1>3. AbsOutcome' = [AbsOutcome EXCEPT ![s] = "ok"]
  <2>1. "ok" \in Outcomes
    BY DEF Outcomes
  <2>2. outcome' = [outcome EXCEPT ![s] = "ok"]
    BY <2>1, <1>0, <1>1, LeaveFacts
  <2> QED BY <2>2, <1>0, NewOutcome
<1>4. CASE IsDrop(s)
  <2>1. stmt[s].op \in {"drop", "drop_if_exists"}
    BY <1>2, <1>4 DEF IsDrop, Stmts, Ops
  <2>2. table[stmt[s].name] # NoRow
    BY <1>0, <1>1, <1>4 DEF SessionFits
  <2>3. table' = [table EXCEPT ![stmt[s].name] = NoRow] /\ used' = used
    BY <1>1, <1>4
  <2> QED BY <1>1, <1>2, <1>3, <2>1, <2>2, <2>3 DEF Abs!AbsDrop
<1>5. CASE ~IsDrop(s)
  <2>1. stmt[s].op = "create"
    BY <1>5 DEF IsDrop
  <2>2. table[stmt[s].name] = NoRow /\ newId[s] \in 1..MaxId \ used
    BY <1>0, <1>1, <1>5 DEF SessionFits
  <2>3. table' = [table EXCEPT ![stmt[s].name] = newId[s]] /\ used' = used \cup {newId[s]}
    BY <1>1, <1>5
  <2> QED BY <1>1, <1>2, <1>3, <2>1, <2>2, <2>3 DEF Abs!AbsCreate
<1> QED BY <1>4, <1>5

\* Every step of a session is a step of UdfTable or invisible to it.
LEMMA SessionStep ==
  ASSUME IndInv, NEW s \in Sessions, Call(s) \/ Step(s) \/ Fault(s)
  PROVE  Abs!AbsNext \/ UNCHANGED Abs!absvars
<1>0. TypeOK /\ SessionFits(s)
  BY DEF IndInv
<1>a. ASSUME NEW result \in {"not_master", "error"}, Leave(s, result)
      PROVE  \E o \in {"not_master", "error"} : outcome' = [outcome EXCEPT ![s] = o]
  <2>1. result \in Outcomes
    BY DEF Outcomes
  <2> QED BY <1>a, <2>1, <1>0, LeaveFacts
<1>1. CASE Call(s)
  <2>1. PICK c \in Stmts : stmt' = [stmt EXCEPT ![s] = c]
    BY <1>1 DEF Call
  <2>2. pc[s] = "idle" /\ UNCHANGED <<table, used, waiting, outcome>>
    BY <1>1 DEF Call, table_vars
  <2>3. AbsOutcome[s] = "pending" /\ stmt[s] = NoStmt
    BY <1>0, <2>2, PendingOutcome DEF SessionFits
  <2>4. AbsOutcome' = AbsOutcome
    BY <2>2 DEF AbsOutcome
  <2>5. c \in Abs!Calls /\ stmt[s] = Abs!Idle
    BY <2>3 DEF Abs!Calls, Abs!Ops, Stmts, Ops, NoStmt, Abs!Idle
  <2>6. Abs!AbsCall(s)
    BY <2>1, <2>2, <2>4, <2>5 DEF Abs!AbsCall
  <2> QED BY <2>6 DEF Abs!AbsNext
<1>2. CASE Send(s) \/ Process(s) \/ LockTenant(s)
  <2>1. UNCHANGED <<table, used, stmt, waiting, outcome>>
    BY <1>2 DEF Send, Process, LockTenant, table_vars
  <2> QED BY <2>1 DEF Abs!absvars, AbsOutcome
<1>3. CASE Refuse(s) \/ EpochChanged(s) \/ Fail(s)
  <2>1. /\ pc[s] # "answer" /\ UNCHANGED <<table, used, stmt, waiting>>
        /\ \E result \in {"not_master", "error"} : Leave(s, result)
    BY <1>3 DEF Refuse, EpochChanged, Fail, table_vars
  <2> QED BY <2>1, <1>0, <1>a, FailureStep
<1>4. CASE CheckExist(s)
  <2>1. pc[s] = "check" /\ stmt[s] \in Stmts /\ UNCHANGED <<table, used, stmt, waiting>>
    BY <1>4, <1>0 DEF CheckExist, SessionFits, table_vars
  <2>2. CASE IsDrop(s) /\ table[stmt[s].name] = NoRow
    <3>1. Leave(s, IF stmt[s].op = "drop" THEN "unknown" ELSE "ok")
      BY <1>4, <2>2 DEF CheckExist
    <3>2. stmt[s].op # "create"
      BY <2>2 DEF IsDrop
    <3>3. Abs!AbsRefuse(s) \/ UNCHANGED Abs!absvars
      <4>1. CASE stmt[s].op = "drop"
        BY <2>1, <2>2, <3>1, <3>2, <4>1, RefusalStep
      <4>2. CASE stmt[s].op # "drop"
        BY <2>1, <2>2, <3>1, <3>2, <4>2, RefusalStep
      <4> QED BY <4>1, <4>2
    <3> QED BY <3>3 DEF Abs!AbsNext
  <2>3. CASE ~(IsDrop(s) /\ table[stmt[s].name] = NoRow)
    <3>1. outcome' = outcome
      BY <1>4, <2>3 DEF CheckExist
    <3> QED BY <2>1, <3>1 DEF Abs!absvars, AbsOutcome
  <2> QED BY <2>2, <2>3
<1>5. CASE GetEpoch(s)
  <2>1. pc[s] = "epoch" /\ UNCHANGED <<table, used, stmt, waiting>>
        /\ (outcome' = outcome \/ \E result \in {"not_master", "error"} : Leave(s, result))
    BY <1>5 DEF GetEpoch
  <2>2. CASE outcome' = outcome
    BY <2>1, <2>2 DEF Abs!absvars, AbsOutcome
  <2>3. CASE \E result \in {"not_master", "error"} : Leave(s, result)
    BY <2>1, <2>3, <1>a, FailureStep
  <2> QED BY <2>1, <2>2, <2>3
<1>6. CASE ChangeRow(s)
  <2>1. /\ pc[s] = "work" /\ UNCHANGED <<table, used, stmt, waiting>>
        /\ \/ outcome' = outcome
           \/ ~IsDrop(s) /\ table[stmt[s].name] # NoRow /\ Leave(s, "duplicate")
           \/ Leave(s, "error")
    BY <1>6 DEF ChangeRow
  <2>2. CASE outcome' = outcome
    BY <2>1, <2>2 DEF Abs!absvars, AbsOutcome
  <2>3. CASE ~IsDrop(s) /\ table[stmt[s].name] # NoRow /\ Leave(s, "duplicate")
    <3>1. stmt[s].op = "create"
      BY <2>3 DEF IsDrop
    <3>2. Abs!AbsRefuse(s) \/ UNCHANGED Abs!absvars
      BY <2>1, <2>3, <3>1, RefusalStep
    <3> QED BY <3>2 DEF Abs!AbsNext
  <2>4. CASE Leave(s, "error")
    BY <2>1, <2>4, <1>a, FailureStep
  <2> QED BY <2>1, <2>2, <2>3, <2>4
<1>7. CASE Commit(s) \/ CommitLate(s)
  BY <1>7, CommitStep DEF Abs!AbsNext
<1>8. CASE Retry(s)
  <2>1. /\ outcome[s] = "not_master" /\ outcome' = [outcome EXCEPT ![s] = "pending"]
        /\ UNCHANGED <<table, used, stmt, waiting>>
    BY <1>8 DEF Retry, table_vars
  <2>2. AbsOutcome' = AbsOutcome
    <3>1. AbsOutcome[s] = "pending"
      BY <2>1 DEF AbsOutcome
    <3> QED BY <3>1, <2>1, <1>0, SameOutcome
  <2> QED BY <2>1, <2>2 DEF Abs!absvars
<1>9. CASE Answer(s)
  <2>1. /\ pc[s] # "idle" /\ stmt' = [stmt EXCEPT ![s] = NoStmt]
        /\ outcome' = [outcome EXCEPT ![s] = "pending"] /\ UNCHANGED <<table, used>>
        /\ waiting' = [waiting EXCEPT ![s] = TRUE]
    BY <1>9 DEF Answer, table_vars
  <2>2. stmt[s] # Abs!Idle
    <3>1. stmt[s] \in Stmts
      BY <1>0, <2>1 DEF SessionFits
    <3>2. stmt[s].op # "none"
      BY <3>1 DEF Stmts, Ops
    <3> QED BY <3>2 DEF Abs!Idle
  <2>3. AbsOutcome' = [AbsOutcome EXCEPT ![s] = "pending"]
    <3>1. ASSUME NEW u \in Sessions
          PROVE  (IF outcome'[u] \in {"not_master", "error"} THEN "pending" ELSE outcome'[u])
                 = [AbsOutcome EXCEPT ![s] = "pending"][u]
      BY <3>1, <2>1, <1>0 DEF AbsOutcome, TypeOK
    <3>2. DOMAIN [AbsOutcome EXCEPT ![s] = "pending"] = Sessions
      BY DEF AbsOutcome
    <3> QED BY <3>1, <3>2 DEF AbsOutcome
  <2>4. Abs!AbsAnswer(s)
    BY <2>1, <2>2, <2>3 DEF Abs!AbsAnswer, NoStmt, Abs!Idle
  <2> QED BY <2>4 DEF Abs!AbsNext
<1>10. CASE Timeout(s) \/ CommitUnknown(s)
  <2>1. /\ pc[s] # "idle" /\ waiting' = [waiting EXCEPT ![s] = FALSE]
        /\ UNCHANGED <<table, used, stmt, outcome>>
    BY <1>10 DEF Timeout, CommitUnknown, table_vars
  <2> QED BY <2>1, GiveUpStep DEF Abs!AbsNext
<1> QED BY <1>1, <1>2, <1>3, <1>4, <1>5, <1>6, <1>7, <1>8, <1>9, <1>10 DEF Step, Fault

\* The metadata service implements one map from names to functions: every
\* statement that is answered with a result took effect at one moment between
\* call and answer, and one whose client was told an error, also by a timeout
\* or an unknown commit, takes effect at most once, then or later; for any
\* number of servers that take over from each other and of retries.
THEOREM CatalogRefinesTable == Spec => ImplementsTable
<1>1. IndInv /\ [Next]_vars => [Abs!AbsNext]_(Abs!absvars)
  <2> SUFFICES ASSUME IndInv, [Next]_vars
               PROVE  Abs!AbsNext \/ UNCHANGED Abs!absvars
    OBVIOUS
  <2>1. CASE UNCHANGED vars
    BY <2>1 DEF vars, table_vars, session_vars, Abs!absvars, AbsOutcome
  <2>2. CASE \E r \in Servers : StartService(r) \/ StopService(r)
    BY <2>2 DEF StartService, StopService, table_vars, session_vars, Abs!absvars, AbsOutcome
  <2>3. CASE \E s \in Sessions : Call(s) \/ Step(s) \/ Fault(s)
    BY <2>3, SessionStep
  <2> QED BY <2>1, <2>2, <2>3 DEF Next
<1> QED BY InitInv, NextInv, AbstractInit, <1>1, PTL DEF Spec, ImplementsTable, Abs!AbsSpec
=============================================================================
