------------------------------ MODULE UdfTable ------------------------------
(***************************************************************************)
(* What the metadata service promises: __all_python_udf is one map from    *)
(* names to functions.  A statement that is answered with a result took    *)
(* effect at one moment between its call and its answer, and the answer    *)
(* tells what happened at that moment.  An answer "error" leaves open what *)
(* becomes of the statement: it has taken effect, will do so later or      *)
(* never will, but in no case twice.                                       *)
(***************************************************************************)
EXTENDS Integers

CONSTANTS Sessions, Names, NoRow, MaxId

VARIABLES
  table,   \* the id of the function with a name, or NoRow
  used,    \* the ids that functions have had
  call,    \* per session: the statement that is not over
  waiting, \* per session: the client waits for an answer
  outcome  \* per session: what has happened, "pending" before

absvars == <<table, used, call, waiting, outcome>>

Ops == {"create", "drop", "drop_if_exists"}
Idle == [op |-> "none", name |-> NoRow]
Calls == [op : Ops, name : Names]
Outcomes == {"pending", "ok", "duplicate", "unknown"}

AbsInit ==
  /\ used \subseteq 1..MaxId
  /\ table \in [Names -> used \cup {NoRow}]
  /\ \A m, n \in Names : table[m] = table[n] => m = n \/ table[n] = NoRow
  /\ call = [s \in Sessions |-> Idle]
  /\ waiting = [s \in Sessions |-> TRUE]
  /\ outcome = [s \in Sessions |-> "pending"]

AbsCall(s) ==
  /\ call[s] = Idle
  /\ \E c \in Calls : call' = [call EXCEPT ![s] = c]
  /\ UNCHANGED <<table, used, waiting, outcome>>

\* A function gets a row and an id that no function had before.
AbsCreate(s) ==
  /\ call[s].op = "create"
  /\ outcome[s] = "pending"
  /\ table[call[s].name] = NoRow
  /\ \E id \in 1..MaxId \ used :
       /\ table' = [table EXCEPT ![call[s].name] = id]
       /\ used' = used \cup {id}
  /\ outcome' = [outcome EXCEPT ![s] = "ok"]
  /\ UNCHANGED <<call, waiting>>

AbsDrop(s) ==
  /\ call[s].op \in {"drop", "drop_if_exists"}
  /\ outcome[s] = "pending"
  /\ table[call[s].name] # NoRow
  /\ table' = [table EXCEPT ![call[s].name] = NoRow]
  /\ outcome' = [outcome EXCEPT ![s] = "ok"]
  /\ UNCHANGED <<call, waiting, used>>

\* The statement cannot apply, and changes nothing.
AbsRefuse(s) ==
  /\ outcome[s] = "pending"
  /\ outcome' = [outcome EXCEPT ![s] =
       IF call[s].op = "create" THEN "duplicate"
       ELSE IF call[s].op = "drop" THEN "unknown" ELSE "ok"]
  /\ call[s] # Idle
  /\ (table[call[s].name] # NoRow) <=> (call[s].op = "create")
  /\ UNCHANGED <<table, used, call, waiting>>

\* The client is told "error"; the statement is left to itself.
AbsGiveUp(s) ==
  /\ call[s] # Idle
  /\ waiting[s]
  /\ waiting' = [waiting EXCEPT ![s] = FALSE]
  /\ UNCHANGED <<table, used, call, outcome>>

\* The statement is over: a client that waits is told the outcome, or "error"
\* when there is none, and no effect follows.
AbsAnswer(s) ==
  /\ call[s] # Idle
  /\ call' = [call EXCEPT ![s] = Idle]
  /\ waiting' = [waiting EXCEPT ![s] = TRUE]
  /\ outcome' = [outcome EXCEPT ![s] = "pending"]
  /\ UNCHANGED <<table, used>>

AbsNext ==
  \E s \in Sessions :
    \/ AbsCall(s) \/ AbsCreate(s) \/ AbsDrop(s) \/ AbsRefuse(s)
    \/ AbsGiveUp(s) \/ AbsAnswer(s)

AbsSpec == AbsInit /\ [][AbsNext]_absvars
=============================================================================
