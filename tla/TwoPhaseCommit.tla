--------------------------- MODULE TwoPhaseCommit ---------------------------
(***************************************************************************)
(* The tree two-phase commit of one distributed transaction               *)
(* (ObTxCycleTwoPhaseCommitter under ObPartTransCtx).  The root receives   *)
(* the commit request of the scheduler and drives PREPARE, PRE_COMMIT,     *)
(* COMMIT or ABORT, and CLEAR through the tree of participants.  A         *)
(* participant keeps two states: upstream_state_, which it has entered in  *)
(* memory and asks its own downstream for, and exec_info_.state_, its      *)
(* downstream state, for which the log is synced (PRE_COMMIT has no log).  *)
(* The outcome is decided once everybody is prepared, so the root answers  *)
(* the scheduler before its COMMIT log is synced.  A participant without   *)
(* context answers by presumed abort.  Messages are lost, duplicated and   *)
(* reordered, log submissions fail, leaders change at any time.            *)
(***************************************************************************)
EXTENDS Naturals

CONSTANTS
  Parts,       \* the participants (log streams) of the transaction
  Root,        \* the one that coordinates
  Parent,      \* the upstream of every other participant
  Persisted,   \* participants that have synced redo before the commit
  Lossy,       \* TRUE: a message is lost or handled once;
               \* FALSE: it stays and is handled any number of times
  SlowLookup,  \* TRUE: a commit request may find the context long before
               \* it gets the lock of the context
  MaxFaults    \* bound: leader switches and failed log submissions

Children(p) == {q \in Parts \ {Root} : Parent[q] = p}

ASSUME TreeAssumption ==
  /\ Root \in Parts
  /\ Parent \in [Parts \ {Root} -> Parts]
  /\ \A S \in SUBSET Parts :  \* every participant is below the root
       Root \in S /\ (\A p \in S : Children(p) \subseteq S) => S = Parts
  /\ Children(Root) # {}
  /\ Persisted \subseteq Parts
  /\ Lossy \in BOOLEAN /\ SlowLookup \in BOOLEAN
  /\ MaxFaults \in Nat

VARIABLES
  ctx,      \* the context of the transaction at the leader of a participant
  log,      \* the records of the transaction in the log stream
  msgs,     \* messages in the network
  replies,  \* history: what the scheduler has been told
  held,     \* a commit request has found the root's context, no lock yet
  faults    \* faults so far

vars == <<ctx, log, msgs, replies, held, faults>>

TxStates == {"INIT", "REDO_COMPLETE", "PREPARE", "PRE_COMMIT", "COMMIT", "ABORT", "CLEAR"}
Records == TxStates \ {"PRE_COMMIT"}  \* INIT: redo, without any state
Unprepared == {"INIT", "REDO_COMPLETE"}
Responses == {"PREPARE_RESP", "PRE_COMMIT_RESP", "COMMIT_RESP", "ABORT_RESP"}
Requests == {"PREPARE_REQ", "PRE_COMMIT_REQ", "COMMIT_REQ", "ABORT_REQ", "CLEAR_REQ"}
Messages ==
  {[type |-> t, from |-> Parent[q], to |-> q] : t \in Requests, q \in Parts \ {Root}}
    \cup {[type |-> t, from |-> q, to |-> Parent[q]] : t \in Responses, q \in Parts \ {Root}}

Rank == [INIT |-> 1, REDO_COMPLETE |-> 2, PREPARE |-> 3, PRE_COMMIT |-> 4,
         COMMIT |-> 5, ABORT |-> 6, CLEAR |-> 7]
Request == [PREPARE |-> "PREPARE_REQ", PRE_COMMIT |-> "PRE_COMMIT_REQ",
            COMMIT |-> "COMMIT_REQ", ABORT |-> "ABORT_REQ", CLEAR |-> "CLEAR_REQ"]
Response == [PREPARE |-> "PREPARE_RESP", PRE_COMMIT |-> "PRE_COMMIT_RESP",
             COMMIT |-> "COMMIT_RESP", ABORT |-> "ABORT_RESP"]

Contexts ==
  [up : TxStates,              \* upstream_state_
   down : TxStates,            \* exec_info_.state_, the downstream state
   logging : {"none", "gts", "PREPARE", "COMMIT", "ABORT", "CLEAR"},
                               \* the state log being synced, or the GTS wait
   collected : SUBSET Parts,   \* collected_: the downstreams that answered
   alive : BOOLEAN,            \* not is_exiting_
   force : BOOLEAN,            \* sub_state_.is_force_abort()
   commit : BOOLEAN]           \* part_trans_action_ is COMMIT

\* Every variable has its type.
TypeOK ==
  /\ ctx \in [Parts -> Contexts]
  /\ log \in [Parts -> SUBSET Records]
  /\ msgs \subseteq Messages
  /\ replies \subseteq {"committed", "killed"}
  /\ held \in BOOLEAN
  /\ faults \in 0..MaxFaults

\* A context replayed up to state d.
Replayed(d, forced) ==
  [up |-> d, down |-> d, logging |-> "none", collected |-> {},
   alive |-> TRUE, force |-> forced, commit |-> FALSE]

Init ==
  /\ ctx = [p \in Parts |-> Replayed("INIT", FALSE)]
  /\ log = [p \in Parts |-> IF p \in Persisted THEN {"INIT"} ELSE {}]
  /\ msgs = {}
  /\ replies = {}
  /\ held = FALSE
  /\ faults = 0

-----------------------------------------------------------------------------
(* Messages *)

Down(p, type, to) == {[type |-> type, from |-> p, to |-> q] : q \in to}
Up(p, type) ==
  IF p = Root THEN {} ELSE {[type |-> type, from |-> p, to |-> Parent[p]]}

\* post_downstream_msg
PostDown(p, type) == Down(p, type, Children(p))

\* retransmit_downstream_msg_: ask those that have not answered again
RetransmitDown(p, c) ==
  IF c.up \in DOMAIN Request
  THEN Down(p, Request[c.up], Children(p) \ c.collected)
  ELSE {}

\* Variant: one answer stands for all.
AnyCollected(p, c) == Children(p) = {} \/ c.collected # {}

AllCollected(p, c) == c.collected = Children(p)

\* Variant: an internal participant answers for its downstream before it has.
RetransmitUpEarly(p, c, state) ==
  IF Rank[c.down] <= Rank[c.up] /\ state \in DOMAIN Response
  THEN Up(p, Response[state])
  ELSE {}

\* retransmit_upstream_msg_: answer, unless the downstream has yet to
RetransmitUp(p, c, state) ==
  IF /\ Rank[c.down] <= Rank[c.up]
     /\ AllCollected(p, c) \/ c.down # state
     /\ state \in DOMAIN Response
  THEN Up(p, Response[state])
  ELSE {}

\* What is left of the network when m is handled.
Rest(m) == IF Lossy THEN msgs \ {m} ELSE msgs

-----------------------------------------------------------------------------
(* The state machine of a participant *)

Quiet(c) == c.logging = "none"

\* Variant: the PREPARE log is submitted again when it is synced already.
LogTypeAgain(c) ==
  CASE c.up = "PREPARE" -> "PREPARE"
    [] c.up = "COMMIT" /\ c.down \in {"PREPARE", "PRE_COMMIT"} -> "COMMIT"
    [] c.up = "ABORT" /\ c.down # "COMMIT" -> "ABORT"
    [] c.up = "CLEAR" /\ c.down \in {"COMMIT", "ABORT"} -> "CLEAR"
    [] OTHER -> "none"

\* decide_2pc_log_type_; submit_prepare_log_ refuses when force is set
LogType(c) ==
  CASE c.up = "PREPARE" /\ c.down \in Unprepared /\ ~c.force -> "PREPARE"
    [] c.up = "COMMIT" /\ c.down \in {"PREPARE", "PRE_COMMIT"} -> "COMMIT"
    [] c.up = "ABORT" /\ c.down \in Unprepared \cup {"PREPARE", "PRE_COMMIT"} -> "ABORT"
    [] c.up = "CLEAR" /\ c.down \in {"COMMIT", "ABORT"} -> "CLEAR"
    [] OTHER -> "none"

\* Variant: collected_ is not reset for the new phase.
DriveUnreset(c, phase) ==
  LET d == [c EXCEPT !.up = phase]
  IN  [d EXCEPT !.logging = LogType(d)]

\* drive_self_2pc_phase of a context that is not logging
Drive(c, phase) ==
  LET d == IF c.up = phase THEN c
                           ELSE [c EXCEPT !.up = phase, !.collected = {}]
  IN  [d EXCEPT !.logging = LogType(d)]

\* A handler at p leaves context c, posts out and tells the scheduler.  When
\* the submission of a log fails, nothing is in flight: handle_timeout retries.
Act(p, c, net, out, told) ==
  /\ msgs' = net \cup out
  /\ replies' = replies \cup told
  /\ \/ /\ ctx' = [ctx EXCEPT ![p] = c]
        /\ UNCHANGED faults
     \/ /\ c.logging \notin {ctx[p].logging, "none", "gts"}
        /\ faults < MaxFaults
        /\ faults' = faults + 1
        /\ ctx' = [ctx EXCEPT ![p] = [c EXCEPT !.logging = "none"]]

\* Nothing but the message is consumed.
Ignore(net) == msgs' = net /\ UNCHANGED <<ctx, replies, faults>>

\* set_exiting_ in downstream state d
Exit(c, d) ==
  [c EXCEPT !.down = d, !.alive = FALSE, !.logging = "none", !.collected = {}]

\* drive_self_2pc_phase(PREPARE) and the requests that follow.  do_prepare of
\* a participant that has to abort submits the ABORT log instead and fails.
EnterPrepare(p, net, told) ==
  LET c == ctx[p]
  IN  IF c.force /\ c.up # "PREPARE"
      THEN Act(p, [c EXCEPT !.logging = "ABORT"], net, {}, told)
      ELSE Act(p, [Drive(c, "PREPARE") EXCEPT !.commit = TRUE],
               net, PostDown(p, "PREPARE_REQ"), {})

\* try_enter_pre_commit_state and on_pre_commit.  The root may have to wait
\* until the GTS has passed the commit version.
EnterPreCommit(p, c, net) ==
  Act(p, [Drive(c, "PRE_COMMIT") EXCEPT !.down = "PRE_COMMIT"],
      net, IF Children(p) = {} THEN Up(p, "PRE_COMMIT_RESP")
                               ELSE PostDown(p, "PRE_COMMIT_REQ"), {})
WaitGts(p, c, net) == Act(p, [c EXCEPT !.logging = "gts"], net, {}, {})

\* p is prepared and so is its downstream.
Prepared(p, c, net) ==
  \/ p = Root /\ (EnterPreCommit(p, c, net) \/ WaitGts(p, c, net))
  \/ p # Root /\ Act(p, c, net, Up(p, "PREPARE_RESP"), {})

\* The log of COMMIT or ABORT is synced at p and in its downstream: the root
\* goes on to CLEAR, the others answer.  do_clear of the root answers the
\* scheduler OB_SUCCESS once more, even after an abort; such a message has no
\* commit version and is refused as invalid (ObTxCommitRespMsg::is_valid).
PhaseDone(p, c, net) ==
  IF p = Root
  THEN Act(p, Drive(c, "CLEAR"), net, PostDown(p, "CLEAR_REQ"), {})
  ELSE Act(p, c, net, Up(p, Response[c.up]), {})

-----------------------------------------------------------------------------
(* Requests from the upstream *)

HandlePrepareReq(p, net) ==
  LET c == ctx[p] IN
  \/ c.down \in Unprepared /\ Quiet(c) /\ EnterPrepare(p, net, {})
  \/ /\ c.down \in Unprepared /\ ~Quiet(c)
     /\ Act(p, [c EXCEPT !.commit = TRUE], net, {}, {})
  \/ /\ c.down \notin Unprepared
     /\ Act(p, [c EXCEPT !.commit = TRUE], net,
            RetransmitDown(p, c) \cup
              RetransmitUp(p, c, IF c.down = "ABORT" THEN "ABORT" ELSE "PREPARE"), {})

HandlePreCommitReq(p, net) ==
  LET c == ctx[p] IN
  \/ c.down = "PREPARE" /\ Quiet(c) /\ EnterPreCommit(p, c, net)
  \/ /\ c.down \in {"PRE_COMMIT", "COMMIT"}
     /\ Act(p, c, net, RetransmitDown(p, c) \cup RetransmitUp(p, c, "PRE_COMMIT"), {})
  \/ /\ c.down \in Unprepared \cup {"ABORT"} \/ (c.down = "PREPARE" /\ ~Quiet(c))
     /\ Ignore(net)

HandleCommitReq(p, net) ==
  LET c == ctx[p] IN
  \/ /\ c.down \in {"PREPARE", "PRE_COMMIT"} /\ Quiet(c)
     /\ Act(p, Drive(c, "COMMIT"), net, PostDown(p, "COMMIT_REQ"), {})
  \/ /\ c.down = "COMMIT"
     /\ Act(p, c, net, RetransmitDown(p, c) \cup RetransmitUp(p, c, "COMMIT"), {})
  \/ /\ \/ c.down \in Unprepared \cup {"ABORT"}
        \/ c.down \in {"PREPARE", "PRE_COMMIT"} /\ ~Quiet(c)
     /\ Ignore(net)

HandleAbortReq(p, net) ==
  LET c == ctx[p] IN
  \/ /\ c.down \in Unprepared \cup {"PREPARE"} /\ Quiet(c)
     /\ Act(p, Drive(c, "ABORT"), net, PostDown(p, "ABORT_REQ"), {})
  \/ /\ c.down = "ABORT"
     /\ Act(p, c, net, RetransmitDown(p, c) \cup RetransmitUp(p, c, "ABORT"), {})
  \/ /\ \/ c.down \in {"PRE_COMMIT", "COMMIT"}
        \/ c.down \in Unprepared \cup {"PREPARE"} /\ ~Quiet(c)
     /\ Ignore(net)

HandleClearReq(p, net) ==
  LET c == ctx[p] IN
  \/ /\ c.down \in {"COMMIT", "ABORT"} /\ Quiet(c)
     /\ Act(p, Drive(c, "CLEAR"), net, PostDown(p, "CLEAR_REQ"), {})
  \/ ~(c.down \in {"COMMIT", "ABORT"} /\ Quiet(c)) /\ Ignore(net)

-----------------------------------------------------------------------------
(* Responses from downstream q *)

Collect(c, q) == [c EXCEPT !.collected = @ \cup {q}]

\* retransmit_downstream_msg_(participant)
Resend(p, q, net) ==
  Act(p, ctx[p], net, Down(p, Request[ctx[p].up], {q}), {})

HandlePrepareResp(p, q, net) ==
  LET c == Collect(ctx[p], q) IN
  \/ /\ c.up = "PREPARE"
     /\ IF Quiet(c) /\ c.down = "PREPARE" /\ AllCollected(p, c)
        THEN Prepared(p, c, net)
        ELSE Act(p, c, net, {}, {})
  \/ c.up \in {"PRE_COMMIT", "COMMIT", "ABORT"} /\ Resend(p, q, net)
  \/ c.up \in Unprepared \cup {"CLEAR"} /\ Ignore(net)

\* The root decides to commit, and tells the scheduler without waiting for
\* the COMMIT log.
HandlePreCommitResp(p, q, net) ==
  LET c == Collect(ctx[p], q) IN
  \/ /\ c.up = "PRE_COMMIT"
     /\ \/ /\ AllCollected(p, c) /\ p = Root
           /\ Act(p, Drive(c, "COMMIT"), net, PostDown(p, "COMMIT_REQ"), {"committed"})
        \/ /\ AllCollected(p, c) /\ p # Root
           /\ Act(p, c, net, Up(p, "PRE_COMMIT_RESP"), {})
        \/ ~AllCollected(p, c) /\ Act(p, c, net, {}, {})
  \/ c.up \in {"COMMIT", "CLEAR"} /\ Resend(p, q, net)
  \/ c.up \in Unprepared \cup {"PREPARE", "ABORT"} /\ Ignore(net)

\* handle_2pc_ack_response_impl_
HandleAck(p, q, net) ==
  LET c == Collect(ctx[p], q)
  IN  IF Quiet(c) /\ c.down \in {"COMMIT", "ABORT"} /\ AllCollected(p, c)
      THEN PhaseDone(p, c, net)
      ELSE Act(p, c, net, {}, {})

HandleCommitResp(p, q, net) ==
  \/ ctx[p].up = "COMMIT" /\ HandleAck(p, q, net)
  \/ ctx[p].up = "CLEAR" /\ Resend(p, q, net)
  \/ ctx[p].up \notin {"COMMIT", "CLEAR"} /\ Ignore(net)

\* The first ABORT_RESP makes the participant abort.  Its role is known once
\* the two-phase commit has reached it.
HandleAbortResp(p, q, net) ==
  LET c == ctx[p]
      abortable == /\ {c.up, c.down} \subseteq Unprepared \cup {"PREPARE"}
                   /\ Quiet(c)
                   /\ c.commit \/ c.down # "INIT"
  IN
  \/ /\ abortable
     /\ Act(p, Collect(Drive(c, "ABORT"), q), net, PostDown(p, "ABORT_REQ"),
            IF p = Root THEN {"killed"} ELSE {})
  \/ c.up \in {"COMMIT", "ABORT"} /\ HandleAck(p, q, net)
  \/ c.up = "CLEAR" /\ Resend(p, q, net)
  \/ c.up \notin {"COMMIT", "ABORT", "CLEAR"} /\ ~abortable /\ Ignore(net)

-----------------------------------------------------------------------------
(* handle_tx_batch_req *)

Handle(m, net) ==
  LET p == m.to q == m.from IN
  \/ m.type = "PREPARE_REQ" /\ HandlePrepareReq(p, net)
  \/ m.type = "PRE_COMMIT_REQ" /\ HandlePreCommitReq(p, net)
  \/ m.type = "COMMIT_REQ" /\ HandleCommitReq(p, net)
  \/ m.type = "ABORT_REQ" /\ HandleAbortReq(p, net)
  \/ m.type = "CLEAR_REQ" /\ HandleClearReq(p, net)
  \/ m.type = "PREPARE_RESP" /\ HandlePrepareResp(p, q, net)
  \/ m.type = "PRE_COMMIT_RESP" /\ HandlePreCommitResp(p, q, net)
  \/ m.type = "COMMIT_RESP" /\ HandleCommitResp(p, q, net)
  \/ m.type = "ABORT_RESP" /\ HandleAbortResp(p, q, net)

\* Variant: a participant without context answers a CLEAR_REQ too.
OrphanAnswersClear(m) ==
  {[type |-> IF m.type = "CLEAR_REQ" THEN "CLEAR_RESP" ELSE "ABORT_RESP",
    from |-> m.to, to |-> m.from]}

\* handle_orphan_2pc_msg_: without context, the transaction is presumed
\* aborted, or over
OrphanAnswer(m) ==
  LET answer == IF m.type \in Requests \ {"CLEAR_REQ"} THEN {"ABORT_RESP"}
                ELSE IF m.type \in {"PREPARE_RESP", "PRE_COMMIT_RESP"} THEN {"ABORT_REQ"}
                ELSE IF m.type \in {"COMMIT_RESP", "ABORT_RESP"} THEN {"CLEAR_REQ"}
                ELSE {}
  IN  {[type |-> t, from |-> m.to, to |-> m.from] : t \in answer}

Receive(m) ==
  /\ m \in msgs
  /\ IF ctx[m.to].alive
     THEN Handle(m, Rest(m))
     ELSE Ignore(Rest(m) \cup OrphanAnswer(m))
  /\ UNCHANGED <<log, held>>

Lose(m) ==
  /\ Lossy
  /\ m \in msgs
  /\ msgs' = msgs \ {m}
  /\ UNCHANGED <<ctx, log, replies, held, faults>>

-----------------------------------------------------------------------------
(* Logs, timers and the GTS *)

\* on_local_abort_tx_
LocalAborted(p, net) ==
  Act(p, Exit(ctx[p], "ABORT"), net, {}, IF ctx[p].commit THEN {"killed"} ELSE {})

\* The effect of on_success and apply_log.
Apply(p, type) ==
  LET c == [ctx[p] EXCEPT !.logging = "none", !.down = type] IN
  \/ /\ type = "PREPARE"
     /\ IF AllCollected(p, c) THEN Prepared(p, c, msgs) ELSE Act(p, c, msgs, {}, {})
  \/ /\ type = "COMMIT" \/ (type = "ABORT" /\ ~c.force)
     /\ IF AllCollected(p, c) THEN PhaseDone(p, c, msgs) ELSE Act(p, c, msgs, {}, {})
  \/ type = "ABORT" /\ c.force /\ LocalAborted(p, msgs)
  \/ type = "CLEAR" /\ Act(p, Exit(c, "CLEAR"), msgs, {}, {})

LogSynced(p) ==
  LET type == ctx[p].logging IN
  /\ ctx[p].alive
  /\ type \notin {"none", "gts"}
  /\ log' = [log EXCEPT ![p] = @ \cup {type}]
  /\ Apply(p, type)
  /\ UNCHANGED held

\* gts_elapse_callback
GtsElapsed(p) ==
  /\ ctx[p].alive
  /\ ctx[p].logging = "gts"
  /\ EnterPreCommit(p, [ctx[p] EXCEPT !.logging = "none"], msgs)
  /\ UNCHANGED <<log, held>>

\* Variant: the timer does not submit the log again.
TimeoutNoSubmit(p) ==
  LET c == ctx[p] IN
  /\ c.alive
  /\ c.down # "INIT" \/ c.commit
  /\ Act(p, c, msgs, RetransmitDown(p, c) \cup RetransmitUp(p, c, c.down), {})
  /\ UNCHANGED <<log, held>>

\* ObPartTransCtx::handle_timeout of a transaction that is committing: enter
\* PREPARE after a leader switch, submit the log again, ask and answer again
Timeout(p) ==
  LET c == ctx[p]
      d == IF Quiet(c) THEN [c EXCEPT !.logging = LogType(c)] ELSE c
  IN
  /\ c.alive
  /\ \/ /\ c.down = "REDO_COMPLETE" /\ c.up \in Unprepared /\ Quiet(c)
        /\ EnterPrepare(p, msgs, {})
     \/ /\ ~(c.down = "REDO_COMPLETE" /\ c.up \in Unprepared /\ Quiet(c))
        /\ c.down # "INIT" \/ c.commit
        /\ Act(p, d, msgs, RetransmitDown(p, c) \cup RetransmitUp(p, c, c.down), {})
  /\ UNCHANGED <<log, held>>

\* abort(), the expiry of a transaction that is not committing, and kill():
\* with a record in the log the ABORT log is needed, compensate_abort_log_
LocalAbort(p) ==
  LET c == ctx[p] IN
  /\ c.alive /\ Quiet(c)
  /\ c.down \in Unprepared
  /\ IF log[p] # {}
     THEN Act(p, [c EXCEPT !.force = TRUE, !.logging = "ABORT"], msgs, {}, {})
     ELSE LocalAborted(p, msgs)
  /\ UNCHANGED <<log, held>>

-----------------------------------------------------------------------------
(* The commit request of the scheduler, which it repeats until it is told *)

\* ObPartTransCtx::commit
Commit ==
  LET c == ctx[Root]
      fresh == c.down = "INIT" \/ (c.down = "REDO_COMPLETE" /\ ~c.commit)
  IN
  \/ ~Quiet(c) /\ Ignore(msgs)
  \/ /\ Quiet(c) /\ c.alive /\ fresh /\ c.up \in Unprepared
     /\ EnterPrepare(Root, msgs, {"killed"})
  \/ /\ Quiet(c) /\ c.alive
     /\ c.down = "PREPARE" \/ (c.down \in Unprepared /\ ~(fresh /\ c.up \in Unprepared))
     /\ Act(Root, [c EXCEPT !.commit = TRUE], msgs, {}, {})
  \/ Quiet(c) /\ c.down = "ABORT" /\ Act(Root, c, msgs, {}, {"killed"})
  \/ /\ Quiet(c) /\ c.down \in {"PRE_COMMIT", "COMMIT", "CLEAR"}
     /\ Act(Root, c, msgs, {}, {"committed"})

\* Variant: a commit request that finds no context is not answered.
CommitRequestKnown ==
  /\ ~held
  /\ ctx[Root].alive /\ Commit
  /\ UNCHANGED <<log, held>>

\* local_ls_commit_tx_: without context the tx table has the answer
CommitRequest ==
  /\ ~held
  /\ IF ctx[Root].alive
     THEN Commit
     ELSE Act(Root, ctx[Root], msgs, {},
              IF "COMMIT" \in log[Root] THEN {"committed"} ELSE {"killed"})
  /\ UNCHANGED <<log, held>>

\* The same request, where get_tx_ctx_ and the lock of the context are apart.
FindCtx ==
  /\ SlowLookup
  /\ ctx[Root].alive
  /\ ~held
  /\ held' = TRUE
  /\ UNCHANGED <<ctx, log, msgs, replies, faults>>

CommitFound ==
  /\ held
  /\ held' = FALSE
  /\ Commit
  /\ UNCHANGED log

-----------------------------------------------------------------------------
(* A new leader: what is synced is replayed, the rest is lost *)

\* Records that a leader switch may still add: those in flight (the PREPARE
\* log comes with the commit info), or those of a graceful switch.
Survivors(p) ==
  LET c == ctx[p] IN
  {{}} \cup (IF c.logging \in {"none", "gts"} THEN {} ELSE {{c.logging}})
       \cup (IF c.logging = "PREPARE" THEN {{"REDO_COMPLETE"}} ELSE {})
       \cup (IF Quiet(c) /\ ~c.force /\ c.down = "INIT"
             THEN {{IF c.commit THEN "REDO_COMPLETE" ELSE "INIT"}} ELSE {})

Durable(records) == CHOOSE r \in records : \A s \in records : Rank[s] <= Rank[r]

\* switch_to_follower_forcedly, _gracefully, the replay and switch_to_leader
SwitchLeader(p) ==
  LET c == ctx[p] IN
  /\ c.alive
  /\ faults < MaxFaults
  /\ faults' = faults + 1
  /\ held' = (held /\ p # Root)
  /\ \E new \in Survivors(p) :
       LET records == log[p] \cup new
           d == Durable(records)
       IN  /\ log' = [log EXCEPT ![p] = records]
           /\ ctx' = [ctx EXCEPT ![p] =
                        IF records = {} \/ d \in {"ABORT", "CLEAR"}
                        THEN Exit(c, IF records = {} THEN "ABORT" ELSE d)
                        ELSE Replayed(d, d = "INIT" /\ new # {"INIT"})]
           /\ replies' = IF /\ p = Root /\ c.commit /\ c.down = "INIT"
                            /\ new = {} /\ c.logging # "PREPARE"
                         THEN replies \cup {"killed"} ELSE replies
  /\ UNCHANGED msgs

-----------------------------------------------------------------------------
Next ==
  \/ \E m \in msgs : Receive(m) \/ Lose(m)
  \/ \E p \in Parts : \/ LogSynced(p) \/ GtsElapsed(p) \/ Timeout(p)
                      \/ LocalAbort(p) \/ SwitchLeader(p)
  \/ CommitRequest \/ FindCtx \/ CommitFound

Spec == Init /\ [][Next]_vars

\* The local aborts that are tried until they succeed: the expiry of what is
\* not committing, and the kill that has set force.
Expire(p) ==
  /\ (ctx[p].down = "INIT" /\ ~ctx[p].commit) \/ ctx[p].force
  /\ LocalAbort(p)

\* A message that is sent again and again arrives, the log stream syncs, the
\* GTS advances, timers are registered again.
Fairness ==
  /\ \A m \in Messages : SF_vars(Receive(m))
  /\ \A p \in Parts : /\ WF_vars(LogSynced(p)) /\ WF_vars(GtsElapsed(p))
                      /\ WF_vars(Timeout(p)) /\ WF_vars(Expire(p))
  /\ WF_vars(CommitRequest)

FairSpec == Spec /\ Fairness

-----------------------------------------------------------------------------
\* Once a COMMIT record is in the log of a participant, every participant has
\* its PREPARE record and none has aborted or left without committing.
Agreement ==
  (\E p \in Parts : "COMMIT" \in log[p]) =>
     \A q \in Parts : /\ "PREPARE" \in log[q] /\ "ABORT" \notin log[q]
                      /\ ctx[q].alive \/ "COMMIT" \in log[q]

\* commit(): "OB_TRANS_COMMITED - has committed".  The scheduler is told so
\* only if every participant has prepared and none has aborted.
CommittedIsTrue ==
  "committed" \in replies =>
     \A q \in Parts : "PREPARE" \in log[q] /\ "ABORT" \notin log[q]

\* No message in the network meets an OB_TRANS_PROTOCOL_ERROR branch of its
\* handler.
NoProtocolError ==
  \A m \in msgs : ctx[m.to].alive =>
    LET c == ctx[m.to] IN
    /\ m.type \in {"PRE_COMMIT_REQ", "COMMIT_REQ"} => c.down \notin Unprepared \cup {"ABORT"}
    /\ m.type = "ABORT_REQ" => c.down # "PRE_COMMIT"
    /\ m.type = "CLEAR_REQ" => c.down \notin {"PREPARE", "PRE_COMMIT"}
    /\ m.type \in {"PRE_COMMIT_RESP", "COMMIT_RESP"} => c.up \notin Unprepared \cup {"ABORT"}

\* A log that becomes synced finds the states that apply_log asks for; any
\* other state makes the server abort itself.
LogApplies ==
  \A p \in Parts : LET c == ctx[p] IN c.alive =>
    /\ c.logging = "PREPARE" => c.up = "PREPARE" /\ c.down \in Unprepared
    /\ c.logging = "COMMIT" => c.up = "COMMIT" /\ c.down \in {"PREPARE", "PRE_COMMIT", "COMMIT"}
    /\ c.logging = "ABORT" => c.down \in Unprepared \cup {"PREPARE"}
    /\ c.logging = "CLEAR" => c.up = "CLEAR" /\ c.down \in {"COMMIT", "ABORT"}

\* Every participant gets rid of its context: the locks of the transaction
\* are released and the outcome is in the tx table.
ContextsEnd == <>(\A p \in Parts : ~ctx[p].alive)

\* The scheduler hears the outcome.
SchedulerTold == <>(replies # {})
=============================================================================
