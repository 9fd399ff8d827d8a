--------------------------- MODULE TwoPhaseProofs ---------------------------
(***************************************************************************)
(* What holds of every context of TwoPhaseCommit, for every tree of        *)
(* participants and any number of faults: the two states of a participant  *)
(* and the log in flight fit together, so that a log that is synced can    *)
(* always be applied.  The argument is local: every handler leaves a       *)
(* context that is coherent whatever message, timer or log comes.          *)
(***************************************************************************)
EXTENDS TwoPhaseCommit, TLAPS

-----------------------------------------------------------------------------
(* The inductive invariant *)

\* The downstream state follows the upstream state.
StatesFit(c) ==
  /\ c.up = "INIT" => c.down = "INIT"
  /\ c.up = "REDO_COMPLETE" => c.down = "REDO_COMPLETE"
  /\ c.up = "PREPARE" => c.down \in {"INIT", "REDO_COMPLETE", "PREPARE"}
  /\ c.up = "PRE_COMMIT" => c.down = "PRE_COMMIT"
  /\ c.up = "COMMIT" => c.down \in {"PREPARE", "PRE_COMMIT", "COMMIT"}
  /\ c.up = "ABORT" => c.down \in {"INIT", "REDO_COMPLETE", "PREPARE", "ABORT"}
  /\ c.up = "CLEAR" => c.down \in {"COMMIT", "ABORT"}

\* The log in flight is the one that the states ask for.
LogFits(c) ==
  /\ c.logging = "gts" => c.up = "PREPARE" /\ c.down = "PREPARE"
  /\ c.logging = "PREPARE" => c.up = "PREPARE" /\ c.down \in {"INIT", "REDO_COMPLETE"}
  /\ c.logging = "COMMIT" => c.up = "COMMIT" /\ c.down \in {"PREPARE", "PRE_COMMIT"}
  /\ c.logging = "ABORT" =>
       /\ c.down \in {"INIT", "REDO_COMPLETE", "PREPARE"}
       /\ c.up = "ABORT" \/ (c.force /\ c.up \in {"INIT", "REDO_COMPLETE", "PREPARE"})
  /\ c.logging = "CLEAR" => c.up = "CLEAR" /\ c.down \in {"COMMIT", "ABORT"}

Coherent(c) == c.alive => StatesFit(c) /\ LogFits(c)

IndInv == TypeOK /\ \A p \in Parts : Coherent(ctx[p])

-----------------------------------------------------------------------------
(* Messages *)

\* The fields of a message.
LEMMA MessageFields ==
  ASSUME NEW m \in Messages
  PROVE  /\ m.to \in Parts /\ m.from \in Parts
         /\ m.type \in Requests \cup Responses
         /\ m.type \in Requests =>
              [type |-> "ABORT_RESP", from |-> m.to, to |-> m.from] \in Messages
         /\ m.type \in Responses =>
              /\ m.from \in Children(m.to)
              /\ \A t \in Requests : [type |-> t, from |-> m.to, to |-> m.from] \in Messages
<1>1. CASE \E t \in Requests, q \in Parts \ {Root} : m = [type |-> t, from |-> Parent[q], to |-> q]
  <2>1. PICK t \in Requests, q \in Parts \ {Root} : m = [type |-> t, from |-> Parent[q], to |-> q]
    BY <1>1
  <2>2. m.type = t /\ m.from = Parent[q] /\ m.to = q /\ t \notin Responses
    BY <2>1 DEF Requests, Responses
  <2>3. [type |-> "ABORT_RESP", from |-> q, to |-> Parent[q]] \in Messages
    BY DEF Messages, Responses
  <2>4. [type |-> "ABORT_RESP", from |-> m.to, to |-> m.from] \in Messages
    BY <2>2, <2>3
  <2>5. Parent[q] \in Parts
    BY TreeAssumption
  <2> QED BY <2>2, <2>4, <2>5
<1>2. CASE \E t \in Responses, q \in Parts \ {Root} : m = [type |-> t, from |-> q, to |-> Parent[q]]
  <2>1. PICK t \in Responses, q \in Parts \ {Root} : m = [type |-> t, from |-> q, to |-> Parent[q]]
    BY <1>2
  <2>2. m.type = t /\ m.from = q /\ m.to = Parent[q] /\ t \notin Requests
    BY <2>1 DEF Requests, Responses
  <2>3. \A u \in Requests : [type |-> u, from |-> Parent[q], to |-> q] \in Messages
    BY DEF Messages
  <2>4. \A u \in Requests : [type |-> u, from |-> m.to, to |-> m.from] \in Messages
    BY <2>2, <2>3
  <2>5. Parent[q] \in Parts /\ q \in Children(m.to)
    BY <2>2, TreeAssumption DEF Children
  <2> QED BY <2>2, <2>4, <2>5
<1>3. \/ \E t \in Requests, q \in Parts \ {Root} : m = [type |-> t, from |-> Parent[q], to |-> q]
      \/ \E t \in Responses, q \in Parts \ {Root} : m = [type |-> t, from |-> q, to |-> Parent[q]]
  BY DEF Messages
<1> QED BY <1>1, <1>2, <1>3

\* A message to participants downstream.
LEMMA DownType ==
  ASSUME NEW p \in Parts, NEW type \in Requests, NEW to, to \subseteq Children(p)
  PROVE  Down(p, type, to) \subseteq Messages
  BY TreeAssumption DEF Down, Children, Messages

\* A message to all participants downstream.
LEMMA PostDownType ==
  ASSUME NEW p \in Parts, NEW type \in Requests
  PROVE  PostDown(p, type) \subseteq Messages
  BY DownType DEF PostDown

\* A message to the upstream.
LEMMA UpType ==
  ASSUME NEW p \in Parts, NEW type \in Responses
  PROVE  Up(p, type) \subseteq Messages
  BY TreeAssumption DEF Up, Messages

\* What is sent again are messages of the protocol.
LEMMA RetransmitType ==
  ASSUME NEW p \in Parts, NEW c, NEW state
  PROVE  RetransmitDown(p, c) \cup RetransmitUp(p, c, state) \subseteq Messages
<1>1. RetransmitDown(p, c) \subseteq Messages
  <2>1. CASE c.up \in DOMAIN Request
    <3>1. Request[c.up] \in Requests
      BY <2>1 DEF Request, Requests
    <3>2. Children(p) \ c.collected \subseteq Children(p)
      OBVIOUS
    <3> QED BY <2>1, <3>1, <3>2, DownType DEF RetransmitDown
  <2>2. CASE c.up \notin DOMAIN Request
    BY <2>2 DEF RetransmitDown
  <2> QED BY <2>1, <2>2
<1>2. RetransmitUp(p, c, state) \subseteq Messages
  <2>1. CASE state \in DOMAIN Response
    <3>1. Response[state] \in Responses
      BY <2>1 DEF Response, Responses
    <3> QED BY <3>1, UpType DEF RetransmitUp
  <2>2. CASE state \notin DOMAIN Response
    BY <2>2 DEF RetransmitUp
  <2> QED BY <2>1, <2>2
<1> QED BY <1>1, <1>2

-----------------------------------------------------------------------------
(* One context *)

\* A handler that leaves a coherent context keeps the invariant, whether the
\* log it submits is accepted or not.
LEMMA ActKeeps ==
  ASSUME IndInv, NEW p \in Parts, NEW c \in Contexts, Coherent(c),
         NEW net \in SUBSET Messages, NEW out \in SUBSET Messages,
         NEW told \in SUBSET {"committed", "killed"},
         Act(p, c, net, out, told),
         log' \in [Parts -> SUBSET Records], held' \in BOOLEAN
  PROVE  IndInv'
<1> DEFINE d == [c EXCEPT !.logging = "none"]
<1>1. d \in Contexts /\ Coherent(d)
  BY DEF Contexts, Coherent, StatesFit, LogFits
<1>2. /\ ctx' \in [Parts -> Contexts]
      /\ \A q \in Parts : Coherent(ctx'[q])
  BY <1>1 DEF IndInv, TypeOK, Act
<1>3. /\ msgs' \subseteq Messages
      /\ replies' \subseteq {"committed", "killed"}
  BY DEF Act, IndInv, TypeOK
<1>4. faults' \in 0..MaxFaults
  BY TreeAssumption DEF Act, IndInv, TypeOK
<1>5. \A q \in Parts : Coherent(ctx[q])'
  BY <1>2 DEF Coherent, StatesFit, LogFits
<1> QED BY <1>2, <1>3, <1>4, <1>5 DEF IndInv, TypeOK

\* So does one that leaves the contexts alone.
LEMMA IgnoreKeeps ==
  ASSUME IndInv, NEW net \in SUBSET Messages, Ignore(net),
         log' \in [Parts -> SUBSET Records], held' \in BOOLEAN
  PROVE  IndInv'
  BY DEF Ignore, IndInv, TypeOK, Coherent, StatesFit, LogFits

\* What Drive leaves of a context that is not logging.
LEMMA DriveFits ==
  ASSUME NEW c \in Contexts, NEW phase \in TxStates
  PROVE  /\ Drive(c, phase) \in Contexts
         /\ Drive(c, phase).up = phase
         /\ Drive(c, phase).down = c.down
         /\ Drive(c, phase).alive = c.alive
         /\ Drive(c, phase).force = c.force
         /\ Drive(c, phase).commit = c.commit
         /\ Drive(c, phase).collected \in {c.collected, {}}
         /\ Drive(c, phase).logging \in {"none", "PREPARE", "COMMIT", "ABORT", "CLEAR"}
         /\ Drive(c, phase).logging = "PREPARE" => phase = "PREPARE" /\ c.down \in Unprepared
         /\ Drive(c, phase).logging = "COMMIT" =>
              phase = "COMMIT" /\ c.down \in {"PREPARE", "PRE_COMMIT"}
         /\ Drive(c, phase).logging = "ABORT" => phase = "ABORT"
         /\ Drive(c, phase).logging = "CLEAR" =>
              phase = "CLEAR" /\ c.down \in {"COMMIT", "ABORT"}
<1> DEFINE d == IF c.up = phase THEN c
                                ELSE [c EXCEPT !.up = phase, !.collected = {}]
<1>1. /\ d \in Contexts
      /\ d.up = phase /\ d.down = c.down /\ d.alive = c.alive
      /\ d.force = c.force /\ d.commit = c.commit
      /\ d.collected \in {c.collected, {}}
  BY DEF Contexts
<1>2. /\ LogType(d) \in {"none", "PREPARE", "COMMIT", "ABORT", "CLEAR"}
      /\ LogType(d) = "PREPARE" => phase = "PREPARE" /\ c.down \in Unprepared
      /\ LogType(d) = "COMMIT" => phase = "COMMIT" /\ c.down \in {"PREPARE", "PRE_COMMIT"}
      /\ LogType(d) = "ABORT" => phase = "ABORT"
      /\ LogType(d) = "CLEAR" => phase = "CLEAR" /\ c.down \in {"COMMIT", "ABORT"}
  BY <1>1 DEF LogType
<1>3. Drive(c, phase) = [d EXCEPT !.logging = LogType(d)]
  BY DEF Drive
<1> HIDE DEF d
<1>4. /\ [d EXCEPT !.logging = LogType(d)] \in Contexts
      /\ [d EXCEPT !.logging = LogType(d)].logging = LogType(d)
      /\ [d EXCEPT !.logging = LogType(d)].up = d.up
      /\ [d EXCEPT !.logging = LogType(d)].down = d.down
      /\ [d EXCEPT !.logging = LogType(d)].alive = d.alive
      /\ [d EXCEPT !.logging = LogType(d)].force = d.force
      /\ [d EXCEPT !.logging = LogType(d)].commit = d.commit
      /\ [d EXCEPT !.logging = LogType(d)].collected = d.collected
  BY <1>1, <1>2 DEF Contexts
<1> QED BY <1>1, <1>2, <1>3, <1>4

\* Drive leads a context into a phase that its downstream state allows.
LEMMA DriveCoherent ==
  ASSUME NEW c \in Contexts, NEW phase \in TxStates,
         \/ phase = "PREPARE" /\ c.down \in Unprepared
         \/ phase = "COMMIT" /\ c.down \in {"PREPARE", "PRE_COMMIT"}
         \/ phase = "ABORT" /\ c.down \in Unprepared \cup {"PREPARE"}
         \/ phase = "CLEAR" /\ c.down \in {"COMMIT", "ABORT"}
  PROVE  Coherent(Drive(c, phase))
  BY DriveFits DEF Coherent, StatesFit, LogFits, Unprepared

\* What a handler may rely on, and what its caller adds.
Handling(p, net) ==
  /\ IndInv
  /\ p \in Parts
  /\ net \in SUBSET Messages
  /\ log' \in [Parts -> SUBSET Records]
  /\ held' \in BOOLEAN

\* Entering PREPARE.
LEMMA EnterPrepareKeeps ==
  ASSUME NEW p, NEW net, Handling(p, net),
         NEW told \in SUBSET {"committed", "killed"},
         ctx[p].down \in Unprepared, Quiet(ctx[p]), StatesFit(ctx[p]),
         EnterPrepare(p, net, told)
  PROVE  IndInv'
<1> DEFINE c == ctx[p]
<1>1. c \in Contexts
  BY DEF Handling, IndInv, TypeOK
<1>2. CASE c.force /\ c.up # "PREPARE"
  <2> DEFINE d == [c EXCEPT !.logging = "ABORT"]
  <2>1. d \in Contexts /\ Coherent(d)
    BY <1>1, <1>2 DEF Contexts, Coherent, StatesFit, LogFits, Unprepared, TxStates
  <2>2. Act(p, d, net, {}, told)
    BY <1>2 DEF EnterPrepare
  <2> QED BY <2>1, <2>2, ActKeeps DEF Handling
<1>3. CASE ~(c.force /\ c.up # "PREPARE")
  <2> DEFINE d == [Drive(c, "PREPARE") EXCEPT !.commit = TRUE]
  <2>1. Drive(c, "PREPARE") \in Contexts /\ Coherent(Drive(c, "PREPARE"))
    BY <1>1, DriveFits, DriveCoherent DEF TxStates
  <2>2. d \in Contexts /\ Coherent(d)
    BY <2>1 DEF Contexts, Coherent, StatesFit, LogFits
  <2>3. Act(p, d, net, PostDown(p, "PREPARE_REQ"), {})
    BY <1>3 DEF EnterPrepare
  <2>4. PostDown(p, "PREPARE_REQ") \in SUBSET Messages
    BY PostDownType DEF Handling, Requests
  <2> QED BY <2>2, <2>3, <2>4, ActKeeps DEF Handling
<1> QED BY <1>2, <1>3

\* Entering PRE_COMMIT.
LEMMA EnterPreCommitKeeps ==
  ASSUME NEW p, NEW net, Handling(p, net), NEW c \in Contexts,
         EnterPreCommit(p, c, net)
  PROVE  IndInv'
<1> DEFINE d == [Drive(c, "PRE_COMMIT") EXCEPT !.down = "PRE_COMMIT"]
           out == IF Children(p) = {} THEN Up(p, "PRE_COMMIT_RESP")
                                      ELSE PostDown(p, "PRE_COMMIT_REQ")
<1>1. d \in Contexts /\ Coherent(d)
  <2> DEFINE e == Drive(c, "PRE_COMMIT")
  <2>1. e \in Contexts /\ e.up = "PRE_COMMIT" /\ e.logging = "none"
    BY DriveFits DEF TxStates
  <2> HIDE DEF e
  <2>2. [e EXCEPT !.down = "PRE_COMMIT"] \in Contexts
    BY <2>1 DEF Contexts, TxStates
  <2>3. Coherent([e EXCEPT !.down = "PRE_COMMIT"])
    BY <2>1 DEF Contexts, Coherent, StatesFit, LogFits
  <2> QED BY <2>2, <2>3 DEF e
<1>2. out \in SUBSET Messages
  BY PostDownType, UpType DEF Handling, Requests, Responses
<1>3. Act(p, d, net, out, {})
  BY DEF EnterPreCommit
<1> QED BY <1>1, <1>2, <1>3, ActKeeps DEF Handling

\* The end of PREPARE at p and in its downstream.
LEMMA PreparedKeeps ==
  ASSUME NEW p, NEW net, Handling(p, net), NEW c \in Contexts, Coherent(c),
         c.alive, c.up = "PREPARE", c.down = "PREPARE", Prepared(p, c, net)
  PROVE  IndInv'
<1>1. CASE EnterPreCommit(p, c, net)
  BY <1>1, EnterPreCommitKeeps
<1>2. CASE WaitGts(p, c, net)
  <2> DEFINE d == [c EXCEPT !.logging = "gts"]
  <2>1. d \in Contexts /\ Coherent(d)
    BY DEF Contexts, Coherent, StatesFit, LogFits
  <2> QED BY <1>2, <2>1, ActKeeps DEF WaitGts, Handling
<1>3. CASE p # Root /\ Act(p, c, net, Up(p, "PREPARE_RESP"), {})
  <2>1. Up(p, "PREPARE_RESP") \in SUBSET Messages
    BY UpType DEF Handling, Responses
  <2> QED BY <1>3, <2>1, ActKeeps DEF Handling
<1> QED BY <1>1, <1>2, <1>3 DEF Prepared

\* The end of COMMIT or ABORT at p and in its downstream.
LEMMA PhaseDoneKeeps ==
  ASSUME NEW p, NEW net, Handling(p, net), NEW c \in Contexts, Coherent(c),
         c.up \in {"COMMIT", "ABORT"}, c.down \in {"COMMIT", "ABORT"},
         PhaseDone(p, c, net)
  PROVE  IndInv'
<1>1. CASE p = Root
  <2>1. Drive(c, "CLEAR") \in Contexts /\ Coherent(Drive(c, "CLEAR"))
    BY DriveFits, DriveCoherent DEF TxStates
  <2>2. PostDown(p, "CLEAR_REQ") \in SUBSET Messages
    BY PostDownType DEF Handling, Requests
  <2> QED BY <1>1, <2>1, <2>2, ActKeeps DEF PhaseDone, Handling
<1>2. CASE p # Root
  <2>1. Up(p, Response[c.up]) \in SUBSET Messages
    BY UpType DEF Handling, Response, Responses
  <2> QED BY <1>2, <2>1, ActKeeps DEF PhaseDone, Handling
<1> QED BY <1>1, <1>2

-----------------------------------------------------------------------------
(* Requests *)

\* A handler that only answers again.
LEMMA AnswerKeeps ==
  ASSUME NEW p, NEW net, Handling(p, net), NEW c \in Contexts, Coherent(c), NEW state,
         Act(p, c, net, RetransmitDown(p, ctx[p]) \cup RetransmitUp(p, ctx[p], state), {})
  PROVE  IndInv'
<1>1. RetransmitDown(p, ctx[p]) \cup RetransmitUp(p, ctx[p], state) \in SUBSET Messages
  BY RetransmitType DEF Handling
<1> QED BY <1>1, ActKeeps DEF Handling

\* A handler that drives p into a phase and asks its downstream for it.
LEMMA RequestKeeps ==
  ASSUME NEW p, NEW net, Handling(p, net), NEW phase \in {"COMMIT", "ABORT", "CLEAR"},
         \/ phase = "COMMIT" /\ ctx[p].down \in {"PREPARE", "PRE_COMMIT"}
         \/ phase = "ABORT" /\ ctx[p].down \in Unprepared \cup {"PREPARE"}
         \/ phase = "CLEAR" /\ ctx[p].down \in {"COMMIT", "ABORT"},
         NEW type \in Requests,
         Act(p, Drive(ctx[p], phase), net, PostDown(p, type), {})
  PROVE  IndInv'
<1>1. ctx[p] \in Contexts
  BY DEF Handling, IndInv, TypeOK
<1>2. Drive(ctx[p], phase) \in Contexts /\ Coherent(Drive(ctx[p], phase))
  BY <1>1, DriveFits, DriveCoherent DEF TxStates
<1>3. PostDown(p, type) \in SUBSET Messages
  BY PostDownType DEF Handling
<1> QED BY <1>2, <1>3, ActKeeps DEF Handling

\* Each request keeps the invariant.
LEMMA RequestsKeep ==
  ASSUME NEW p, NEW net, Handling(p, net), ctx[p].alive,
         \/ HandlePrepareReq(p, net) \/ HandlePreCommitReq(p, net)
         \/ HandleCommitReq(p, net) \/ HandleAbortReq(p, net)
         \/ HandleClearReq(p, net)
  PROVE  IndInv'
<1> DEFINE c == ctx[p]
<1>1. c \in Contexts /\ Coherent(c) /\ StatesFit(c)
  BY DEF Handling, IndInv, TypeOK, Coherent
<1>2. CASE Ignore(net)
  BY <1>2, IgnoreKeeps DEF Handling
<1>3. CASE HandlePrepareReq(p, net)
  <2> DEFINE d == [c EXCEPT !.commit = TRUE]
  <2>1. d \in Contexts /\ Coherent(d)
    BY <1>1 DEF Contexts, Coherent, StatesFit, LogFits
  <2>2. CASE c.down \in Unprepared /\ Quiet(c) /\ EnterPrepare(p, net, {})
    BY <1>1, <2>2, EnterPrepareKeeps
  <2>3. CASE Act(p, d, net, {}, {})
    BY <2>1, <2>3, ActKeeps DEF Handling
  <2>4. CASE Act(p, d, net, RetransmitDown(p, c) \cup
                   RetransmitUp(p, c, IF c.down = "ABORT" THEN "ABORT" ELSE "PREPARE"), {})
    BY <2>1, <2>4, AnswerKeeps
  <2> QED BY <1>3, <2>2, <2>3, <2>4 DEF HandlePrepareReq
<1>4. CASE HandlePreCommitReq(p, net)
  <2>1. CASE EnterPreCommit(p, c, net)
    BY <1>1, <2>1, EnterPreCommitKeeps
  <2>2. CASE Act(p, c, net, RetransmitDown(p, c) \cup RetransmitUp(p, c, "PRE_COMMIT"), {})
    BY <1>1, <2>2, AnswerKeeps
  <2> QED BY <1>2, <1>4, <2>1, <2>2 DEF HandlePreCommitReq
<1>5. CASE HandleCommitReq(p, net)
  <2>1. CASE /\ c.down \in {"PREPARE", "PRE_COMMIT"}
             /\ Act(p, Drive(c, "COMMIT"), net, PostDown(p, "COMMIT_REQ"), {})
    BY <2>1, RequestKeeps DEF Requests
  <2>2. CASE Act(p, c, net, RetransmitDown(p, c) \cup RetransmitUp(p, c, "COMMIT"), {})
    BY <1>1, <2>2, AnswerKeeps
  <2> QED BY <1>2, <1>5, <2>1, <2>2 DEF HandleCommitReq
<1>6. CASE HandleAbortReq(p, net)
  <2>1. CASE /\ c.down \in Unprepared \cup {"PREPARE"}
             /\ Act(p, Drive(c, "ABORT"), net, PostDown(p, "ABORT_REQ"), {})
    BY <2>1, RequestKeeps DEF Requests
  <2>2. CASE Act(p, c, net, RetransmitDown(p, c) \cup RetransmitUp(p, c, "ABORT"), {})
    BY <1>1, <2>2, AnswerKeeps
  <2> QED BY <1>2, <1>6, <2>1, <2>2 DEF HandleAbortReq
<1>7. CASE HandleClearReq(p, net)
  <2>1. CASE /\ c.down \in {"COMMIT", "ABORT"}
             /\ Act(p, Drive(c, "CLEAR"), net, PostDown(p, "CLEAR_REQ"), {})
    BY <2>1, RequestKeeps DEF Requests
  <2> QED BY <1>2, <1>7, <2>1 DEF HandleClearReq
<1> QED BY <1>3, <1>4, <1>5, <1>6, <1>7

-----------------------------------------------------------------------------
(* Responses *)

\* Collecting an answer changes nothing else.
LEMMA CollectFits ==
  ASSUME NEW c \in Contexts, NEW q \in Parts
  PROVE  /\ Collect(c, q) \in Contexts
         /\ Collect(c, q).up = c.up /\ Collect(c, q).down = c.down
         /\ Collect(c, q).logging = c.logging /\ Collect(c, q).alive = c.alive
         /\ Coherent(c) => Coherent(Collect(c, q))
<1>1. /\ Collect(c, q) \in Contexts
      /\ Collect(c, q).up = c.up /\ Collect(c, q).down = c.down
      /\ Collect(c, q).logging = c.logging /\ Collect(c, q).alive = c.alive
      /\ Collect(c, q).force = c.force
  BY DEF Collect, Contexts
<1> QED BY <1>1 DEF Coherent, StatesFit, LogFits

\* Asking q once more.
LEMMA ResendKeeps ==
  ASSUME NEW p, NEW net, Handling(p, net), NEW q \in Children(p),
         ctx[p].up \in {"PRE_COMMIT", "COMMIT", "ABORT", "CLEAR"},
         Resend(p, q, net)
  PROVE  IndInv'
<1>1. ctx[p] \in Contexts /\ Coherent(ctx[p])
  BY DEF Handling, IndInv, TypeOK
<1>2. Request[ctx[p].up] \in Requests
  BY DEF Request, Requests
<1>3. Down(p, Request[ctx[p].up], {q}) \in SUBSET Messages
  BY <1>2, DownType DEF Handling
<1>4. Act(p, ctx[p], net, Down(p, Request[ctx[p].up], {q}), {})
  BY DEF Resend
<1> DEFINE c == ctx[p]
           out == Down(p, Request[ctx[p].up], {q})
<1> HIDE DEF c, out
<1>5. /\ c \in Contexts /\ Coherent(c) /\ out \in SUBSET Messages
      /\ Act(p, c, net, out, {})
  BY <1>1, <1>3, <1>4 DEF c, out
<1> QED BY <1>5, ActKeeps DEF Handling

\* An acknowledgement of COMMIT or ABORT.
LEMMA AckKeeps ==
  ASSUME NEW p, NEW net, Handling(p, net), NEW q \in Children(p),
         ctx[p].up \in {"COMMIT", "ABORT"}, HandleAck(p, q, net)
  PROVE  IndInv'
<1> DEFINE c == Collect(ctx[p], q)
<1>0. q \in Parts
  BY DEF Children
<1>1. c \in Contexts /\ Coherent(c) /\ c.up = ctx[p].up
  BY <1>0, CollectFits DEF Handling, IndInv, TypeOK
<1>4. \/ c.down \in {"COMMIT", "ABORT"} /\ PhaseDone(p, c, net)
      \/ Act(p, c, net, {}, {})
  BY DEF HandleAck
<1> HIDE DEF c
<1>2. CASE c.down \in {"COMMIT", "ABORT"} /\ PhaseDone(p, c, net)
  BY <1>1, <1>2, PhaseDoneKeeps
<1>3. CASE Act(p, c, net, {}, {})
  BY <1>1, <1>3, ActKeeps DEF Handling
<1> QED BY <1>2, <1>3, <1>4

\* Each response keeps the invariant.
LEMMA ResponsesKeep ==
  ASSUME NEW p, NEW net, Handling(p, net), ctx[p].alive, NEW q \in Children(p),
         \/ HandlePrepareResp(p, q, net) \/ HandlePreCommitResp(p, q, net)
         \/ HandleCommitResp(p, q, net) \/ HandleAbortResp(p, q, net)
  PROVE  IndInv'
<1> DEFINE b == ctx[p]
           c == Collect(b, q)
<1>0. q \in Parts
  BY DEF Children
<1>1. b \in Contexts /\ Coherent(b)
  BY DEF Handling, IndInv, TypeOK
<1>2. /\ c \in Contexts /\ Coherent(c) /\ c.alive
      /\ c.up = b.up /\ c.down = b.down /\ c.logging = b.logging
  BY <1>0, <1>1, CollectFits
<1>3. CASE Ignore(net)
  BY <1>3, IgnoreKeeps DEF Handling
<1>4. CASE Resend(p, q, net) /\ b.up \in {"PRE_COMMIT", "COMMIT", "ABORT", "CLEAR"}
  BY <1>4, ResendKeeps
<1>5. CASE Act(p, c, net, {}, {})
  BY <1>2, <1>5, ActKeeps DEF Handling
<1>6. CASE HandleAck(p, q, net) /\ b.up \in {"COMMIT", "ABORT"}
  BY <1>6, AckKeeps
<1>7. CASE HandlePrepareResp(p, q, net)
  <2>1. CASE c.up = "PREPARE" /\ c.down = "PREPARE" /\ Prepared(p, c, net)
    BY <1>2, <2>1, PreparedKeeps
  <2> HIDE DEF c
  <2> QED BY <1>2, <1>3, <1>4, <1>5, <1>7, <2>1 DEF HandlePrepareResp, c
<1>8. CASE HandlePreCommitResp(p, q, net)
  <2>1. CASE /\ c.up = "PRE_COMMIT"
             /\ Act(p, Drive(c, "COMMIT"), net, PostDown(p, "COMMIT_REQ"), {"committed"})
    <3>1. c.down = "PRE_COMMIT"
      BY <1>2, <2>1 DEF Coherent, StatesFit
    <3>2. Drive(c, "COMMIT") \in Contexts /\ Coherent(Drive(c, "COMMIT"))
      BY <1>2, <3>1, DriveFits, DriveCoherent DEF TxStates
    <3>3. PostDown(p, "COMMIT_REQ") \in SUBSET Messages
      BY PostDownType DEF Handling, Requests
    <3> QED BY <2>1, <3>2, <3>3, ActKeeps DEF Handling
  <2>2. CASE Act(p, c, net, Up(p, "PRE_COMMIT_RESP"), {})
    <3>1. Up(p, "PRE_COMMIT_RESP") \in SUBSET Messages
      BY UpType DEF Handling, Responses
    <3> QED BY <1>2, <2>2, <3>1, ActKeeps DEF Handling
  <2> HIDE DEF c
  <2> QED BY <1>2, <1>3, <1>4, <1>5, <1>8, <2>1, <2>2 DEF HandlePreCommitResp, c
<1>9. CASE HandleCommitResp(p, q, net)
  BY <1>3, <1>4, <1>6, <1>9 DEF HandleCommitResp
<1>10. CASE HandleAbortResp(p, q, net)
  <2>1. CASE /\ b.down \in Unprepared \cup {"PREPARE"}
             /\ Act(p, Collect(Drive(b, "ABORT"), q), net, PostDown(p, "ABORT_REQ"),
                    IF p = Root THEN {"killed"} ELSE {})
    <3>1. Drive(b, "ABORT") \in Contexts /\ Coherent(Drive(b, "ABORT"))
      BY <1>1, <2>1, DriveFits, DriveCoherent DEF TxStates
    <3>2. /\ Collect(Drive(b, "ABORT"), q) \in Contexts
          /\ Coherent(Collect(Drive(b, "ABORT"), q))
      BY <1>0, <3>1, CollectFits
    <3>3. PostDown(p, "ABORT_REQ") \in SUBSET Messages
      BY PostDownType DEF Handling, Requests
    <3> QED BY <2>1, <3>2, <3>3, ActKeeps DEF Handling
  <2> QED BY <1>3, <1>4, <1>6, <1>10, <2>1 DEF HandleAbortResp
<1> QED BY <1>7, <1>8, <1>9, <1>10

-----------------------------------------------------------------------------
(* The steps *)

\* An answer without context is a message of the protocol.
LEMMA OrphanType ==
  ASSUME NEW m \in Messages
  PROVE  OrphanAnswer(m) \subseteq Messages
<1> DEFINE answer(t) == [type |-> t, from |-> m.to, to |-> m.from]
<1>1. CASE m.type \in Requests \ {"CLEAR_REQ"}
  <2>1. OrphanAnswer(m) = {answer("ABORT_RESP")}
    BY <1>1 DEF OrphanAnswer
  <2> QED BY <1>1, <2>1, MessageFields
<1>2. CASE m.type = "CLEAR_REQ"
  BY <1>2 DEF OrphanAnswer
<1>3. CASE m.type \in {"PREPARE_RESP", "PRE_COMMIT_RESP"}
  <2>1. OrphanAnswer(m) = {answer("ABORT_REQ")}
    BY <1>3 DEF OrphanAnswer, Requests
  <2> QED BY <1>3, <2>1, MessageFields DEF Requests, Responses
<1>4. CASE m.type \in {"COMMIT_RESP", "ABORT_RESP"}
  <2>1. OrphanAnswer(m) = {answer("CLEAR_REQ")}
    BY <1>4 DEF OrphanAnswer, Requests
  <2> QED BY <1>4, <2>1, MessageFields DEF Requests, Responses
<1> QED BY <1>1, <1>2, <1>3, <1>4, MessageFields DEF Requests, Responses

\* Any message, at a participant with or without context.
LEMMA ReceiveKeeps ==
  ASSUME IndInv, NEW m \in msgs, Receive(m)
  PROVE  IndInv'
<1> DEFINE p == m.to
           q == m.from
           net == Rest(m)
<1>1. m \in Messages /\ p \in Parts
  BY MessageFields DEF IndInv, TypeOK
<1>2. /\ net \in SUBSET Messages
      /\ log' \in [Parts -> SUBSET Records] /\ held' \in BOOLEAN
  BY DEF Rest, Receive, IndInv, TypeOK
<1>3. Handling(p, net)
  BY <1>1, <1>2 DEF Handling
<1>4. CASE ~ctx[p].alive
  <2>1. net \cup OrphanAnswer(m) \in SUBSET Messages
    BY <1>1, <1>2, OrphanType
  <2>2. Ignore(net \cup OrphanAnswer(m))
    BY <1>4 DEF Receive
  <2> QED BY <1>2, <2>1, <2>2, IgnoreKeeps
<1>5. CASE ctx[p].alive
  <2>1. Handle(m, net)
    BY <1>5 DEF Receive
  <2>2. CASE m.type \in Requests
    <3>1. \/ HandlePrepareReq(p, net) \/ HandlePreCommitReq(p, net)
          \/ HandleCommitReq(p, net) \/ HandleAbortReq(p, net)
          \/ HandleClearReq(p, net)
      BY <2>1, <2>2 DEF Handle, Requests
    <3> HIDE DEF p, net
    <3> QED BY <1>3, <1>5, <3>1, RequestsKeep
  <2>3. CASE m.type \in Responses
    <3>1. \/ HandlePrepareResp(p, q, net) \/ HandlePreCommitResp(p, q, net)
          \/ HandleCommitResp(p, q, net) \/ HandleAbortResp(p, q, net)
      BY <2>1, <2>3 DEF Handle, Responses
    <3>2. q \in Children(p)
      BY <1>1, <2>3, MessageFields
    <3> HIDE DEF p, q, net
    <3> QED BY <1>3, <1>5, <3>1, <3>2, ResponsesKeep
  <2> QED BY <1>1, <2>2, <2>3, MessageFields
<1> QED BY <1>4, <1>5

\* Leaving a context that is coherent, or not alive.
LEMMA ExitFits ==
  ASSUME NEW c \in Contexts, NEW d \in TxStates
  PROVE  Exit(c, d) \in Contexts /\ Coherent(Exit(c, d))
  BY DEF Exit, Contexts, Coherent

\* The end of a local abort.
LEMMA LocalAbortedKeeps ==
  ASSUME NEW p, NEW net, Handling(p, net), LocalAborted(p, net)
  PROVE  IndInv'
<1> DEFINE c == Exit(ctx[p], "ABORT")
           told == IF ctx[p].commit THEN {"killed"} ELSE {}
<1>1. c \in Contexts /\ Coherent(c)
  BY ExitFits DEF Handling, IndInv, TypeOK, TxStates
<1>2. told \in SUBSET {"committed", "killed"}
  OBVIOUS
<1>3. Act(p, c, net, {}, told)
  BY DEF LocalAborted
<1> HIDE DEF c, told
<1> QED BY <1>1, <1>2, <1>3, ActKeeps DEF Handling

\* A log that is synced.
LEMMA LogSyncedKeeps ==
  ASSUME IndInv, NEW p \in Parts, LogSynced(p)
  PROVE  IndInv'
<1> DEFINE b == ctx[p]
           type == b.logging
           c == [b EXCEPT !.logging = "none", !.down = type]
<1>1. b \in Contexts /\ b.alive /\ StatesFit(b) /\ LogFits(b)
  BY DEF LogSynced, IndInv, TypeOK, Coherent
<1>2. type \in {"PREPARE", "COMMIT", "ABORT", "CLEAR"}
  BY <1>1 DEF LogSynced, Contexts
<1>3. log' \in [Parts -> SUBSET Records] /\ held' \in BOOLEAN /\ msgs \in SUBSET Messages
  BY <1>2 DEF LogSynced, IndInv, TypeOK, Records, TxStates
<1>4. Handling(p, msgs)
  BY <1>3 DEF Handling
<1>5. /\ c \in Contexts
      /\ c.up = b.up /\ c.down = type /\ c.logging = "none"
      /\ c.alive = b.alive /\ c.force = b.force
  BY <1>1, <1>2 DEF Contexts, TxStates
<1>6. \/ /\ type = "PREPARE"
         /\ Prepared(p, c, msgs) \/ Act(p, c, msgs, {}, {})
      \/ /\ type = "COMMIT" \/ (type = "ABORT" /\ ~c.force)
         /\ PhaseDone(p, c, msgs) \/ Act(p, c, msgs, {}, {})
      \/ type = "ABORT" /\ LocalAborted(p, msgs)
      \/ type = "CLEAR" /\ Act(p, Exit(c, "CLEAR"), msgs, {}, {})
  BY DEF LogSynced, Apply
<1> HIDE DEF c
<1>7. CASE type = "PREPARE" /\ (Prepared(p, c, msgs) \/ Act(p, c, msgs, {}, {}))
  <2>1. c.up = "PREPARE" /\ Coherent(c)
    BY <1>1, <1>5, <1>7 DEF LogFits, Coherent, StatesFit
  <2>2. CASE Prepared(p, c, msgs)
    BY <1>1, <1>4, <1>5, <1>7, <2>1, <2>2, PreparedKeeps
  <2>3. CASE Act(p, c, msgs, {}, {})
    BY <1>4, <1>5, <2>1, <2>3, ActKeeps DEF Handling
  <2> QED BY <1>7, <2>2, <2>3
<1>8. CASE /\ type = "COMMIT" \/ (type = "ABORT" /\ ~c.force)
           /\ PhaseDone(p, c, msgs) \/ Act(p, c, msgs, {}, {})
  <2>1. c.up = type /\ type \in {"COMMIT", "ABORT"}
    BY <1>1, <1>5, <1>8 DEF LogFits
  <2>2. Coherent(c)
    BY <1>5, <2>1 DEF LogFits, Coherent, StatesFit
  <2>3. CASE PhaseDone(p, c, msgs)
    BY <1>4, <1>5, <2>1, <2>2, <2>3, PhaseDoneKeeps
  <2>4. CASE Act(p, c, msgs, {}, {})
    BY <1>4, <1>5, <2>2, <2>4, ActKeeps DEF Handling
  <2> QED BY <1>8, <2>3, <2>4
<1>9. CASE LocalAborted(p, msgs)
  BY <1>4, <1>9, LocalAbortedKeeps
<1>10. CASE Act(p, Exit(c, "CLEAR"), msgs, {}, {})
  <2>1. Exit(c, "CLEAR") \in Contexts /\ Coherent(Exit(c, "CLEAR"))
    BY <1>5, ExitFits DEF TxStates
  <2> QED BY <1>4, <1>10, <2>1, ActKeeps DEF Handling
<1> QED BY <1>6, <1>7, <1>8, <1>9, <1>10
\* The timer submits the log that the states ask for.
LEMMA TimeoutKeeps ==
  ASSUME IndInv, NEW p \in Parts, Timeout(p)
  PROVE  IndInv'
<1> DEFINE c == ctx[p]
           d == IF Quiet(c) THEN [c EXCEPT !.logging = LogType(c)] ELSE c
<1>1. c \in Contexts /\ c.alive /\ StatesFit(c) /\ LogFits(c)
  BY DEF Timeout, IndInv, TypeOK, Coherent
<1>2. Handling(p, msgs)
  BY DEF Handling, Timeout, IndInv, TypeOK
<1>3. CASE c.down = "REDO_COMPLETE" /\ Quiet(c) /\ EnterPrepare(p, msgs, {})
  <2>1. c.down \in Unprepared
    BY <1>3 DEF Unprepared
  <2> QED BY <1>1, <1>2, <1>3, <2>1, EnterPrepareKeeps
<1>4. CASE Act(p, d, msgs, RetransmitDown(p, c) \cup RetransmitUp(p, c, c.down), {})
  <2>1. /\ LogType(c) \in {"none", "PREPARE", "COMMIT", "ABORT", "CLEAR"}
        /\ LogType(c) = "PREPARE" => c.up = "PREPARE" /\ c.down \in {"INIT", "REDO_COMPLETE"}
        /\ LogType(c) = "COMMIT" => c.up = "COMMIT" /\ c.down \in {"PREPARE", "PRE_COMMIT"}
        /\ LogType(c) = "ABORT" => c.up = "ABORT"
        /\ LogType(c) = "CLEAR" => c.up = "CLEAR" /\ c.down \in {"COMMIT", "ABORT"}
    BY DEF LogType, Unprepared
  <2>2. LogType(c) = "ABORT" => c.down \in {"INIT", "REDO_COMPLETE", "PREPARE"}
    BY <1>1, <2>1 DEF StatesFit, LogType, Unprepared
  <2> DEFINE e == [c EXCEPT !.logging = LogType(c)]
  <2>3. e \in Contexts /\ Coherent(e)
    BY <1>1, <2>1, <2>2 DEF Contexts, Coherent, StatesFit, LogFits
  <2>4. d \in Contexts /\ Coherent(d)
    BY <1>1, <2>3 DEF Coherent
  <2> HIDE DEF d
  <2> QED BY <1>2, <1>4, <2>4, AnswerKeeps
<1> QED BY <1>3, <1>4 DEF Timeout

\* The GTS callback.
LEMMA GtsElapsedKeeps ==
  ASSUME IndInv, NEW p \in Parts, GtsElapsed(p)
  PROVE  IndInv'
<1>1. [ctx[p] EXCEPT !.logging = "none"] \in Contexts
  BY DEF IndInv, TypeOK, Contexts
<1>2. Handling(p, msgs)
  BY DEF Handling, GtsElapsed, IndInv, TypeOK
<1> QED BY <1>1, <1>2, EnterPreCommitKeeps DEF GtsElapsed

\* A local abort, with or without a log.
LEMMA LocalAbortKeeps ==
  ASSUME IndInv, NEW p \in Parts, LocalAbort(p)
  PROVE  IndInv'
<1> DEFINE c == ctx[p]
           d == [c EXCEPT !.force = TRUE, !.logging = "ABORT"]
<1>1. c \in Contexts /\ c.alive /\ StatesFit(c) /\ c.down \in Unprepared
  BY DEF LocalAbort, IndInv, TypeOK, Coherent
<1>2. Handling(p, msgs)
  BY DEF Handling, LocalAbort, IndInv, TypeOK
<1>3. d \in Contexts /\ Coherent(d)
  BY <1>1 DEF Contexts, Coherent, StatesFit, LogFits, Unprepared, TxStates
<1>4. CASE Act(p, d, msgs, {}, {})
  BY <1>2, <1>3, <1>4, ActKeeps DEF Handling
<1>5. CASE LocalAborted(p, msgs)
  BY <1>2, <1>5, LocalAbortedKeeps
<1> QED BY <1>4, <1>5 DEF LocalAbort

\* ObPartTransCtx::commit.
LEMMA CommitKeeps ==
  ASSUME Handling(Root, msgs), Commit
  PROVE  IndInv'
<1> DEFINE c == ctx[Root]
           d == [c EXCEPT !.commit = TRUE]
<1>1. c \in Contexts /\ Coherent(c)
  BY DEF Handling, IndInv, TypeOK
<1>2. d \in Contexts /\ Coherent(d)
  BY <1>1 DEF Contexts, Coherent, StatesFit, LogFits
<1>3. CASE Ignore(msgs)
  BY <1>3, IgnoreKeeps DEF Handling
<1>4. CASE /\ Quiet(c) /\ c.alive /\ c.down \in Unprepared
           /\ EnterPrepare(Root, msgs, {"killed"})
  <2>1. StatesFit(c)
    BY <1>1, <1>4 DEF Coherent
  <2> QED BY <1>4, <2>1, EnterPrepareKeeps
<1>5. CASE Act(Root, d, msgs, {}, {})
  BY <1>2, <1>5, ActKeeps DEF Handling
<1>6. CASE Act(Root, c, msgs, {}, {"killed"})
  BY <1>1, <1>6, ActKeeps DEF Handling
<1>7. CASE Act(Root, c, msgs, {}, {"committed"})
  BY <1>1, <1>7, ActKeeps DEF Handling
<1> QED BY <1>3, <1>4, <1>5, <1>6, <1>7 DEF Commit, Unprepared

\* The commit request, with its context found at once, early, or not at all.
LEMMA CommitRequestsKeep ==
  ASSUME IndInv, CommitRequest \/ FindCtx \/ CommitFound
  PROVE  IndInv'
<1>1. CASE CommitRequest
  <2>1. Handling(Root, msgs)
    BY <1>1, TreeAssumption DEF Handling, CommitRequest, IndInv, TypeOK
  <2>2. CASE ctx[Root].alive
    BY <1>1, <2>1, <2>2, CommitKeeps DEF CommitRequest
  <2>3. CASE ~ctx[Root].alive
    <3> DEFINE c == ctx[Root]
               told == IF "COMMIT" \in log[Root] THEN {"committed"} ELSE {"killed"}
    <3>1. c \in Contexts /\ Coherent(c) /\ told \in SUBSET {"committed", "killed"}
      BY <2>1 DEF Handling, IndInv, TypeOK
    <3>2. Act(Root, c, msgs, {}, told)
      BY <1>1, <2>3 DEF CommitRequest
    <3> HIDE DEF c, told
    <3> QED BY <2>1, <3>1, <3>2, ActKeeps DEF Handling
  <2> QED BY <2>2, <2>3
<1>2. CASE FindCtx
  BY <1>2 DEF FindCtx, IndInv, TypeOK, Coherent, StatesFit, LogFits
<1>3. CASE CommitFound
  <2>1. Handling(Root, msgs)
    BY <1>3, TreeAssumption DEF Handling, CommitFound, IndInv, TypeOK
  <2> QED BY <1>3, <2>1, CommitKeeps DEF CommitFound
<1> QED BY <1>1, <1>2, <1>3

\* A set of records has a last one.
LEMMA DurableInRecords ==
  ASSUME NEW records \in SUBSET Records, records # {}
  PROVE  /\ Durable(records) \in records
         /\ \A s \in records : Rank[s] <= Rank[Durable(records)]
<1>1. /\ Rank["INIT"] = 1 /\ Rank["REDO_COMPLETE"] = 2 /\ Rank["PREPARE"] = 3
      /\ Rank["COMMIT"] = 5 /\ Rank["ABORT"] = 6 /\ Rank["CLEAR"] = 7
  BY DEF Rank
<1>2. \A r \in records : r \in {"INIT", "REDO_COMPLETE", "PREPARE", "COMMIT", "ABORT", "CLEAR"}
  BY DEF Records, TxStates
<1>3. \E r \in records : \A s \in records : Rank[s] <= Rank[r]
  <2>1. CASE "CLEAR" \in records
    BY <1>1, <1>2, <2>1
  <2>2. CASE "CLEAR" \notin records /\ "ABORT" \in records
    BY <1>1, <1>2, <2>2
  <2>3. CASE {"CLEAR", "ABORT"} \cap records = {} /\ "COMMIT" \in records
    BY <1>1, <1>2, <2>3
  <2>4. CASE {"CLEAR", "ABORT", "COMMIT"} \cap records = {} /\ "PREPARE" \in records
    BY <1>1, <1>2, <2>4
  <2>5. CASE /\ {"CLEAR", "ABORT", "COMMIT", "PREPARE"} \cap records = {}
             /\ "REDO_COMPLETE" \in records
    BY <1>1, <1>2, <2>5
  <2>6. CASE {"CLEAR", "ABORT", "COMMIT", "PREPARE", "REDO_COMPLETE"} \cap records = {}
    BY <1>1, <1>2, <2>6
  <2> QED BY <2>1, <2>2, <2>3, <2>4, <2>5, <2>6
<1> QED BY <1>3 DEF Durable

\* The context that a new leader replays is coherent.
LEMMA SwitchLeaderKeeps ==
  ASSUME IndInv, NEW p \in Parts, SwitchLeader(p)
  PROVE  IndInv'
<1> DEFINE c == ctx[p]
<1>1. c \in Contexts
  BY DEF IndInv, TypeOK
<1>2. PICK new \in Survivors(p) :
        /\ log' = [log EXCEPT ![p] = log[p] \cup new]
        /\ ctx' = [ctx EXCEPT ![p] =
                     IF log[p] \cup new = {} \/ Durable(log[p] \cup new) \in {"ABORT", "CLEAR"}
                     THEN Exit(c, IF log[p] \cup new = {} THEN "ABORT"
                                                          ELSE Durable(log[p] \cup new))
                     ELSE Replayed(Durable(log[p] \cup new),
                                   Durable(log[p] \cup new) = "INIT" /\ new # {"INIT"})]
  BY DEF SwitchLeader
<1> DEFINE records == log[p] \cup new
           d == Durable(records)
           e == IF records = {} \/ d \in {"ABORT", "CLEAR"}
                THEN Exit(c, IF records = {} THEN "ABORT" ELSE d)
                ELSE Replayed(d, d = "INIT" /\ new # {"INIT"})
<1>3. new \subseteq Records
  BY <1>1 DEF Survivors, Contexts, Records, TxStates
<1>4. log[p] \subseteq Records /\ records \in SUBSET Records
  BY <1>3 DEF IndInv, TypeOK
<1>5. log' \in [Parts -> SUBSET Records]
  BY <1>2, <1>4 DEF IndInv, TypeOK
<1>6. e \in Contexts /\ Coherent(e)
  <2>1. CASE records = {} \/ d \in {"ABORT", "CLEAR"}
    <3>1. (IF records = {} THEN "ABORT" ELSE d) \in TxStates
      BY <2>1 DEF TxStates
    <3> QED BY <1>1, <2>1, <3>1, ExitFits
  <2>2. CASE records # {} /\ d \notin {"ABORT", "CLEAR"}
    <3>1. d \in {"INIT", "REDO_COMPLETE", "PREPARE", "COMMIT"}
      BY <1>4, <2>2, DurableInRecords DEF Records, TxStates
    <3> HIDE DEF d, records
    <3>2. \A f \in BOOLEAN : Replayed(d, f) \in Contexts /\ Coherent(Replayed(d, f))
      BY <3>1 DEF Replayed, Contexts, TxStates, Coherent, StatesFit, LogFits
    <3> QED BY <2>2, <3>2
  <2> QED BY <2>1, <2>2
<1>7. ctx' = [ctx EXCEPT ![p] = e]
  BY <1>2
<1> HIDE DEF e
<1>8. ctx' \in [Parts -> Contexts] /\ \A q \in Parts : Coherent(ctx'[q])
  BY <1>6, <1>7 DEF IndInv, TypeOK
<1>9. /\ msgs' \subseteq Messages
      /\ held' \in BOOLEAN
      /\ faults' \in 0..MaxFaults
  BY TreeAssumption DEF SwitchLeader, IndInv, TypeOK
<1>10. replies' \subseteq {"committed", "killed"}
  BY DEF SwitchLeader, IndInv, TypeOK
<1>11. \A q \in Parts : Coherent(ctx[q])'
  BY <1>8 DEF Coherent, StatesFit, LogFits
<1> QED BY <1>5, <1>8, <1>9, <1>10, <1>11 DEF IndInv, TypeOK

-----------------------------------------------------------------------------
(* The theorems *)

\* The invariant holds at first.
LEMMA InitInv == Init => IndInv
<1> SUFFICES ASSUME Init PROVE IndInv
  OBVIOUS
<1>1. Replayed("INIT", FALSE) \in Contexts /\ Coherent(Replayed("INIT", FALSE))
  BY DEF Replayed, Contexts, TxStates, Coherent, StatesFit, LogFits
<1>2. ctx \in [Parts -> Contexts] /\ \A p \in Parts : Coherent(ctx[p])
  BY <1>1 DEF Init
<1>3. log \in [Parts -> SUBSET Records]
  BY DEF Init, Records, TxStates
<1>4. /\ msgs \subseteq Messages /\ replies \subseteq {"committed", "killed"}
      /\ held \in BOOLEAN
  BY DEF Init
<1>5. faults \in 0..MaxFaults
  BY TreeAssumption DEF Init
<1> QED BY <1>2, <1>3, <1>4, <1>5 DEF IndInv, TypeOK

\* Every step keeps it.
LEMMA NextInv == IndInv /\ [Next]_vars => IndInv'
<1> SUFFICES ASSUME IndInv, [Next]_vars PROVE IndInv'
  OBVIOUS
<1>1. CASE \E m \in msgs : Receive(m)
  BY <1>1, ReceiveKeeps
<1>2. CASE \E m \in msgs : Lose(m)
  BY <1>2 DEF Lose, IndInv, TypeOK, Coherent, StatesFit, LogFits
<1>3. CASE \E p \in Parts : LogSynced(p)
  BY <1>3, LogSyncedKeeps
<1>4. CASE \E p \in Parts : GtsElapsed(p)
  BY <1>4, GtsElapsedKeeps
<1>5. CASE \E p \in Parts : Timeout(p)
  BY <1>5, TimeoutKeeps
<1>6. CASE \E p \in Parts : LocalAbort(p)
  BY <1>6, LocalAbortKeeps
<1>7. CASE \E p \in Parts : SwitchLeader(p)
  BY <1>7, SwitchLeaderKeeps
<1>8. CASE CommitRequest \/ FindCtx \/ CommitFound
  BY <1>8, CommitRequestsKeep
<1>9. CASE UNCHANGED vars
  BY <1>9 DEF vars, IndInv, TypeOK, Coherent, StatesFit, LogFits
<1> QED BY <1>1, <1>2, <1>3, <1>4, <1>5, <1>6, <1>7, <1>8, <1>9 DEF Next

\* The invariant says what apply_log asks for.
LEMMA InvApplies == IndInv => LogApplies
  BY DEF IndInv, Coherent, LogFits, LogApplies, Unprepared

\* Every variable of the two-phase commit keeps its type, for every tree and
\* any number of faults: the messages are always between a participant and
\* its upstream, with a type of their direction.
THEOREM TwoPhaseTypes == Spec => []TypeOK
<1>1. IndInv => TypeOK
  BY DEF IndInv
<1> QED BY <1>1, InitInv, NextInv, PTL DEF Spec

\* Whatever is lost, repeated, reordered or fails, a log that becomes synced
\* finds the states that apply_prepare_log, apply_commit_log, apply_abort_log
\* and apply_clear_log ask for: none of them meets the state on which the
\* server aborts itself.
THEOREM LogAlwaysApplies == Spec => []LogApplies
  BY InitInv, NextInv, InvApplies, PTL DEF Spec
=============================================================================
