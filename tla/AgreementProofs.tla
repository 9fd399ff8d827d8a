-------------------------- MODULE AgreementProofs --------------------------
(***************************************************************************)
(* The outcome of TwoPhaseCommit: in every tree of participants, whatever  *)
(* is lost, repeated or fails, nobody commits unless everybody has         *)
(* prepared and nobody aborts.                                             *)
(*                                                                         *)
(* The argument needs facts that stay true: log records are never taken    *)
(* back and a context that is gone stays gone.  They are stated about the  *)
(* logs l and the set d of participants without context, so that they can  *)
(* be used before and after a step.                                        *)
(***************************************************************************)
EXTENDS TwoPhaseProofs

\* The participants with a PREPARE record, with a COMMIT record, and those that
\* are done with the transaction.
Prep(l) == {q \in Parts : "PREPARE" \in l[q]}
Com(l) == {q \in Parts : "COMMIT" \in l[q]}
Fin(l, d) == {q \in Parts : q \in d \/ "COMMIT" \in l[q] \/ "ABORT" \in l[q]}

Dead == {q \in Parts : ~ctx[q].alive}

AllPrep(l) == Prep(l) = Parts

\* Somebody has left without being prepared: all that is left is to abort.
Hopeless(l, d) == \E q \in d : q \in Parts \ Prep(l)

\* The participants that are in A with everything below them.
Closed(S) == \A x \in S : Children(x) \subseteq S
Whole(A) == {q \in A : \E S \in SUBSET A : q \in S /\ Closed(S)}

\* q may leave after a commit: so have, or will, its downstream and upstream.
Cleared(q, l) == q \in Whole(Com(l)) /\ (q # Root => Parent[q] \in Com(l))

\* All participants but the root are leaves.
Flat == \A q \in Parts \ {Root} : Parent[q] = Root

-----------------------------------------------------------------------------
(* The inductive invariant *)

\* What a context with downstream state down has in its log.
RecordsFit(c, r) ==
  /\ c.down \in Unprepared =>
       "PREPARE" \notin r /\ "COMMIT" \notin r /\ "ABORT" \notin r /\ "CLEAR" \notin r
  /\ c.down \in {"PREPARE", "PRE_COMMIT"} =>
       "PREPARE" \in r /\ "COMMIT" \notin r /\ "ABORT" \notin r /\ "CLEAR" \notin r
  /\ c.down = "COMMIT" =>
       "PREPARE" \in r /\ "COMMIT" \in r /\ "ABORT" \notin r /\ "CLEAR" \notin r
  /\ c.down = "ABORT" => "COMMIT" \notin r /\ "ABORT" \in r /\ "CLEAR" \notin r
  /\ c.force => c.down \in Unprepared /\ c.logging # "PREPARE"

\* A PRE_COMMIT_RESP stands for all below; COMMIT is entered when all are prepared.
CommitFits(c, l) ==
  /\ c.up = "PRE_COMMIT" => c.collected \subseteq Whole(Prep(l))
  /\ c.up = "COMMIT" => AllPrep(l)

\* As long as it is not hopeless nobody aborts, and who leaves has committed.
NoAbort(p, c, l) ==
  /\ c.alive => c.up # "ABORT" /\ c.down # "ABORT"
  /\ c.alive /\ c.up = "COMMIT" => c.collected \subseteq Whole(Com(l))
  /\ ~c.alive \/ c.up = "CLEAR" => Cleared(p, l)

\* Without internal participants an answer is about the one that gives it.
FlatFits(p, c, l, d) ==
  /\ c.up = "PREPARE" => c.collected \subseteq Prep(l)
  /\ c.up = "PRE_COMMIT" \/ c.logging = "gts" => AllPrep(l)
  /\ c.up \in {"COMMIT", "ABORT"} => c.collected \subseteq Fin(l, d)
  /\ c.up = "CLEAR" => Children(p) \subseteq Fin(l, d)

CtxFits(p, c, l, d) ==
  /\ c.alive => RecordsFit(c, l[p]) /\ CommitFits(c, l)
  /\ Hopeless(l, d) \/ NoAbort(p, c, l)
  /\ Flat /\ c.alive => FlatFits(p, c, l, d)

LogsFit(l, d) ==
  /\ Com(l) # {} => AllPrep(l)
  /\ Hopeless(l, d) \/ \A q \in Parts : "ABORT" \notin l[q]

\* What is asked of an aborted transaction, and its answers, can only come late
\* when it has committed.
MsgNoAbort(m, l) ==
  /\ m.type \in {"ABORT_REQ", "CLEAR_REQ"} => Cleared(m.to, l)
  /\ m.type = "ABORT_RESP" => Cleared(m.from, l)
  /\ m.type = "COMMIT_RESP" => m.from \in Whole(Com(l))

MsgFlat(m, l, d) ==
  /\ m.type = "PREPARE_RESP" => m.from \in Prep(l)
  /\ m.type \in {"PRE_COMMIT_REQ", "PRE_COMMIT_RESP"} => AllPrep(l)
  /\ m.type \in {"COMMIT_RESP", "ABORT_RESP"} => m.from \in Fin(l, d)
  /\ m.type = "CLEAR_REQ" => m.to \in Fin(l, d)

MsgFits(m, l, d) ==
  /\ m.type = "PRE_COMMIT_RESP" => m.from \in Whole(Prep(l))
  /\ m.type \in {"COMMIT_REQ", "COMMIT_RESP"} => AllPrep(l)
  /\ Hopeless(l, d) \/ MsgNoAbort(m, l)
  /\ Flat => MsgFlat(m, l, d)

\* The scheduler is told the truth, where the lookup of the context is safe.
Truthful(l) == Flat /\ ~SlowLookup => AllPrep(l)

AgreeInv ==
  /\ LogsFit(log, Dead)
  /\ \A p \in Parts : CtxFits(p, ctx[p], log, Dead)
  /\ \A m \in msgs : MsgFits(m, log, Dead)
  /\ "committed" \in replies => Truthful(log)
  /\ held => SlowLookup

-----------------------------------------------------------------------------
(* Subtrees *)

\* With a participant, everything below it is whole.
LEMMA WholeBelow == ASSUME NEW A, NEW x \in Whole(A) PROVE x \in A /\ Children(x) \subseteq Whole(A)
<1>1. PICK S \in SUBSET A : x \in S /\ Closed(S)
  BY DEF Whole
<1>2. \A y \in S : y \in Whole(A)
  BY <1>1 DEF Whole
<1> QED BY <1>1, <1>2 DEF Closed

\* A participant is whole when everything below it is.
LEMMA WholeStep == ASSUME NEW A, NEW p \in A, Children(p) \subseteq Whole(A) PROVE p \in Whole(A)
<1> DEFINE S == Whole(A) \cup {p}
<1>1. Whole(A) \subseteq A
  BY DEF Whole
<1>2. ASSUME NEW x \in S PROVE Children(x) \subseteq S
  BY WholeBelow
<1> QED BY <1>1, <1>2 DEF Whole, Closed

\* More participants make more whole subtrees.
LEMMA WholeGrows == ASSUME NEW A, NEW B, A \subseteq B PROVE Whole(A) \subseteq Whole(B)
<1>1. SUBSET A \subseteq SUBSET B
  OBVIOUS
<1> QED BY <1>1 DEF Whole

\* Below the root is everybody.
LEMMA WholeRoot ==
  ASSUME NEW A \in SUBSET Parts, Root \in Whole(A) PROVE A = Parts
<1>1. PICK S \in SUBSET A : Root \in S /\ Closed(S)
  BY DEF Whole
<1>2. S = Parts
  BY <1>1, TreeAssumption DEF Closed
<1> QED BY <1>2

\* If everybody is in, every subtree is whole.
LEMMA WholeAll == ASSUME NEW A, A = Parts PROVE Whole(A) = Parts
<1>1. Closed(Parts)
  BY DEF Closed, Children
<1> QED BY <1>1 DEF Whole

-----------------------------------------------------------------------------
(* What stays true *)

\* Logs grow, the dead stay dead and write nothing.
Grows(l, k, d, e) ==
  /\ \A q \in Parts : l[q] \subseteq k[q]
  /\ d \subseteq e /\ e \subseteq Parts
  /\ \A q \in d : k[q] = l[q]

\* What growing logs keep: prepared and committed sets, whole subtrees, and
\* the certainty that the transaction cannot commit any more.
LEMMA GrowFacts ==
  ASSUME NEW l, NEW k, NEW d, NEW e, Grows(l, k, d, e)
  PROVE  /\ Prep(l) \subseteq Prep(k) /\ Com(l) \subseteq Com(k) /\ Fin(l, d) \subseteq Fin(k, e)
         /\ AllPrep(l) => AllPrep(k)
         /\ Hopeless(l, d) => Hopeless(k, e)
         /\ Whole(Prep(l)) \subseteq Whole(Prep(k)) /\ Whole(Com(l)) \subseteq Whole(Com(k))
         /\ \A q : Cleared(q, l) => Cleared(q, k)
<1>1. Prep(l) \subseteq Prep(k) /\ Com(l) \subseteq Com(k) /\ Fin(l, d) \subseteq Fin(k, e)
  BY DEF Grows, Prep, Com, Fin
<1>2. AllPrep(l) => AllPrep(k)
  BY <1>1 DEF AllPrep, Prep
<1>3. Hopeless(l, d) => Hopeless(k, e)
  BY DEF Grows, Hopeless, Prep
<1>4. Whole(Prep(l)) \subseteq Whole(Prep(k)) /\ Whole(Com(l)) \subseteq Whole(Com(k))
  BY <1>1, WholeGrows
<1> QED BY <1>1, <1>2, <1>3, <1>4 DEF Cleared

\* A context that nothing happens to, and a message under way, keep their part.
LEMMA CtxStays ==
  ASSUME NEW l, NEW k, NEW d, NEW e, Grows(l, k, d, e), NEW p, NEW c,
         CtxFits(p, c, l, d), k[p] = l[p]
  PROVE  CtxFits(p, c, k, e)
<1>1. c.alive => RecordsFit(c, k[p]) /\ CommitFits(c, k)
  BY GrowFacts DEF CtxFits, CommitFits
<1>2. Hopeless(k, e) \/ NoAbort(p, c, k)
  BY GrowFacts DEF CtxFits, NoAbort
<1>3. Flat /\ c.alive => FlatFits(p, c, k, e)
  BY GrowFacts DEF CtxFits, FlatFits
<1> QED BY <1>1, <1>2, <1>3 DEF CtxFits

\* A message that fits the logs when it is sent still fits when it arrives,
\* however late.
LEMMA MsgStays ==
  ASSUME NEW l, NEW k, NEW d, NEW e, Grows(l, k, d, e), NEW m, MsgFits(m, l, d)
  PROVE  MsgFits(m, k, e)
  BY GrowFacts DEF MsgFits, MsgNoAbort, MsgFlat

\* The same of the context after a failed submission, and of one in which only
\* fields change that the invariant does not speak of.
LEMMA CtxSame ==
  ASSUME NEW p, NEW c, NEW e, NEW l, NEW d, CtxFits(p, c, l, d),
         e.up = c.up, e.down = c.down, e.collected = c.collected, e.alive = c.alive,
         e.logging = "gts" => c.logging = "gts",
         e.force => c.down \in Unprepared /\ e.logging # "PREPARE"
  PROVE  CtxFits(p, e, l, d)
<1>1. e.alive => RecordsFit(e, l[p])
  BY DEF CtxFits, RecordsFit
<1>2. e.alive => CommitFits(e, l)
  BY DEF CtxFits, CommitFits
<1>3. Hopeless(l, d) \/ NoAbort(p, e, l)
  BY DEF CtxFits, NoAbort
<1>4. Flat /\ e.alive => FlatFits(p, e, l, d)
  BY DEF CtxFits, FlatFits
<1> QED BY <1>1, <1>2, <1>3, <1>4 DEF CtxFits

-----------------------------------------------------------------------------
(* Steps *)

\* What the invariant says after a step.
LEMMA Settled ==
  ASSUME LogsFit(log', Dead'),
         \A p \in Parts : CtxFits(p, ctx'[p], log', Dead'),
         \A m \in msgs' : MsgFits(m, log', Dead'),
         "committed" \in replies' => Truthful(log'),
         held' => SlowLookup
  PROVE  AgreeInv'
  BY DEF AgreeInv

\* p gets context c and, perhaps, a record; everybody else is left alone.
LEMMA StepAgrees ==
  ASSUME TypeOK, AgreeInv, NEW p \in Parts, ctx[p].alive, NEW c \in Contexts,
         ctx' = [ctx EXCEPT ![p] = c],
         \A q \in Parts : log[q] \subseteq log'[q],
         \A q \in Parts \ {p} : log'[q] = log[q],
         NEW e, e = IF c.alive THEN Dead ELSE Dead \cup {p},
         LogsFit(log', e), CtxFits(p, c, log', e),
         NEW out, \A m \in out : MsgFits(m, log', e),
         msgs' \subseteq msgs \cup out,
         "committed" \in replies' => "committed" \in replies \/ Truthful(log'),
         held' => SlowLookup
  PROVE  AgreeInv'
<1>1. Dead' = e
  BY DEF Dead, TypeOK, Contexts
<1>2. Grows(log, log', Dead, e)
  BY DEF Grows, Dead
<1>3. ASSUME NEW q \in Parts PROVE CtxFits(q, ctx'[q], log', Dead')
  <2>1. CASE q = p
    BY <1>1, <2>1 DEF TypeOK
  <2>2. CASE q # p
    <3>1. ctx'[q] = ctx[q] /\ log'[q] = log[q] /\ CtxFits(q, ctx[q], log, Dead)
      BY <2>2 DEF TypeOK, AgreeInv
    <3> QED BY <1>1, <1>2, <3>1, CtxStays
  <2> QED BY <2>1, <2>2
<1>4. \A m \in msgs' : MsgFits(m, log', Dead')
  <2>1. \A m \in msgs : MsgFits(m, log', e)
    BY <1>2, MsgStays DEF AgreeInv
  <2> QED BY <1>1, <2>1
<1>5. Truthful(log) => Truthful(log')
  BY <1>2, GrowFacts DEF Truthful
<1> QED BY <1>1, <1>3, <1>4, <1>5, Settled DEF AgreeInv

\* Nothing happens to the contexts.
LEMMA SameAgrees ==
  ASSUME AgreeInv, ctx' = ctx, log' = log,
         NEW out, \A m \in out : MsgFits(m, log, Dead),
         msgs' \subseteq msgs \cup out,
         "committed" \in replies' => "committed" \in replies \/ Truthful(log),
         held' => SlowLookup
  PROVE  AgreeInv'
<1>1. Dead' = Dead
  BY DEF Dead
<1> QED BY <1>1, Settled DEF AgreeInv

\* What a handler of p may rely on.
Stepping(p, net) ==
  /\ TypeOK /\ AgreeInv
  /\ p \in Parts /\ net \subseteq msgs
  /\ ctx[p].alive
  /\ \A q \in Parts : log[q] \subseteq log'[q]
  /\ \A q \in Parts \ {p} : log'[q] = log[q]
  /\ LogsFit(log', Dead)
  /\ held' => SlowLookup

\* A handler that leaves a fitting context and sends fitting messages, whether
\* the log it submits is accepted or not.
LEMMA ActAgrees ==
  ASSUME NEW p, NEW net, Stepping(p, net), NEW c \in Contexts, c.alive,
         CtxFits(p, c, log', Dead),
         NEW out, \A m \in out : MsgFits(m, log', Dead),
         NEW told, "committed" \in told => Truthful(log'),
         Act(p, c, net, out, told)
  PROVE  AgreeInv'
<1> DEFINE d == [c EXCEPT !.logging = "none"]
<1>1. /\ d \in Contexts /\ d.alive
      /\ d.up = c.up /\ d.down = c.down /\ d.collected = c.collected
      /\ d.logging = "none" /\ d.force = c.force
  BY DEF Contexts
<1>2. d.force => c.down \in Unprepared
  BY <1>1 DEF CtxFits, RecordsFit
<1> HIDE DEF d
<1>3. CtxFits(p, d, log', Dead)
  BY <1>1, <1>2, CtxSame
<1>4. ctx' = [ctx EXCEPT ![p] = c] \/ ctx' = [ctx EXCEPT ![p] = d]
  BY DEF Act, d
<1>5. /\ msgs' \subseteq msgs \cup out
      /\ "committed" \in replies' => "committed" \in replies \/ Truthful(log')
  BY DEF Act, Stepping
<1>6. CASE ctx' = [ctx EXCEPT ![p] = c]
  BY <1>5, <1>6, StepAgrees DEF Stepping
<1>7. CASE ctx' = [ctx EXCEPT ![p] = d]
  BY <1>1, <1>3, <1>5, <1>7, StepAgrees DEF Stepping
<1> QED BY <1>4, <1>6, <1>7

\* A handler that does nothing.
LEMMA IgnoreAgrees ==
  ASSUME AgreeInv, log' = log, held' => SlowLookup,
         NEW net, net \subseteq msgs, Ignore(net)
  PROVE  AgreeInv'
<1> DEFINE out == {}
<1>1. /\ msgs' \subseteq msgs \cup out /\ \A m \in out : MsgFits(m, log, Dead)
      /\ ctx' = ctx /\ replies' = replies
  BY DEF Ignore
<1> HIDE DEF out
<1> QED BY <1>1, SameAgrees

-----------------------------------------------------------------------------
(* Messages *)

\* The ends of a message.
LEMMA MessageEnds ==
  ASSUME NEW m \in Messages
  PROVE  /\ m.type \in Requests => m.to \in Parts \ {Root} /\ m.from = Parent[m.to]
         /\ m.type \in Responses => m.from \in Parts \ {Root} /\ m.to = Parent[m.from]
<1>1. CASE \E t \in Requests, q \in Parts \ {Root} : m = [type |-> t, from |-> Parent[q], to |-> q]
  BY <1>1 DEF Requests, Responses
<1>2. CASE \E t \in Responses, q \in Parts \ {Root} : m = [type |-> t, from |-> q, to |-> Parent[q]]
  BY <1>2 DEF Requests, Responses
<1> QED BY <1>1, <1>2 DEF Messages

\* Who commits has the whole transaction prepared.
LEMMA CommittedPrepared ==
  ASSUME NEW p \in Parts, NEW l, NEW d, LogsFit(l, d), "COMMIT" \in l[p]
  PROVE  AllPrep(l) /\ p \in Com(l)
  BY DEF LogsFit, Com

\* Everybody prepared: nothing is hopeless.
LEMMA PreparedHope ==
  ASSUME NEW l, NEW d, AllPrep(l) PROVE ~Hopeless(l, d)
  BY DEF AllPrep, Hopeless

\* What p asks its downstream for: PostDown, RetransmitDown and Resend.
LEMMA RequestFits ==
  ASSUME NEW p \in Parts, NEW c, NEW l, NEW d, c.alive, CtxFits(p, c, l, d),
         c.up \in DOMAIN Request, NEW to, to \subseteq Children(p)
  PROVE  \A m \in Down(p, Request[c.up], to) : MsgFits(m, l, d)
<1> SUFFICES ASSUME NEW q \in to
             PROVE  MsgFits([type |-> Request[c.up], from |-> p, to |-> q], l, d)
  BY DEF Down
<1> DEFINE m == [type |-> Request[c.up], from |-> p, to |-> q]
<1>1. m.from = p /\ m.to = q /\ q \in Children(p) /\ q # Root /\ Parent[q] = p
  BY DEF Children
<1>2. /\ c.up \in {"PREPARE", "PRE_COMMIT", "COMMIT", "ABORT", "CLEAR"}
      /\ m.type \in Requests
      /\ m.type = "PRE_COMMIT_REQ" => c.up = "PRE_COMMIT"
      /\ m.type = "COMMIT_REQ" => c.up = "COMMIT"
      /\ m.type = "ABORT_REQ" => c.up = "ABORT"
      /\ m.type = "CLEAR_REQ" => c.up = "CLEAR"
  BY DEF Request, Requests
<1> HIDE DEF m
<1>3. /\ m.type = "PRE_COMMIT_RESP" => m.from \in Whole(Prep(l))
      /\ m.type \in {"COMMIT_REQ", "COMMIT_RESP"} => AllPrep(l)
  BY <1>2 DEF CtxFits, CommitFits, Requests
<1>4. Hopeless(l, d) \/ MsgNoAbort(m, l)
  <2>1. Cleared(p, l) => Cleared(q, l)
    BY <1>1, WholeBelow DEF Cleared
  <2> QED BY <1>1, <1>2, <2>1 DEF CtxFits, NoAbort, MsgNoAbort, Requests
<1>5. Flat => MsgFlat(m, l, d)
  BY <1>1, <1>2 DEF CtxFits, FlatFits, MsgFlat, Requests
<1>6. MsgFits(m, l, d)
  BY <1>3, <1>4, <1>5 DEF MsgFits
<1> QED BY <1>6 DEF m

\* What p answers its upstream: for the state it is in with all below it, or
\* for a phase that it has left behind.
LEMMA AnswerFits ==
  ASSUME NEW p \in Parts, NEW c \in Contexts, NEW l, NEW d, c.alive, StatesFit(c),
         CtxFits(p, c, l, d), LogsFit(l, d),
         NEW state \in {"PREPARE", "PRE_COMMIT", "COMMIT", "ABORT"},
         \/ state = c.down /\ AllCollected(p, c)
         \/ state = "PREPARE" /\ c.down \in {"PREPARE", "PRE_COMMIT", "COMMIT"}
         \/ state = "PRE_COMMIT" /\ c.down = "COMMIT"
  PROVE  \A m \in Up(p, Response[state]) : MsgFits(m, l, d)
<1> SUFFICES ASSUME p # Root
             PROVE  MsgFits([type |-> Response[state], from |-> p, to |-> Parent[p]], l, d)
  BY DEF Up
<1> DEFINE m == [type |-> Response[state], from |-> p, to |-> Parent[p]]
<1>1. RecordsFit(c, l[p]) /\ CommitFits(c, l)
  BY DEF CtxFits
<1>2. "COMMIT" \in l[p] => AllPrep(l) /\ p \in Com(l) /\ p \in Whole(Prep(l))
  BY CommittedPrepared, WholeAll DEF AllPrep
<1>3. /\ m.from = p /\ m.type \in Responses
      /\ m.type = "PREPARE_RESP" => state = "PREPARE"
      /\ m.type = "PRE_COMMIT_RESP" => state = "PRE_COMMIT"
      /\ m.type = "COMMIT_RESP" => state = "COMMIT"
      /\ m.type = "ABORT_RESP" => state = "ABORT"
  BY DEF Response, Responses
<1> HIDE DEF m
<1>4. state = "PRE_COMMIT" => p \in Whole(Prep(l)) /\ (Flat => AllPrep(l))
  <2>1. CASE c.down = "COMMIT"
    BY <1>1, <1>2, <2>1 DEF RecordsFit
  <2>2. CASE state = "PRE_COMMIT" /\ c.down = "PRE_COMMIT" /\ AllCollected(p, c)
    <3>1. c.up \in {"PRE_COMMIT", "COMMIT"} /\ p \in Prep(l)
      BY <1>1, <2>2 DEF StatesFit, RecordsFit, Prep, Contexts, TxStates
    <3>2. CASE c.up = "PRE_COMMIT"
      <4>1. Children(p) \subseteq Whole(Prep(l))
        BY <1>1, <2>2, <3>2 DEF AllCollected, CommitFits
      <4> QED BY <3>1, <3>2, <4>1, WholeStep DEF CtxFits, FlatFits
    <3>3. CASE c.up = "COMMIT"
      BY <1>1, <3>3, WholeAll DEF CommitFits, AllPrep
    <3> QED BY <3>1, <3>2, <3>3
  <2> QED BY <2>1, <2>2
<1>5. state = "COMMIT" => /\ "COMMIT" \in l[p]
                          /\ Hopeless(l, d) \/ p \in Whole(Com(l))
  <2> SUFFICES ASSUME state = "COMMIT" PROVE /\ "COMMIT" \in l[p]
                                             /\ Hopeless(l, d) \/ p \in Whole(Com(l))
    OBVIOUS
  <2>1. c.down = "COMMIT" /\ AllCollected(p, c) /\ c.up \in {"COMMIT", "CLEAR"} /\ "COMMIT" \in l[p]
    BY <1>1 DEF StatesFit, RecordsFit, Contexts, TxStates
  <2>2. CASE c.up = "COMMIT"
    <3>1. Hopeless(l, d) \/ Children(p) \subseteq Whole(Com(l))
      BY <2>1, <2>2 DEF AllCollected, CtxFits, NoAbort
    <3> QED BY <1>2, <2>1, <3>1, WholeStep
  <2>3. CASE c.up = "CLEAR"
    BY <2>1, <2>3 DEF CtxFits, NoAbort, Cleared
  <2> QED BY <2>1, <2>2, <2>3
<1>6. state = "ABORT" => Hopeless(l, d) /\ "ABORT" \in l[p]
  BY <1>1 DEF CtxFits, NoAbort, RecordsFit
<1>7. state = "PREPARE" => p \in Prep(l)
  BY <1>1 DEF RecordsFit, Prep
<1>8. Hopeless(l, d) \/ MsgNoAbort(m, l)
  BY <1>3, <1>5, <1>6 DEF MsgNoAbort, Responses
<1>9. Flat => MsgFlat(m, l, d)
  BY <1>3, <1>4, <1>5, <1>6, <1>7 DEF MsgFlat, Responses, Fin
<1>10. MsgFits(m, l, d)
  BY <1>2, <1>3, <1>4, <1>5, <1>8, <1>9 DEF MsgFits, Responses
<1> QED BY <1>10 DEF m

\* What p sends again.
LEMMA RetransmitFits ==
  ASSUME NEW p \in Parts, NEW c \in Contexts, NEW l, NEW d, c.alive, StatesFit(c),
         CtxFits(p, c, l, d), LogsFit(l, d), NEW state,
         \/ state = c.down
         \/ state = "PREPARE" /\ c.down \in {"PREPARE", "PRE_COMMIT", "COMMIT"}
         \/ state = "PRE_COMMIT" /\ c.down = "COMMIT"
  PROVE  \A m \in RetransmitDown(p, c) \cup RetransmitUp(p, c, state) : MsgFits(m, l, d)
<1>1. \A m \in RetransmitDown(p, c) : MsgFits(m, l, d)
  <2>1. Children(p) \ c.collected \subseteq Children(p)
    OBVIOUS
  <2> QED BY <2>1, RequestFits DEF RetransmitDown
<1>2. \A m \in RetransmitUp(p, c, state) : MsgFits(m, l, d)
  <2>1. CASE RetransmitUp(p, c, state) = {}
    BY <2>1
  <2>2. CASE RetransmitUp(p, c, state) # {}
    <3>1. /\ state \in {"PREPARE", "PRE_COMMIT", "COMMIT", "ABORT"}
          /\ AllCollected(p, c) \/ c.down # state
          /\ RetransmitUp(p, c, state) = Up(p, Response[state])
      BY <2>2 DEF RetransmitUp, Response
    <3> QED BY <3>1, AnswerFits
  <2> QED BY <2>1, <2>2
<1> QED BY <1>1, <1>2

-----------------------------------------------------------------------------
(* Contexts *)

\* More of what Drive leaves: answers are kept within a phase only, and no
\* PREPARE log is submitted by a participant that has to abort.
LEMMA DriveMore ==
  ASSUME NEW c \in Contexts, NEW phase \in TxStates
  PROVE  /\ Drive(c, phase).collected = IF c.up = phase THEN c.collected ELSE {}
         /\ Drive(c, phase).logging = "PREPARE" => ~c.force
<1> DEFINE d == IF c.up = phase THEN c
                                ELSE [c EXCEPT !.up = phase, !.collected = {}]
<1>1. /\ d \in Contexts /\ d.force = c.force
      /\ d.collected = IF c.up = phase THEN c.collected ELSE {}
  BY DEF Contexts
<1>2. LogType(d) = "PREPARE" => ~c.force
  BY <1>1 DEF LogType
<1>3. Drive(c, phase) = [d EXCEPT !.logging = LogType(d)]
  BY DEF Drive
<1> HIDE DEF d
<1>4. /\ [d EXCEPT !.logging = LogType(d)].logging = LogType(d)
      /\ [d EXCEPT !.logging = LogType(d)].collected = d.collected
  BY <1>1 DEF Contexts
<1> QED BY <1>1, <1>2, <1>3, <1>4

\* Entering a phase whose condition holds.
LEMMA DriveAgrees ==
  ASSUME NEW p \in Parts, NEW c \in Contexts, NEW l, NEW d, c.alive,
         CtxFits(p, c, l, d), NEW phase \in {"PREPARE", "COMMIT", "ABORT", "CLEAR"},
         phase = "COMMIT" => AllPrep(l),
         phase = "ABORT" => Hopeless(l, d),
         phase = "CLEAR" => /\ Hopeless(l, d) \/ Cleared(p, l)
                            /\ Flat => Children(p) \subseteq Fin(l, d)
  PROVE  /\ CtxFits(p, Drive(c, phase), l, d)
         /\ Drive(c, phase) \in Contexts /\ Drive(c, phase).alive
         /\ Drive(c, phase).up = phase
<1> DEFINE e == Drive(c, phase)
<1>1. /\ e \in Contexts /\ e.up = phase /\ e.down = c.down /\ e.alive
      /\ e.force = c.force /\ e.logging # "gts"
      /\ e.collected = IF c.up = phase THEN c.collected ELSE {}
      /\ e.logging = "PREPARE" => ~c.force
  <2>1. phase \in TxStates
    BY DEF TxStates
  <2>2. /\ e \in Contexts /\ e.up = phase /\ e.down = c.down /\ e.force = c.force
        /\ e.logging \in {"none", "PREPARE", "COMMIT", "ABORT", "CLEAR"}
    BY <2>1, DriveFits
  <2>3. e.alive
    BY <2>1, DriveFits
  <2>4. /\ e.collected = IF c.up = phase THEN c.collected ELSE {}
        /\ e.logging = "PREPARE" => ~c.force
    BY <2>1, DriveMore
  <2> HIDE DEF e
  <2> QED BY <2>2, <2>3, <2>4
<1> HIDE DEF e
<1>2. RecordsFit(e, l[p])
  BY <1>1 DEF CtxFits, RecordsFit
<1>3. CommitFits(e, l)
  BY <1>1 DEF CommitFits
<1>4. Hopeless(l, d) \/ NoAbort(p, e, l)
  BY <1>1 DEF CtxFits, NoAbort
<1>5. Flat => FlatFits(p, e, l, d)
  BY <1>1 DEF CtxFits, FlatFits
<1>6. CtxFits(p, e, l, d)
  BY <1>2, <1>3, <1>4, <1>5 DEF CtxFits
<1> QED BY <1>1, <1>6 DEF e

\* An answer of q that is noted.
LEMMA CollectAgrees ==
  ASSUME NEW p \in Parts, NEW c \in Contexts, NEW l, NEW d, c.alive,
         CtxFits(p, c, l, d), NEW q \in Parts,
         c.up = "PREPARE" => (Flat => q \in Prep(l)),
         c.up = "PRE_COMMIT" => q \in Whole(Prep(l)),
         c.up = "COMMIT" => Hopeless(l, d) \/ q \in Whole(Com(l)),
         c.up \in {"COMMIT", "ABORT"} => (Flat => q \in Fin(l, d))
  PROVE  /\ CtxFits(p, Collect(c, q), l, d)
         /\ Collect(c, q) \in Contexts /\ Collect(c, q).alive
         /\ Collect(c, q).up = c.up /\ Collect(c, q).down = c.down
         /\ Collect(c, q).logging = c.logging
<1> DEFINE e == Collect(c, q)
<1>1. /\ e \in Contexts /\ e.up = c.up /\ e.down = c.down /\ e.alive
      /\ e.force = c.force /\ e.logging = c.logging /\ e.collected = c.collected \cup {q}
  BY DEF Collect, Contexts
<1> HIDE DEF e
<1>2. RecordsFit(e, l[p])
  BY <1>1 DEF CtxFits, RecordsFit
<1>3. CommitFits(e, l)
  BY <1>1 DEF CtxFits, CommitFits
<1>4. Hopeless(l, d) \/ NoAbort(p, e, l)
  BY <1>1 DEF CtxFits, NoAbort
<1>5. Flat => FlatFits(p, e, l, d)
  BY <1>1 DEF CtxFits, FlatFits
<1>6. CtxFits(p, e, l, d)
  BY <1>1, <1>2, <1>3, <1>4, <1>5 DEF CtxFits
<1> QED BY <1>1, <1>6 DEF e

-----------------------------------------------------------------------------
(* The parts of the handlers *)

\* Entering PREPARE.
LEMMA EnterPrepareAgrees ==
  ASSUME NEW p, NEW net, Stepping(p, net), CtxFits(p, ctx[p], log', Dead),
         ctx[p].down \in Unprepared, EnterPrepare(p, net, {}) \/ EnterPrepare(p, net, {"killed"})
  PROVE  AgreeInv'
<1> DEFINE c == ctx[p]
<1>1. c \in Contexts /\ c.alive
  BY DEF Stepping, TypeOK
<1>2. CASE \E told \in {{}, {"killed"}} : Act(p, [c EXCEPT !.logging = "ABORT"], net, {}, told)
  <2> DEFINE e == [c EXCEPT !.logging = "ABORT"]
  <2>1. /\ e \in Contexts /\ e.alive = c.alive /\ e.up = c.up /\ e.down = c.down
        /\ e.collected = c.collected /\ e.logging = "ABORT"
    BY <1>1 DEF Contexts
  <2>2. \E told \in {{}, {"killed"}} : Act(p, e, net, {}, told)
    BY <1>2
  <2> HIDE DEF e
  <2>3. CtxFits(p, e, log', Dead)
    BY <2>1, CtxSame
  <2> QED BY <1>1, <2>1, <2>2, <2>3, ActAgrees
<1>3. CASE Act(p, [Drive(c, "PREPARE") EXCEPT !.commit = TRUE], net, PostDown(p, "PREPARE_REQ"), {})
  <2> DEFINE d == Drive(c, "PREPARE")
             e == [d EXCEPT !.commit = TRUE]
  <2>1. CtxFits(p, d, log', Dead) /\ d \in Contexts /\ d.alive /\ d.up = "PREPARE"
    BY <1>1, DriveAgrees DEF Stepping
  <2>2. Act(p, e, net, PostDown(p, "PREPARE_REQ"), {})
    BY <1>3
  <2> HIDE DEF d
  <2>3. /\ e \in Contexts /\ e.alive = d.alive /\ e.up = d.up /\ e.down = d.down
        /\ e.collected = d.collected /\ e.logging = d.logging /\ e.force = d.force
    BY <2>1 DEF Contexts
  <2>4. e.force => d.down \in Unprepared /\ e.logging # "PREPARE"
    BY <2>1, <2>3 DEF CtxFits, RecordsFit
  <2> HIDE DEF e
  <2>5. CtxFits(p, e, log', Dead)
    BY <2>1, <2>3, <2>4, CtxSame
  <2>6. \A m \in PostDown(p, "PREPARE_REQ") : MsgFits(m, log', Dead)
    <3>1. e.up \in DOMAIN Request /\ Request[e.up] = "PREPARE_REQ"
      BY <2>1, <2>3 DEF Request
    <3> QED BY <2>1, <2>3, <2>5, <3>1, RequestFits DEF PostDown, Stepping
  <2> HIDE DEF c
  <2>7. e.alive /\ "committed" \notin {}
    BY <2>1, <2>3
  <2> QED BY <2>2, <2>3, <2>5, <2>6, <2>7, ActAgrees
<1> QED BY <1>2, <1>3 DEF EnterPrepare

\* Entering PRE_COMMIT, in a flat tree when everybody is prepared.
LEMMA EnterPreCommitAgrees ==
  ASSUME NEW p, NEW net, Stepping(p, net), NEW c \in Contexts, c.alive,
         c.down = "PREPARE", StatesFit(c), CtxFits(p, c, log', Dead),
         Flat => AllPrep(log'), EnterPreCommit(p, c, net)
  PROVE  AgreeInv'
<1> DEFINE d == Drive(c, "PRE_COMMIT")
           e == [d EXCEPT !.down = "PRE_COMMIT"]
           out == IF Children(p) = {} THEN Up(p, "PRE_COMMIT_RESP")
                                      ELSE PostDown(p, "PRE_COMMIT_REQ")
<1>0. "PRE_COMMIT" \in TxStates /\ c.up # "PRE_COMMIT"
  BY DEF TxStates, StatesFit
<1>1. /\ d \in Contexts /\ d.up = "PRE_COMMIT" /\ d.force = c.force
      /\ d.logging \in {"none", "PREPARE", "COMMIT", "ABORT", "CLEAR"}
      /\ d.logging = "PREPARE" => "PRE_COMMIT" = "PREPARE"
      /\ d.logging = "COMMIT" => "PRE_COMMIT" = "COMMIT"
      /\ d.logging = "ABORT" => "PRE_COMMIT" = "ABORT"
      /\ d.logging = "CLEAR" => "PRE_COMMIT" = "CLEAR"
  BY <1>0, DriveFits
<1>2. d.alive
  BY <1>0, DriveFits
<1>3. d.collected = {}
  BY <1>0, DriveMore
<1>4. Act(p, e, net, out, {})
  BY DEF EnterPreCommit
<1> HIDE DEF d
<1>5. /\ e \in Contexts /\ e.alive /\ e.up = "PRE_COMMIT" /\ e.down = "PRE_COMMIT"
      /\ e.collected = {} /\ e.logging = "none" /\ e.force = c.force
  BY <1>1, <1>2, <1>3 DEF Contexts, TxStates
<1> HIDE DEF e
<1>6. CtxFits(p, e, log', Dead)
  <2>1. RecordsFit(e, log'[p])
    BY <1>5 DEF CtxFits, RecordsFit, Unprepared
  <2>2. CommitFits(e, log') /\ NoAbort(p, e, log')
    BY <1>5 DEF CommitFits, NoAbort
  <2>3. Flat => FlatFits(p, e, log', Dead)
    BY <1>5 DEF FlatFits
  <2> QED BY <2>1, <2>2, <2>3 DEF CtxFits
<1>7. \A m \in out : MsgFits(m, log', Dead)
  <2>1. Response["PRE_COMMIT"] = "PRE_COMMIT_RESP" /\ StatesFit(e)
    BY <1>5 DEF Response, StatesFit
  <2>2. e.up \in DOMAIN Request /\ Request[e.up] = "PRE_COMMIT_REQ"
    BY <1>5 DEF Request
  <2>3. CASE Children(p) = {}
    <3>1. AllCollected(p, e)
      BY <1>5, <2>3 DEF AllCollected
    <3>2. \A m \in Up(p, Response["PRE_COMMIT"]) : MsgFits(m, log', Dead)
      BY <1>5, <1>6, <2>1, <3>1, AnswerFits DEF Stepping
    <3> QED BY <2>1, <2>3, <3>2
  <2>4. CASE Children(p) # {}
    BY <1>5, <1>6, <2>2, <2>4, RequestFits DEF PostDown, Stepping
  <2> QED BY <2>3, <2>4
<1> HIDE DEF out
<1> QED BY <1>4, <1>5, <1>6, <1>7, ActAgrees

\* In a flat tree p and its downstream are everybody.
LEMMA FlatPrepared ==
  ASSUME NEW l, Flat, Root \in Prep(l), Children(Root) \subseteq Prep(l)
  PROVE  AllPrep(l)
  BY DEF Flat, Children, AllPrep, Prep

\* The end of PREPARE at p and in its downstream.
LEMMA PreparedAgrees ==
  ASSUME NEW p, NEW net, Stepping(p, net), NEW c \in Contexts, c.alive,
         StatesFit(c), CtxFits(p, c, log', Dead),
         c.up = "PREPARE", c.down = "PREPARE", AllCollected(p, c), Prepared(p, c, net)
  PROVE  AgreeInv'
<1>1. p \in Parts /\ p \in Prep(log')
  BY DEF Stepping, CtxFits, RecordsFit, Prep
<1>2. p = Root => (Flat => AllPrep(log'))
  BY <1>1, FlatPrepared DEF AllCollected, CtxFits, FlatFits
<1>3. CASE p = Root /\ EnterPreCommit(p, c, net)
  BY <1>2, <1>3, EnterPreCommitAgrees
<1>4. CASE p = Root /\ WaitGts(p, c, net)
  <2> DEFINE e == [c EXCEPT !.logging = "gts"]
  <2>1. /\ e \in Contexts /\ e.alive /\ e.up = c.up /\ e.down = c.down
        /\ e.collected = c.collected /\ e.logging = "gts" /\ e.force = c.force
    BY DEF Contexts
  <2>2. Act(p, e, net, {}, {})
    BY <1>4 DEF WaitGts
  <2> HIDE DEF e
  <2>3. CtxFits(p, e, log', Dead)
    <3>1. RecordsFit(e, log'[p])
      BY <2>1 DEF CtxFits, RecordsFit
    <3>2. CommitFits(e, log') /\ NoAbort(p, e, log')
      BY <2>1 DEF CommitFits, NoAbort
    <3>3. Flat => FlatFits(p, e, log', Dead)
      BY <1>2, <1>4, <2>1 DEF CtxFits, FlatFits
    <3> QED BY <3>1, <3>2, <3>3 DEF CtxFits
  <2> QED BY <2>1, <2>2, <2>3, ActAgrees
<1>5. CASE p # Root /\ Act(p, c, net, Up(p, "PREPARE_RESP"), {})
  <2>1. Response["PREPARE"] = "PREPARE_RESP"
    BY DEF Response
  <2>2. \A m \in Up(p, Response["PREPARE"]) : MsgFits(m, log', Dead)
    BY AnswerFits DEF Stepping
  <2> QED BY <1>5, <2>1, <2>2, ActAgrees
<1> QED BY <1>3, <1>4, <1>5 DEF Prepared

\* The end of COMMIT or ABORT at p and in its downstream.
LEMMA PhaseDoneAgrees ==
  ASSUME NEW p, NEW net, Stepping(p, net), NEW c \in Contexts, c.alive,
         StatesFit(c), CtxFits(p, c, log', Dead),
         c.up \in {"COMMIT", "ABORT"}, c.down \in {"COMMIT", "ABORT"},
         AllCollected(p, c), PhaseDone(p, c, net)
  PROVE  AgreeInv'
<1>1. p \in Parts /\ c.up = c.down /\ LogsFit(log', Dead)
  BY DEF Stepping, StatesFit
<1>2. CASE p = Root
  <2>1. Hopeless(log', Dead) \/ Cleared(p, log')
    <3>1. CASE c.up = "COMMIT"
      <4>1. p \in Com(log')
        BY <1>1, <3>1 DEF CtxFits, RecordsFit, Com
      <4>2. Hopeless(log', Dead) \/ Children(p) \subseteq Whole(Com(log'))
        BY <3>1 DEF AllCollected, CtxFits, NoAbort
      <4> QED BY <1>2, <4>1, <4>2, WholeStep DEF Cleared
    <3>2. CASE c.up = "ABORT"
      BY <3>2 DEF CtxFits, NoAbort
    <3> QED BY <3>1, <3>2
  <2>2. Flat => Children(p) \subseteq Fin(log', Dead)
    BY DEF AllCollected, CtxFits, FlatFits
  <2> DEFINE e == Drive(c, "CLEAR")
  <2>3. e \in Contexts /\ e.alive /\ e.up = "CLEAR" /\ CtxFits(p, e, log', Dead)
    BY <1>1, <2>1, <2>2, DriveAgrees
  <2>4. Act(p, e, net, PostDown(p, "CLEAR_REQ"), {})
    BY <1>2 DEF PhaseDone
  <2> HIDE DEF e
  <2>5. e.up \in DOMAIN Request /\ Request[e.up] = "CLEAR_REQ"
    BY <2>3 DEF Request
  <2>6. \A m \in PostDown(p, "CLEAR_REQ") : MsgFits(m, log', Dead)
    BY <1>1, <2>3, <2>5, RequestFits DEF PostDown
  <2> QED BY <2>3, <2>4, <2>6, ActAgrees
<1>3. CASE p # Root
  <2>1. \A m \in Up(p, Response[c.up]) : MsgFits(m, log', Dead)
    BY <1>1, AnswerFits
  <2> QED BY <1>3, <2>1, ActAgrees DEF PhaseDone
<1> QED BY <1>2, <1>3

-----------------------------------------------------------------------------
(* Requests *)

\* Driving p into a phase whose condition holds, and asking its downstream.
LEMMA RequestAgrees ==
  ASSUME NEW p, NEW net, Stepping(p, net), NEW c \in Contexts, c.alive,
         CtxFits(p, c, log', Dead), NEW phase \in {"COMMIT", "ABORT", "CLEAR"},
         phase = "COMMIT" => AllPrep(log'),
         phase = "ABORT" => Hopeless(log', Dead),
         phase = "CLEAR" => /\ Hopeless(log', Dead) \/ Cleared(p, log')
                            /\ Flat => Children(p) \subseteq Fin(log', Dead),
         NEW told, "committed" \in told => Truthful(log'),
         Act(p, Drive(c, phase), net, PostDown(p, Request[phase]), told)
  PROVE  AgreeInv'
<1> DEFINE e == Drive(c, phase)
<1>1. p \in Parts
  BY DEF Stepping
<1>2. e \in Contexts /\ e.alive /\ e.up = phase /\ CtxFits(p, e, log', Dead)
  BY <1>1, DriveAgrees
<1>3. Act(p, e, net, PostDown(p, Request[phase]), told)
  OBVIOUS
<1> HIDE DEF e
<1>4. e.up \in DOMAIN Request
  BY <1>2 DEF Request
<1>5. \A m \in PostDown(p, Request[phase]) : MsgFits(m, log', Dead)
  BY <1>1, <1>2, <1>4, RequestFits DEF PostDown
<1> QED BY <1>2, <1>3, <1>5, ActAgrees

\* What a handler knows of its own context.
LEMMA OwnContext ==
  ASSUME IndInv, NEW p, NEW net, Stepping(p, net), log' = log
  PROVE  /\ p \in Parts /\ ctx[p] \in Contexts /\ ctx[p].alive
         /\ StatesFit(ctx[p]) /\ LogFits(ctx[p])
         /\ CtxFits(p, ctx[p], log', Dead) /\ RecordsFit(ctx[p], log[p])
         /\ LogsFit(log', Dead)
<1>1. p \in Parts /\ ctx[p].alive /\ LogsFit(log', Dead) /\ AgreeInv
  BY DEF Stepping
<1>2. ctx[p] \in Contexts /\ StatesFit(ctx[p]) /\ LogFits(ctx[p])
  BY <1>1 DEF IndInv, TypeOK, Coherent
<1>3. CtxFits(p, ctx[p], log, Dead)
  BY <1>1 DEF AgreeInv
<1> QED BY <1>1, <1>2, <1>3 DEF CtxFits

\* A handler that only sends again.
LEMMA AnswerAgrees ==
  ASSUME IndInv, NEW p, NEW net, Stepping(p, net), log' = log, NEW c \in Contexts,
         c.alive, CtxFits(p, c, log', Dead), NEW state,
         \/ state = ctx[p].down
         \/ state = "PREPARE" /\ ctx[p].down \in {"PREPARE", "PRE_COMMIT", "COMMIT"}
         \/ state = "PRE_COMMIT" /\ ctx[p].down = "COMMIT",
         Act(p, c, net, RetransmitDown(p, ctx[p]) \cup RetransmitUp(p, ctx[p], state), {})
  PROVE  AgreeInv'
<1>1. \A m \in RetransmitDown(p, ctx[p]) \cup RetransmitUp(p, ctx[p], state) :
        MsgFits(m, log', Dead)
  BY OwnContext, RetransmitFits
<1> QED BY <1>1, ActAgrees

\* part_trans_action_ is of no importance here.
LEMMA CommitFlag ==
  ASSUME NEW p, NEW c \in Contexts, NEW l, NEW d, c.alive, CtxFits(p, c, l, d)
  PROVE  /\ [c EXCEPT !.commit = TRUE] \in Contexts
         /\ [c EXCEPT !.commit = TRUE].alive
         /\ CtxFits(p, [c EXCEPT !.commit = TRUE], l, d)
<1> DEFINE e == [c EXCEPT !.commit = TRUE]
<1>1. /\ e \in Contexts /\ e.alive /\ e.up = c.up /\ e.down = c.down
      /\ e.collected = c.collected /\ e.logging = c.logging /\ e.force = c.force
  BY DEF Contexts
<1>2. e.force => c.down \in Unprepared /\ e.logging # "PREPARE"
  BY <1>1 DEF CtxFits, RecordsFit
<1> HIDE DEF e
<1>3. CtxFits(p, e, l, d)
  BY <1>1, <1>2, CtxSame
<1> QED BY <1>1, <1>3 DEF e

\* PREPARE_REQ.
LEMMA PrepareReqAgrees ==
  ASSUME IndInv, NEW p, NEW net, Stepping(p, net), log' = log, HandlePrepareReq(p, net)
  PROVE  AgreeInv'
<1> DEFINE c == ctx[p]
           e == [c EXCEPT !.commit = TRUE]
           state == IF c.down = "ABORT" THEN "ABORT" ELSE "PREPARE"
<1>1. /\ p \in Parts /\ c \in Contexts /\ c.alive /\ CtxFits(p, c, log', Dead)
      /\ StatesFit(c)
  BY OwnContext
<1>2. e \in Contexts /\ e.alive /\ CtxFits(p, e, log', Dead)
  BY <1>1, CommitFlag
<1>3. CASE c.down \in Unprepared /\ EnterPrepare(p, net, {})
  BY <1>1, <1>3, EnterPrepareAgrees
<1>4. CASE Act(p, e, net, {}, {})
  <2> HIDE DEF e
  <2> QED BY <1>2, <1>4, ActAgrees
<1>5. CASE /\ c.down \notin Unprepared
           /\ Act(p, e, net, RetransmitDown(p, c) \cup RetransmitUp(p, c, state), {})
  <2>1. \/ state = c.down
        \/ state = "PREPARE" /\ c.down \in {"PREPARE", "PRE_COMMIT", "COMMIT"}
    BY <1>1, <1>5 DEF StatesFit, Contexts, TxStates, Unprepared
  <2> HIDE DEF e, state
  <2> QED BY <1>2, <1>5, <2>1, AnswerAgrees
<1> QED BY <1>3, <1>4, <1>5 DEF HandlePrepareReq

\* The other requests, each with what its message says.
LEMMA PreCommitReqAgrees ==
  ASSUME IndInv, NEW p, NEW net, Stepping(p, net), log' = log,
         Flat => AllPrep(log), HandlePreCommitReq(p, net)
  PROVE  AgreeInv'
<1> DEFINE c == ctx[p]
<1>1. /\ p \in Parts /\ c \in Contexts /\ c.alive /\ CtxFits(p, c, log', Dead)
      /\ StatesFit(c)
  BY OwnContext
<1>2. CASE c.down = "PREPARE" /\ EnterPreCommit(p, c, net)
  BY <1>1, <1>2, EnterPreCommitAgrees
<1>3. CASE /\ c.down \in {"PRE_COMMIT", "COMMIT"}
           /\ Act(p, c, net, RetransmitDown(p, c) \cup RetransmitUp(p, c, "PRE_COMMIT"), {})
  BY <1>1, <1>3, AnswerAgrees
<1>4. CASE Ignore(net)
  BY <1>4, IgnoreAgrees DEF Stepping
<1> QED BY <1>2, <1>3, <1>4 DEF HandlePreCommitReq

\* handle_2pc_commit_request.
LEMMA CommitReqAgrees ==
  ASSUME IndInv, NEW p, NEW net, Stepping(p, net), log' = log,
         AllPrep(log), HandleCommitReq(p, net)
  PROVE  AgreeInv'
<1> DEFINE c == ctx[p]
<1>1. /\ p \in Parts /\ c \in Contexts /\ c.alive /\ CtxFits(p, c, log', Dead)
  BY OwnContext
<1>2. CASE Act(p, Drive(c, "COMMIT"), net, PostDown(p, "COMMIT_REQ"), {})
  <2>1. Request["COMMIT"] = "COMMIT_REQ"
    BY DEF Request
  <2> QED BY <1>1, <1>2, <2>1, RequestAgrees
<1>3. CASE /\ c.down = "COMMIT"
           /\ Act(p, c, net, RetransmitDown(p, c) \cup RetransmitUp(p, c, "COMMIT"), {})
  BY <1>1, <1>3, AnswerAgrees
<1>4. CASE Ignore(net)
  BY <1>4, IgnoreAgrees DEF Stepping
<1> QED BY <1>2, <1>3, <1>4 DEF HandleCommitReq

\* handle_2pc_abort_request.
LEMMA AbortReqAgrees ==
  ASSUME IndInv, NEW p, NEW net, Stepping(p, net), log' = log,
         Hopeless(log, Dead) \/ Cleared(p, log), HandleAbortReq(p, net)
  PROVE  AgreeInv'
<1> DEFINE c == ctx[p]
<1>1. /\ p \in Parts /\ c \in Contexts /\ c.alive /\ CtxFits(p, c, log', Dead)
      /\ RecordsFit(c, log[p])
  BY OwnContext
<1>2. CASE /\ c.down \in Unprepared \cup {"PREPARE"}
           /\ Act(p, Drive(c, "ABORT"), net, PostDown(p, "ABORT_REQ"), {})
  <2>1. Request["ABORT"] = "ABORT_REQ"
    BY DEF Request
  <2>2. "COMMIT" \notin log[p]
    BY <1>1, <1>2 DEF RecordsFit
  <2>3. Hopeless(log', Dead)
    BY <2>2 DEF Cleared, Whole, Com
  <2> QED BY <1>1, <1>2, <2>1, <2>3, RequestAgrees
<1>3. CASE /\ c.down = "ABORT"
           /\ Act(p, c, net, RetransmitDown(p, c) \cup RetransmitUp(p, c, "ABORT"), {})
  BY <1>1, <1>3, AnswerAgrees
<1>4. CASE Ignore(net)
  BY <1>4, IgnoreAgrees DEF Stepping
<1> QED BY <1>2, <1>3, <1>4 DEF HandleAbortReq

\* handle_2pc_clear_request.
LEMMA ClearReqAgrees ==
  ASSUME IndInv, NEW p, NEW net, Stepping(p, net), log' = log,
         Hopeless(log, Dead) \/ Cleared(p, log), p # Root, HandleClearReq(p, net)
  PROVE  AgreeInv'
<1> DEFINE c == ctx[p]
<1>1. /\ p \in Parts /\ c \in Contexts /\ c.alive /\ CtxFits(p, c, log', Dead)
  BY OwnContext
<1>2. CASE Act(p, Drive(c, "CLEAR"), net, PostDown(p, "CLEAR_REQ"), {})
  <2>1. Request["CLEAR"] = "CLEAR_REQ"
    BY DEF Request
  <2>2. Flat => Children(p) \subseteq Fin(log', Dead)
    BY DEF Flat, Children
  <2> QED BY <1>1, <1>2, <2>1, <2>2, RequestAgrees
<1>3. CASE Ignore(net)
  BY <1>3, IgnoreAgrees DEF Stepping
<1> QED BY <1>2, <1>3 DEF HandleClearReq

-----------------------------------------------------------------------------
(* Responses *)

\* Asking q again.
LEMMA ResendAgrees ==
  ASSUME IndInv, NEW p, NEW net, Stepping(p, net), log' = log, NEW q \in Children(p),
         ctx[p].up \in {"PRE_COMMIT", "COMMIT", "ABORT", "CLEAR"}, Resend(p, q, net)
  PROVE  AgreeInv'
<1>1. /\ p \in Parts /\ ctx[p] \in Contexts /\ ctx[p].alive /\ CtxFits(p, ctx[p], log', Dead)
  BY OwnContext
<1>2. ctx[p].up \in DOMAIN Request /\ {q} \subseteq Children(p)
  BY DEF Request
<1>3. \A m \in Down(p, Request[ctx[p].up], {q}) : MsgFits(m, log', Dead)
  BY <1>1, <1>2, RequestFits
<1> QED BY <1>1, <1>3, ActAgrees DEF Resend

\* PREPARE_RESP.
LEMMA PrepareRespAgrees ==
  ASSUME IndInv, NEW p, NEW net, Stepping(p, net), log' = log, NEW q \in Children(p),
         Flat => q \in Prep(log), HandlePrepareResp(p, q, net)
  PROVE  AgreeInv'
<1> DEFINE b == ctx[p]
           c == Collect(b, q)
<1>1. /\ p \in Parts /\ b \in Contexts /\ b.alive /\ CtxFits(p, b, log', Dead)
      /\ StatesFit(b) /\ q \in Parts
  BY OwnContext DEF Children
<1>2. c.up = b.up
  BY <1>1 DEF Collect, Contexts
<1>3. CASE /\ b.up = "PREPARE"
           /\ \/ c.down = "PREPARE" /\ AllCollected(p, c) /\ Prepared(p, c, net)
              \/ Act(p, c, net, {}, {})
  <2>1. /\ c \in Contexts /\ c.alive /\ c.up = b.up /\ c.down = b.down
        /\ CtxFits(p, c, log', Dead)
    BY <1>1, <1>3, CollectAgrees
  <2> HIDE DEF c
  <2>2. StatesFit(c)
    BY <1>1, <2>1 DEF StatesFit
  <2>3. CASE c.down = "PREPARE" /\ AllCollected(p, c) /\ Prepared(p, c, net)
    BY <1>3, <2>1, <2>2, <2>3, PreparedAgrees
  <2>4. CASE Act(p, c, net, {}, {})
    BY <2>1, <2>4, ActAgrees
  <2> QED BY <1>3, <2>3, <2>4
<1>4. CASE b.up \in {"PRE_COMMIT", "COMMIT", "ABORT"} /\ Resend(p, q, net)
  BY <1>4, ResendAgrees
<1>5. CASE Ignore(net)
  BY <1>5, IgnoreAgrees DEF Stepping
<1> HIDE DEF c
<1> QED BY <1>2, <1>3, <1>4, <1>5 DEF HandlePrepareResp, c

\* PRE_COMMIT_RESP: at the root, everybody is prepared when all have answered.
LEMMA PreCommitRespAgrees ==
  ASSUME IndInv, NEW p, NEW net, Stepping(p, net), log' = log, NEW q \in Children(p),
         q \in Whole(Prep(log)), HandlePreCommitResp(p, q, net)
  PROVE  AgreeInv'
<1> DEFINE b == ctx[p]
           c == Collect(b, q)
<1>1. /\ p \in Parts /\ b \in Contexts /\ b.alive /\ CtxFits(p, b, log', Dead)
      /\ StatesFit(b) /\ q \in Parts /\ LogsFit(log', Dead)
  BY OwnContext DEF Children
<1>2. c.up = b.up
  BY <1>1 DEF Collect, Contexts
<1>3. CASE /\ b.up = "PRE_COMMIT"
           /\ \/ /\ AllCollected(p, c) /\ p = Root
                 /\ Act(p, Drive(c, "COMMIT"), net, PostDown(p, "COMMIT_REQ"), {"committed"})
              \/ AllCollected(p, c) /\ Act(p, c, net, Up(p, "PRE_COMMIT_RESP"), {})
              \/ Act(p, c, net, {}, {})
  <2>1. /\ c \in Contexts /\ c.alive /\ c.up = b.up /\ c.down = b.down
        /\ CtxFits(p, c, log', Dead)
    BY <1>1, <1>3, CollectAgrees
  <2> HIDE DEF c
  <2>2. StatesFit(c) /\ c.down = "PRE_COMMIT"
    BY <1>1, <1>3, <2>1 DEF StatesFit
  <2>3. CASE /\ AllCollected(p, c) /\ p = Root
             /\ Act(p, Drive(c, "COMMIT"), net, PostDown(p, "COMMIT_REQ"), {"committed"})
    <3>1. Root \in Prep(log')
      BY <1>1, <2>1, <2>2, <2>3 DEF CtxFits, RecordsFit, Prep
    <3>2. Children(Root) \subseteq Whole(Prep(log'))
      BY <1>3, <2>1, <2>3 DEF AllCollected, CtxFits, CommitFits
    <3>3. Prep(log') \in SUBSET Parts
      BY DEF Prep
    <3>4. AllPrep(log')
      BY <3>1, <3>2, <3>3, WholeStep, WholeRoot DEF AllPrep
    <3>5. Request["COMMIT"] = "COMMIT_REQ" /\ Truthful(log')
      BY <3>4 DEF Request, Truthful
    <3> QED BY <2>1, <2>3, <3>4, <3>5, RequestAgrees
  <2>4. CASE AllCollected(p, c) /\ Act(p, c, net, Up(p, "PRE_COMMIT_RESP"), {})
    <3>1. Response["PRE_COMMIT"] = "PRE_COMMIT_RESP"
      BY DEF Response
    <3>2. \A m \in Up(p, Response["PRE_COMMIT"]) : MsgFits(m, log', Dead)
      BY <1>1, <2>1, <2>2, <2>4, AnswerFits
    <3> QED BY <2>1, <2>4, <3>1, <3>2, ActAgrees
  <2>5. CASE Act(p, c, net, {}, {})
    BY <2>1, <2>5, ActAgrees
  <2> QED BY <1>3, <2>3, <2>4, <2>5
<1>4. CASE b.up \in {"COMMIT", "CLEAR"} /\ Resend(p, q, net)
  BY <1>4, ResendAgrees
<1>5. CASE Ignore(net)
  BY <1>5, IgnoreAgrees DEF Stepping
<1> HIDE DEF c
<1> QED BY <1>2, <1>3, <1>4, <1>5 DEF HandlePreCommitResp, c

\* An answer that a log is synced, in COMMIT or ABORT.
LEMMA AckAgrees ==
  ASSUME IndInv, NEW p, NEW net, Stepping(p, net), log' = log, NEW q \in Children(p),
         ctx[p].up \in {"COMMIT", "ABORT"},
         Hopeless(log, Dead) \/ q \in Whole(Com(log)), Flat => q \in Fin(log, Dead),
         HandleAck(p, q, net)
  PROVE  AgreeInv'
<1> DEFINE b == ctx[p]
           c == Collect(b, q)
<1>1. /\ p \in Parts /\ b \in Contexts /\ b.alive /\ CtxFits(p, b, log', Dead)
      /\ StatesFit(b) /\ q \in Parts
  BY OwnContext DEF Children
<1>2. /\ c \in Contexts /\ c.alive /\ c.up = b.up /\ c.down = b.down
      /\ CtxFits(p, c, log', Dead)
  BY <1>1, CollectAgrees
<1>3. \/ c.down \in {"COMMIT", "ABORT"} /\ AllCollected(p, c) /\ PhaseDone(p, c, net)
      \/ Act(p, c, net, {}, {})
  BY DEF HandleAck
<1> HIDE DEF c
<1>4. StatesFit(c)
  BY <1>1, <1>2 DEF StatesFit
<1>5. CASE c.down \in {"COMMIT", "ABORT"} /\ AllCollected(p, c) /\ PhaseDone(p, c, net)
  BY <1>2, <1>4, <1>5, PhaseDoneAgrees
<1>6. CASE Act(p, c, net, {}, {})
  BY <1>2, <1>6, ActAgrees
<1> QED BY <1>3, <1>5, <1>6

\* COMMIT_RESP.
LEMMA CommitRespAgrees ==
  ASSUME IndInv, NEW p, NEW net, Stepping(p, net), log' = log, NEW q \in Children(p),
         Hopeless(log, Dead) \/ q \in Whole(Com(log)), Flat => q \in Fin(log, Dead),
         HandleCommitResp(p, q, net)
  PROVE  AgreeInv'
<1>1. CASE ctx[p].up = "COMMIT" /\ HandleAck(p, q, net)
  BY <1>1, AckAgrees
<1>2. CASE ctx[p].up = "CLEAR" /\ Resend(p, q, net)
  BY <1>2, ResendAgrees
<1>3. CASE Ignore(net)
  BY <1>3, IgnoreAgrees DEF Stepping
<1> QED BY <1>1, <1>2, <1>3 DEF HandleCommitResp

\* ABORT_RESP: who can still abort has not committed, so it is hopeless.
LEMMA AbortRespAgrees ==
  ASSUME IndInv, NEW p, NEW net, Stepping(p, net), log' = log, NEW q \in Children(p),
         Hopeless(log, Dead) \/ Cleared(q, log), Flat => q \in Fin(log, Dead),
         HandleAbortResp(p, q, net)
  PROVE  AgreeInv'
<1> DEFINE c == ctx[p]
           e == Drive(c, "ABORT")
           f == Collect(e, q)
           told == IF p = Root THEN {"killed"} ELSE {}
<1>1. /\ p \in Parts /\ c \in Contexts /\ c.alive /\ CtxFits(p, c, log', Dead)
      /\ RecordsFit(c, log[p]) /\ q \in Parts /\ q # Root /\ Parent[q] = p
  BY OwnContext DEF Children
<1>2. CASE /\ c.down \in Unprepared \cup {"PREPARE"}
           /\ Act(p, f, net, PostDown(p, "ABORT_REQ"), told)
  <2>1. "COMMIT" \notin log[p]
    BY <1>1, <1>2 DEF RecordsFit
  <2>2. Hopeless(log', Dead)
    BY <1>1, <2>1 DEF Cleared, Com
  <2>3. e \in Contexts /\ e.alive /\ e.up = "ABORT" /\ CtxFits(p, e, log', Dead)
    BY <1>1, <2>2, DriveAgrees
  <2> HIDE DEF e
  <2>4. f \in Contexts /\ f.alive /\ f.up = "ABORT" /\ CtxFits(p, f, log', Dead)
    BY <1>1, <2>3, CollectAgrees
  <2> HIDE DEF f
  <2>5. f.up \in DOMAIN Request /\ Request[f.up] = "ABORT_REQ"
    BY <2>4 DEF Request
  <2>6. \A m \in PostDown(p, "ABORT_REQ") : MsgFits(m, log', Dead)
    BY <1>1, <2>4, <2>5, RequestFits DEF PostDown
  <2>7. "committed" \notin told
    OBVIOUS
  <2> HIDE DEF told
  <2> QED BY <1>2, <2>4, <2>6, <2>7, ActAgrees
<1>3. CASE c.up \in {"COMMIT", "ABORT"} /\ HandleAck(p, q, net)
  BY <1>3, AckAgrees DEF Cleared
<1>4. CASE c.up = "CLEAR" /\ Resend(p, q, net)
  BY <1>4, ResendAgrees
<1>5. CASE Ignore(net)
  BY <1>5, IgnoreAgrees DEF Stepping
<1> QED BY <1>2, <1>3, <1>4, <1>5 DEF HandleAbortResp

-----------------------------------------------------------------------------
(* Receiving a message *)

\* The answer of a participant without context is right: either it is hopeless
\* or everybody around it has committed.
LEMMA OrphanFits ==
  ASSUME TypeOK, AgreeInv, NEW m \in msgs, ~ctx[m.to].alive
  PROVE  \A a \in OrphanAnswer(m) : MsgFits(a, log, Dead)
<1> DEFINE p == m.to
<1>1. m \in Messages /\ p \in Parts /\ p \in Dead /\ p \in Fin(log, Dead)
  BY MessageFields DEF TypeOK, Dead, Fin
<1>2. MsgFits(m, log, Dead) /\ (Hopeless(log, Dead) \/ Cleared(p, log))
  BY <1>1 DEF AgreeInv, CtxFits, NoAbort
<1>3. CASE m.type \in Requests
  <2>1. OrphanAnswer(m) \subseteq {[type |-> "ABORT_RESP", from |-> p, to |-> m.from]}
    BY <1>3 DEF OrphanAnswer, Requests
  <2>2. MsgFits([type |-> "ABORT_RESP", from |-> p, to |-> m.from], log, Dead)
    BY <1>1, <1>2 DEF MsgFits, MsgNoAbort, MsgFlat
  <2> QED BY <2>1, <2>2
<1>4. CASE m.type \in Responses
  <2> DEFINE q == m.from
  <2>1. q \in Children(p) /\ q # Root /\ Parent[q] = p
    BY <1>1, <1>4, MessageFields DEF Children
  <2>2. Cleared(p, log) => Cleared(q, log)
    BY <2>1, WholeBelow DEF Cleared
  <2>3. CASE m.type \in {"PREPARE_RESP", "PRE_COMMIT_RESP"}
    <3>1. OrphanAnswer(m) \subseteq {[type |-> "ABORT_REQ", from |-> p, to |-> q]}
      BY <2>3 DEF OrphanAnswer, Requests
    <3>2. MsgFits([type |-> "ABORT_REQ", from |-> p, to |-> q], log, Dead)
      BY <1>2, <2>2 DEF MsgFits, MsgNoAbort, MsgFlat
    <3> QED BY <3>1, <3>2
  <2>4. CASE m.type \in {"COMMIT_RESP", "ABORT_RESP"}
    <3>1. OrphanAnswer(m) \subseteq {[type |-> "CLEAR_REQ", from |-> p, to |-> q]}
      BY <2>4 DEF OrphanAnswer, Requests
    <3>2. Flat => q \in Fin(log, Dead)
      BY <1>2, <2>4 DEF MsgFits, MsgFlat
    <3>3. MsgFits([type |-> "CLEAR_REQ", from |-> p, to |-> q], log, Dead)
      BY <1>2, <2>2, <3>2 DEF MsgFits, MsgNoAbort, MsgFlat
    <3> QED BY <3>1, <3>3
  <2> QED BY <1>4, <2>3, <2>4 DEF Responses
<1> QED BY <1>1, <1>3, <1>4, MessageFields

\* Every message that is received keeps the invariant.
LEMMA ReceiveAgrees ==
  ASSUME IndInv, AgreeInv, NEW m \in msgs, Receive(m)
  PROVE  AgreeInv'
<1> DEFINE p == m.to
           q == m.from
           net == Rest(m)
<1>1. /\ TypeOK /\ m \in Messages /\ p \in Parts /\ MsgFits(m, log, Dead)
      /\ log' = log /\ (held' => SlowLookup) /\ net \subseteq msgs
  BY MessageFields DEF IndInv, TypeOK, AgreeInv, Receive, Rest
<1>2. CASE ~ctx[p].alive
  <2>1. \A a \in OrphanAnswer(m) : MsgFits(a, log, Dead)
    BY <1>1, <1>2, OrphanFits
  <2>2. /\ ctx' = ctx /\ replies' = replies
        /\ msgs' \subseteq msgs \cup OrphanAnswer(m)
    BY <1>1, <1>2 DEF Receive, Ignore
  <2> QED BY <1>1, <2>1, <2>2, SameAgrees
<1>3. CASE ctx[p].alive
  <2>1. Stepping(p, net) /\ Handle(m, net)
    BY <1>1, <1>3 DEF Stepping, AgreeInv, Receive
  <2>2. CASE m.type \in Requests
    <3>1. p # Root
      BY <1>1, <2>2, MessageEnds
    <3>2. m.type \in {"ABORT_REQ", "CLEAR_REQ"} => Hopeless(log, Dead) \/ Cleared(p, log)
      BY <1>1 DEF MsgFits, MsgNoAbort
    <3>3. /\ m.type = "PRE_COMMIT_REQ" => (Flat => AllPrep(log))
          /\ m.type = "COMMIT_REQ" => AllPrep(log)
      BY <1>1 DEF MsgFits, MsgFlat
    <3>4. \/ m.type = "PREPARE_REQ" /\ HandlePrepareReq(p, net)
          \/ m.type = "PRE_COMMIT_REQ" /\ HandlePreCommitReq(p, net)
          \/ m.type = "COMMIT_REQ" /\ HandleCommitReq(p, net)
          \/ m.type = "ABORT_REQ" /\ HandleAbortReq(p, net)
          \/ m.type = "CLEAR_REQ" /\ HandleClearReq(p, net)
      BY <2>1, <2>2 DEF Handle, Requests
    <3> HIDE DEF p, net
    <3> QED BY <1>1, <2>1, <3>1, <3>2, <3>3, <3>4, PrepareReqAgrees, PreCommitReqAgrees,
               CommitReqAgrees, AbortReqAgrees, ClearReqAgrees
  <2>3. CASE m.type \in Responses
    <3>1. q \in Children(p)
      BY <1>1, <2>3, MessageFields
    <3>2. /\ m.type = "COMMIT_RESP" => Hopeless(log, Dead) \/ q \in Whole(Com(log))
          /\ m.type = "ABORT_RESP" => Hopeless(log, Dead) \/ Cleared(q, log)
          /\ m.type = "PRE_COMMIT_RESP" => q \in Whole(Prep(log))
      BY <1>1 DEF MsgFits, MsgNoAbort
    <3>3. /\ m.type = "PREPARE_RESP" => (Flat => q \in Prep(log))
          /\ m.type \in {"COMMIT_RESP", "ABORT_RESP"} => (Flat => q \in Fin(log, Dead))
      BY <1>1 DEF MsgFits, MsgFlat
    <3>4. \/ m.type = "PREPARE_RESP" /\ HandlePrepareResp(p, q, net)
          \/ m.type = "PRE_COMMIT_RESP" /\ HandlePreCommitResp(p, q, net)
          \/ m.type = "COMMIT_RESP" /\ HandleCommitResp(p, q, net)
          \/ m.type = "ABORT_RESP" /\ HandleAbortResp(p, q, net)
      BY <2>1, <2>3 DEF Handle, Responses
    <3> HIDE DEF p, q, net
    <3> QED BY <1>1, <2>1, <3>1, <3>2, <3>3, <3>4, PrepareRespAgrees, PreCommitRespAgrees,
               CommitRespAgrees, AbortRespAgrees
  <2> QED BY <1>1, <2>2, <2>3, MessageFields
<1> QED BY <1>2, <1>3

-----------------------------------------------------------------------------
(* Logs, timers and the GTS *)

\* p leaves, with context c and records that the logs allow: unprepared, or
\* when all around it are done.
LEMMA DieAgrees ==
  ASSUME TypeOK, AgreeInv, NEW p \in Parts, ctx[p].alive, NEW c \in Contexts, ~c.alive,
         ctx' = [ctx EXCEPT ![p] = c],
         \A q \in Parts : log[q] \subseteq log'[q],
         \A q \in Parts \ {p} : log'[q] = log[q],
         msgs' \subseteq msgs, "committed" \in replies' => "committed" \in replies,
         held' => SlowLookup,
         "COMMIT" \in log'[p] => AllPrep(log),
         \/ "PREPARE" \notin log'[p]
         \/ /\ Hopeless(log, Dead) \/ Cleared(p, log)
            /\ "ABORT" \in log'[p] => Hopeless(log, Dead)
  PROVE  AgreeInv'
<1> DEFINE e == Dead \cup {p}
<1>1. Grows(log, log', Dead, e)
  BY DEF Grows, Dead
<1>2. "PREPARE" \notin log'[p] => Hopeless(log', e)
  BY DEF Hopeless, Prep
<1>3. Hopeless(log', e) \/ Cleared(p, log')
  BY <1>1, <1>2, GrowFacts
<1>4. LogsFit(log', e)
  <2>1. Com(log') # {} => AllPrep(log')
    <3>1. Com(log') # {} => AllPrep(log)
      BY DEF Com, AgreeInv, LogsFit
    <3> QED BY <1>1, <3>1, GrowFacts
  <2>2. Hopeless(log', e) \/ \A q \in Parts : "ABORT" \notin log'[q]
    BY <1>1, <1>2, GrowFacts DEF AgreeInv, LogsFit
  <2> QED BY <2>1, <2>2 DEF LogsFit
<1>5. CtxFits(p, c, log', e)
  BY <1>3 DEF CtxFits, NoAbort
<1> DEFINE out == {}
<1>6. msgs' \subseteq msgs \cup out /\ \A m \in out : MsgFits(m, log', e)
  OBVIOUS
<1> HIDE DEF e, out
<1>7. e = IF c.alive THEN Dead ELSE Dead \cup {p}
  BY DEF e
<1> QED BY <1>4, <1>5, <1>6, <1>7, StepAgrees

\* Exit does leave.
LEMMA ExitLeaves ==
  ASSUME NEW c \in Contexts, NEW d \in TxStates
  PROVE  Exit(c, d) \in Contexts /\ ~Exit(c, d).alive /\ Exit(c, d).logging = "none"
  BY DEF Exit, Contexts

\* An Act that ends in Exit submits no log.
LEMMA ExitActs ==
  ASSUME NEW p, NEW c, c.logging = "none", NEW net, NEW out, NEW told,
         Act(p, c, net, out, told)
  PROVE  ctx' = [ctx EXCEPT ![p] = c]
  BY DEF Act

\* A local abort of a participant without PREPARE record.
LEMMA LocalAbortedAgrees ==
  ASSUME IndInv, AgreeInv, NEW p \in Parts, ctx[p].alive,
         \A q \in Parts : log[q] \subseteq log'[q],
         \A q \in Parts \ {p} : log'[q] = log[q],
         held' => SlowLookup, "PREPARE" \notin log'[p],
         "COMMIT" \in log'[p] => AllPrep(log), LocalAborted(p, msgs)
  PROVE  AgreeInv'
<1> DEFINE c == Exit(ctx[p], "ABORT")
           told == IF ctx[p].commit THEN {"killed"} ELSE {}
<1>1. TypeOK /\ c \in Contexts /\ ~c.alive /\ c.logging = "none"
  BY ExitLeaves DEF IndInv, TypeOK, TxStates
<1>2. Act(p, c, msgs, {}, told) /\ "committed" \notin told
  BY DEF LocalAborted
<1> HIDE DEF c, told
<1>3. /\ ctx' = [ctx EXCEPT ![p] = c] /\ msgs' \subseteq msgs
      /\ "committed" \in replies' => "committed" \in replies
  BY <1>1, <1>2, ExitActs DEF Act
<1> QED BY <1>1, <1>3, DieAgrees

\* A record of p, which is alive, is no record of the dead.
LEMMA DeadQuiet ==
  ASSUME NEW p \in Parts, ctx[p].alive,
         \A q \in Parts : log[q] \subseteq log'[q],
         \A q \in Parts \ {p} : log'[q] = log[q]
  PROVE  Grows(log, log', Dead, Dead)
  BY DEF Grows, Dead

\* A log that is synced.
LEMMA LogSyncedAgrees ==
  ASSUME IndInv, AgreeInv, NEW p \in Parts, LogSynced(p)
  PROVE  AgreeInv'
<1> DEFINE b == ctx[p]
           type == b.logging
           c == [b EXCEPT !.logging = "none", !.down = type]
<1>1. /\ TypeOK /\ b \in Contexts /\ b.alive /\ StatesFit(b) /\ LogFits(b)
      /\ CtxFits(p, b, log, Dead) /\ LogsFit(log, Dead)
  BY DEF LogSynced, IndInv, TypeOK, Coherent, AgreeInv
<1>2. type \in {"PREPARE", "COMMIT", "ABORT", "CLEAR"}
  BY <1>1 DEF LogSynced, Contexts
<1>3. /\ log' = [log EXCEPT ![p] = @ \cup {type}]
      /\ \A q \in Parts : log[q] \subseteq log'[q]
      /\ \A q \in Parts \ {p} : log'[q] = log[q]
      /\ log'[p] = log[p] \cup {type}
      /\ held' => SlowLookup
  BY <1>1 DEF LogSynced, TypeOK, AgreeInv
<1>4. /\ c \in Contexts /\ c.alive
      /\ c.up = b.up /\ c.down = type /\ c.logging = "none"
      /\ c.force = b.force /\ c.collected = b.collected
  BY <1>1, <1>2 DEF Contexts, TxStates
<1>5. \/ /\ type = "PREPARE"
         /\ (AllCollected(p, c) /\ Prepared(p, c, msgs)) \/ Act(p, c, msgs, {}, {})
      \/ /\ type = "COMMIT" \/ (type = "ABORT" /\ ~c.force)
         /\ (AllCollected(p, c) /\ PhaseDone(p, c, msgs)) \/ Act(p, c, msgs, {}, {})
      \/ type = "ABORT" /\ c.force /\ LocalAborted(p, msgs)
      \/ type = "CLEAR" /\ Act(p, Exit(c, "CLEAR"), msgs, {}, {})
  BY DEF LogSynced, Apply
<1> HIDE DEF c
<1>6. RecordsFit(b, log[p])
  BY <1>1 DEF CtxFits
<1>7. Grows(log, log', Dead, Dead)
  BY <1>1, <1>3, DeadQuiet
<1>8. CASE type = "ABORT" /\ c.force /\ LocalAborted(p, msgs)
  <2>1. "PREPARE" \notin log'[p] /\ "COMMIT" \notin log'[p]
    BY <1>3, <1>4, <1>6, <1>8 DEF RecordsFit
  <2> QED BY <1>1, <1>3, <1>8, <2>1, LocalAbortedAgrees
<1>9. CASE type = "CLEAR" /\ Act(p, Exit(c, "CLEAR"), msgs, {}, {})
  <2> DEFINE e == Exit(c, "CLEAR")
  <2>1. e \in Contexts /\ ~e.alive /\ e.logging = "none"
    BY <1>4, ExitLeaves DEF TxStates
  <2>2. Act(p, e, msgs, {}, {})
    BY <1>9
  <2> HIDE DEF e
  <2>3. /\ ctx' = [ctx EXCEPT ![p] = e] /\ msgs' \subseteq msgs
        /\ "committed" \in replies' => "committed" \in replies
    BY <2>1, <2>2, ExitActs DEF Act
  <2>4. b.up = "CLEAR" /\ b.down \in {"COMMIT", "ABORT"}
    BY <1>1, <1>9 DEF LogFits
  <2>5. Hopeless(log, Dead) \/ Cleared(p, log)
    BY <1>1, <2>4 DEF CtxFits, NoAbort
  <2>6. "ABORT" \in log'[p] => Hopeless(log, Dead)
    BY <1>1, <1>3, <1>9 DEF LogsFit
  <2>7. "COMMIT" \in log'[p] => AllPrep(log)
    BY <1>1, <1>3, <1>9, CommittedPrepared
  <2> QED BY <1>1, <1>3, <2>1, <2>3, <2>5, <2>6, <2>7, DieAgrees
<1>10. CASE \/ type \in {"PREPARE", "COMMIT"}
            \/ type = "ABORT" /\ ~c.force
  <2>1. /\ type = "COMMIT" => AllPrep(log)
        /\ type = "ABORT" => Hopeless(log, Dead)
        /\ type = b.up
    BY <1>1, <1>2, <1>4, <1>10 DEF LogFits, CtxFits, CommitFits, NoAbort
  <2>2. LogsFit(log', Dead)
    <3>1. Com(log') # {} => AllPrep(log)
      BY <1>1, <1>3, <2>1 DEF Com, LogsFit
    <3>2. Hopeless(log, Dead) \/ \A q \in Parts : "ABORT" \notin log'[q]
      BY <1>1, <1>3, <2>1 DEF LogsFit
    <3> QED BY <1>7, <3>1, <3>2, GrowFacts DEF LogsFit
  <2>3. Stepping(p, msgs)
    BY <1>1, <1>3, <2>2 DEF Stepping
  <2>4. CtxFits(p, c, log', Dead)
    <3>1. RecordsFit(c, log'[p])
      BY <1>1, <1>2, <1>3, <1>4, <1>6, <1>10 DEF RecordsFit, LogFits, Unprepared
    <3>2. CommitFits(c, log')
      BY <1>1, <1>4, <1>7, GrowFacts DEF CtxFits, CommitFits
    <3>3. Hopeless(log', Dead) \/ NoAbort(p, c, log')
      BY <1>1, <1>4, <1>7, <1>10, <2>1, GrowFacts DEF CtxFits, NoAbort
    <3>4. Flat => FlatFits(p, c, log', Dead)
      BY <1>1, <1>4, <1>7, GrowFacts DEF CtxFits, FlatFits
    <3> QED BY <3>1, <3>2, <3>3, <3>4 DEF CtxFits
  <2>5. StatesFit(c)
    BY <1>2, <1>4, <1>10, <2>1 DEF StatesFit
  <2>6. CASE Act(p, c, msgs, {}, {})
    BY <1>4, <2>3, <2>4, <2>6, ActAgrees
  <2>7. CASE type = "PREPARE" /\ AllCollected(p, c) /\ Prepared(p, c, msgs)
    BY <1>4, <2>1, <2>3, <2>4, <2>5, <2>7, PreparedAgrees
  <2>8. CASE type \in {"COMMIT", "ABORT"} /\ AllCollected(p, c) /\ PhaseDone(p, c, msgs)
    BY <1>4, <2>1, <2>3, <2>4, <2>5, <2>8, PhaseDoneAgrees
  <2> QED BY <1>5, <1>10, <2>6, <2>7, <2>8
<1> QED BY <1>2, <1>5, <1>8, <1>9, <1>10

\* The timer.
LEMMA TimeoutAgrees ==
  ASSUME IndInv, AgreeInv, NEW p \in Parts, Timeout(p)
  PROVE  AgreeInv'
<1> DEFINE c == ctx[p]
           d == IF Quiet(c) THEN [c EXCEPT !.logging = LogType(c)] ELSE c
<1>1. Stepping(p, msgs) /\ log' = log
  BY DEF Timeout, IndInv, Stepping, AgreeInv
<1>2. /\ c \in Contexts /\ c.alive /\ CtxFits(p, c, log', Dead) /\ RecordsFit(c, log[p])
  BY <1>1, OwnContext
<1>3. CASE c.down = "REDO_COMPLETE" /\ EnterPrepare(p, msgs, {})
  <2>1. c.down \in Unprepared
    BY <1>3 DEF Unprepared
  <2> QED BY <1>1, <1>2, <1>3, <2>1, EnterPrepareAgrees
<1>4. CASE Act(p, d, msgs, RetransmitDown(p, c) \cup RetransmitUp(p, c, c.down), {})
  <2> DEFINE e == [c EXCEPT !.logging = LogType(c)]
  <2>1. /\ LogType(c) \in {"none", "PREPARE", "COMMIT", "ABORT", "CLEAR"}
        /\ LogType(c) = "PREPARE" => ~c.force
    BY DEF LogType
  <2>2. /\ e \in Contexts /\ e.alive /\ e.up = c.up /\ e.down = c.down
        /\ e.collected = c.collected /\ e.force = c.force /\ e.logging = LogType(c)
    BY <1>2, <2>1 DEF Contexts
  <2>3. d \in {c, e}
    OBVIOUS
  <2>4. e.force => c.down \in Unprepared /\ e.logging # "PREPARE"
    BY <1>2, <2>1, <2>2 DEF RecordsFit
  <2> HIDE DEF e, d
  <2>5. CtxFits(p, e, log', Dead)
    BY <1>2, <2>1, <2>2, <2>4, CtxSame
  <2>6. d \in Contexts /\ d.alive /\ CtxFits(p, d, log', Dead)
    BY <1>2, <2>2, <2>3, <2>5
  <2> QED BY <1>1, <1>4, <2>6, AnswerAgrees
<1> QED BY <1>3, <1>4 DEF Timeout

\* The GTS callback.
LEMMA GtsElapsedAgrees ==
  ASSUME IndInv, AgreeInv, NEW p \in Parts, GtsElapsed(p)
  PROVE  AgreeInv'
<1> DEFINE c == ctx[p]
           e == [c EXCEPT !.logging = "none"]
<1>1. Stepping(p, msgs) /\ log' = log
  BY DEF GtsElapsed, IndInv, Stepping, AgreeInv
<1>2. /\ c \in Contexts /\ c.alive /\ CtxFits(p, c, log', Dead) /\ RecordsFit(c, log[p])
      /\ StatesFit(c) /\ LogFits(c)
  BY <1>1, OwnContext
<1>3. /\ e \in Contexts /\ e.alive /\ e.up = c.up /\ e.down = c.down
      /\ e.collected = c.collected /\ e.force = c.force /\ e.logging = "none"
  BY <1>2 DEF Contexts
<1>4. c.logging = "gts" /\ EnterPreCommit(p, e, msgs)
  BY DEF GtsElapsed
<1>5. e.force => c.down \in Unprepared
  BY <1>2, <1>3 DEF RecordsFit
<1> HIDE DEF e
<1>6. CtxFits(p, e, log', Dead)
  BY <1>2, <1>3, <1>5, CtxSame
<1>7. e.down = "PREPARE" /\ StatesFit(e) /\ (Flat => AllPrep(log'))
  BY <1>2, <1>3, <1>4 DEF LogFits, StatesFit, CtxFits, FlatFits
<1> QED BY <1>1, <1>3, <1>4, <1>6, <1>7, EnterPreCommitAgrees

\* A local abort, with or without a log.
LEMMA LocalAbortAgrees ==
  ASSUME IndInv, AgreeInv, NEW p \in Parts, LocalAbort(p)
  PROVE  AgreeInv'
<1> DEFINE c == ctx[p]
           e == [c EXCEPT !.force = TRUE, !.logging = "ABORT"]
<1>1. Stepping(p, msgs) /\ log' = log
  BY DEF LocalAbort, IndInv, Stepping, AgreeInv
<1>2. /\ c \in Contexts /\ c.alive /\ CtxFits(p, c, log', Dead) /\ RecordsFit(c, log[p])
  BY <1>1, OwnContext
<1>3. c.down \in Unprepared
  BY DEF LocalAbort
<1>4. CASE Act(p, e, msgs, {}, {})
  <2>1. /\ e \in Contexts /\ e.alive /\ e.up = c.up /\ e.down = c.down
        /\ e.collected = c.collected /\ e.logging = "ABORT"
    BY <1>2 DEF Contexts
  <2> HIDE DEF e
  <2>2. CtxFits(p, e, log', Dead)
    BY <1>2, <1>3, <2>1, CtxSame
  <2> QED BY <1>1, <1>4, <2>1, <2>2, ActAgrees
<1>5. CASE LocalAborted(p, msgs)
  <2>1. "PREPARE" \notin log'[p] /\ "COMMIT" \notin log'[p]
    BY <1>1, <1>2, <1>3 DEF RecordsFit
  <2> QED BY <1>1, <1>2, <1>5, <2>1, LocalAbortedAgrees DEF Stepping
<1> QED BY <1>4, <1>5 DEF LocalAbort

-----------------------------------------------------------------------------
(* The commit request *)

\* A request that changes no context and tells the truth.
LEMMA TellAgrees ==
  ASSUME IndInv, AgreeInv, log' = log, held' => SlowLookup,
         NEW told, "committed" \in told => Truthful(log),
         Act(Root, ctx[Root], msgs, {}, told)
  PROVE  AgreeInv'
<1> DEFINE out == {}
<1>1. ctx' = ctx
  BY TreeAssumption DEF Act, IndInv, TypeOK
<1>2. /\ msgs' \subseteq msgs \cup out /\ \A m \in out : MsgFits(m, log, Dead)
      /\ "committed" \in replies' => "committed" \in replies \/ Truthful(log)
  BY DEF Act
<1> HIDE DEF out
<1> QED BY <1>1, <1>2, SameAgrees

\* ObPartTransCtx::commit, of a context that is still there, or of one that may
\* have been left in the meantime.
LEMMA CommitAgrees ==
  ASSUME IndInv, AgreeInv, log' = log, held' => SlowLookup,
         ctx[Root].alive \/ SlowLookup, Commit
  PROVE  AgreeInv'
<1> DEFINE c == ctx[Root]
           e == [c EXCEPT !.commit = TRUE]
<1>1. /\ Root \in Parts /\ TypeOK /\ c \in Contexts /\ LogsFit(log, Dead)
      /\ CtxFits(Root, c, log, Dead)
  BY TreeAssumption DEF IndInv, TypeOK, AgreeInv
<1>2. c.alive => Stepping(Root, msgs)
  BY <1>1 DEF Stepping
<1>3. CASE Ignore(msgs)
  BY <1>3, IgnoreAgrees
<1>4. CASE c.alive /\ c.down \in Unprepared /\ EnterPrepare(Root, msgs, {"killed"})
  BY <1>1, <1>2, <1>4, EnterPrepareAgrees
<1>5. CASE c.alive /\ Act(Root, e, msgs, {}, {})
  <2>1. e \in Contexts /\ e.alive /\ CtxFits(Root, e, log', Dead)
    BY <1>1, <1>5, CommitFlag
  <2> HIDE DEF e
  <2> QED BY <1>2, <1>5, <2>1, ActAgrees
<1>6. CASE Act(Root, c, msgs, {}, {"killed"})
  BY <1>6, TellAgrees
<1>7. CASE /\ c.down \in {"PRE_COMMIT", "COMMIT", "CLEAR"}
           /\ Act(Root, c, msgs, {}, {"committed"})
  <2>1. c.alive => StatesFit(c) /\ RecordsFit(c, log[Root]) /\ CommitFits(c, log)
                   /\ (Flat => FlatFits(Root, c, log, Dead))
    BY <1>1 DEF IndInv, Coherent, CtxFits
  <2>2. CASE c.alive
    <3>1. c.down = "COMMIT" \/ (c.down = "PRE_COMMIT" /\ c.up \in {"PRE_COMMIT", "COMMIT"})
      BY <1>1, <1>7, <2>1, <2>2 DEF StatesFit, Contexts, TxStates
    <3>2. c.down = "COMMIT" => AllPrep(log)
      BY <1>1, <2>1, <2>2, CommittedPrepared DEF RecordsFit
    <3>3. Truthful(log)
      BY <2>1, <2>2, <3>1, <3>2 DEF Truthful, CommitFits, FlatFits
    <3> QED BY <1>7, <3>3, TellAgrees
  <2>3. CASE ~c.alive
    <3>1. Truthful(log)
      BY <2>3 DEF Truthful
    <3> QED BY <1>7, <3>1, TellAgrees
  <2> QED BY <2>2, <2>3
<1> QED BY <1>3, <1>4, <1>5, <1>6, <1>7 DEF Commit, Unprepared

\* The commit request, with its context found at once, early, or not at all.
LEMMA CommitRequestsAgree ==
  ASSUME IndInv, AgreeInv, CommitRequest \/ FindCtx \/ CommitFound
  PROVE  AgreeInv'
<1>1. CASE CommitRequest
  <2>1. log' = log /\ (held' => SlowLookup)
    BY <1>1 DEF CommitRequest, AgreeInv
  <2>2. CASE ctx[Root].alive
    BY <1>1, <2>1, <2>2, CommitAgrees DEF CommitRequest
  <2>3. CASE ~ctx[Root].alive
    <3> DEFINE told == IF "COMMIT" \in log[Root] THEN {"committed"} ELSE {"killed"}
    <3>1. Act(Root, ctx[Root], msgs, {}, told)
      BY <1>1, <2>3 DEF CommitRequest
    <3>2. "committed" \in told => "COMMIT" \in log[Root]
      OBVIOUS
    <3> HIDE DEF told
    <3>3. "committed" \in told => Truthful(log)
      BY <3>2, CommittedPrepared, TreeAssumption DEF Truthful, AgreeInv
    <3> QED BY <2>1, <3>1, <3>3, TellAgrees
  <2> QED BY <2>2, <2>3
<1>2. CASE FindCtx
  <2> DEFINE out == {}
  <2>1. /\ ctx' = ctx /\ log' = log /\ replies' = replies /\ (held' => SlowLookup)
        /\ msgs' \subseteq msgs \cup out /\ \A m \in out : MsgFits(m, log, Dead)
    BY <1>2 DEF FindCtx
  <2> HIDE DEF out
  <2> QED BY <2>1, SameAgrees
<1>3. CASE CommitFound
  BY <1>3, CommitAgrees DEF CommitFound, AgreeInv
<1> QED BY <1>1, <1>2, <1>3

-----------------------------------------------------------------------------
(* A new leader *)

\* The last record has none after it.
LEMMA DurableLast ==
  ASSUME NEW records \in SUBSET Records, records # {}, NEW d, d = Durable(records)
  PROVE  /\ d \in records
         /\ d \in Unprepared => "PREPARE" \notin records
         /\ d \in Unprepared \cup {"PREPARE"} => "COMMIT" \notin records
         /\ d \in Unprepared \cup {"PREPARE", "COMMIT"} =>
              "ABORT" \notin records /\ "CLEAR" \notin records
         /\ d = "ABORT" => "CLEAR" \notin records
<1>1. /\ Rank["INIT"] = 1 /\ Rank["REDO_COMPLETE"] = 2 /\ Rank["PREPARE"] = 3
      /\ Rank["COMMIT"] = 5 /\ Rank["ABORT"] = 6 /\ Rank["CLEAR"] = 7
  BY DEF Rank
<1>2. d \in records /\ \A s \in records : Rank[s] <= Rank[d]
  BY DurableInRecords
<1> QED BY <1>1, <1>2 DEF Unprepared

\* A new leader: what it replays, it and everybody else can rely on.
LEMMA SwitchLeaderAgrees ==
  ASSUME IndInv, AgreeInv, NEW p \in Parts, SwitchLeader(p)
  PROVE  AgreeInv'
<1> DEFINE c == ctx[p]
<1>1. /\ TypeOK /\ c \in Contexts /\ c.alive /\ StatesFit(c) /\ LogFits(c)
      /\ CtxFits(p, c, log, Dead) /\ LogsFit(log, Dead) /\ RecordsFit(c, log[p])
  BY DEF SwitchLeader, IndInv, TypeOK, Coherent, AgreeInv, CtxFits
<1>2. PICK new \in Survivors(p) :
        /\ log' = [log EXCEPT ![p] = log[p] \cup new]
        /\ ctx' = [ctx EXCEPT ![p] =
                     IF log[p] \cup new = {} \/ Durable(log[p] \cup new) \in {"ABORT", "CLEAR"}
                     THEN Exit(c, IF log[p] \cup new = {} THEN "ABORT"
                                                          ELSE Durable(log[p] \cup new))
                     ELSE Replayed(Durable(log[p] \cup new),
                                   Durable(log[p] \cup new) = "INIT" /\ new # {"INIT"})]
  BY DEF SwitchLeader
<1> DEFINE records == log[p] \cup new
           d == Durable(records)
<1>3. /\ log'[p] = records
      /\ \A q \in Parts : log[q] \subseteq log'[q]
      /\ \A q \in Parts \ {p} : log'[q] = log[q]
      /\ msgs' \subseteq msgs
      /\ "committed" \in replies' => "committed" \in replies
      /\ held' => SlowLookup
  BY <1>1, <1>2 DEF SwitchLeader, TypeOK, AgreeInv
<1>4. new \in {{}, {"INIT"}, {"REDO_COMPLETE"}} \/ (c.logging \in Records /\ new = {c.logging})
  BY <1>1 DEF Survivors, Contexts, Records, TxStates
<1>5. records \in SUBSET Records
  <2>1. new \subseteq Records
    BY <1>4 DEF Records, TxStates
  <2> QED BY <1>1, <2>1 DEF TypeOK
<1>6. "COMMIT" \in records => AllPrep(log)
  <2>1. "COMMIT" \in new => c.up = "COMMIT"
    BY <1>1, <1>4 DEF LogFits
  <2> QED BY <1>1, <2>1, CommittedPrepared DEF CtxFits, CommitFits
<1>7. "ABORT" \in records => Hopeless(log, Dead) \/ "PREPARE" \notin records
  <2>1. "ABORT" \in log[p] => Hopeless(log, Dead)
    BY <1>1 DEF LogsFit
  <2>2. "ABORT" \in new => new = {"ABORT"} /\ (c.up = "ABORT" \/ c.force)
    BY <1>1, <1>4 DEF LogFits
  <2>3. c.up = "ABORT" => Hopeless(log, Dead)
    BY <1>1 DEF CtxFits, NoAbort
  <2>4. c.force => "PREPARE" \notin log[p]
    BY <1>1 DEF RecordsFit
  <2> QED BY <2>1, <2>2, <2>3, <2>4
<1>8. "CLEAR" \in records => /\ Hopeless(log, Dead) \/ Cleared(p, log)
                             /\ "ABORT" \in records => Hopeless(log, Dead)
  <2>1. "CLEAR" \notin log[p]
    BY <1>1 DEF RecordsFit, StatesFit, Contexts, TxStates, Unprepared
  <2>2. "CLEAR" \in new => c.up = "CLEAR" /\ new = {"CLEAR"}
    BY <1>1, <1>4 DEF LogFits
  <2>3. c.up = "CLEAR" => Hopeless(log, Dead) \/ Cleared(p, log)
    BY <1>1 DEF CtxFits, NoAbort
  <2>4. "ABORT" \in log[p] => Hopeless(log, Dead)
    BY <1>1 DEF LogsFit
  <2> QED BY <2>1, <2>2, <2>3, <2>4
<1>9. CASE records = {} \/ d \in {"ABORT", "CLEAR"}
  <2> DEFINE e == Exit(c, IF records = {} THEN "ABORT" ELSE d)
  <2>1. (IF records = {} THEN "ABORT" ELSE d) \in TxStates
    BY <1>9 DEF TxStates
  <2>2. e \in Contexts /\ ~e.alive
    BY <1>1, <2>1, ExitLeaves
  <2>3. ctx' = [ctx EXCEPT ![p] = e]
    BY <1>2, <1>9
  <2> HIDE DEF e
  <2>4. records # {} => d \in records /\ (d = "ABORT" => "CLEAR" \notin records)
    BY <1>5, DurableLast
  <2> HIDE DEF d, records
  <2>5. \/ "PREPARE" \notin records
        \/ /\ Hopeless(log, Dead) \/ Cleared(p, log)
           /\ "ABORT" \in records => Hopeless(log, Dead)
    BY <1>7, <1>8, <1>9, <2>4
  <2> QED BY <1>1, <1>3, <1>6, <2>2, <2>3, <2>5, DieAgrees
<1>10. CASE records # {} /\ d \notin {"ABORT", "CLEAR"}
  <2> DEFINE f == d = "INIT" /\ new # {"INIT"}
             e == Replayed(d, f)
             out == {}
  <2>1. ctx' = [ctx EXCEPT ![p] = e]
    BY <1>2, <1>10
  <2>2. /\ d \in records
        /\ d \in Unprepared => "PREPARE" \notin records
        /\ d \in Unprepared \cup {"PREPARE"} => "COMMIT" \notin records
        /\ d \in Unprepared \cup {"PREPARE", "COMMIT"} =>
             "ABORT" \notin records /\ "CLEAR" \notin records
    BY <1>5, <1>10, DurableLast
  <2> HIDE DEF d
  <2>3. d \in {"INIT", "REDO_COMPLETE", "PREPARE", "COMMIT"}
    BY <1>5, <1>10, <2>2 DEF Records, TxStates
  <2>4. f \in BOOLEAN /\ (f => d = "INIT")
    OBVIOUS
  <2> HIDE DEF f, records
  <2>5. /\ e \in Contexts /\ e.alive /\ e.up = d /\ e.down = d /\ e.logging = "none"
        /\ e.collected = {} /\ e.force = f
    BY <2>3, <2>4 DEF Replayed, Contexts, TxStates
  <2> HIDE DEF e
  <2>6. Grows(log, log', Dead, Dead)
    BY <1>1, <1>3, DeadQuiet
  <2>7. "COMMIT" \in records => AllPrep(log') /\ "PREPARE" \in records
    BY <1>3, <1>6, <2>6, GrowFacts DEF AllPrep, Prep
  <2>8. LogsFit(log', Dead)
    <3>1. Com(log') # {} => AllPrep(log)
      BY <1>1, <1>3, <1>6 DEF Com, LogsFit
    <3>2. "ABORT" \notin log'[p]
      BY <1>3, <2>2, <2>3 DEF Unprepared
    <3>3. Hopeless(log, Dead) \/ \A q \in Parts : "ABORT" \notin log'[q]
      BY <1>1, <1>3, <3>2 DEF LogsFit
    <3> QED BY <2>6, <3>1, <3>3, GrowFacts DEF LogsFit
  <2>9. CtxFits(p, e, log', Dead)
    <3>1. RecordsFit(e, log'[p])
      BY <1>3, <2>2, <2>3, <2>4, <2>5, <2>7 DEF RecordsFit, Unprepared
    <3>2. CommitFits(e, log')
      BY <2>2, <2>3, <2>5, <2>7 DEF CommitFits
    <3>3. NoAbort(p, e, log')
      BY <2>3, <2>5 DEF NoAbort
    <3>4. FlatFits(p, e, log', Dead)
      BY <2>3, <2>5 DEF FlatFits
    <3> QED BY <3>1, <3>2, <3>3, <3>4 DEF CtxFits
  <2>10. msgs' \subseteq msgs \cup out /\ \A m \in out : MsgFits(m, log', Dead)
    BY <1>3
  <2> HIDE DEF out
  <2> QED BY <1>1, <1>3, <2>1, <2>5, <2>8, <2>9, <2>10, StepAgrees
<1> QED BY <1>9, <1>10

-----------------------------------------------------------------------------
(* The theorems *)

\* At first nobody has left, prepared or sent anything.
LEMMA InitAgrees == Init => AgreeInv
<1> SUFFICES ASSUME Init PROVE AgreeInv
  OBVIOUS
<1> DEFINE c == Replayed("INIT", FALSE)
<1>1. /\ c.up = "INIT" /\ c.down = "INIT" /\ c.logging = "none" /\ c.collected = {}
      /\ c.alive /\ c.force = FALSE
  BY DEF Replayed
<1> HIDE DEF c
<1>2. \A p \in Parts : ctx[p] = c /\ log[p] \subseteq {"INIT"}
  BY DEF Init, c
<1>3. LogsFit(log, Dead)
  BY <1>2 DEF LogsFit, Com
<1>4. ASSUME NEW p \in Parts PROVE CtxFits(p, c, log, Dead)
  <2>1. RecordsFit(c, log[p])
    BY <1>1, <1>2 DEF RecordsFit
  <2>2. CommitFits(c, log) /\ NoAbort(p, c, log) /\ FlatFits(p, c, log, Dead)
    BY <1>1 DEF CommitFits, NoAbort, FlatFits
  <2> QED BY <2>1, <2>2 DEF CtxFits
<1> QED BY <1>2, <1>3, <1>4 DEF AgreeInv, Init

\* Every step keeps the invariant.
LEMMA NextAgrees == IndInv /\ AgreeInv /\ [Next]_vars => AgreeInv'
<1> SUFFICES ASSUME IndInv, AgreeInv, [Next]_vars PROVE AgreeInv'
  OBVIOUS
<1> DEFINE out == {}
<1>1. CASE \E m \in msgs : Receive(m)
  BY <1>1, ReceiveAgrees
<1>2. CASE (\E m \in msgs : Lose(m)) \/ UNCHANGED vars
  <2>1. /\ ctx' = ctx /\ log' = log /\ replies' = replies /\ held' = held
        /\ msgs' \subseteq msgs \cup out /\ \A m \in out : MsgFits(m, log, Dead)
    BY <1>2 DEF Lose, vars
  <2> HIDE DEF out
  <2> QED BY <2>1, SameAgrees DEF AgreeInv
<1>3. CASE \E p \in Parts : LogSynced(p)
  BY <1>3, LogSyncedAgrees
<1>4. CASE \E p \in Parts : GtsElapsed(p)
  BY <1>4, GtsElapsedAgrees
<1>5. CASE \E p \in Parts : Timeout(p)
  BY <1>5, TimeoutAgrees
<1>6. CASE \E p \in Parts : LocalAbort(p)
  BY <1>6, LocalAbortAgrees
<1>7. CASE \E p \in Parts : SwitchLeader(p)
  BY <1>7, SwitchLeaderAgrees
<1>8. CASE CommitRequest \/ FindCtx \/ CommitFound
  BY <1>8, CommitRequestsAgree
<1> QED BY <1>1, <1>2, <1>3, <1>4, <1>5, <1>6, <1>7, <1>8 DEF Next

\* The two inductive invariants hold in every reachable state.
LEMMA AgreeAlways == Spec => [](IndInv /\ AgreeInv)
  BY InitInv, NextInv, InitAgrees, NextAgrees, PTL DEF Spec

\* Once everybody is prepared, nobody aborts and who has left has committed.
LEMMA Decided ==
  ASSUME IndInv, AgreeInv, AllPrep(log), NEW q \in Parts
  PROVE  /\ "PREPARE" \in log[q] /\ "ABORT" \notin log[q]
         /\ ctx[q].alive => ctx[q].up # "ABORT" /\ ctx[q].down # "ABORT"
         /\ ctx[q].alive \/ "COMMIT" \in log[q]
<1>1. ~Hopeless(log, Dead)
  BY PreparedHope
<1>2. "PREPARE" \in log[q]
  BY DEF AllPrep, Prep
<1>3. "ABORT" \notin log[q]
  BY <1>1 DEF AgreeInv, LogsFit
<1>4. NoAbort(q, ctx[q], log)
  BY <1>1 DEF AgreeInv, CtxFits
<1>5. ctx[q].alive \/ "COMMIT" \in log[q]
  BY <1>4 DEF NoAbort, Cleared, Whole, Com
<1> QED BY <1>2, <1>3, <1>4, <1>5 DEF NoAbort

\* The two-phase commit of ObTxCycleTwoPhaseCommitter is atomic: in every tree
\* of participants, whatever messages are lost, repeated or reordered, whatever
\* log submissions fail and whenever leaders change, once one participant has
\* a COMMIT record in its log every participant has its PREPARE record, none
\* has an ABORT record, and none is gone without a COMMIT record of its own.
THEOREM CommitIsAtomic == Spec => []Agreement
<1>1. IndInv /\ AgreeInv => Agreement
  <2> SUFFICES ASSUME IndInv, AgreeInv, NEW p \in Parts, "COMMIT" \in log[p],
                      NEW q \in Parts
               PROVE  /\ "PREPARE" \in log[q] /\ "ABORT" \notin log[q]
                      /\ ctx[q].alive \/ "COMMIT" \in log[q]
    BY DEF Agreement
  <2>1. AllPrep(log)
    BY CommittedPrepared DEF AgreeInv
  <2> QED BY <2>1, Decided
<1> QED BY <1>1, AgreeAlways, PTL

\* Where all participants but the root are leaves and a commit request never
\* holds a context that is left meanwhile, the scheduler hears "committed",
\* which the root says before its COMMIT record is synced, only when every
\* participant has prepared and none has aborted.  Neither hypothesis can be
\* dropped: an internal participant passes PRE_COMMIT on before its downstream
\* has prepared, and a context that is left after an abort answers as one that
\* is left after a commit.
THEOREM FlatCommitsTruthfully ==
  Flat /\ ~SlowLookup /\ Spec => []CommittedIsTrue
<1>1. Flat /\ ~SlowLookup /\ IndInv /\ AgreeInv => CommittedIsTrue
  <2> SUFFICES ASSUME Flat, ~SlowLookup, IndInv, AgreeInv, "committed" \in replies,
                      NEW q \in Parts
               PROVE  "PREPARE" \in log[q] /\ "ABORT" \notin log[q]
    BY DEF CommittedIsTrue
  <2>1. AllPrep(log)
    BY DEF AgreeInv, Truthful
  <2> QED BY <2>1, Decided
<1>2. Flat /\ ~SlowLookup => [](Flat /\ ~SlowLookup)
  <2>1. (Flat /\ ~SlowLookup) => (Flat /\ ~SlowLookup)'
    BY DEF Flat
  <2> QED BY <2>1, PTL
<1> QED BY <1>1, <1>2, AgreeAlways, PTL

\* Where all participants but the root are leaves, no message ever meets an
\* OB_TRANS_PROTOCOL_ERROR branch of its handler, however late it comes.
THEOREM FlatNoProtocolError == Flat /\ Spec => []NoProtocolError
<1>1. Flat /\ IndInv /\ AgreeInv => NoProtocolError
  <2> SUFFICES ASSUME Flat, IndInv, AgreeInv, NEW m \in msgs, ctx[m.to].alive
               PROVE  LET c == ctx[m.to] IN
                      /\ m.type \in {"PRE_COMMIT_REQ", "COMMIT_REQ"} =>
                           c.down \notin Unprepared \cup {"ABORT"}
                      /\ m.type = "ABORT_REQ" => c.down # "PRE_COMMIT"
                      /\ m.type = "CLEAR_REQ" => c.down \notin {"PREPARE", "PRE_COMMIT"}
                      /\ m.type \in {"PRE_COMMIT_RESP", "COMMIT_RESP"} =>
                           c.up \notin Unprepared \cup {"ABORT"}
    BY DEF NoProtocolError
  <2> DEFINE p == m.to
             c == ctx[p]
  <2>1. p \in Parts /\ MsgFits(m, log, Dead) /\ CtxFits(p, c, log, Dead)
    BY MessageFields DEF IndInv, TypeOK, AgreeInv
  <2>2. c \in Contexts /\ StatesFit(c) /\ RecordsFit(c, log[p]) /\ CommitFits(c, log)
        /\ FlatFits(p, c, log, Dead)
    BY <2>1 DEF IndInv, TypeOK, Coherent, CtxFits
  <2>3. AllPrep(log) => /\ c.down \notin Unprepared \cup {"ABORT"}
                        /\ c.up \notin Unprepared \cup {"ABORT"}
    <3>1. AllPrep(log) => "PREPARE" \in log[p] /\ c.up # "ABORT" /\ c.down # "ABORT"
      BY <2>1, Decided
    <3> QED BY <2>2, <3>1 DEF RecordsFit, StatesFit, Unprepared
  <2>4. m.type \in {"PRE_COMMIT_REQ", "COMMIT_REQ", "PRE_COMMIT_RESP", "COMMIT_RESP"} => AllPrep(log)
    BY <2>1 DEF MsgFits, MsgFlat
  <2>5. m.type = "ABORT_REQ" => c.down # "PRE_COMMIT"
    <3>1. c.down = "PRE_COMMIT" => AllPrep(log) /\ "COMMIT" \notin log[p]
      BY <2>2 DEF StatesFit, Contexts, TxStates, CommitFits, FlatFits, RecordsFit
    <3>2. m.type = "ABORT_REQ" => Hopeless(log, Dead) \/ "COMMIT" \in log[p]
      BY <2>1 DEF MsgFits, MsgNoAbort, Cleared, Whole, Com
    <3> QED BY <3>1, <3>2, PreparedHope
  <2>6. m.type = "CLEAR_REQ" => c.down \notin {"PREPARE", "PRE_COMMIT"}
    <3>1. m.type = "CLEAR_REQ" => "COMMIT" \in log[p] \/ "ABORT" \in log[p]
      BY <2>1 DEF MsgFits, MsgFlat, Fin, Dead
    <3> QED BY <2>2, <3>1 DEF RecordsFit
  <2> QED BY <2>3, <2>4, <2>5, <2>6
<1>2. Flat => []Flat
  <2>1. Flat => Flat'
    BY DEF Flat
  <2> QED BY <2>1, PTL
<1> QED BY <1>1, <1>2, AgreeAlways, PTL
=============================================================================
