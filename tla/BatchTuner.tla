----------------------------- MODULE BatchTuner -----------------------------
(***************************************************************************)
(* The heuristic that adapts the number of rows of one call of a Python    *)
(* function (modify_desirable).  Its state is in the ObPythonUdfInfo of    *)
(* the cached plan, so all sessions that execute the plan share it; each   *)
(* cell keeps a copy of the size, taken when the operator opens and after  *)
(* every call.  A session measures the throughput of a call that it began  *)
(* with the size it knew, and other sessions finish calls in between.  The *)
(* interpreter lock is held from the end of the Python call to the next    *)
(* one, so modify_desirable itself is one step.                            *)
(*                                                                         *)
(* Sizes are counted in units of delta (256 rows).  The throughput is      *)
(* measured on the wall clock, so two calls of the same size differ: every *)
(* call chooses its throughput anew.  Calls smaller than Knee and calls on *)
(* a shorter rest of the buffer have any throughput, full calls from Knee  *)
(* on have one of the plateau's.  Speeds are integers, the factors 1.1,    *)
(* 0.9 and 0.25 are fractions, and the smoothed speed is rounded down.     *)
(***************************************************************************)
EXTENDS Integers

CONSTANTS
  Sessions,    \* sessions that execute the cached plan
  Speeds,      \* throughputs that can be measured, in rows per second
  Plateau,     \* the ones that a full call of Knee or more units can show
  Knee,        \* from this size on larger calls are no better
  RoundLimit   \* round_limit

ASSUME TunerAssumption ==
  /\ Speeds \subseteq Nat \ {0}
  /\ Plateau \subseteq Speeds
  /\ Knee \in Nat \ {0, 1}
  /\ RoundLimit \in Nat

VARIABLES
  size,       \* predict_size
  tps,        \* tps_s, 0 before the first measurement
  round,      \* round
  pc,         \* per session: "closed", "open" or "python"
  desirable,  \* per session: desirable_ of its cell
  eval        \* per session: the size of its call; 0: a shorter rest

vars == <<size, tps, round, pc, desirable, eval>>
info == <<size, tps, round>>

\* Every variable has its type; a round more than the limit is not counted.
TypeOK ==
  /\ size \in Nat \ {0}
  /\ tps \in Nat
  /\ round \in 0..(RoundLimit + 1)
  /\ pc \in [Sessions -> {"closed", "open", "python"}]
  /\ desirable \in [Sessions -> Nat]
  /\ eval \in [Sessions -> Nat]

\* The plan is compiled.  set_udf_meta accepts a batch size in the statement,
\* but deep_copy_udf_meta drops it and from_raw_expr starts from 256 rows.
Init ==
  /\ size = 1
  /\ tps = 0
  /\ round = 0
  /\ pc = [s \in Sessions |-> "closed"]
  /\ desirable = [s \in Sessions |-> 0]
  /\ eval = [s \in Sessions |-> 0]

-----------------------------------------------------------------------------

\* The throughputs that a call of so many units can show; 0: a shorter rest.
Measurable(n) == IF n >= Knee THEN Plateau ELSE Speeds

\* Thresholds of lambda = 0.1, and the smoothing with alpha = 0.25.
SmallGain(t) == 10 * t < 11 * tps
Smoothed(t) == (3 * tps + t) \div 4
NearlyAsFast(t) == 10 * t > 9 * Smoothed(t)

\* tps_s == 0: the first measurement, whatever the size of the call.
FirstCall(t) ==
  /\ tps = 0
  /\ tps' = t
  /\ size' = size + 1
  /\ UNCHANGED round

\* Variant: a call that was begun with another size counts, too.
ComparableAny(n) == tps # 0 /\ round <= RoundLimit

\* Variant: the number of rounds is not limited.
ComparableForEver(n) == tps # 0 /\ n = size

\* Not too many rounds, and the call had the size that is current now.
Comparable(n) == tps # 0 /\ round <= RoundLimit /\ n = size

\* Otherwise nothing is adjusted.
Ignored(n) == tps # 0 /\ ~Comparable(n) /\ UNCHANGED info

\* The call was faster than the smoothed throughput: try a larger one.
Faster(t) ==
  /\ t > tps
  /\ round' = IF SmallGain(t) THEN round + 1 ELSE round
  /\ tps' = t
  /\ size' = size + 1

\* Variant: the throughput to beat is not smoothed.
SlowerNotSmoothed(t) ==
  /\ t <= tps
  /\ round' = IF 10 * t > 9 * tps THEN round + 1 ELSE round
  /\ UNCHANGED <<tps, size>>

\* It was not: lower what the next call is compared with.
Slower(t) ==
  /\ t <= tps
  /\ tps' = Smoothed(t)
  /\ round' = IF NearlyAsFast(t) THEN round + 1 ELSE round
  /\ UNCHANGED size

ModifyDesirable(n, t) ==
  \/ FirstCall(t)
  \/ Ignored(n)
  \/ Comparable(n) /\ Faster(t)
  \/ Comparable(n) /\ Slower(t)

-----------------------------------------------------------------------------

\* The operator opens: ObPythonUDFCell::init copies the size.
Open(s) ==
  /\ pc[s] = "closed"
  /\ pc' = [pc EXCEPT ![s] = "open"]
  /\ desirable' = [desirable EXCEPT ![s] = size]
  /\ UNCHANGED <<info, eval>>

Close(s) ==
  /\ pc[s] = "open"
  /\ pc' = [pc EXCEPT ![s] = "closed"]
  /\ UNCHANGED <<info, desirable, eval>>

\* do_process begins a call on desirable_ rows, or on the rest of the buffer.
CallPython(s, n) ==
  /\ pc[s] = "open"
  /\ pc' = [pc EXCEPT ![s] = "python"]
  /\ eval' = [eval EXCEPT ![s] = n]
  /\ UNCHANGED <<info, desirable>>

CallFull(s) == CallPython(s, desirable[s])
CallRest(s) == CallPython(s, 0)

\* The call returns and is measured; batch_size_const is false for all plans.
PythonReturns(s) ==
  /\ pc[s] = "python"
  /\ \E t \in Measurable(eval[s]) : ModifyDesirable(eval[s], t)
  /\ desirable' = [desirable EXCEPT ![s] = size']
  /\ pc' = [pc EXCEPT ![s] = "open"]
  /\ UNCHANGED eval

Next == \E s \in Sessions :
  Open(s) \/ Close(s) \/ CallFull(s) \/ CallRest(s) \/ PythonReturns(s)

Spec == Init /\ [][Next]_vars

\* Python functions return, and the plan keeps being executed on buffers of
\* which the larger part is cut into full calls.
FairSpec ==
  /\ Spec
  /\ \A s \in Sessions : WF_vars(Open(s)) /\ SF_vars(CallFull(s)) /\ WF_vars(PythonReturns(s))

-----------------------------------------------------------------------------

\* On the plateau two measurements differ by less than lambda, whatever else
\* runs on the server.
Steady == \A x, y \in Plateau : 10 * x < 11 * y

\* Past the knee of a steady workload predict_size grows only in rounds that
\* are counted, however many sessions tune the same plan and whatever they
\* measured on the way: with at most round_limit + 1 rounds its growth is
\* bounded although modify_desirable sets no limit.
GrowthIsCounted == Steady => size <= Knee + 1 + round

\* On a steady workload the search ends: more than round_limit rounds without a
\* clear gain have been counted, and predict_size stays what it is.
TuningEnds == Steady => <>[](round > RoundLimit)
=============================================================================
