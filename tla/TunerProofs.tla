---------------------------- MODULE TunerProofs ----------------------------
(***************************************************************************)
(* What holds of the shared search for the prediction size, for any number *)
(* of sessions, any throughputs, chosen anew for every call, and any limit *)
(* of rounds.                                                              *)
(***************************************************************************)
EXTENDS BatchTuner, TLAPS

\* Nothing is measured at size 1, and past the knee the throughput to beat is
\* at least one of the plateau's, so that on a steady workload no gain past the
\* knee is large enough to go without a counted round.
TunerInv ==
  /\ TypeOK
  /\ tps = 0 => size = 1
  /\ size > Knee => \E y \in Plateau : y <= tps
  /\ Steady => size <= Knee + 1 + round

\* Smoothing stays above the slower call.
LEMMA SmoothedBetween ==
  ASSUME NEW t \in Nat, tps \in Nat, t <= tps
  PROVE  Smoothed(t) \in Nat /\ t <= Smoothed(t) /\ Smoothed(t) <= tps
  BY DEF Smoothed

\* The initial state.
LEMMA InitTuner == Init => TunerInv
<1> SUFFICES ASSUME Init PROVE TunerInv
  OBVIOUS
<1>1. TypeOK
  BY TunerAssumption DEF Init, TypeOK
<1> QED BY <1>1, TunerAssumption DEF Init, TunerInv

\* What is shared after a call: a growth past the knee is counted when the
\* plateau is steady, because the throughput to beat is one of the plateau.
LEMMA ModifyKeeps ==
  ASSUME TunerInv, NEW n \in Nat, NEW t \in Measurable(n), ModifyDesirable(n, t)
  PROVE  /\ size' \in Nat \ {0} /\ tps' \in Nat /\ round' \in 0..(RoundLimit + 1)
         /\ tps' = 0 => size' = 1
         /\ size' > Knee => \E y \in Plateau : y <= tps'
         /\ Steady => size' <= Knee + 1 + round'
<1>1. /\ size \in Nat \ {0} /\ tps \in Nat /\ round \in 0..(RoundLimit + 1)
      /\ Knee \in Nat \ {0, 1} /\ RoundLimit \in Nat
      /\ tps = 0 => size = 1
      /\ Steady => size <= Knee + 1 + round
  BY TunerAssumption DEF TunerInv, TypeOK
<1>2. t \in Nat \ {0} /\ \A y \in Plateau : y \in Nat \ {0}
  BY TunerAssumption DEF Measurable
<1>3. CASE FirstCall(t)
  BY <1>1, <1>2, <1>3 DEF FirstCall
<1>4. CASE Ignored(n)
  BY <1>1, <1>4 DEF Ignored, info, TunerInv
<1>5. CASE Comparable(n) /\ Faster(t)
  <2>1. /\ n = size /\ t > tps /\ tps' = t /\ size' = size + 1 /\ round <= RoundLimit
        /\ round' = IF SmallGain(t) THEN round + 1 ELSE round
    BY <1>5 DEF Comparable, Faster
  <2>2. size >= Knee => t \in Plateau
    BY <2>1 DEF Measurable
  <2>3. size' > Knee => \E y \in Plateau : y <= tps'
    BY <1>1, <1>2, <2>1, <2>2
  <2>4. round' \in 0..(RoundLimit + 1) /\ round <= round'
    BY <1>1, <2>1
  <2>5. ASSUME Steady PROVE size' <= Knee + 1 + round'
    <3>1. CASE size <= Knee
      BY <1>1, <2>1, <2>4, <3>1
    <3>2. CASE size > Knee
      <4>1. PICK y \in Plateau : y <= tps
        BY <3>2 DEF TunerInv
      <4>2. 10 * t < 11 * y
        BY <1>1, <2>2, <2>5, <3>2, <4>1 DEF Steady
      <4>3. SmallGain(t)
        BY <1>1, <1>2, <4>1, <4>2 DEF SmallGain
      <4> QED BY <1>1, <2>1, <2>5, <4>3
    <3> QED BY <1>1, <3>1, <3>2
  <2> QED BY <1>1, <1>2, <2>1, <2>3, <2>4, <2>5
<1>6. CASE Comparable(n) /\ Slower(t)
  <2>1. /\ n = size /\ t <= tps /\ tps' = Smoothed(t) /\ size' = size /\ round <= RoundLimit
        /\ round' \in {round, round + 1}
    BY <1>6 DEF Comparable, Slower
  <2>2. tps' \in Nat /\ t <= tps'
    BY <1>1, <1>2, <2>1, SmoothedBetween
  <2>3. size' > Knee => \E y \in Plateau : y <= tps'
    BY <1>1, <2>1, <2>2 DEF Measurable
  <2>4. round' \in 0..(RoundLimit + 1) /\ round <= round'
    BY <1>1, <2>1
  <2>5. tps' # 0
    BY <1>2, <2>2
  <2>6. size \in Nat /\ Knee \in Nat /\ round \in Nat /\ round' \in Nat /\ round <= round'
    BY <1>1, <2>4
  <2>7. ASSUME size <= Knee + 1 + round PROVE size' <= Knee + 1 + round'
    <3> DEFINE r1 == round
               r2 == round'
    <3>0. r1 \in Int /\ r2 \in Int /\ r1 <= r2 /\ size \in Int /\ Knee \in Int
          /\ size <= Knee + 1 + r1
      BY <2>6, <2>7
    <3>1. size <= Knee + 1 + r2
      <4> HIDE DEF r1, r2
      <4> QED BY <3>0
    <3> QED BY <2>1, <3>1
  <2> QED BY <1>1, <2>1, <2>2, <2>3, <2>4, <2>5, <2>7
<1> QED BY <1>3, <1>4, <1>5, <1>6 DEF ModifyDesirable

\* Every step keeps the invariant.
LEMMA NextTuner == TunerInv /\ [Next]_vars => TunerInv'
<1> SUFFICES ASSUME TunerInv, [Next]_vars PROVE TunerInv'
  OBVIOUS
<1>1. /\ TypeOK /\ size \in Nat \ {0} /\ desirable \in [Sessions -> Nat]
      /\ eval \in [Sessions -> Nat] /\ pc \in [Sessions -> {"closed", "open", "python"}]
  BY DEF TunerInv, TypeOK
<1>2. ASSUME UNCHANGED info, TypeOK' PROVE TunerInv'
  BY <1>2 DEF info, TunerInv, Steady
<1>3. ASSUME NEW s \in Sessions, Open(s) PROVE TunerInv'
  <2>1. TypeOK'
    BY <1>1, <1>3 DEF Open, TypeOK, info
  <2> QED BY <1>2, <1>3, <2>1 DEF Open
<1>4. ASSUME NEW s \in Sessions, Close(s) PROVE TunerInv'
  <2>1. TypeOK'
    BY <1>1, <1>4 DEF Close, TypeOK, info
  <2> QED BY <1>2, <1>4, <2>1 DEF Close
<1>5. ASSUME NEW s \in Sessions, CallFull(s) \/ CallRest(s) PROVE TunerInv'
  <2>1. PICK n \in Nat : CallPython(s, n)
    BY <1>1, <1>5 DEF CallFull, CallRest
  <2>2. TypeOK'
    BY <1>1, <2>1 DEF CallPython, TypeOK, info
  <2> QED BY <1>2, <2>1, <2>2 DEF CallPython
<1>6. ASSUME NEW s \in Sessions, PythonReturns(s) PROVE TunerInv'
  <2>1. PICK t \in Measurable(eval[s]) : ModifyDesirable(eval[s], t)
    BY <1>6 DEF PythonReturns
  <2>2. /\ size' \in Nat \ {0} /\ tps' \in Nat /\ round' \in 0..(RoundLimit + 1)
        /\ tps' = 0 => size' = 1
        /\ size' > Knee => \E y \in Plateau : y <= tps'
        /\ Steady => size' <= Knee + 1 + round'
    BY <1>1, <2>1, ModifyKeeps
  <2>3. TypeOK'
    BY <1>1, <1>6, <2>2 DEF PythonReturns, TypeOK
  <2> QED BY <2>2, <2>3 DEF TunerInv, Steady
<1>7. ASSUME UNCHANGED vars PROVE TunerInv'
  BY <1>7 DEF vars, TunerInv, TypeOK, Steady
<1> QED BY <1>3, <1>4, <1>5, <1>6, <1>7 DEF Next

\* The shared ObPythonUdfInfo and the cells of all sessions keep their types,
\* and modify_desirable counts at most one round more than round_limit.
THEOREM TunerTypes == Spec => []TypeOK
<1>1. TunerInv => TypeOK
  BY DEF TunerInv
<1> QED BY <1>1, InitTuner, NextTuner, PTL DEF Spec

\* When the measurements on the plateau differ by less than lambda, every
\* growth of predict_size past the knee is a counted round, whatever is
\* measured below it and however many sessions share the plan.
THEOREM GrowthCounted == Spec => []GrowthIsCounted
<1>1. TunerInv => GrowthIsCounted
  BY DEF TunerInv, GrowthIsCounted
<1> QED BY <1>1, InitTuner, NextTuner, PTL DEF Spec

\* The bound that follows: on a steady plateau predict_size stays within
\* round_limit + 2 steps of the knee.
THEOREM SizeBounded == Spec => [](Steady => size <= Knee + RoundLimit + 2)
<1>1. TunerInv => (Steady => size <= Knee + RoundLimit + 2)
  BY TunerAssumption DEF TunerInv, TypeOK
<1> QED BY <1>1, InitTuner, NextTuner, PTL DEF Spec
=============================================================================
