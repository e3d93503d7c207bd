------------------------ MODULE CircuitBreakerProofs ------------------------
(* What CircuitBreaker keeps for every set of calls and every threshold.   *)
EXTENDS CircuitBreaker, TLAPS

\* The strengthening: the three invariants are inductive together.
IInv == TypeOK /\ ProbeHeldByCall /\ TripsAtThreshold

\* The reset value of the counter, for the steps that store it.
LEMMA ZeroInRange == 0 \in 0..FailureThreshold /\ 0 < FailureThreshold
BY ThresholdAssumption DEF ThresholdAssumption

LEMMA SaturatedBounds ==
  ASSUME NEW n \in 0..FailureThreshold
  PROVE  /\ Saturated(n + 1) \in 0..FailureThreshold
         /\ n + 1 < FailureThreshold => Saturated(n + 1) = n + 1
BY ThresholdAssumption DEF ThresholdAssumption, Saturated

LEMMA InitIInv == Init => IInv
<1>1. Init => TypeOK
  BY ZeroInRange DEF Init, TypeOK
<1>2. Init => ProbeHeldByCall
  BY DEF Init, ProbeHeldByCall
<1>3. Init => TripsAtThreshold
  BY ZeroInRange DEF Init, TripsAtThreshold
<1>4. QED
  BY <1>1, <1>2, <1>3 DEF IInv

(* A call admitted by a closed circuit leaves the flag down; the probe     *)
(* raises it, and is then the call that holds it.                          *)
LEMMA AdmitKeepsIInv ==
  ASSUME IInv, NEW c \in Calls, Admit(c)
  PROVE  IInv'
<1> USE DEF IInv, TypeOK, Admit, State
<1>1. TypeOK'
  OBVIOUS
<1>2. ProbeHeldByCall'
  <2>1. CASE State = "closed"
    BY <2>1 DEF ProbeHeldByCall
  <2>2. CASE State = "half_open"
    BY <2>2 DEF ProbeHeldByCall
  <2>3. QED
    BY <2>1, <2>2
<1>3. TripsAtThreshold'
  BY DEF TripsAtThreshold
<1>4. QED
  BY <1>1, <1>2, <1>3

LEMMA RefuseKeepsIInv ==
  ASSUME IInv, NEW c \in Calls, Refuse(c)
  PROVE  IInv'
<1>1. TypeOK'
  BY DEF IInv, TypeOK, Refuse, State
<1>2. ProbeHeldByCall'
  BY DEF IInv, TypeOK, ProbeHeldByCall, Refuse, State
<1>3. TripsAtThreshold'
  BY DEF IInv, TypeOK, TripsAtThreshold, Refuse, State
<1>4. QED
  BY <1>1, <1>2, <1>3 DEF IInv

(* Every outcome lowers the flag, whoever raised it; only a failure can    *)
(* push the counter up, and the one that reaches the threshold opens.      *)
LEMMA SettleKeepsIInv ==
  ASSUME IInv, NEW c \in Calls, Settle(c)
  PROVE  IInv'
<1>1. CASE RecordSuccess(c)
  <2>1. TypeOK'
    BY <1>1, ZeroInRange DEF IInv, TypeOK, RecordSuccess
  <2>2. ProbeHeldByCall'
    BY <1>1 DEF ProbeHeldByCall, RecordSuccess
  <2>3. TripsAtThreshold'
    BY <1>1, ZeroInRange DEF TripsAtThreshold, RecordSuccess
  <2>4. QED
    BY <2>1, <2>2, <2>3 DEF IInv
<1>2. CASE RecordFailure(c)
  <2>1. TypeOK'
    BY <1>2, SaturatedBounds DEF IInv, TypeOK, RecordFailure
  <2>2. ProbeHeldByCall'
    BY <1>2 DEF ProbeHeldByCall, RecordFailure
  <2>3. TripsAtThreshold'
    <3>1. CASE Trips
      BY <1>2, <3>1 DEF RecordFailure, TripsAtThreshold
    <3>2. CASE ~Trips
      <4>1. failureCount + 1 < FailureThreshold
        BY <3>2, ThresholdAssumption
        DEF ThresholdAssumption, Trips, IInv, TypeOK
      <4>2. failureCount' = failureCount + 1
        BY <1>2, <4>1, SaturatedBounds DEF RecordFailure, IInv, TypeOK
      <4>3. QED
        BY <4>1, <4>2 DEF TripsAtThreshold
    <3>3. QED
      BY <3>1, <3>2
  <2>4. QED
    BY <2>1, <2>2, <2>3 DEF IInv
<1>3. CASE ReleaseProbe(c)
  BY <1>3 DEF IInv, TypeOK, ProbeHeldByCall, TripsAtThreshold, ReleaseProbe
<1>4. QED
  BY <1>1, <1>2, <1>3 DEF Settle

LEMMA NextKeepsIInv == IInv /\ [Next]_breakerVars => IInv'
<1> SUFFICES ASSUME IInv, [Next]_breakerVars
             PROVE  IInv'
  OBVIOUS
<1>1. ASSUME NEW c \in Calls, TryAcquire(c)
      PROVE  IInv'
  BY <1>1, AdmitKeepsIInv, RefuseKeepsIInv DEF TryAcquire
<1>2. ASSUME NEW c \in Calls, Settle(c)
      PROVE  IInv'
  BY <1>2, SettleKeepsIInv
<1>3. CASE Elapse
  BY <1>3 DEF IInv, TypeOK, ProbeHeldByCall, TripsAtThreshold, Elapse
<1>4. CASE Reset
  <2>1. TypeOK'
    BY <1>4, ZeroInRange DEF IInv, TypeOK, Reset
  <2>2. ProbeHeldByCall'
    BY <1>4 DEF ProbeHeldByCall, Reset
  <2>3. TripsAtThreshold'
    BY <1>4, ZeroInRange DEF TripsAtThreshold, Reset
  <2>4. QED
    BY <2>1, <2>2, <2>3 DEF IInv
<1>5. CASE HealthTest
  BY <1>5 DEF IInv, TypeOK, ProbeHeldByCall, TripsAtThreshold, HealthTest
<1>6. CASE HealthStore
  BY <1>6 DEF IInv, TypeOK, ProbeHeldByCall, TripsAtThreshold, HealthStore
<1>7. CASE UNCHANGED breakerVars
  BY <1>7 DEF IInv, TypeOK, ProbeHeldByCall, TripsAtThreshold, breakerVars
<1>8. QED
  BY <1>1, <1>2, <1>3, <1>4, <1>5, <1>6, <1>7 DEF Next

LEMMA SafetyKeepsIInv == Safety => []IInv
<1>1. QED
  BY InitIInv, NextKeepsIInv, PTL DEF Safety

(* The breaker's state is always well formed.                              *)
THEOREM TypeCorrect == Spec => []TypeOK
<1>1. IInv => TypeOK
  BY DEF IInv
<1>2. QED
  BY <1>1, SafetyKeepsIInv, PTL DEF Spec

(* However many calls run, of whatever age, and wherever the health thread *)
(* cuts in: a raised probe flag belongs to a half-open circuit and to a    *)
(* call in flight that will lower it (circuit_breaker.py:167-237).         *)
THEOREM ProbeIsHeld == Spec => []ProbeHeldByCall
<1>1. IInv => ProbeHeldByCall
  BY DEF IInv
<1>2. QED
  BY <1>1, SafetyKeepsIInv, PTL DEF Spec

(* For every threshold: FailureThreshold consecutive failures never leave  *)
(* the circuit closed (circuit_breaker.py:214-234).                        *)
THEOREM TripsInTime == Spec => []TripsAtThreshold
<1>1. IInv => TripsAtThreshold
  BY DEF IInv
<1>2. QED
  BY <1>1, SafetyKeepsIInv, PTL DEF Spec
=============================================================================
