--------------------------- MODULE BreakerProofs ---------------------------
(***************************************************************************)
(* Theorems of Breaker for any number of callers, attempts, failures that  *)
(* open it and window: type correctness, and that a breaker which is not   *)
(* closed lets one call through between two reported outcomes.             *)
(***************************************************************************)
EXTENDS Breaker, TLAPS

\* A call that pauses has an attempt left.
AttemptLeft == \A c \in Callers : call[c].phase = "pausing" => call[c].attempt < Attempts

\* The flag stands for the one call let through since the last outcome.
FlagCountsProbe == opened => admitted <= (IF inflight THEN 1 ELSE 0)

IInv == TypeOK /\ AttemptLeft /\ FlagCountsProbe

USE BreakerAssumption DEF BreakerAssumption

-----------------------------------------------------------------------------
\* The end of a call reports a success or a failure and resets the count.
LEMMA SuccessReports ==
  ASSUME TypeOK, RecordSuccess
  PROVE  /\ failures' \in 0..FailuresToOpen /\ opened' \in BOOLEAN
         /\ age' \in 0..OpenFor /\ inflight' \in BOOLEAN
         /\ admitted' = 0
<1>1. failures' \in 0..FailuresToOpen /\ age' \in 0..OpenFor
  BY SMT DEF TypeOK, RecordSuccess
<1>2. opened' \in BOOLEAN /\ inflight' \in BOOLEAN
  BY Zenon DEF RecordSuccess
<1> QED  BY <1>1, <1>2, Zenon DEF RecordSuccess

LEMMA FailureReports ==
  ASSUME TypeOK, RecordFailure
  PROVE  /\ failures' \in 0..FailuresToOpen /\ opened' \in BOOLEAN
         /\ age' \in 0..OpenFor /\ inflight' \in BOOLEAN
         /\ admitted' = 0
<1>1. failures' \in 0..FailuresToOpen /\ age' \in 0..OpenFor
  BY SMT DEF TypeOK, RecordFailure
<1>2. opened' \in BOOLEAN
  BY Zenon DEF TypeOK, RecordFailure
<1> QED  BY <1>1, <1>2, Zenon DEF TypeOK, RecordFailure

\* Taking a caller's call off leaves the calls well typed.
LEMMA CallTakenOff ==
  ASSUME TypeOK, AttemptLeft, NEW c \in Callers, call' = [call EXCEPT ![c] = NoCall]
  PROVE  call' \in [Callers -> Call] /\ AttemptLeft'
<1>1. NoCall \in Call /\ NoCall.phase # "pausing"
  BY SMT DEF NoCall, Call
<1> QED  BY <1>1, SMT DEF TypeOK, AttemptLeft

-----------------------------------------------------------------------------
LEMMA InitIInv == Init => IInv
<1> SUFFICES ASSUME Init PROVE IInv
  OBVIOUS
<1>1. NoCall \in Call /\ NoCall.phase # "pausing"
  BY SMT DEF NoCall, Call
<1>2. opened \in BOOLEAN /\ inflight \in BOOLEAN /\ ~opened
  BY Zenon DEF Init
<1>3. TypeOK /\ AttemptLeft
  BY <1>1, <1>2, SMT DEF Init, TypeOK, AttemptLeft
<1>4. FlagCountsProbe
  BY <1>2, Zenon DEF FlagCountsProbe
<1> QED  BY <1>3, <1>4 DEF IInv

LEMMA NextIInv == IInv /\ [Next]_vars => IInv'
<1> SUFFICES ASSUME IInv, [Next]_vars PROVE IInv'
  OBVIOUS
<1> USE DEF IInv
<1>1. ASSUME NEW c \in Callers, Begin(c) PROVE IInv'
  <2>1. [phase |-> "trying", attempt |-> 1, probe |-> opened] \in Call
    BY SMT DEF TypeOK, Call
  <2>2. call' \in [Callers -> Call] /\ AttemptLeft'
    BY <1>1, <2>1, SMT DEF TypeOK, AttemptLeft, Begin
  <2>3. inflight' \in BOOLEAN
    BY <1>1, Zenon DEF TypeOK, Begin, Allow
  <2>4. TypeOK'
    BY <1>1, <2>2, <2>3, SMT DEF TypeOK, Begin
  <2>5. CASE opened
    <3>1. ~inflight /\ inflight' = TRUE
      BY <1>1, <2>5, Zenon DEF TypeOK, Begin, Allow
    <3>2. admitted <= 0
      BY <2>5, <3>1, Zenon DEF FlagCountsProbe
    <3>3. admitted' <= 1
      BY <1>1, <3>2, SMT DEF TypeOK, Begin
    <3>4. FlagCountsProbe'
      BY <3>1, <3>3, Zenon DEF FlagCountsProbe
    <3> QED  BY <2>2, <2>4, <3>4
  <2>6. CASE ~opened
    <3>1. FlagCountsProbe'
      BY <1>1, <2>6, Zenon DEF FlagCountsProbe, Begin
    <3> QED  BY <2>2, <2>4, <3>1
  <2> QED  BY <2>5, <2>6
<1>2. ASSUME NEW c \in Callers, Succeed(c) PROVE IInv'
  <2>1. call' \in [Callers -> Call] /\ AttemptLeft'
    BY <1>2, CallTakenOff DEF Succeed
  <2>2. RecordSuccess /\ UNCHANGED <<gateway, budget>>
    BY <1>2 DEF Succeed
  <2>3. TypeOK'
    BY <2>1, <2>2, SuccessReports, SMT DEF TypeOK
  <2>4. FlagCountsProbe'
    BY <2>2, SuccessReports, SMT DEF FlagCountsProbe
  <2> QED  BY <2>1, <2>3, <2>4
<1>3. ASSUME NEW c \in Callers, Pause(c) PROVE IInv'
  <2>1. call' \in [Callers -> Call] /\ AttemptLeft'
    BY <1>3, SMT DEF TypeOK, AttemptLeft, Pause, Call
  <2>2. TypeOK' /\ FlagCountsProbe'
    BY <1>3, <2>1, SMT DEF TypeOK, FlagCountsProbe, Pause, breaker
  <2> QED  BY <2>1, <2>2
<1>4. ASSUME NEW c \in Callers, Retry(c) PROVE IInv'
  <2>1. call[c] \in Call /\ call[c].attempt + 1 \in 0..Attempts
    BY <1>4, SMT DEF TypeOK, AttemptLeft, Retry, Call
  <2>2. call' \in [Callers -> Call] /\ AttemptLeft'
    BY <1>4, <2>1, SMT DEF TypeOK, AttemptLeft, Retry, Call
  <2>3. TypeOK' /\ FlagCountsProbe'
    BY <1>4, <2>2, SMT DEF TypeOK, FlagCountsProbe, Retry, breaker
  <2> QED  BY <2>2, <2>3
<1>5. ASSUME NEW c \in Callers, Exhaust(c) PROVE IInv'
  <2>1. call' \in [Callers -> Call] /\ AttemptLeft'
    BY <1>5, CallTakenOff DEF Exhaust
  <2>2. RecordFailure /\ UNCHANGED <<gateway, budget>>
    BY <1>5 DEF Exhaust
  <2>3. TypeOK'
    BY <2>1, <2>2, FailureReports, SMT DEF TypeOK
  <2>4. FlagCountsProbe'
    BY <2>2, FailureReports, SMT DEF FlagCountsProbe
  <2> QED  BY <2>1, <2>3, <2>4
<1>6. ASSUME NEW c \in Callers, Refuse(c) PROVE IInv'
  <2>1. call' \in [Callers -> Call] /\ AttemptLeft'
    BY <1>6, CallTakenOff DEF Refuse
  <2>2. RecordFailure /\ UNCHANGED gateway
    BY <1>6 DEF Refuse
  <2>3. budget' \in [refusals : 0..MaxRefusals, cancels : 0..MaxCancels,
                     lostProbes : 0..MaxLostProbes, outages : 0..MaxOutages]
    BY <1>6, SMT DEF TypeOK, Refuse
  <2>4. TypeOK'
    BY <2>1, <2>2, <2>3, FailureReports, SMT DEF TypeOK
  <2>5. FlagCountsProbe'
    BY <2>2, FailureReports, SMT DEF FlagCountsProbe
  <2> QED  BY <2>1, <2>4, <2>5
<1>7. ASSUME NEW c \in Callers, Cancel(c) PROVE IInv'
  <2>1. call' \in [Callers -> Call] /\ AttemptLeft'
    BY <1>7, CallTakenOff DEF Cancel
  <2>2. budget' \in [refusals : 0..MaxRefusals, cancels : 0..MaxCancels,
                     lostProbes : 0..MaxLostProbes, outages : 0..MaxOutages]
    BY <1>7, SMT DEF TypeOK, Cancel
  <2>3. TypeOK' /\ FlagCountsProbe'
    BY <1>7, <2>1, <2>2, SMT DEF TypeOK, FlagCountsProbe, Cancel, breaker
  <2> QED  BY <2>1, <2>3
<1>8. CASE Age
  BY <1>8, SMT DEF TypeOK, AttemptLeft, FlagCountsProbe, Age
<1>9. CASE GoDown
  BY <1>9, SMT DEF TypeOK, AttemptLeft, FlagCountsProbe, GoDown, breaker
<1>10. CASE ComeBack
  BY <1>10, SMT DEF TypeOK, AttemptLeft, FlagCountsProbe, ComeBack, breaker
<1>11. CASE UNCHANGED vars
  BY <1>11, SMT DEF TypeOK, AttemptLeft, FlagCountsProbe, vars
<1> QED
  BY <1>1, <1>2, <1>3, <1>4, <1>5, <1>6, <1>7, <1>8, <1>9, <1>10, <1>11
  DEF Next, Progress

LEMMA IInvHolds == Spec => []IInv
<1> QED  BY InitIInv, NextIInv, PTL DEF Spec

-----------------------------------------------------------------------------
\* The breaker and its calls keep their types: in particular a call never goes
\* beyond its attempts and the failure count beyond what the breaker tells apart.
THEOREM TypeCorrect == Spec => []TypeOK
<1>1. IInv => TypeOK
  BY DEF IInv
<1> QED  BY <1>1, IInvHolds, PTL

\* An open or half-open breaker lets at most one call through between two
\* outcomes, however many callers wait, retry, are refused or are cancelled.
THEOREM OneCallPerOutcomeHolds == Spec => []OneCallPerOutcome
<1>1. IInv => OneCallPerOutcome
  BY SMT DEF IInv, TypeOK, FlagCountsProbe, OneCallPerOutcome
<1> QED  BY <1>1, IInvHolds, PTL
=============================================================================
