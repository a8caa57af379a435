------------------------------ MODULE Breaker ------------------------------
(***************************************************************************)
(* One model client's circuit breaker and the calls that share it in a     *)
(* process: with_retries asks the breaker once, then tries a bounded       *)
(* number of times with a pause in between, and reports how it ended.  The *)
(* event loop switches between calls only where one awaits the model or    *)
(* its pause; a call may be cancelled there.                               *)
(***************************************************************************)
EXTENDS Naturals

CONSTANTS
  Callers,
  Poller,          \* the caller that always calls again: the worker's fold
  Attempts,        \* settings.model_retry_attempts
  FailuresToOpen,  \* settings.model_breaker_failures
  OpenFor,         \* settings.model_breaker_open_s, in ticks
  MaxRefusals,     \* bound: non-retryable answers
  MaxCancels,      \* bound: cancelled calls that are not a half-open probe
  MaxLostProbes,   \* bound: cancelled half-open probes
  MaxOutages       \* bound: outages of the gateway

ASSUME BreakerAssumption ==
  /\ Poller \in Callers
  /\ Attempts \in Nat \ {0} /\ FailuresToOpen \in Nat \ {0} /\ OpenFor \in Nat
  /\ MaxRefusals \in Nat /\ MaxCancels \in Nat
  /\ MaxLostProbes \in Nat /\ MaxOutages \in Nat

VARIABLES
  failures,  \* reported since the last success; counts no further than the threshold
  opened,    \* opened_at is not None
  age,       \* time since opened_at; counts no further than OpenFor
  inflight,  \* _half_open_inflight
  call,      \* caller -> its call
  gateway,   \* "up" or "down"
  budget,    \* what is left of each bound
  admitted   \* history: calls let through since the last outcome was reported

vars == <<failures, opened, age, inflight, call, gateway, budget, admitted>>

breaker == <<failures, opened, age, inflight, admitted>>

Call == [phase : {"idle", "trying", "pausing"}, attempt : 0..Attempts, probe : BOOLEAN]
NoCall == [phase |-> "idle", attempt |-> 0, probe |-> FALSE]

TypeOK ==
  /\ failures \in 0..FailuresToOpen
  /\ opened \in BOOLEAN
  /\ age \in 0..OpenFor
  /\ inflight \in BOOLEAN
  /\ call \in [Callers -> Call]
  /\ gateway \in {"up", "down"}
  /\ budget \in [refusals : 0..MaxRefusals, cancels : 0..MaxCancels,
                 lostProbes : 0..MaxLostProbes, outages : 0..MaxOutages]
  /\ admitted \in Nat

-----------------------------------------------------------------------------
(* The breaker. *)

HalfOpen == opened /\ age = OpenFor

\* mutant: a half-open breaker lets every call through
AllowWhenHalfOpen ==
  /\ ~opened \/ HalfOpen
  /\ inflight' = opened

\* allow, when it answers yes.
Allow ==
  /\ ~opened \/ (HalfOpen /\ ~inflight)
  /\ inflight' = (inflight \/ opened)

RecordSuccess ==
  /\ failures' = 0
  /\ opened' = FALSE /\ age' = 0
  /\ inflight' = FALSE
  /\ admitted' = 0

\* mutant: a failed probe is not taken off the breaker
RecordFailureOnly ==
  /\ failures' = IF failures < FailuresToOpen THEN failures + 1 ELSE failures
  /\ opened' = (opened \/ failures' = FailuresToOpen)
  /\ age' = 0
  /\ admitted' = 0
  /\ UNCHANGED inflight

\* At the threshold a closed breaker opens; any failure reported to an open one
\* begins another window.
RecordFailure ==
  /\ failures' = IF failures < FailuresToOpen THEN failures + 1 ELSE failures
  /\ opened' = (opened \/ failures' = FailuresToOpen)
  /\ age' = 0
  /\ inflight' = FALSE
  /\ admitted' = 0

-----------------------------------------------------------------------------
(* The calls. *)

\* A call the breaker refuses raises at once and changes nothing.
Begin(c) ==
  /\ call[c].phase = "idle"
  /\ Allow
  /\ call' = [call EXCEPT ![c] = [phase |-> "trying", attempt |-> 1, probe |-> opened]]
  /\ admitted' = admitted + 1
  /\ UNCHANGED <<failures, opened, age, gateway, budget>>

Succeed(c) ==
  /\ call[c].phase = "trying" /\ gateway = "up"
  /\ RecordSuccess
  /\ call' = [call EXCEPT ![c] = NoCall]
  /\ UNCHANGED <<gateway, budget>>

\* A retryable failure with attempts left.
Pause(c) ==
  /\ call[c].phase = "trying" /\ gateway = "down"
  /\ call[c].attempt < Attempts
  /\ call' = [call EXCEPT ![c].phase = "pausing"]
  /\ UNCHANGED <<breaker, gateway, budget>>

\* The next attempt does not ask the breaker.
Retry(c) ==
  /\ call[c].phase = "pausing"
  /\ call' = [call EXCEPT ![c].phase = "trying", ![c].attempt = @ + 1]
  /\ UNCHANGED <<breaker, gateway, budget>>

Exhaust(c) ==
  /\ call[c].phase = "trying" /\ gateway = "down"
  /\ call[c].attempt = Attempts
  /\ RecordFailure
  /\ call' = [call EXCEPT ![c] = NoCall]
  /\ UNCHANGED <<gateway, budget>>

\* A non-retryable answer ends the call and counts like an outage.
Refuse(c) ==
  /\ call[c].phase = "trying" /\ gateway = "up" /\ budget.refusals > 0
  /\ RecordFailure
  /\ call' = [call EXCEPT ![c] = NoCall]
  /\ budget' = [budget EXCEPT !.refusals = @ - 1]
  /\ UNCHANGED gateway

\* CancelledError is not an Exception: with_retries reports nothing, of a probe
\* neither.
Cancel(c) ==
  LET kind == IF call[c].probe THEN "lostProbes" ELSE "cancels" IN
  /\ call[c].phase # "idle" /\ budget[kind] > 0
  /\ call' = [call EXCEPT ![c] = NoCall]
  /\ budget' = [budget EXCEPT ![kind] = @ - 1]
  /\ UNCHANGED <<breaker, gateway>>

Age ==
  /\ opened /\ age < OpenFor
  /\ age' = age + 1
  /\ UNCHANGED <<failures, opened, inflight, call, gateway, budget, admitted>>

\* External: the gateway goes out and comes back.
GoDown ==
  /\ gateway = "up" /\ budget.outages > 0
  /\ gateway' = "down"
  /\ budget' = [budget EXCEPT !.outages = @ - 1]
  /\ UNCHANGED <<breaker, call>>

ComeBack ==
  /\ gateway = "down"
  /\ gateway' = "up"
  /\ UNCHANGED <<breaker, call, budget>>

-----------------------------------------------------------------------------
Init ==
  /\ failures = 0 /\ opened = FALSE /\ age = 0 /\ inflight = FALSE
  /\ call = [c \in Callers |-> NoCall]
  /\ gateway = "up"
  /\ budget = [refusals |-> MaxRefusals, cancels |-> MaxCancels,
               lostProbes |-> MaxLostProbes, outages |-> MaxOutages]
  /\ admitted = 0

\* What the loop and the client's timeout bring about once a call is under way.
Progress(c) == Succeed(c) \/ Pause(c) \/ Retry(c) \/ Exhaust(c) \/ Refuse(c)

Next ==
  \/ \E c \in Callers : Begin(c) \/ Progress(c) \/ Cancel(c)
  \/ Age \/ GoDown \/ ComeBack

\* Calls end, windows pass, and the worker calls again in every tick while an
\* episode is pending.
CallsGoOn ==
  /\ \A c \in Callers : WF_vars(Progress(c))
  /\ WF_vars(Age)
  /\ WF_vars(Begin(Poller))

Spec == Init /\ [][Next]_vars /\ CallsGoOn

-----------------------------------------------------------------------------
(* Properties. *)

\* A breaker that is not closed lets one call through between two outcomes: an
\* outage is probed, not hammered, whatever calls it overlaps with.
OneCallPerOutcome == opened => admitted <= 1

\* Once the gateway is up for good, the breaker closes for good.
Recovers == <>[](gateway = "up") => <>[](~opened)
=============================================================================
