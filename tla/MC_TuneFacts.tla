---------------------------- MODULE MC_TuneFacts ----------------------------
(* Runs of one HOP and one task type that differ in what the distillation   *)
(* and the rules look at.                                                   *)
EXTENDS TuneFacts

Ordinary ==
  [contract |-> 7, role |-> "main", tier |-> 2, model |-> "m1", version |-> "v1",
   success |-> TRUE, failure |-> "none", observe |-> "passed", fired |-> FALSE]

\* An ordinary run, one on a cheaper tier, one that stalls and is caught, one
\* whose tier is served by another model, a verifier's own, an old row and one the contract refuses.
MCRunKinds ==
  {Ordinary,
   [Ordinary EXCEPT !.tier = 1, !.fired = TRUE, !.observe = "off"],
   [Ordinary EXCEPT !.success = FALSE, !.failure = "step_budget_stall", !.observe = "caught"],
   [Ordinary EXCEPT !.model = "m2", !.version = "v2"],
   [Ordinary EXCEPT !.role = "subagent"],
   [Ordinary EXCEPT !.contract = 1],
   [Ordinary EXCEPT !.success = FALSE]}
=============================================================================
