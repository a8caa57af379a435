------------------------------- MODULE Sharing -------------------------------
(***************************************************************************)
(* The components that say who shares what and what a reader is served:    *)
(* the units, the roll-up, trust, consent, the read path, the page a       *)
(* session starts with, and what tuning reads of runs and adopts.  They    *)
(* have no variable in common: one of them moves and the others rest.      *)
(***************************************************************************)
EXTENDS Units, UnitsLift, Trust, Consent, ReadPath, SessionStart, TuneFacts, TuneGate

VARIABLE subject

vars == <<subject, unitsVars, liftVars, trustVars, consentVars, readVars, startVars, tuneVars, gateVars>>

SharingAssumption ==
  /\ UnitsAssumption /\ LiftAssumption /\ TrustAssumption /\ ConsentAssumption
  /\ ReadPathAssumption /\ SessionStartAssumption
  /\ TuneFactsAssumption /\ TuneGateAssumption

Init ==
  /\ subject \in {"units", "lift", "trust", "consent", "read", "session", "runs", "adopt", "door"}
  /\ UnitsInit /\ LiftInit /\ TrustInit /\ ConsentInit
  /\ ReadPathInit /\ SessionStartInit /\ TuneFactsInit /\ TuneGateInit

NextOfThoseWhoShare ==
  \/ /\ subject = "units" /\ UnitsNext
     /\ UNCHANGED <<liftVars, trustVars, consentVars>>
  \/ /\ subject = "lift" /\ LiftNext
     /\ UNCHANGED <<unitsVars, trustVars, consentVars>>
  \/ /\ subject = "trust" /\ TrustNext
     /\ UNCHANGED <<unitsVars, liftVars, consentVars>>
  \/ /\ subject = "consent" /\ ConsentNext
     /\ UNCHANGED <<unitsVars, liftVars, trustVars>>

NextOfThoseServed ==
  \/ subject = "read" /\ ReadPathNext /\ UNCHANGED <<startVars, tuneVars, gateVars>>
  \/ subject = "session" /\ SessionStartNext /\ UNCHANGED <<readVars, tuneVars, gateVars>>
  \/ subject = "runs" /\ TuneFactsNext /\ UNCHANGED <<readVars, startVars, gateVars>>
  \/ subject = "adopt" /\ AdoptNext /\ UNCHANGED <<readVars, startVars, tuneVars>>
  \/ subject = "door" /\ DoorNext /\ UNCHANGED <<readVars, startVars, tuneVars>>

Next ==
  /\ UNCHANGED subject
  /\ \/ NextOfThoseWhoShare /\ UNCHANGED <<readVars, startVars, tuneVars, gateVars>>
     \/ NextOfThoseServed /\ UNCHANGED <<unitsVars, liftVars, trustVars, consentVars>>

Spec == Init /\ [][Next]_vars

\* Every component's state stays in its types.
TypesOK ==
  /\ UnitsTypeOK /\ LiftTypeOK /\ TrustTypeOK
  /\ ConsentTypeOK /\ ReadPathTypeOK /\ SessionStartTypeOK
  /\ TuneFactsTypeOK /\ TuneGateTypeOK
=============================================================================
