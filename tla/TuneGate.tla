------------------------------ MODULE TuneGate ------------------------------
(***************************************************************************)
(* How a tuned HOP is adopted: the ladder of evals a candidate climbs, the *)
(* promotion its verdict allows, and the owner's door, where a tune turn   *)
(* leaves a proposal and a person decides it.                              *)
(***************************************************************************)
EXTENDS Naturals, Sequences, Functions

CONSTANTS
  Artifacts,     \* versions of the HOP: evals, tuning block, tools
  ReadOnlyTools, \* the tools known to be read-only
  Turns,         \* tune turns
  Deciders,      \* people, one request each at a time
  MaxGateSteps   \* bound: edits of the artifact, evals and decisions begun

Suites ==
  [name : STRING, role : {"probe", "golden", "frontier", "none"},
   gates : {"unsaid", "yes", "no"}, built : BOOLEAN]

TuneGateAssumption ==
  /\ MaxGateSteps \in Nat
  /\ \A a \in Artifacts :
       /\ a.promote \in {"auto", "human"} /\ a.margin \in {"-", "+", "none"}
       /\ a.evals \in Seq(Suites)
       \* the artifact's author's to keep: the code takes the first suite of a name
       /\ \A s, t \in Range(a.evals) : s.name = t.name => s = t

VARIABLES artifact, evaluating, verdict, promotion, proposed, ruled, deciding, learned, steps

gateVars == <<artifact, evaluating, verdict, promotion, proposed, ruled, deciding, learned, steps>>
evalVars == <<artifact, evaluating, verdict, promotion>>
doorVars == <<proposed, ruled, deciding, learned>>

-----------------------------------------------------------------------------
(* run_ladder: probes, goldens, the frontier, then what has no role. *)

Named(hop, name) == {s \in Range(hop.evals) : s.name = name}

\* GATES_BY_ROLE, when the suite does not say.
Gates(suite) == IF suite.gates = "unsaid" THEN suite.role \in {"probe", "golden"} ELSE suite.gates = "yes"

\* mutant: a gate that fails is scored and the ladder goes on
ClimbedOn(climb, suite, outcome) ==
  IF ~suite.built /\ ~Gates(suite) THEN climb ELSE [climb EXCEPT !.ran = @ \cup {suite.name}]

\* A suite after a failed gate is skipped, and so is one that does not gate and is not built.
Climbed(climb, suite, outcome) ==
  IF climb.stopped \/ (~suite.built /\ ~Gates(suite)) THEN climb
  ELSE [ran |-> climb.ran \cup {suite.name}, stopped |-> Gates(suite) /\ ~outcome[suite.name].pass]

\* The suites of one role, in the order the artifact lists them.
Rung(evals, role, outcome, from) ==
  LET climb[n \in 0..Len(evals)] ==
        IF n = 0 THEN from
        ELSE IF evals[n].role = role THEN Climbed(climb[n - 1], evals[n], outcome) ELSE climb[n - 1]
  IN climb[Len(evals)]

Ladder(evals, outcome) ==
  LET Then(role, from) == Rung(evals, role, outcome, from)
  IN Then("none", Then("frontier", Then("golden", Then("probe", [ran |-> {}, stopped |-> FALSE]))))

\* meets_margin, by the sign of the margin: a score is below, at or above the baseline.
MeetsMargin(hop, score) ==
  CASE hop.margin = "-" -> score = "below"
    [] hop.margin = "+" -> score = "above"
    [] OTHER -> FALSE

Disposition(hop, outcome, baseline) ==
  LET climb == Ladder(hop.evals, outcome)
      compared == baseline /\ hop.margin # "none" /\ hop.frontier \in climb.ran
  IN IF climb.stopped THEN "rejected"
     ELSE IF ~compared THEN "scored"
     ELSE IF MeetsMargin(hop, outcome[hop.frontier].score) THEN "accepted" ELSE "rejected"

SuiteNames == UNION {{s.name : s \in Range(a.evals)} : a \in Artifacts}
Outcomes == [SuiteNames -> [pass : BOOLEAN, score : {"below", "at", "above"}]]
NoVerdict == [disposition |-> "none"]

EditHop(a) ==
  /\ a # artifact /\ artifact' = a
  /\ UNCHANGED <<evaluating, verdict, promotion, doorVars>>

\* The artifact is read once, before its suites run.
EvalStarts ==
  /\ evaluating = {} /\ evaluating' = {artifact}
  /\ UNCHANGED <<artifact, verdict, promotion, doorVars>>

EvalEnds(outcome, baseline) ==
  \E hop \in evaluating :
    /\ verdict' = [disposition |-> Disposition(hop, outcome, baseline), of |-> hop, outcome |-> outcome]
    /\ evaluating' = {}
    /\ UNCHANGED <<artifact, promotion, doorVars>>

-----------------------------------------------------------------------------
(* decide_promotion, on the artifact as it is now. *)

ApplyCapable(hop) ==
  \/ hop.include = {} \/ "*" \in hop.allow
  \/ ~(hop.include \cup hop.allow \subseteq ReadOnlyTools)

\* Read with its own default: a suite that does not say gates, whatever its role.
GoldenGates(hop) == \E s \in Named(hop, hop.golden) : s.gates # "no"

Promotion(hop) ==
  IF verdict.disposition # "accepted" THEN "refused"
  ELSE IF hop.promote = "auto" /\ GoldenGates(hop) /\ ~ApplyCapable(hop) THEN "auto" ELSE "human"

Promote ==
  /\ verdict # NoVerdict /\ promotion' = Promotion(artifact)
  /\ UNCHANGED <<artifact, evaluating, verdict, doorVars>>

-----------------------------------------------------------------------------
(* The owner's door: proposals and decisions are episodes, by turn. *)

NotDeciding == [turn |-> "none"]

WriteProposal(turn) ==
  /\ proposed' = proposed \cup {turn}
  /\ UNCHANGED <<evalVars, ruled, deciding, learned>>

Undecided(turn) == ruled[turn] = {}

\* A turn is proposed and undecided; the decision is dated here and committed later.
DecideReads(o, turn, says) ==
  /\ deciding[o] = NotDeciding /\ turn \in proposed /\ Undecided(turn)
  /\ deciding' = [deciding EXCEPT ![o] = [turn |-> turn, says |-> says, dated |-> steps]]
  /\ UNCHANGED <<evalVars, proposed, ruled, learned>>

\* With the reason of a rejection or an edit, folded in the same transaction.
DecideCommits(o) ==
  /\ deciding[o] # NotDeciding
  /\ LET d == deciding[o] IN
     /\ ruled' = [ruled EXCEPT ![d.turn] = @ \cup {[says |-> d.says, dated |-> d.dated, landed |-> steps]}]
     /\ learned' = IF d.says = "approve" THEN learned ELSE learned \cup {d.turn}
  /\ deciding' = [deciding EXCEPT ![o] = NotDeciding]
  /\ UNCHANGED <<evalVars, proposed>>

DecideFails(o) ==
  /\ deciding[o] # NotDeciding /\ deciding' = [deciding EXCEPT ![o] = NotDeciding]
  /\ UNCHANGED <<evalVars, proposed, ruled, learned>>

\* _proposals_and_decisions: of several, the one dated last.
StatusOfTurn(turn) ==
  IF Undecided(turn) THEN "pending"
  ELSE (CHOOSE d \in ruled[turn] : \A e \in ruled[turn] : e.dated <= d.dated).says

-----------------------------------------------------------------------------
GateStep(action) == action /\ steps < MaxGateSteps /\ steps' = steps + 1

TuneGateInit ==
  /\ artifact \in Artifacts /\ evaluating = {} /\ verdict = NoVerdict /\ promotion = "none"
  /\ proposed = {} /\ ruled = [t \in Turns |-> {}] /\ learned = {}
  /\ deciding = [o \in Deciders |-> NotDeciding] /\ steps = 0

AdoptNext ==
  \/ GateStep(\E a \in Artifacts : EditHop(a)) \/ GateStep(EvalStarts)
  \/ /\ UNCHANGED steps
     /\ Promote \/ \E outcome \in Outcomes, baseline \in BOOLEAN : EvalEnds(outcome, baseline)

DoorNext ==
  \/ GateStep(\E o \in Deciders, t \in Turns, says \in {"approve", "reject", "edit"} : DecideReads(o, t, says))
  \/ /\ UNCHANGED steps
     /\ (\E t \in Turns : WriteProposal(t)) \/ \E o \in Deciders : DecideCommits(o) \/ DecideFails(o)

TuneGateNext == AdoptNext \/ DoorNext

TuneGateSpec == TuneGateInit /\ [][TuneGateNext]_gateVars

TuneGateTypeOK ==
  /\ artifact \in Artifacts /\ evaluating \subseteq Artifacts /\ steps \in 0..MaxGateSteps
  /\ verdict.disposition \in {"none", "accepted", "rejected", "scored"}
  /\ promotion \in {"none", "refused", "human", "auto"}
  /\ proposed \subseteq Turns /\ learned \subseteq proposed

\* The verdict's candidate passed every gate it met, its golden suite among them,
\* and beat the baseline, if it is still the artifact promoted.
GreenCandidate(hop, v) ==
  /\ \A s \in Range(hop.evals) : Gates(s) => v.outcome[s.name].pass
  /\ \A s \in Named(hop, hop.golden) : s.role = "golden" => v.outcome[s.name].pass
  /\ MeetsMargin(hop, v.outcome[hop.frontier].score)

(* A HOP promotes itself only if no tool it reaches writes and, when it is   *)
(* the artifact that was evaluated, its gates and its margin held; a turn's  *)
(* decision is changed only by one under way when it was taken               *)
(* (pipeline/hop_promote.py:76-95, api/v1/registry.py:202-216).              *)
AdoptionIsEarned ==
  [][/\ promotion' = "auto" /\ promotion # "auto" =>
          /\ ~ApplyCapable(artifact)
          /\ verdict.of = artifact => GreenCandidate(artifact, verdict)
     /\ \A t \in Turns : ~Undecided(t) =>
          /\ ~Undecided(t)'
          /\ StatusOfTurn(t)' # StatusOfTurn(t) =>
               \E o \in Deciders : /\ deciding[o].turn = t /\ deciding'[o] = NotDeciding
                                   /\ \A d \in ruled[t] : deciding[o].dated < d.landed]_gateVars
=============================================================================
