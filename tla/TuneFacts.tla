----------------------------- MODULE TuneFacts -----------------------------
(***************************************************************************)
(* The tuning loop's evidence, for one HOP with its variants and one task  *)
(* type (every other has facts of its own, under its own keys): the runs   *)
(* the harness reports and the turns it scores, the watched facts          *)
(* distilled from a window of them, the question whether a turn is due,    *)
(* and the changes proposed from the facts that are current.               *)
(***************************************************************************)
EXTENDS Naturals, FiniteSets, FiniteSetsExt

CONSTANTS
  RunKinds,       \* the runs reported: role, contract, tier, model, version, outcome, checks
  RunTiers,       \* tier_order: 1 is the cheapest
  MinRuns,        \* MIN_RUNS, and minRunsSinceLast of the cadence policy
  MinRegression,  \* MIN_REGRESSION
  Tunable,        \* the knobs the artifact declares tunable
  LockedKnobs,    \* the knobs it locks
  TierChoices,    \* the tiers model.main may be set to
  LastReport      \* bound: the instants at which runs and turns are placed

TuneFactsAssumption ==
  /\ MinRuns \in Nat \ {0} /\ MinRegression \in 1..MinRuns
  /\ RunTiers \subseteq Nat /\ IsFiniteSet(RunTiers) /\ LastReport \in Nat

\* reported: what the emitters dated at each instant, in whatever order it arrived;
\* facts: the values of the HOP's workspace with an open HAS_VALUE edge.
VARIABLES reported, facts, reading, lastWindow, proposals

tuneVars == <<reported, facts, reading, lastWindow, proposals>>

Instants == 1..LastReport
Nothing == [is |-> "nothing"]
Turn == [is |-> "turn"]
Reports == {[is |-> "run", run |-> k] : k \in RunKinds}

-----------------------------------------------------------------------------
(* Ingest: one event per instant; what the contract refuses is not stored. *)

\* normalize_run_outcome: success goes without a failure class, anything else with one.
ContractHolds(run) ==
  /\ run.contract >= 2 => (run.success <=> run.failure = "none")
  /\ run.contract >= 4 => run.role \in {"main", "subagent"}

Report(at, event) ==
  /\ reported[at] = Nothing
  /\ event.is = "run" => ContractHolds(event.run)
  /\ reported' = [reported EXCEPT ![at] = event]
  /\ UNCHANGED <<facts, reading, lastWindow, proposals>>

LastTurn == {at \in Instants : reported[at] = Turn}

SinceLastTurn == IF LastTurn = {} THEN Instants ELSE {at \in Instants : at >= Max(LastTurn)}

-----------------------------------------------------------------------------
(* distill_runs: facts above their floors, from the runs of a window. *)

RunsAt(window) == {at \in window : reported[at].is = "run"}
RunAt(at) == reported[at].run

\* mutant: a verifier's own runs are counted beside the run that started them
CountedWhoever(window) == {at \in RunsAt(window) : RunAt(at).contract >= 2}

Counted(window) == {at \in RunsAt(window) : RunAt(at).contract >= 2 /\ RunAt(at).role = "main"}

Fact(key, hits, runs) == [key |-> key, n |-> Cardinality(hits), of |-> Cardinality(runs)]

AboveFloor(key, hits, runs) ==
  IF Cardinality(runs) >= MinRuns THEN {Fact(key, hits, runs)} ELSE {}

Waste(runs) ==
  LET ran == {at \in runs : RunAt(at).observe # "off"} IN
  IF \E at \in ran : RunAt(at).observe = "caught" THEN {} ELSE AboveFloor(<<"waste">>, {}, ran)

Routes(runs) ==
  UNION {LET tier == {at \in runs : RunAt(at).tier = t}
             models == {RunAt(at).model : at \in tier}
             Done(on) == {at \in on : RunAt(at).success}
         IN AboveFloor(<<"route", t>>, Done(tier), tier)
            \cup (IF Cardinality(models) < 2 THEN {}
                  ELSE UNION {LET on == {at \in tier : RunAt(at).model = m}
                              IN AboveFloor(<<"route", t, m>>, Done(on), on) : m \in models}) : t \in RunTiers}

Failures(runs) ==
  {f \in {LET ofVersion == {a \in runs : RunAt(a).version = RunAt(at).version}
          IN Fact(<<"failure", RunAt(at).version, RunAt(at).failure>>,
                  {a \in ofVersion : RunAt(a).failure = RunAt(at).failure}, ofVersion) :
            at \in {a \in runs : RunAt(a).failure # "none"}} :
     f.n >= MinRegression}

Distilled(window) ==
  LET runs == Counted(window) IN
  AboveFloor(<<"stall">>, {at \in runs : RunAt(at).failure = "step_budget_stall"}, runs)
  \cup AboveFloor(<<"fired">>, {at \in runs : RunAt(at).fired}, runs)
  \cup Waste(runs) \cup Routes(runs) \cup Failures(runs)

-----------------------------------------------------------------------------
(* hop distill: the window is read, and what it gives written later. *)

NotReading == [busy |-> FALSE, window |-> {}, found |-> {}]

\* --since-last-turn, or so many days back.
DistillReads ==
  /\ ~reading.busy
  /\ \E window \in {SinceLastTurn} \cup {since..LastReport : since \in Instants} :
       reading' = [busy |-> TRUE, window |-> Counted(window), found |-> Distilled(window)]
  /\ UNCHANGED <<reported, facts, lastWindow, proposals>>

\* Silence when nothing cleared its floor; a key's new value supersedes its old one.
DistillWrites(wipe) ==
  /\ reading.busy /\ reading' = NotReading
  /\ IF reading.found = {} THEN UNCHANGED <<facts, lastWindow>>
     ELSE /\ facts' = reading.found \cup
                        (IF wipe THEN {} ELSE {f \in facts : \A g \in reading.found : g.key # f.key})
          /\ lastWindow' = reading.window
  /\ UNCHANGED <<reported, proposals>>

-----------------------------------------------------------------------------
(* hop propose: one change per rule that a current fact meets. *)

AtLeast(f, percent) == f.n * 100 >= percent * f.of

\* by_task: a fact of the tier, its own or one of its models', whichever row came last.
TierFacts(t) == {f \in facts : f.key[1] = "route" /\ f.key[2] = t}

Proposal(kind, knob, to, evidence) ==
  [kind |-> kind, knob |-> knob, to |-> to, evidence |-> evidence]

Routed(chosen) ==
  LET best == CHOOSE b \in DOMAIN chosen : \A t \in DOMAIN chosen :
                LET mine == chosen[b].n * chosen[t].of
                    theirs == chosen[t].n * chosen[b].of
                IN mine > theirs \/ (mine = theirs /\ b >= t)
      \* within ROUTE_MARGIN_PP, in whole percents of the two rates
      close == {t \in DOMAIN chosen : t < best /\
                  (chosen[best].n * chosen[t].of - chosen[t].n * chosen[best].of) * 100
                    <= 5 * chosen[t].of * chosen[best].of}
  IN IF close = {} THEN {}
     ELSE {Proposal("route", "model.main", Min(close), {chosen[Min(close)], chosen[best]})}

ByRule(f) ==
  CASE f.key[1] = "stall" /\ AtLeast(f, 20) -> {Proposal("budget", "budgets.maxTurns", 0, {f})}
    [] f.key[1] = "waste" /\ f.n = 0 -> {Proposal("waste", "", 0, {f})}
    [] f.key[1] = "fired" /\ (AtLeast(f, 50) \/ f.n * 100 <= 5 * f.of) ->
         {Proposal("verification", "verification.selfCheck.minEdits", 0, {f})}
    [] f.key[1] = "failure" /\ AtLeast(f, 10) -> {Proposal("regression", "version", 0, {f})}
    [] OTHER -> {}

\* classify: what the artifact's declared surface makes of a proposal.
Applicability(p) ==
  CASE p.kind = "regression" -> "advisory"
    [] p.knob = "" -> "no_declared_knob"
    [] p.knob \in LockedKnobs -> "blocked_locked"
    [] p.knob \notin Tunable \/ (p.knob = "model.main" /\ p.to \notin TierChoices) -> "not_tunable"
    [] OTHER -> "enactable"

Propose ==
  /\ LET known == {t \in RunTiers : TierFacts(t) # {}} IN
     \E chosen \in [known -> facts] :
       /\ \A t \in known : chosen[t] \in TierFacts(t)
       /\ LET made == (UNION {ByRule(f) : f \in facts})
                      \cup (IF Cardinality(known) < 2 THEN {} ELSE Routed(chosen))
          IN proposals' = {[p |-> p, applies |-> Applicability(p)] : p \in made}
  /\ UNCHANGED <<reported, facts, reading, lastWindow>>

\* hop tune-due: the run floor; the age of the turn and the triggers are left out.
DueByRuns ==
  Cardinality({at \in RunsAt(Instants) : /\ RunAt(at).role = "main"
                                         /\ LastTurn # {} => at > Max(LastTurn)}) >= MinRuns

-----------------------------------------------------------------------------
TuneFactsInit ==
  /\ reported = [at \in Instants |-> Nothing] /\ facts = {} /\ reading = NotReading
  /\ lastWindow = {} /\ proposals = {}

TuneFactsNext ==
  \/ \E at \in Instants, e \in Reports \cup {Turn} : Report(at, e)
  \/ DistillReads \/ \E wipe \in BOOLEAN : DistillWrites(wipe)
  \/ Propose

TuneFactsSpec == TuneFactsInit /\ [][TuneFactsNext]_tuneVars

TuneFactsTypeOK ==
  /\ reported \in [Instants -> Reports \cup {Turn, Nothing}]
  /\ lastWindow \subseteq Instants /\ \A f \in facts : f.n <= f.of

(* Every change proposed rests on a floor of runs the HOP's main loop made,  *)
(* each counted once, and when enough of them lie since the last turn to     *)
(* compare rates, a turn is due (pipeline/hop_distiller.py:26-27, 105-118,   *)
(* tools/hop_tune_due.py:48-66).                                             *)
EvidenceHasPower ==
  LET main == {at \in RunsAt(Instants) : RunAt(at).role = "main"} IN
  /\ \A p \in proposals : \A f \in p.p.evidence :
       /\ f.of <= Cardinality(main)
       /\ IF f.key[1] = "failure" THEN f.n >= MinRegression ELSE f.of >= MinRuns
  /\ (\E f \in Distilled(SinceLastTurn) : f.key[1] # "failure") => DueByRuns

(* A check that caught a failure in the newest run of the window last       *)
(* distilled is not held to be waste (pipeline/hop_distiller.py:7-8:        *)
(* "same-key supersession keeps each aggregate current as windows advance"). *)
WasteIsCurrent ==
  (\E f \in facts : f.key = <<"waste">>) /\ lastWindow # {}
    => RunAt(Max(lastWindow)).observe # "caught"
=============================================================================
