----------------------------- MODULE MC_Sharing -----------------------------
(* Model-checking instance of Sharing: of the components that rest, one    *)
(* initial state is enough.                                                *)
EXTENDS Sharing, MC_TuneFacts, TLC

CONSTANTS a, b, top, e1, e2, p, q, squad, platform, org

MCProcessOf == e1 :> p @@ e2 :> q
MCRank == "user" :> 2 @@ "org" :> 1
MCParentOf == squad :> platform @@ platform :> org

\* Only one source is allowed, and the other's day is full or bounded by one.
MCPolicies ==
  {NoPolicy,
   [NoPolicy EXCEPT !.allow = {"s2"}, !.budget = AnySource :> 0],
   [NoPolicy EXCEPT !.allow = {"s1"}, !.budget = "s1" :> 1]}

Suite(name, role, gates, built) == [name |-> name, role |-> role, gates |-> gates, built |-> built]

ReadOnlyHop ==
  [evals |-> <<Suite("cost", "frontier", "unsaid", TRUE), Suite("cases", "golden", "unsaid", TRUE)>>,
   golden |-> "cases", frontier |-> "cost", margin |-> "-", promote |-> "auto",
   include |-> {"Read"}, allow |-> {"Read"}]

\* A HOP that only reads, one allowed to write, one whose golden suite may not gate.
MCArtifacts ==
  {ReadOnlyHop,
   [ReadOnlyHop EXCEPT !.allow = {"Write"}],
   [ReadOnlyHop EXCEPT !.evals = <<Suite("cost", "probe", "no", FALSE), Suite("cases", "none", "unsaid", TRUE)>>,
                       !.margin = "+"]}

ASSUME SharingAssumption

MCInit ==
  /\ Init
  /\ subject = "units" \/ tree = [u \in UnitIds |-> NoUnit]
  /\ subject = "lift" \/ lift = [u \in Units |-> "none"]
  /\ subject = "trust" \/ (grounded /\ row.status = "working")
  /\ subject = "consent" \/ policy = [s \in Scopes |-> NoPolicy]
  /\ subject = "adopt" \/ artifact = ReadOnlyHop

MCSpec == MCInit /\ [][Next]_vars
=============================================================================
