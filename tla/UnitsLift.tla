------------------------------ MODULE UnitsLift ------------------------------
(***************************************************************************)
(* The nightly roll-up: a unit whose policy has a lift copies its          *)
(* learnings at or above a trust tier to its parent.  Between two nights   *)
(* people observe, endorse and withdraw, and the trust join recomputes     *)
(* tiers; a run visits the units one by one, the deepest first.            *)
(***************************************************************************)
EXTENDS Naturals, FiniteSets, Sequences

CONSTANTS
  Units,
  Tenant,     \* the org, above every top-level unit
  ParentOf,   \* unit -> unit or Tenant
  Values,     \* what a learning says
  NamesAPerson, \* the values pii_in_node refuses
  MaxCount,   \* bound: observations of a node counted
  MaxRuns     \* bound: nightly runs

Places == Units \cup {Tenant}
TierRank == [probation |-> 0, corroborated |-> 1, endorsed |-> 2]
Tiers == DOMAIN TierRank

LiftAssumption ==
  /\ IsFiniteSet(Units) /\ Tenant \notin Units /\ "nobody" \notin Units
  /\ ParentOf \in [Units -> Places]
  /\ \E rank \in [Places -> 0..Cardinality(Units)] :  \* the units are a forest
       \A u \in Units : rank[ParentOf[u]] < rank[u]
  /\ NamesAPerson \subseteq Values /\ MaxCount \in Nat \ {0} /\ MaxRuns \in Nat

VARIABLES
  lift,   \* unit -> the tier of its lift policy, or "none"
  node,   \* node id -> its row, or NoNode
  todo,   \* the units the run under way has still to visit
  runs

liftVars == <<lift, node, todo, runs>>

DepthOf[u \in Places] == IF u = Tenant THEN 0 ELSE 1 + DepthOf[ParentOf[u]]

\* One key and what the lifts of contending copies append to it.
Keys == UNION {[1..n -> Units] : n \in 0..Cardinality(Units)}
Ids == [at : Places, key : Keys]

\* origin is history: where the value was learned.
NodeRows ==
  [value : Values, tier : Tiers, endorsed : BOOLEAN, count : 1..MaxCount,
   from : Units \cup {"nobody"}, merged : SUBSET Units,
   origin : Places]
NoNode == [value |-> "none"]

NodeIds == {id \in Ids : node[id] # NoNode}

\* tier_for, of a grounded learning no run has used yet.
TierFor(endorsed, count) ==
  CASE endorsed -> "endorsed"
    [] ~endorsed /\ count >= 2 -> "corroborated"
    [] OTHER -> "probation"

CountUp(n) == [n EXCEPT !.count = IF @ < MaxCount THEN @ + 1 ELSE @]

-----------------------------------------------------------------------------
(* Between the lifts. *)

\* A fold of a claim in a unit or the org: a new learning, or one more observation.
Learn(p, v) ==
  LET id == [at |-> p, key |-> <<>>] IN
  /\ node[id] = NoNode \/ node[id].value = v
  /\ node' = [node EXCEPT ![id] =
       IF @ # NoNode THEN CountUp(@)
       ELSE [value |-> v, tier |-> "probation", endorsed |-> FALSE, count |-> 1,
             from |-> "nobody", merged |-> {}, origin |-> p]]
  /\ UNCHANGED <<lift, todo, runs>>

\* endorse_memory, by a person: the tier follows at once.
EndorseLearning(id) ==
  /\ id \in NodeIds
  /\ node' = [node EXCEPT ![id].endorsed = TRUE, ![id].tier = TierFor(TRUE, 1)]
  /\ UNCHANGED <<lift, todo, runs>>

TrustJoin ==
  /\ todo = {}
  /\ node' = [id \in Ids |-> IF id \in NodeIds
                             THEN [node[id] EXCEPT !.tier = TierFor(node[id].endorsed, node[id].count)]
                             ELSE NoNode]
  /\ UNCHANGED <<lift, todo, runs>>

-----------------------------------------------------------------------------
(* The lift. *)

\* mutant: the lift does not look for a person's name
LiftableNamed(u) ==
  {id \in NodeIds : id.at = u /\ TierRank[node[id].tier] >= TierRank[lift[u]]}

\* The rows of u that may go up.
Liftable(u) ==
  {id \in NodeIds : /\ id.at = u
                    /\ TierRank[node[id].tier] >= TierRank[lift[u]]
                    /\ node[id].from # u
                    /\ node[id].value \notin NamesAPerson}

Above(id) == [at |-> ParentOf[id.at], key |-> id.key]
Contending(id) == [at |-> ParentOf[id.at], key |-> Append(id.key, id.at)]

Copied(id) ==
  [node[id] EXCEPT !.count = 1, !.from = id.at]

\* upsert_node merges the properties and leaves the count.
Recopied(id, old) ==
  [Copied(id) EXCEPT !.count = old.count,
                     !.endorsed = @ \/ old.endorsed,
                     !.merged = IF @ = {} THEN old.merged ELSE @]

Merged(there, u) ==
  IF u \in there.merged THEN there
  ELSE CountUp([there EXCEPT !.merged = @ \cup {u}])

\* The write of one row.
At(id, row) == [w \in {id} |-> row]

\* mutant: a contending copy takes the key of what it contends with
LiftedOver(id) ==
  LET there == node[Above(id)] IN
  IF there # NoNode /\ there.value = node[id].value
  THEN At(Above(id), Merged(there, id.at))
  ELSE At(Above(id), Copied(id))

\* What lifting one row writes: identical knowledge is counted once for the unit;
\* contending knowledge goes beside what is there, over the unit's own earlier copy.
Lifted(id) ==
  LET there == node[Above(id)]
      beside == node[Contending(id)]
  IN CASE there = NoNode -> At(Above(id), Copied(id))
       [] there # NoNode /\ there.value = node[id].value -> At(Above(id), Merged(there, id.at))
       [] OTHER -> At(Contending(id), IF beside = NoNode THEN Copied(id) ELSE Recopied(id, beside))

BeginRun ==
  /\ todo = {} /\ runs < MaxRuns
  /\ todo' = Units
  /\ runs' = runs + 1
  /\ UNCHANGED <<lift, node>>

\* lift_by_policy's loop body: a unit without a lift is passed over.
LiftUnit(u) ==
  /\ u \in todo /\ \A o \in todo : DepthOf[o] <= DepthOf[u]
  /\ todo' = todo \ {u}
  /\ LET ids == IF lift[u] = "none" THEN {} ELSE Liftable(u)
         writes == [w \in UNION {DOMAIN Lifted(id) : id \in ids} |->
                      Lifted(CHOOSE id \in ids : w \in DOMAIN Lifted(id))[w]]
     IN node' = [id \in Ids |-> IF id \in DOMAIN writes THEN writes[id] ELSE node[id]]
  /\ UNCHANGED <<lift, runs>>

-----------------------------------------------------------------------------
LiftInit ==
  /\ lift \in [Units -> {"none", "corroborated", "endorsed"}]
  /\ node = [id \in Ids |-> NoNode]
  /\ todo = {} /\ runs = 0

LiftNext ==
  \/ \E p \in Places, v \in Values : Learn(p, v)
  \/ \E id \in Ids : EndorseLearning(id)
  \/ TrustJoin \/ BeginRun
  \/ \E u \in Units : LiftUnit(u)

LiftSpec == LiftInit /\ [][LiftNext]_liftVars

LiftTypeOK ==
  /\ lift \in [Units -> Tiers \cup {"none"}]
  /\ node \in [Ids -> NodeRows \cup {NoNode}]
  /\ todo \subseteq Units /\ runs \in 0..MaxRuns

-----------------------------------------------------------------------------
(* Properties. *)

PathUp[p \in Places] == IF p = Tenant THEN {Tenant} ELSE {p} \cup PathUp[ParentOf[p]]

\* "Nothing rolls past a unit whose policy has no lift": whatever was merged,
\* copied beside or copied again on the way, a learning stands only where it was
\* learned or above, every unit in between lifts, and it names no person.
ClimbsByPolicy ==
  \A id \in NodeIds : LET n == node[id] IN
    /\ id.at \in PathUp[n.origin]
    /\ \A u \in PathUp[n.origin] \ PathUp[id.at] : lift[u] # "none"
    /\ id.at # n.origin => n.value \notin NamesAPerson

\* "distinct key when contending": no run replaces what people taught a place,
\* whatever comes up to it from below.
TaughtIsNotReplaced ==
  [][\A id \in NodeIds :
       node[id].from = "nobody" => node'[id].value = node[id].value /\ node'[id].from = "nobody"
     ]_liftVars
=============================================================================
