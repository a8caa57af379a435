---------------------------- MODULE SessionStart ----------------------------
(***************************************************************************)
(* What a session starts with: the page of learnings rendered for a person *)
(* and a HOP, after claims of several people were folded onto the same     *)
(* learnings.  A claim that nobody asked for (a Stop hook wrote it) stays  *)
(* with the person and the HOP it came from until others corroborate or    *)
(* endorse it; the learning has one row for all, whose props every claim   *)
(* rewrites in part.  Lines have one length and ties keep any order.       *)
(***************************************************************************)
EXTENDS Naturals, FiniteSets

CONSTANTS
  Learnings,  \* facts of an org scope everybody reads
  Persons,
  Hops,
  Room,       \* the lines the budget leaves for learnings
  PinnedRoom, \* the lines of the pinned slice
  Unasked,    \* UNPROMPTED_PER_PROJECTION
  MaxClaims   \* bound: claims folded

NoOne == "no one"
AnyHop == "any"

SessionStartAssumption ==
  /\ NoOne \notin Persons /\ AnyHop \notin Hops
  /\ Room \in Nat /\ PinnedRoom \in Nat /\ Unasked \in Nat /\ MaxClaims \in Nat

VARIABLES
  fact,    \* each learning's row
  decided, \* the open DECIDED edges: who stands behind each learning
  heard,   \* ghost: its claims since the last retraction: person, HOP, whether it was asked for
  page,    \* the page rendered last, for whom, and what it was rendered from
  claims

startVars == <<fact, decided, heard, page, claims>>

Standings == {"endorsed", "corroborated", "probation"}
NoFact == [status |-> "none", hook |-> FALSE, hop |-> AnyHop, build |-> FALSE,
           pinned |-> FALSE, tier |-> "probation"]
NoPage == [person |-> NoOne, hop |-> AnyHop, pinned |-> {}, lines |-> {}]

-----------------------------------------------------------------------------
(* The learnings. *)

\* upsert_node merges the props: what a claim sets stays, and the HOP is the last one's.
Reclaimed(row, hop, hook, as) ==
  [row EXCEPT !.status = IF @ = "none" THEN "committed" ELSE @, !.hop = hop,
              !.hook = @ \/ hook, !.build = @ \/ as = "build", !.pinned = @ \/ as = "pinned"]

\* The claim's phase may be the build of the HOP, or the owner pins it.
ClaimLearning(l, u, hop, hook, as) ==
  /\ claims < MaxClaims /\ claims' = claims + 1
  /\ fact' = [fact EXCEPT ![l] = Reclaimed(@, hop, hook, as)]
  /\ decided' = [decided EXCEPT ![l] = @ \cup {u}]
  /\ heard' = [heard EXCEPT ![l] = @ \cup {[who |-> u, hop |-> hop, asked |-> ~hook]}]
  /\ UNCHANGED page

\* tier_for, after the join or an endorsement; Trust says when.
TierMoves(l, tier) ==
  /\ fact[l].status # "none" /\ tier # fact[l].tier
  /\ fact' = [fact EXCEPT ![l].tier = tier]
  /\ UNCHANGED <<decided, heard, page, claims>>

\* retract_memory: the row keeps its props, the edges close.
RetractLearning(l) ==
  /\ fact[l].status = "committed"
  /\ fact' = [fact EXCEPT ![l].status = "retracted"]
  /\ decided' = [decided EXCEPT ![l] = {}] /\ heard' = [heard EXCEPT ![l] = {}]
  /\ UNCHANGED <<page, claims>>

-----------------------------------------------------------------------------
(* render_projection *)

OnProbationUnasked(l) == fact[l].hook /\ fact[l].tier = "probation"
Listed == {l \in Learnings : decided[l] # {}}

SameHop(l, hop) == hop = AnyHop \/ fact[l].hop = hop

\* mutant: it is enough that the person is one of those behind it
ForeignUnlessMine(u, hop) ==
  {l \in Listed : OnProbationUnasked(l) /\ (~SameHop(l, hop) \/ u \notin decided[l])}

\* Another's unasked learning: of another HOP, or somebody else stands behind it too.
Foreign(u, hop) ==
  {l \in Listed : OnProbationUnasked(l) /\ (~SameHop(l, hop) \/ decided[l] \ {u} # {})}

\* Endorsed first; an unasked one after its equals.
Rank(l) ==
  2 * (CASE fact[l].tier = "endorsed" -> 0 [] fact[l].tier = "corroborated" -> 1 [] OTHER -> 2)
    + (IF OnProbationUnasked(l) THEN 1 ELSE 0)

\* As many as fit, best first; of the unasked ones the first few.
IsCut(lines, eligible) ==
  LET unasked == {l \in lines : OnProbationUnasked(l)} IN
  /\ Cardinality(lines) <= Room /\ Cardinality(unasked) <= Unasked
  /\ \A l \in eligible \ lines :
       \/ OnProbationUnasked(l) /\ Cardinality(unasked) = Unasked
       \/ Cardinality(lines) = Room /\ \A k \in lines : Rank(k) <= Rank(l)

\* The pinned slice asks neither whose idea it was nor which HOP.
IsSlice(slice, pins) ==
  /\ Cardinality(slice) <= PinnedRoom
  /\ slice # pins => Cardinality(slice) = PinnedRoom

Render(u, hop) ==
  /\ \E slice \in SUBSET {l \in Learnings : fact[l].pinned /\ fact[l].status = "committed"} :
       LET pins == {l \in Learnings : fact[l].pinned /\ fact[l].status = "committed"}
           eligible == {l \in Listed : ~fact[l].build /\ l \notin slice} \ Foreign(u, hop)
       IN
       /\ IsSlice(slice, pins)
       /\ \E lines \in SUBSET eligible :
            /\ IsCut(lines, eligible)
            /\ page' = [person |-> u, hop |-> hop, pinned |-> slice, lines |-> lines]
  /\ UNCHANGED <<fact, decided, heard, claims>>

-----------------------------------------------------------------------------
SessionStartInit ==
  /\ fact = [l \in Learnings |-> NoFact]
  /\ decided = [l \in Learnings |-> {}] /\ heard = [l \in Learnings |-> {}]
  /\ page = NoPage /\ claims = 0

SessionStartNext ==
  \/ \E l \in Learnings :
       \/ \E u \in Persons, hop \in Hops, hook \in BOOLEAN, as \in {"plain", "build", "pinned"} :
            ClaimLearning(l, u, hop, hook, as)
       \/ \E tier \in Standings : TierMoves(l, tier)
       \/ RetractLearning(l)
  \/ \E u \in Persons \cup {NoOne}, hop \in Hops \cup {AnyHop} : Render(u, hop)

SessionStartSpec == SessionStartInit /\ [][SessionStartNext]_startVars

SessionStartTypeOK ==
  /\ \A l \in Learnings : fact[l].status \in {"none", "committed", "retracted"}
                          /\ fact[l].tier \in Standings /\ fact[l].hop \in Hops \cup {AnyHop}
  /\ decided \in [Learnings -> SUBSET Persons]
  /\ page.lines \cap page.pinned = {} /\ claims \in 0..MaxClaims

-----------------------------------------------------------------------------
(* Properties. *)

\* render_projection: "reaches only the person and HOP it came from".  Whoever claims a
\* learning again, from wherever, and whatever is retracted and claimed anew: if every
\* claim of it came unasked and it is on probation, a page lists it beyond the pinned slice
\* only for the one person it came from, in a HOP one of those claims came from.
UnaskedStaysHome ==
  [][page' # page =>
       \A l \in page'.lines :
         fact[l].tier = "probation" /\ (\A c \in heard[l] : ~c.asked) =>
           /\ \A c \in heard[l] : c.who = page'.person
           /\ page'.hop = AnyHop \/ \E c \in heard[l] : c.hop = page'.hop]_startVars
=============================================================================
