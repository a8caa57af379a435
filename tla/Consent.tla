------------------------------- MODULE Consent -------------------------------
(***************************************************************************)
(* One tenant's governance and the folds it governs.  The org and a        *)
(* person's scope each have a consent state and an extraction policy; the  *)
(* fold gate resolves both along the chain, org first, and the fold it     *)
(* lets through commits later.  In between people opt out, clear a scope,  *)
(* forget the person's workspace or depart.                                *)
(***************************************************************************)
EXTENDS Naturals, FiniteSets, FiniteSetsExt

CONSTANTS
  EpisodeIds,   \* numbers: episodes are named as they arrive
  Folders,      \* inline folds and the worker's
  SourceNames,
  Policies,     \* the policies an administrator may set
  MaxDecisions  \* bound: governance decisions

Scopes == {"org", "user"}
AnySource == "*"
\* allow is the allow-list, empty for none; budget has the sources it names, or AnySource.
NoPolicy == [deny |-> {}, allow |-> {}, budget |-> <<>>]

ConsentAssumption ==
  /\ EpisodeIds \subseteq Nat /\ AnySource \notin SourceNames /\ NoPolicy \in Policies /\ MaxDecisions \in Nat
  /\ \A p \in Policies : /\ p.deny \cup p.allow \subseteq SourceNames
                         /\ DOMAIN p.budget \subseteq SourceNames \cup {AnySource}
                         /\ \A x \in DOMAIN p.budget : p.budget[x] \in Nat

VARIABLES
  consent,   \* scope -> its state
  policy,    \* scope -> its policy
  episode,   \* episode -> its row, or NoEpisode
  memory,    \* what the two tiers hold: <<tier, episode>>
  fold,      \* folder -> the fold under way
  decisions, \* decisions left
  cleared    \* history: scopes cleared, with no fold past the gate, and not active since

consentVars == <<consent, policy, episode, memory, fold, decisions, cleared>>

NoEpisode == [scope |-> "none", source |-> "none", state |-> "absent"]
NoFold == [phase |-> "idle"]
States == {"active", "off", "pause"}

-----------------------------------------------------------------------------
(* resolve_consent, resolve_extraction_policy. *)

consent_chain(s) == {"org", s}

Blocked(s) == \E c \in consent_chain(s) : consent[c] \in {"off", "pause"}

Denied(s) == UNION {policy[c].deny : c \in consent_chain(s)}

AllowedBy(s) ==
  LET lists == {policy[c].allow : c \in {x \in consent_chain(s) : policy[x].allow # {}}}
  IN {x \in SourceNames : \A l \in lists : x \in l}

\* The smallest number any scope of the chain names for x.
Budgets(s, x) ==
  {policy[c].budget[x] : c \in {d \in consent_chain(s) : x \in DOMAIN policy[d].budget}}

\* budget_for: the source's own number, whatever scope named it, before the one for any.
Limits(s, src) == IF Budgets(s, src) # {} THEN Budgets(s, src) ELSE Budgets(s, AnySource)

Droppable(s, src) == src \in Denied(s) \/ src \notin AllowedBy(s)

\* admitted_today, of what is committed.
AdmittedToday(src) ==
  Cardinality({e \in EpisodeIds : episode[e].source = src /\ <<"direct", e>> \in memory})

SpentFor(s, src) == Limits(s, src) # {} /\ AdmittedToday(src) >= Min(Limits(s, src))

Gated(s, src) == Blocked(s) \/ Droppable(s, src) \/ SpentFor(s, src)

-----------------------------------------------------------------------------
(* Episodes and folds. *)

StoreEpisode(e) ==
  /\ episode[e] = NoEpisode /\ \A d \in EpisodeIds : d < e => episode[d] # NoEpisode
  /\ \E s \in Scopes, src \in SourceNames :
       episode' = [episode EXCEPT ![e] = [scope |-> s, source |-> src, state |-> "stored"]]
  /\ UNCHANGED <<consent, policy, memory, fold, decisions, cleared>>

\* fold_gate: what it reads now decides the fold.
PassGate(f, e) ==
  /\ fold[f] = NoFold /\ episode[e].state = "stored"
  /\ \A o \in Folders : fold[o] # NoFold => fold[o].episode # e
  /\ fold' = [fold EXCEPT ![f] = [phase |-> "gated", episode |-> e,
                                  drop |-> Gated(episode[e].scope, episode[e].source)]]
  /\ UNCHANGED <<consent, policy, episode, memory, decisions, cleared>>

MemoryTiers == {"direct", "derived"}

CommitFold(f) ==
  /\ fold[f] # NoFold
  /\ LET e == fold[f].episode IN
     /\ episode' = [episode EXCEPT ![e].state = IF fold[f].drop THEN "dropped" ELSE "folded"]
     /\ memory' = memory \cup (IF fold[f].drop THEN {} ELSE MemoryTiers \X {e})
  /\ fold' = [fold EXCEPT ![f] = NoFold]
  /\ UNCHANGED <<consent, policy, decisions, cleared>>

FoldFails(f) ==
  /\ fold[f] # NoFold
  /\ fold' = [fold EXCEPT ![f] = NoFold]
  /\ UNCHANGED <<consent, policy, episode, memory, decisions, cleared>>

-----------------------------------------------------------------------------
(* Governance: each decision commits before it is answered. *)

InFlight(s) == \E f \in Folders :
  fold[f] # NoFold /\ ~fold[f].drop /\ episode[fold[f].episode].scope = s

Of(s) == MemoryTiers \X {e \in EpisodeIds : episode[e].scope = s}

Decide ==
  /\ decisions > 0 /\ decisions' = decisions - 1

SetConsent(s) ==
  /\ Decide
  /\ \E st \in States : consent' = [consent EXCEPT ![s] = st]
  /\ cleared' = IF consent'[s] = "active" THEN cleared \ {s} ELSE cleared
  /\ UNCHANGED <<policy, episode, memory, fold>>

\* mutant: the direct tier is forgotten
ClearDerived(s) ==
  /\ Decide
  /\ memory' = memory \ (Of(s) \cap ({"derived"} \X EpisodeIds))
  /\ consent' = [consent EXCEPT ![s] = "off"]
  /\ cleared' = IF InFlight(s) THEN cleared \ {s} ELSE cleared \cup {s}
  /\ UNCHANGED <<policy, episode, fold>>

\* State "clear": both tiers of the scope are purged and off is recorded.
Clear(s) ==
  /\ Decide
  /\ memory' = memory \ Of(s)
  /\ consent' = [consent EXCEPT ![s] = "off"]
  /\ cleared' = IF InFlight(s) THEN cleared \ {s} ELSE cleared \cup {s}
  /\ UNCHANGED <<policy, episode, fold>>

\* depart: the person's two tiers go, and no consent is recorded.
PurgePerson ==
  /\ Decide
  /\ memory' = memory \ Of("user")
  /\ UNCHANGED <<consent, policy, episode, fold, cleared>>

\* purge_workspace: of both tiers, what the episodes of one workspace left there.
PurgeWorkspace ==
  /\ Decide
  /\ \E es \in SUBSET {e \in EpisodeIds : episode[e].scope = "user"} :
       memory' = memory \ (MemoryTiers \X es)
  /\ UNCHANGED <<consent, policy, episode, fold, cleared>>

SetPolicy(s) ==
  /\ Decide
  /\ \E p \in Policies : policy' = [policy EXCEPT ![s] = p]
  /\ UNCHANGED <<consent, episode, memory, fold, cleared>>

-----------------------------------------------------------------------------
ConsentInit ==
  /\ consent = [s \in Scopes |-> "active"]
  /\ policy \in [Scopes -> Policies]
  /\ episode = [e \in EpisodeIds |-> NoEpisode]
  /\ memory = {}
  /\ fold = [f \in Folders |-> NoFold]
  /\ decisions = MaxDecisions /\ cleared = {}

ConsentNext ==
  \/ \E e \in EpisodeIds : StoreEpisode(e) \/ \E f \in Folders : PassGate(f, e)
  \/ \E f \in Folders : CommitFold(f) \/ FoldFails(f)
  \/ \E s \in Scopes : SetConsent(s) \/ Clear(s) \/ SetPolicy(s)
  \/ PurgePerson \/ PurgeWorkspace

ConsentSpec == ConsentInit /\ [][ConsentNext]_consentVars

ConsentTypeOK ==
  /\ consent \in [Scopes -> States] /\ policy \in [Scopes -> Policies]
  /\ \A e \in EpisodeIds : episode[e] # NoEpisode =>
       episode[e] \in [scope : Scopes, source : SourceNames, state : {"stored", "folded", "dropped"}]
  /\ memory \subseteq MemoryTiers \X EpisodeIds
  /\ \A f \in Folders : fold[f] # NoFold => fold[f].episode \in EpisodeIds /\ fold[f].drop \in BOOLEAN
  /\ decisions \in 0..MaxDecisions /\ cleared \subseteq Scopes

-----------------------------------------------------------------------------
(* Properties. *)

\* set_consent: nothing is left of a cleared scope's memory in either tier, and nothing
\* is learned into it again before it is active, whatever the org decides meanwhile;
\* only a fold that had passed the gate can slip in.
ClearedStaysEmpty == \A s \in cleared : memory \cap Of(s) = {}
=============================================================================
