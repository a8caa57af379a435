------------------------------ MODULE Presence ------------------------------
(***************************************************************************)
(* Platform events and watch claims folded into relations that begin and   *)
(* end: membership, the status of an agent, a claim that mentions it.  The *)
(* rules of extract turn an event into edges and explicit ends; a claim    *)
(* that its subject is gone ends the entity, one that it is back reopens   *)
(* it.  Every edge has its window of validity, so a read as of an instant  *)
(* sees what held then.  Events may come late, of instants already past.   *)
(***************************************************************************)
EXTENDS Naturals, FiniteSets

CONSTANTS
  Homes,       \* scopes: each has its own copy of a node
  LastInstant, \* bound: the instants events are stamped with
  MaxEvents    \* bound: events folded

PresenceAssumption == LastInstant \in Nat \ {0} /\ MaxEvents \in Nat

VARIABLES
  edges,  \* every relation ever written, with its window
  ended,  \* the copies of nodes out of the current view
  truth,  \* ghost: the instants at which each relation holds, by what was told
  latest, \* ghost: the latest instant told of the relation
  exact,  \* ghost: nothing was told of it that came late and mattered
  events

presenceVars == <<edges, ended, truth, latest, exact, events>>

Instants == 1..LastInstant
Ongoing == LastInstant + 1
Relations == {"member", "running", "stopped", "mention"}

\* The node every relation touches that a watch claim can name.
NodeOf(r) == IF r = "member" THEN "user" ELSE "agent"

\* HAS_STATUS is functional: one of its values at a time.
Status == {"running", "stopped"}
Rivals(r) == IF r \in Status THEN Status \ {r} ELSE {}

Edge == [rel : Relations, home : Homes, from : Instants, to : Instants \cup {Ongoing}]
Nodes == {"user", "agent"}
Copies(node) == {<<node, e.home>> : e \in {o \in edges : NodeOf(o.rel) = node}}

OpenEdges == {e \in edges : e.to = Ongoing}
Closed(es, t) == {[e EXCEPT !.to = t] : e \in es}

AsOf(r, h) ==
  {t \in Instants : \E e \in edges : e.rel = r /\ e.home = h /\ e.from <= t /\ t < e.to}

-----------------------------------------------------------------------------
(* extract: the relation an event asserts, the one it ends. *)

Asserted(what) ==
  CASE what = "org.member_added" -> "member"
    [] what \in {"agent.deployed", "mcp.started"} -> "running"
    [] what \in {"agent.stopped", "mcp.stopped"} -> "stopped"

\* entity_hints, _link_entities: a claim links its value to what it is about.
Hinted == "mention"

-----------------------------------------------------------------------------
(* The store. *)

\* upsert_edge: an open edge stays as it is.
Upserted(r, h, t) ==
  IF \E e \in OpenEdges : e.rel = r /\ e.home = h THEN edges
  ELSE edges \cup {[rel |-> r, home |-> h, from |-> t, to |-> Ongoing]}

\* invalidate_superseded: the earlier of two open values is bounded by the later.
Superseded(es, r, h) ==
  LET new == CHOOSE e \in es : e.rel = r /\ e.home = h /\ e.to = Ongoing
      old == {e \in es : e.rel \in Rivals(r) /\ e.home = h /\ e.to = Ongoing}
      past == {e \in old : e.from <= new.from}
      later == old \ past
  IN (es \ (past \cup (IF later = {} THEN {} ELSE {new}))) \cup Closed(past, new.from)
       \cup {[new EXCEPT !.to = e.from] : e \in later}

\* end_entity: the edges of every copy, but for those that begin after the end.
EndsOf(node, t) == {e \in OpenEdges : NodeOf(e.rel) = node /\ e.from <= t}

\* mutant: whatever began later is closed too
InvalidatedAnyway(r, h, t) == {e \in OpenEdges : e.rel = r /\ e.home = h}

\* invalidate_edge
Invalidated(r, h, t) == {e \in OpenEdges : e.rel = r /\ e.home = h /\ e.from <= t}

-----------------------------------------------------------------------------
(* What the events told mean, kept while they come in order.  A late one   *)
(* keeps the account exact when it says nothing about what is known:       *)
(* an end where nothing held, a status from before the first one known.    *)

Group(r) == {r} \cup Rivals(r)
Known(r, h) == UNION {truth[<<g, h>>] : g \in Group(r)}
From(t) == {i \in Instants : i >= t}

LateBegin(r, h, t) ==
  /\ truth[<<r, h>>] = {} /\ latest[<<r, h>>] = 0
  /\ \E e \in OpenEdges : e.rel \in Rivals(r) /\ e.home = h /\ Known(r, h) = From(e.from)
                          /\ t < e.from

Timely(r, h, t) == \A g \in Group(r) : t >= latest[<<g, h>>]

ToldBegin(r, h, t) ==
  /\ truth' = [k \in DOMAIN truth |->
       IF k = <<r, h>>
       THEN IF Timely(r, h, t) THEN truth[k] \cup From(t)
            ELSE truth[k] \cup (From(t) \ Known(r, h))
       ELSE IF k[1] \in Rivals(r) /\ k[2] = h /\ Timely(r, h, t) THEN truth[k] \ From(t)
       ELSE truth[k]]
  /\ exact' = [k \in DOMAIN exact |->
       exact[k] /\ (k[1] \in Group(r) /\ k[2] = h => Timely(r, h, t) \/ LateBegin(r, h, t))]
  /\ latest' = [k \in DOMAIN latest |->
       IF k = <<r, h>> /\ t > latest[k] THEN t ELSE latest[k]]

ToldEnd(ks, t) ==
  /\ truth' = [k \in DOMAIN truth |->
                 IF k \in ks /\ t >= latest[k] THEN truth[k] \ From(t) ELSE truth[k]]
  /\ exact' = [k \in DOMAIN exact |->
                 exact[k] /\ (k \in ks => Timely(k[1], k[2], t) \/ t \notin truth[k])]
  /\ latest' = [k \in DOMAIN latest |-> IF k \in ks /\ t > latest[k] THEN t ELSE latest[k]]

-----------------------------------------------------------------------------
(* The fold of one episode. *)

Begins(what, h, t) ==
  LET r == Asserted(what) IN
  /\ edges' = Superseded(Upserted(r, h, t), r, h)
  /\ ToldBegin(r, h, t)
  /\ UNCHANGED ended

MemberRemoved(h, t) ==
  LET gone == Invalidated("member", h, t) IN
  /\ edges' = (edges \ gone) \cup Closed(gone, t)
  /\ ToldEnd({<<"member", h>>}, t)
  /\ UNCHANGED ended

Mentions(h, t) ==
  /\ edges' = Upserted(Hinted, h, t)
  /\ ToldBegin(Hinted, h, t)
  /\ UNCHANGED ended

\* absence_target: the value opens with a word of absence; whatever the scope of the claim.
IsGone(node, t) ==
  LET gone == EndsOf(node, t) IN
  /\ edges' = (edges \ gone) \cup Closed(gone, t)
  /\ ended' = ended \cup Copies(node)
  /\ ToldEnd({k \in DOMAIN truth : NodeOf(k[1]) = node}, t)

\* presence_target, reopen_entity: the node is back, its edges are not resurrected.
IsBack(node) ==
  /\ ended' = ended \ Copies(node)
  /\ UNCHANGED <<edges, truth, latest, exact>>

-----------------------------------------------------------------------------
PresenceInit ==
  /\ edges = {} /\ ended = {} /\ events = 0
  /\ truth = [k \in Relations \X Homes |-> {}]
  /\ latest = [k \in Relations \X Homes |-> 0]
  /\ exact = [k \in Relations \X Homes |-> TRUE]

PresenceNext ==
  /\ events < MaxEvents /\ events' = events + 1
  /\ \/ \E h \in Homes, t \in Instants :
          \/ \E what \in {"org.member_added", "agent.deployed", "agent.stopped"} :
               Begins(what, h, t)
          \/ MemberRemoved(h, t) \/ Mentions(h, t)
     \/ \E node \in Nodes : (\E t \in Instants : IsGone(node, t)) \/ IsBack(node)

PresenceSpec == PresenceInit /\ [][PresenceNext]_presenceVars

PresenceTypeOK ==
  /\ edges \subseteq Edge /\ ended \subseteq Nodes \X Homes /\ events \in 0..MaxEvents
  /\ truth \in [Relations \X Homes -> SUBSET Instants]
  /\ latest \in [Relations \X Homes -> 0..LastInstant]
  /\ exact \in [Relations \X Homes -> BOOLEAN]

-----------------------------------------------------------------------------
(* Properties. *)

\* upsert_edge, invalidate_superseded, invalidate_edge, end_entity: "history stays
\* reachable as-of".  Whatever begins, ends and begins again, and through late news of an
\* end before the current beginning, a read as of any instant returns what was told of it.
AsOfIsWhatWasTold ==
  \A r \in Relations, h \in Homes : exact[<<r, h>>] => AsOf(r, h) = truth[<<r, h>>]
=============================================================================
