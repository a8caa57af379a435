---------------------------- MODULE KeyedFacts ----------------------------
(***************************************************************************)
(* The bi-temporal store of one keyed memory: a Metric anchor node, the    *)
(* MetricValue nodes claimed under it, and the functional HAS_VALUE edges  *)
(* between them.  A claim is folded by the updater (upsert nodes and edge, *)
(* supersede, mark the closed values), a person retracts, the worker       *)
(* closes what a writer dated and deletes what a working session left.     *)
(*                                                                         *)
(* One anchor is enough: a value's key starts with its anchor's key, and   *)
(* every query of the fold filters on the anchor's row, so two anchors     *)
(* share no row.  One fold is one step: it runs in one transaction, and    *)
(* the re-observation stamp it flushes on the anchor row before it reads   *)
(* the edges holds that row's lock until the commit.                       *)
(***************************************************************************)
EXTENDS Integers, FiniteSets

CONSTANTS
  Values,      \* the values claimed under the anchor
  Anchor,      \* the anchor itself, as a node
  Lifecycles,  \* episode lifecycles: a subset of {"committed", "working"}
  Horizons,    \* how far ahead of the claim a writer sets valid_until
  WorkingTtl,  \* settings.working_ttl_days
  MaxLag,      \* how late a claim may reach the fold
  MaxTime,     \* bound: the clock stops here
  MaxClaims    \* bound: claims folded

ASSUME ConstantsAssumption ==
  /\ Anchor \notin Values
  /\ Lifecycles \subseteq {"committed", "working"}
  /\ Horizons \subseteq Nat \ {0}
  /\ WorkingTtl \in Nat
  /\ MaxLag \in Nat

VARIABLES
  now,      \* the wall clock
  node,     \* node -> [status, expires_at]; status "absent" when it has no row
  row,      \* node -> the identity of its current row, new after a deletion
  edges,    \* the HAS_VALUE rows
  claims,   \* number of claims folded (bounds the model)
  settled   \* history: a durable claim was folded and nobody retracted since

vars == <<now, node, row, edges, claims, settled>>

Nodes == Values \union {Anchor}

Never == -1                       \* NULL in a timestamp column
Time  == Nat \union {Never}

Claim == [value : Values, occurred_at : Nat,
          lifecycle : Lifecycles, valid_until : Time]

Status == {"absent", "working", "committed", "superseded", "retracted", "expired"}

NodeRow == [status : Status, expires_at : Time, last_observed_at : Time]

NoRow == [status |-> "absent", expires_at |-> Never, last_observed_at |-> Never]

EdgeRow == [src : Nat, dst : Values, dst_row : Nat,
            valid_at : Nat, invalid_at : Time,
            ingested_at : Nat, expired_at : Time,
            status : {"working", "committed"}, expires_at : Time]

TypeOK ==
  /\ now \in Nat
  /\ node \in [Nodes -> NodeRow]
  /\ row \in [Nodes -> Nat]
  /\ edges \subseteq EdgeRow
  /\ claims \in Nat
  /\ settled \in BOOLEAN

-----------------------------------------------------------------------------
(* Validity windows: half open, Never as an end means still true. *)

IsOpen(e) == e.invalid_at = Never

\* mutant: an open end taken for an empty window
OverlapOfClosed(e, f) ==
  ~IsOpen(e) /\ ~IsOpen(f) /\ e.invalid_at > f.valid_at /\ f.invalid_at > e.valid_at

WindowsOverlap(e, f) ==
  /\ IsOpen(e) \/ e.invalid_at > f.valid_at
  /\ IsOpen(f) \/ f.invalid_at > e.valid_at

Covers(e, t) == e.valid_at <= t /\ (IsOpen(e) \/ e.invalid_at > t)

\* mutant: the belief-time end takes the world-time end of the window
CloseAtWorldTime(e, t) == [e EXCEPT !.invalid_at = t, !.expired_at = t]
Close(e, t) == [e EXCEPT !.invalid_at = t, !.expired_at = now]

Lapsed(r, t) == r.expires_at # Never /\ r.expires_at < t

-----------------------------------------------------------------------------
(* One observation of a row by an episode: _stamp of the updater.  A new   *)
(* row takes the episode's lifecycle; a known one is only ever promoted.   *)

Fresh(r, c) ==
  IF c.lifecycle = "working"
  THEN [r EXCEPT !.status = "working", !.expires_at = c.occurred_at + WorkingTtl]
  ELSE [r EXCEPT !.status = "committed", !.expires_at = Never]

Stamped(r, c) ==
  IF c.lifecycle = "committed" /\ r.status = "working"
  THEN [r EXCEPT !.status = "committed", !.expires_at = Never]
  ELSE r

WithExpiry(r, c) ==
  IF c.valid_until = Never THEN r ELSE [r EXCEPT !.expires_at = c.valid_until]

Observe(r, c) ==
  LET seen == [r EXCEPT !.last_observed_at = c.occurred_at]
  IN  IF r.status = "absent" THEN Fresh(seen, c) ELSE Stamped(seen, c)

-----------------------------------------------------------------------------
(* The edge stage of a fold. *)

OpenEdges == {e \in edges : IsOpen(e) /\ e.src = row[Anchor]}

PointsAt(e, v) == e.dst = v /\ e.dst_row = row[v]

Inserted(c) ==
  Fresh([src |-> row[Anchor], dst |-> c.value, dst_row |-> row[c.value],
         valid_at |-> c.occurred_at, invalid_at |-> Never,
         ingested_at |-> now, expired_at |-> Never,
         status |-> "committed", expires_at |-> Never], c)

InsertAlways(c) == {Inserted(c)}  \* mutant: the open edge is not looked up

\* upsert_edge: an open edge to the same value is asserted again and keeps its
\* valid_at; otherwise a row is inserted.
Upserted(c) ==
  LET same == {e \in OpenEdges : PointsAt(e, c.value)}
  IN  IF same = {} THEN {Inserted(c)} ELSE same

\* The edge after _stamp and the writer's valid_until.
Written(base, c) ==
  WithExpiry(IF base \in edges THEN Stamped(base, c) ELSE base, c)

\* nv >= ov: the new fact is the later one.
IsLaterFact(old, new) == new.valid_at >= old.valid_at

Rivals(new) == {e \in OpenEdges : ~PointsAt(e, new.dst) /\ WindowsOverlap(e, new)}

\* invalidate_superseded: an older rival closes where the new fact begins; if
\* a rival is newer, the new fact is a backfill and ends where a newer begins.
Superseded(new) == {e \in Rivals(new) : IsLaterFact(e, new)}

\* mutant: the new fact is bounded by the rivals it closes, too
BoundsByAnyRival(new) ==
  IF Rivals(new) = {} THEN {Never} ELSE {e.valid_at : e \in Rivals(new)}

Bounds(new) ==
  LET newer == Rivals(new) \ Superseded(new)
  IN  IF newer = {} THEN {Never} ELSE {e.valid_at : e \in newer}

Bounded(new, t) == IF t = Never THEN new ELSE Close(new, t)

EdgesAfter(base, new, t) ==
  (edges \ (Superseded(new) \union {base}))
    \union {Close(e, new.valid_at) : e \in Superseded(new)}
    \union {Bounded(new, t)}

\* Targets of the anchor's edges that satisfy P.
Targets(E) == {v \in Values : \E e \in E : e.src = row[Anchor] /\ PointsAt(e, v)}

OpenTargets(E) == Targets({e \in E : IsOpen(e)})
ClosedTargets(E) == Targets({e \in E : ~IsOpen(e)})

MarkedNever(n, r, E) == r  \* mutant: no hygiene after a supersession

\* mutant: the reopening update forgets that the edge must be open
MarkedReopeningAny(n, r, E) ==
  IF n \in Targets(E) /\ r.status = "superseded"
  THEN [r EXCEPT !.status = "committed"]
  ELSE IF n \in ClosedTargets(E) \ OpenTargets(E)
  THEN [r EXCEPT !.status = "superseded"]
  ELSE r

\* Value-node hygiene: closed and not reopened is superseded, and a superseded
\* value with an open edge is committed again.
Marked(n, r, E) ==
  IF n \in ClosedTargets(E) \ OpenTargets(E)
  THEN [r EXCEPT !.status = "superseded"]
  ELSE IF n \in OpenTargets(E) /\ r.status = "superseded"
  THEN [r EXCEPT !.status = "committed"]
  ELSE r

ObservedNode(n, c) ==
  IF n = c.value THEN WithExpiry(Observe(node[n], c), c)
  ELSE IF n = Anchor THEN Observe(node[n], c)
  ELSE node[n]

\* The fold of claim c once the asserted edge and the bound are chosen.
FoldOf(c, base, t) ==
  LET after == EdgesAfter(base, Written(base, c), t)
  IN  /\ edges' = after
      /\ node' = [n \in Nodes |-> Marked(n, ObservedNode(n, c), after)]
      /\ claims' = claims + 1
      /\ settled' = (settled \/ (c.lifecycle = "committed" /\ c.valid_until = Never))
      /\ UNCHANGED <<now, row>>

\* A keyed claim folded in one transaction: Updater.process_episode.
FoldClaim(c) ==
  \E base \in Upserted(c) : \E t \in Bounds(Written(base, c)) : FoldOf(c, base, t)

-----------------------------------------------------------------------------
(* What ends a memory outside the fold. *)

Touches(e, n) == IF n = Anchor THEN e.src = row[n] ELSE PointsAt(e, n)

CloseEdgesOf(n) ==
  {IF IsOpen(e) /\ Touches(e, n) THEN Close(e, now) ELSE e : e \in edges}

\* POST /memory/retract for one node.
Retract(n) ==
  /\ node[n].status \notin {"absent", "retracted"}
  /\ edges' = CloseEdgesOf(n)
  /\ node' = [node EXCEPT ![n].status = "retracted"]
  /\ settled' = FALSE
  /\ UNCHANGED <<now, row, claims>>

\* Committed nodes whose writer-set expiry has passed.  The anchor is never
\* one: only a working row of it carries an expiry.
Due == {n \in Nodes : node[n].status = "committed" /\ Lapsed(node[n], now)}

\* Worker._close_expired_committed: one transaction over every due node.
CloseExpired ==
  /\ Due # {}
  /\ edges' = {IF IsOpen(e) /\ \E v \in Due \ {Anchor} : PointsAt(e, v)
               THEN Close(e, node[e.dst].expires_at) ELSE e : e \in edges}
  /\ node' = [n \in Nodes |->
                IF n \in Due THEN [node[n] EXCEPT !.status = "expired"] ELSE node[n]]
  /\ UNCHANGED <<now, row, claims, settled>>

Sweepable(r) == r.status = "working" /\ Lapsed(r, now)

\* Worker._sweep_expired_working: edges first, then nodes; a node observed
\* again later gets a new row, which the surviving edges do not reference.
SweepWorking ==
  LET gone == {n \in Nodes : Sweepable(node[n])}
      dead == {e \in edges : Sweepable(e)}
  IN  /\ gone # {} \/ dead # {}
      /\ edges' = edges \ dead
      /\ node' = [n \in Nodes |->
                    IF n \in gone THEN NoRow ELSE node[n]]
      /\ row' = [n \in Nodes |-> IF n \in gone THEN row[n] + 1 ELSE row[n]]
      /\ UNCHANGED <<now, claims, settled>>

Tick ==
  /\ now < MaxTime
  /\ now' = now + 1
  /\ UNCHANGED <<node, row, edges, claims, settled>>

-----------------------------------------------------------------------------
Init ==
  /\ now = 0
  /\ node = [n \in Nodes |-> NoRow]
  /\ row = [n \in Nodes |-> 0]
  /\ edges = {}
  /\ claims = 0
  /\ settled = FALSE

\* The claims that can reach the fold now: at most MaxLag late, with a
\* valid_until after the instant they speak of, or none.
Arriving ==
  {c \in [value : Values, occurred_at : {now - lag : lag \in 0..MaxLag} \cap Nat,
          lifecycle : Lifecycles,
          valid_until : {Never} \union {now - lag + h : lag \in 0..MaxLag, h \in Horizons}] :
     c.valid_until = Never \/ c.valid_until - c.occurred_at \in Horizons}

FoldNext == claims < MaxClaims /\ \E c \in Arriving : FoldClaim(c)

Next ==
  \/ FoldNext
  \/ \E n \in Nodes : Retract(n)
  \/ CloseExpired
  \/ SweepWorking
  \/ Tick

Spec == Init /\ [][Next]_vars

-----------------------------------------------------------------------------
(* Safety. *)

\* An anchor has at most one open edge, whatever order its claims arrive in:
\* "the current view = one" that invalidate_superseded maintains edge by edge.
OneOpenEdge ==
  \A e, f \in edges : IsOpen(e) /\ IsOpen(f) /\ e.src = f.src => e = f

\* The value-node mark follows the edges: a superseded value has no open edge
\* from the anchor, so the fact list and the keyed expansion agree on it.
SupersededIsClosed ==
  \A v \in Values : node[v].status = "superseded" => v \notin OpenTargets(edges)

\* The values the fact list of the current view may serve (search filters).
Current ==
  {v \in Values : /\ node[v].status \in {"committed", "working"}
                  /\ node[v].expires_at = Never \/ node[v].expires_at > now}

\* At most one value of a key is served as a current fact.
OneCurrentValue == \A v, w \in Current : v = w

\* An as-of read in valid time returns one truth among the facts recorded when
\* they began to hold: no two of them name different values at one instant,
\* whatever late claims arrived in between.
AsOfOneTruth ==
  \A e, f \in {g \in edges : g.valid_at = g.ingested_at} : \A t \in 0..now :
    Covers(e, t) /\ Covers(f, t) /\ e.src = f.src => e.dst = f.dst

\* Durable knowledge is not lost: once a durable undated claim is folded, and
\* until a person retracts, the anchor has a current value.
DurableKnowledgeKept == settled => OpenEdges # {}

-----------------------------------------------------------------------------
(* Action properties. *)

\* Only a claim that names a value can bring it (back) into the current view:
\* no retraction, expiry, sweep or claim of another value resurrects it.
NoResurrection ==
  [][\A v \in Values : v \in Current' \ Current =>
       \E c \in Arriving : c.value = v /\ FoldClaim(c)]_vars

\* What the ledger believed at an instant already past never changes, except
\* that the sweep physically removes working rows.
Believed(E, t) ==
  {<<e.src, e.dst, e.dst_row, e.valid_at, e.ingested_at>> :
     e \in {f \in E : f.ingested_at <= t /\ (f.expired_at = Never \/ f.expired_at > t)}}

BeliefIsStable ==
  [][\A t \in 0..(now - 1) :
       /\ Believed(edges, t) \subseteq
            Believed(edges', t) \union Believed({e \in edges : Sweepable(e)}, t)
       /\ Believed(edges', t) \subseteq Believed(edges, t)]_vars
=============================================================================
