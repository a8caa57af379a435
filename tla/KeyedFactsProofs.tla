-------------------------- MODULE KeyedFactsProofs --------------------------
(***************************************************************************)
(* Proofs about the keyed store for every set of values, every ttl, every  *)
(* horizon and every lag of the claims.                                    *)
(***************************************************************************)
EXTENDS KeyedFacts, TLAPS

LEMMA ArrivingAreClaims ==
  ASSUME TypeOK, NEW c \in Arriving
  PROVE  c \in Claim
<1> USE ConstantsAssumption DEF TypeOK
<1>1. c.value \in Values /\ c.occurred_at \in Nat /\ c.lifecycle \in Lifecycles
  BY DEF Arriving
<1>2. c.valid_until \in Time
  <2>1. CASE c.valid_until = Never
    BY <2>1 DEF Time
  <2>2. CASE c.valid_until # Never
    <3>1. c.valid_until \in Int /\ c.valid_until - c.occurred_at \in Horizons
      BY <2>2 DEF Arriving
    <3>2. c.valid_until - c.occurred_at \in Nat
      BY <3>1
    <3> QED BY <1>1, <3>1, <3>2 DEF Time
  <2> QED BY <2>1, <2>2
<1>3. c = [value |-> c.value, occurred_at |-> c.occurred_at,
           lifecycle |-> c.lifecycle, valid_until |-> c.valid_until]
  BY DEF Arriving
<1> QED BY <1>1, <1>2, <1>3 DEF Claim

LEMMA WithExpiryType ==
  ASSUME NEW c \in Claim
  PROVE  /\ \A e \in EdgeRow :
              /\ WithExpiry(e, c) \in EdgeRow /\ Stamped(e, c) \in EdgeRow
              /\ Fresh(e, c) \in EdgeRow
         /\ \A r \in NodeRow :
              /\ WithExpiry(r, c) \in NodeRow /\ Observe(r, c) \in NodeRow
<1> USE ConstantsAssumption DEF Claim, Time, Never
<1>0. /\ c.occurred_at + WorkingTtl \in Nat /\ c.occurred_at \in Nat
      /\ c.valid_until \in Nat \union {-1}
  OBVIOUS
<1>1. ASSUME NEW e \in EdgeRow
      PROVE  /\ WithExpiry(e, c) \in EdgeRow /\ Stamped(e, c) \in EdgeRow
             /\ Fresh(e, c) \in EdgeRow
  <2>1. WithExpiry(e, c) \in EdgeRow
    BY <1>0, <1>1 DEF EdgeRow, WithExpiry
  <2>2. Stamped(e, c) \in EdgeRow
    BY <1>0, <1>1 DEF EdgeRow, Stamped
  <2>3. Fresh(e, c) \in EdgeRow
    BY <1>0, <1>1 DEF EdgeRow, Fresh
  <2> QED BY <2>1, <2>2, <2>3
<1>2. ASSUME NEW r \in NodeRow
      PROVE  /\ WithExpiry(r, c) \in NodeRow /\ Observe(r, c) \in NodeRow
  <2> DEFINE seen == [r EXCEPT !.last_observed_at = c.occurred_at]
  <2>1. seen \in NodeRow
    BY <1>0, <1>2 DEF NodeRow
  <2>2. ASSUME NEW s \in NodeRow
        PROVE  WithExpiry(s, c) \in NodeRow /\ Fresh(s, c) \in NodeRow
               /\ Stamped(s, c) \in NodeRow
    BY <1>0, <2>2 DEF NodeRow, Status, WithExpiry, Fresh, Stamped
  <2>3. Observe(r, c) \in NodeRow
    BY <2>1, <2>2 DEF Observe
  <2> QED BY <1>2, <2>2, <2>3
<1> QED BY <1>1, <1>2

\* What the fold knows of the edge it has just written, before it looks at the
\* rivals: an open edge of the anchor to the claimed value.
LEMMA WrittenEdge ==
  ASSUME TypeOK, NEW c \in Claim, NEW base \in Upserted(c)
  PROVE  LET new == Written(base, c)
         IN  /\ new \in EdgeRow
             /\ new.src = row[Anchor] /\ new.dst = c.value /\ new.dst_row = row[c.value]
             /\ IsOpen(new)
             /\ base \in edges => base \in OpenEdges /\ PointsAt(base, c.value)
                                    /\ new.valid_at = base.valid_at
                                    /\ new.ingested_at = base.ingested_at
             /\ base \notin edges => new.valid_at = c.occurred_at /\ new.ingested_at = now
<1> USE ConstantsAssumption DEF TypeOK
<1> DEFINE new == Written(base, c)
           same == {e \in OpenEdges : PointsAt(e, c.value)}
           blank == [src |-> row[Anchor], dst |-> c.value, dst_row |-> row[c.value],
                     valid_at |-> c.occurred_at, invalid_at |-> Never,
                     ingested_at |-> now, expired_at |-> Never,
                     status |-> "committed", expires_at |-> Never]
<1>0. base = Inserted(c) \/ base \in same
  BY DEF Upserted
<1>1. blank \in EdgeRow
  BY DEF EdgeRow, Claim, Nodes, Time
<1>2. Inserted(c) \in EdgeRow
  BY <1>1, WithExpiryType DEF Inserted
<1>3. /\ Inserted(c).src = row[Anchor] /\ Inserted(c).dst = c.value
      /\ Inserted(c).dst_row = row[c.value] /\ IsOpen(Inserted(c))
      /\ Inserted(c).valid_at = c.occurred_at /\ Inserted(c).ingested_at = now
  BY DEF Inserted, Fresh, IsOpen
<1>4. /\ base \in EdgeRow /\ base.src = row[Anchor] /\ base.dst = c.value
      /\ base.dst_row = row[c.value] /\ IsOpen(base)
  BY <1>0, <1>2, <1>3 DEF OpenEdges, PointsAt
<1>5. \A e \in EdgeRow :
        /\ Stamped(e, c).src = e.src /\ Stamped(e, c).dst = e.dst
        /\ Stamped(e, c).dst_row = e.dst_row /\ Stamped(e, c).invalid_at = e.invalid_at
        /\ Stamped(e, c).valid_at = e.valid_at
        /\ Stamped(e, c).ingested_at = e.ingested_at /\ Stamped(e, c) \in EdgeRow
        /\ WithExpiry(e, c).src = e.src /\ WithExpiry(e, c).dst = e.dst
        /\ WithExpiry(e, c).dst_row = e.dst_row /\ WithExpiry(e, c).invalid_at = e.invalid_at
        /\ WithExpiry(e, c).valid_at = e.valid_at
        /\ WithExpiry(e, c).ingested_at = e.ingested_at /\ WithExpiry(e, c) \in EdgeRow
  <2>1. \A e \in EdgeRow : Stamped(e, c) \in EdgeRow /\ WithExpiry(e, c) \in EdgeRow
    BY WithExpiryType
  <2> QED BY <2>1 DEF Stamped, WithExpiry, EdgeRow
<1>6. /\ new \in EdgeRow
      /\ new.src = row[Anchor] /\ new.dst = c.value /\ new.dst_row = row[c.value]
      /\ IsOpen(new) /\ new.valid_at = base.valid_at
      /\ new.ingested_at = base.ingested_at
  BY <1>4, <1>5 DEF Written, IsOpen
<1>7. base \in edges => base \in OpenEdges /\ PointsAt(base, c.value)
  BY <1>4 DEF OpenEdges, PointsAt
<1>8. base \notin edges => base = Inserted(c)
  BY <1>0 DEF OpenEdges
<1> QED BY <1>3, <1>6, <1>7, <1>8

LEMMA CloseType ==
  ASSUME now \in Nat, NEW e \in EdgeRow, NEW t \in Time
  PROVE  Close(e, t) \in EdgeRow /\ Bounded(e, t) \in EdgeRow
BY DEF Close, Bounded, EdgeRow, Time

LEMMA BoundsType ==
  ASSUME TypeOK, NEW new \in EdgeRow, NEW t \in Bounds(new)
  PROVE  t \in Time
BY DEF Bounds, Rivals, OpenEdges, TypeOK, EdgeRow, Time

LEMMA EdgesAfterType ==
  ASSUME TypeOK, NEW base, NEW new \in EdgeRow, NEW t \in Time
  PROVE  EdgesAfter(base, new, t) \subseteq EdgeRow
<1>1. new.valid_at \in Time
  BY DEF EdgeRow, Time
<1>2. \A e \in Superseded(new) : e \in EdgeRow
  BY DEF Superseded, Rivals, OpenEdges, TypeOK
<1>3. \A e \in Superseded(new) : Close(e, new.valid_at) \in EdgeRow
  BY <1>1, <1>2, CloseType DEF TypeOK
<1>4. Bounded(new, t) \in EdgeRow
  BY CloseType DEF TypeOK
<1> QED BY <1>3, <1>4 DEF EdgesAfter, TypeOK

LEMMA FoldType ==
  ASSUME TypeOK, NEW c \in Claim, FoldClaim(c)
  PROVE  TypeOK'
<1>0. PICK base \in Upserted(c) : \E t \in Bounds(Written(base, c)) : FoldOf(c, base, t)
  BY DEF FoldClaim
<1>1. PICK t \in Bounds(Written(base, c)) : FoldOf(c, base, t)
  BY <1>0
<1>2. Written(base, c) \in EdgeRow
  BY WrittenEdge
<1>3. t \in Time
  BY <1>2, BoundsType
<1>4. edges' \subseteq EdgeRow
  BY <1>1, <1>2, <1>3, EdgesAfterType DEF FoldOf
<1>5. node' \in [Nodes -> NodeRow]
  <2>1. \A n \in Nodes : ObservedNode(n, c) \in NodeRow
    BY WithExpiryType DEF ObservedNode, TypeOK
  <2>2. ASSUME NEW r \in NodeRow, NEW n, NEW E PROVE Marked(n, r, E) \in NodeRow
    BY <2>2 DEF Marked, NodeRow, Status
  <2> QED BY <1>1, <2>1, <2>2 DEF FoldOf
<1>6. settled' \in BOOLEAN
  BY <1>1 DEF TypeOK, FoldOf
<1> QED BY <1>1, <1>4, <1>5, <1>6 DEF TypeOK, FoldOf

LEMMA InitTypeOK == Init => TypeOK
<1> SUFFICES ASSUME Init PROVE TypeOK
  OBVIOUS
<1>1. NoRow \in NodeRow
  BY DEF NoRow, NodeRow, Status, Time
<1>2. now \in Nat /\ edges \subseteq EdgeRow /\ claims \in Nat
  BY DEF Init
<1>3. node \in [Nodes -> NodeRow] /\ row \in [Nodes -> Nat]
  BY <1>1 DEF Init
<1>4. settled \in BOOLEAN
  BY DEF Init
<1> QED BY <1>2, <1>3, <1>4 DEF TypeOK

\* Type correctness of the keyed store.
THEOREM TypeCorrect == Spec => []TypeOK
<1> USE ConstantsAssumption
<1>1. Init => TypeOK
  BY InitTypeOK
<1>2. TypeOK /\ [Next]_vars => TypeOK'
  <2> SUFFICES ASSUME TypeOK, [Next]_vars PROVE TypeOK'
    OBVIOUS
  <2>1. CASE FoldNext
    BY <2>1, ArrivingAreClaims, FoldType DEF FoldNext
  <2>2. ASSUME NEW n \in Nodes, Retract(n) PROVE TypeOK'
    <3>1. edges' \subseteq EdgeRow
      <4>1. \A e \in edges : Close(e, now) \in EdgeRow
        BY CloseType DEF TypeOK, Time
      <4> QED BY <2>2, <4>1 DEF Retract, CloseEdgesOf, TypeOK
    <3>2. node' \in [Nodes -> NodeRow]
      BY <2>2 DEF Retract, TypeOK, NodeRow, Status
    <3> QED BY <2>2, <3>1, <3>2 DEF Retract, TypeOK
  <2>3. CASE CloseExpired
    <3>1. edges' \subseteq EdgeRow
      <4>1. \A e \in edges : Close(e, node[e.dst].expires_at) \in EdgeRow
        <5>1. \A e \in edges : node[e.dst].expires_at \in Time
          BY DEF TypeOK, EdgeRow, NodeRow, Nodes
        <5> QED BY <5>1, CloseType DEF TypeOK
      <4> QED BY <2>3, <4>1 DEF CloseExpired, TypeOK
    <3>2. node' \in [Nodes -> NodeRow]
      BY <2>3 DEF CloseExpired, TypeOK, NodeRow, Status
    <3> QED BY <2>3, <3>1, <3>2 DEF CloseExpired, TypeOK
  <2>4. CASE SweepWorking
    <3>1. node' \in [Nodes -> NodeRow]
      BY <2>4 DEF SweepWorking, TypeOK, NoRow, NodeRow, Status, Time
    <3>2. row' \in [Nodes -> Nat]
      BY <2>4 DEF SweepWorking, TypeOK
    <3> QED BY <2>4, <3>1, <3>2 DEF SweepWorking, TypeOK
  <2>5. CASE Tick
    BY <2>5 DEF Tick, TypeOK
  <2>6. CASE UNCHANGED vars
    BY <2>6 DEF vars, TypeOK
  <2> QED BY <2>1, <2>2, <2>3, <2>4, <2>5, <2>6 DEF Next
<1> QED BY <1>1, <1>2, PTL DEF Spec

-----------------------------------------------------------------------------
(* At most one open edge per anchor row. *)

\* A fold leaves no rival open beside the claimed edge: every other open edge
\* of the anchor pointed elsewhere, so it was closed, or it bounds the new one.
LEMMA FoldOneOpen ==
  ASSUME TypeOK, OneOpenEdge, NEW c \in Claim, FoldClaim(c)
  PROVE  OneOpenEdge'
<1>0. PICK base \in Upserted(c) : \E t \in Bounds(Written(base, c)) : FoldOf(c, base, t)
  BY DEF FoldClaim
<1>1. PICK t \in Bounds(Written(base, c)) : FoldOf(c, base, t)
  BY <1>0
<1> DEFINE new == Written(base, c)
<1>2. /\ new \in EdgeRow /\ new.src = row[Anchor] /\ IsOpen(new)
      /\ new.dst = c.value /\ new.dst_row = row[c.value]
      /\ base \in edges => base \in OpenEdges /\ PointsAt(base, c.value)
  BY WrittenEdge
<1>3. base \notin edges => \A e \in OpenEdges : ~PointsAt(e, c.value)
  BY DEF Upserted, OpenEdges
<1>4. \A e \in OpenEdges : e # base => e \in Rivals(new)
  <2>1. ASSUME NEW e \in OpenEdges, e # base PROVE ~PointsAt(e, new.dst)
    <3>1. CASE base \in edges
      BY <1>2, <2>1, <3>1 DEF OneOpenEdge, OpenEdges
    <3>2. CASE base \notin edges
      BY <1>2, <1>3, <3>2
    <3> QED BY <3>1, <3>2
  <2> QED BY <1>2, <2>1 DEF Rivals, WindowsOverlap, OpenEdges
<1>5. \A e \in Superseded(new) : ~IsOpen(Close(e, new.valid_at))
  <2>1. new.valid_at # Never
    BY <1>2 DEF EdgeRow, Never
  <2>2. \A e \in Superseded(new) : e \in EdgeRow
    BY DEF Superseded, Rivals, OpenEdges, TypeOK
  <2> QED BY <2>1, <2>2 DEF Close, IsOpen, EdgeRow
<1>6. \A e \in edges' : IsOpen(e) /\ e.src = row[Anchor] =>
        \/ e = Bounded(new, t)
        \/ e \in Rivals(new) \ Superseded(new)
  BY <1>1, <1>4, <1>5 DEF FoldOf, EdgesAfter, OpenEdges
<1>7. IsOpen(Bounded(new, t)) => Rivals(new) \ Superseded(new) = {}
  <2>1. CASE t = Never
    <3>1. \A e \in Rivals(new) : e.valid_at # Never
      BY DEF Rivals, OpenEdges, TypeOK, EdgeRow, Never
    <3> QED BY <2>1, <3>1 DEF Bounds
  <2>2. CASE t # Never
    BY <1>2, <2>2 DEF Bounded, Close, IsOpen, EdgeRow
  <2> QED BY <2>1, <2>2
<1>8. \A e \in edges' : e.src # row[Anchor] => e \in edges
  <2>1. Bounded(new, t).src = row[Anchor]
    BY <1>2 DEF Bounded, Close, EdgeRow
  <2>2. \A e \in Superseded(new) : Close(e, new.valid_at).src = row[Anchor]
    BY DEF Superseded, Rivals, OpenEdges, Close, TypeOK, EdgeRow
  <2> QED BY <1>1, <2>1, <2>2 DEF FoldOf, EdgesAfter
<1>9. \A e, f \in Rivals(new) : e = f
  BY DEF Rivals, OpenEdges, OneOpenEdge
<1> SUFFICES ASSUME NEW e \in edges', NEW f \in edges', IsOpen(e), IsOpen(f), e.src = f.src
             PROVE  e = f
  BY DEF OneOpenEdge, IsOpen
<1>10. CASE e.src = row[Anchor]
  BY <1>6, <1>7, <1>9, <1>10
<1>11. CASE e.src # row[Anchor]
  BY <1>8, <1>11 DEF OneOpenEdge
<1> QED BY <1>10, <1>11

\* A step that only closes or removes edges opens none.
LEMMA ClosingKeepsOneOpen ==
  ASSUME OneOpenEdge, \A e \in edges' : IsOpen(e) => e \in edges
  PROVE  OneOpenEdge'
BY DEF OneOpenEdge, IsOpen

\* An anchor never has two open edges, in whatever order its claims arrive.
THEOREM OneOpenEdgeHolds == Spec => []OneOpenEdge
<1>1. Init => OneOpenEdge
  BY DEF Init, OneOpenEdge
<1>2. TypeOK /\ OneOpenEdge /\ [Next]_vars => OneOpenEdge'
  <2> SUFFICES ASSUME TypeOK, OneOpenEdge, [Next]_vars PROVE OneOpenEdge'
    OBVIOUS
  <2>1. CASE FoldNext
    BY <2>1, ArrivingAreClaims, FoldOneOpen DEF FoldNext
  <2>2. ASSUME NEW n \in Nodes, Retract(n) PROVE OneOpenEdge'
    <3>1. \A e \in edges : ~IsOpen(Close(e, now))
      BY DEF Close, IsOpen, TypeOK, EdgeRow, Never
    <3> QED BY <2>2, <3>1, ClosingKeepsOneOpen DEF Retract, CloseEdgesOf
  <2>3. CASE CloseExpired
    <3>1. \A v \in Due : node[v].expires_at # Never
      BY DEF Due, Lapsed
    <3>2. \A e \in edges, v \in Due \ {Anchor} :
            PointsAt(e, v) => ~IsOpen(Close(e, node[e.dst].expires_at))
      BY <3>1 DEF Close, IsOpen, PointsAt, TypeOK, EdgeRow
    <3> QED BY <2>3, <3>2, ClosingKeepsOneOpen DEF CloseExpired
  <2>4. CASE SweepWorking
    BY <2>4, ClosingKeepsOneOpen DEF SweepWorking
  <2>5. CASE Tick
    BY <2>5 DEF Tick, OneOpenEdge
  <2>6. CASE UNCHANGED vars
    BY <2>6 DEF vars, OneOpenEdge
  <2> QED BY <2>1, <2>2, <2>3, <2>4, <2>5, <2>6 DEF Next
<1> QED BY <1>1, <1>2, TypeCorrect, PTL DEF Spec

-----------------------------------------------------------------------------
(* One truth as of every instant, for the facts recorded as they began to  *)
(* hold.  The strengthening: no edge is recorded before it holds, no       *)
(* window reaches beyond now, and two punctual windows of one anchor that  *)
(* share an instant, past or future, tell the same value.                  *)

WindowsInThePast ==
  \A e \in edges : /\ e.valid_at <= e.ingested_at /\ e.ingested_at <= now
                   /\ IsOpen(e) \/ e.invalid_at <= now

IsPunctual(e) == e.valid_at = e.ingested_at

OneTruth ==
  \A e, f \in edges : \A t \in Nat :
    (IsPunctual(e) /\ IsPunctual(f) /\ Covers(e, t) /\ Covers(f, t) /\ e.src = f.src)
      => e.dst = f.dst

IInv == TypeOK /\ OneOpenEdge /\ WindowsInThePast /\ OneTruth

\* Edge e says no more than edge f, and nothing about the future.
Narrows(e, f) ==
  /\ e.src = f.src /\ e.dst = f.dst
  /\ e.valid_at = f.valid_at /\ e.ingested_at = f.ingested_at
  /\ IsOpen(e) \/ e.invalid_at \in 0..now
  /\ \A t \in Nat : Covers(e, t) => Covers(f, t)

LEMMA CloseNarrows ==
  ASSUME NEW f \in EdgeRow, IsOpen(f), NEW x \in Nat
  PROVE  /\ Close(f, x).invalid_at = x /\ ~IsOpen(Close(f, x))
         /\ \A t \in Nat : Covers(Close(f, x), t) => Covers(f, t) /\ t < x
         /\ now \in Nat /\ x <= now => Narrows(Close(f, x), f)
BY DEF Close, Covers, IsOpen, EdgeRow, Never, Narrows

LEMMA NarrowingKeeps ==
  ASSUME IInv, now' = now, \A e \in edges' : \E f \in edges : Narrows(e, f)
  PROVE  WindowsInThePast' /\ OneTruth'
<1>1. WindowsInThePast'
  BY DEF WindowsInThePast, IsOpen, IInv, TypeOK, Narrows
<1>2. OneTruth'
  BY DEF OneTruth, IInv, Covers, IsOpen, IsPunctual, Narrows
<1> QED BY <1>1, <1>2

\* Every edge after the step is an edge before it, or its closing by now.
OnlyCloses ==
  \A e \in edges' : \E f \in edges :
    \/ e = f
    \/ IsOpen(f) /\ \E x \in Nat : x <= now /\ e = Close(f, x)

LEMMA OnlyClosesKeeps ==
  ASSUME IInv, OnlyCloses, now' = now
  PROVE  WindowsInThePast' /\ OneTruth'
<1>1. ASSUME NEW e \in edges'
      PROVE  \E f \in edges : Narrows(e, f)
  <2>1. PICK f \in edges : \/ e = f
                           \/ IsOpen(f) /\ \E x \in Nat : x <= now /\ e = Close(f, x)
    BY DEF OnlyCloses
  <2>2. CASE e = f
    BY <2>2 DEF IInv, TypeOK, EdgeRow, Time, Never, IsOpen, WindowsInThePast, Narrows
  <2>3. ASSUME IsOpen(f), NEW x \in Nat, x <= now, e = Close(f, x)
        PROVE  Narrows(e, f)
    BY <2>3, CloseNarrows DEF IInv, TypeOK
  <2> QED BY <2>1, <2>2, <2>3
<1> QED BY <1>1, NarrowingKeeps

\* The fold leaves the other edges no wider, and a new window recorded when it
\* begins to hold starts where every other window of its anchor has ended.
LEMMA FoldKeepsTruth ==
  ASSUME IInv, NEW c \in Arriving, FoldClaim(c)
  PROVE  WindowsInThePast' /\ OneTruth'
<1> USE DEF IInv
<1>a. c \in Claim /\ c.occurred_at <= now /\ now \in Nat
  BY ArrivingAreClaims DEF Arriving, TypeOK
<1>0. PICK base \in Upserted(c) : \E t \in Bounds(Written(base, c)) : FoldOf(c, base, t)
  BY DEF FoldClaim
<1>1. PICK t \in Bounds(Written(base, c)) : FoldOf(c, base, t)
  BY <1>0
<1> DEFINE new == Written(base, c)
           written == Bounded(new, t)
<1>2. /\ new \in EdgeRow /\ new.src = row[Anchor] /\ IsOpen(new)
      /\ new.dst = c.value /\ new.dst_row = row[c.value]
      /\ base \in edges => base \in OpenEdges /\ PointsAt(base, c.value)
                             /\ new.valid_at = base.valid_at
                             /\ new.ingested_at = base.ingested_at
      /\ base \notin edges => new.valid_at = c.occurred_at /\ new.ingested_at = now
  BY <1>a, WrittenEdge
<1>3. base \notin edges => \A e \in OpenEdges : ~PointsAt(e, c.value)
  BY DEF Upserted, OpenEdges
<1>4. base \in edges => Rivals(new) = {}
  BY <1>2 DEF Rivals, OpenEdges, OneOpenEdge
<1>5. t = Never \/ (t \in Nat /\ t <= now /\ new.valid_at < t)
  <2>1. t = Never \/ \E e \in Rivals(new) \ Superseded(new) : t = e.valid_at
    BY <1>1 DEF Bounds
  <2> QED BY <1>2, <2>1 DEF Rivals, Superseded, OpenEdges, IsLaterFact, EdgeRow,
                            TypeOK, WindowsInThePast
<1>6. edges' = (edges \ (Superseded(new) \union {base}))
                 \union {Close(e, new.valid_at) : e \in Superseded(new)} \union {written}
  BY <1>1 DEF FoldOf, EdgesAfter
<1>7. /\ now' = now /\ new.valid_at \in Nat /\ new.ingested_at \in Nat
      /\ new.valid_at <= new.ingested_at /\ new.ingested_at <= now
  BY <1>a, <1>1, <1>2 DEF FoldOf, WindowsInThePast, OpenEdges, EdgeRow
<1>8. Narrows(written, new)
  <2>1. CASE t = Never
    BY <1>2, <2>1 DEF Bounded, Narrows
  <2>2. CASE t # Never
    <3>1. written = Close(new, t)
      BY <2>2 DEF Bounded
    <3>2. new \in EdgeRow /\ IsOpen(new) /\ t \in Nat /\ t <= now /\ now \in Nat
      BY <1>a, <1>2, <1>5, <2>2
    <3> HIDE DEF new, written
    <3> QED BY <3>1, <3>2, CloseNarrows
  <2> QED BY <2>1, <2>2
<1>9. Superseded(new) \subseteq edges /\ \A e \in Superseded(new) : e \in EdgeRow /\ IsOpen(e)
  BY DEF Superseded, Rivals, OpenEdges, TypeOK
\* An edge other than the written one says no more than an edge before.
<1>10. ASSUME NEW e \in edges', e # written
       PROVE  \E f \in edges \ {base} :
                Narrows(e, f) /\ (~IsOpen(e) \/ (e = f /\ f \notin Superseded(new)))
  <2>1. CASE e \in edges \ (Superseded(new) \union {base})
    BY <2>1 DEF Narrows, WindowsInThePast, TypeOK, EdgeRow, Time, Never, IsOpen
  <2>2. ASSUME NEW f \in Superseded(new), e = Close(f, new.valid_at)
        PROVE  f \in edges \ {base} /\ Narrows(e, f) /\ ~IsOpen(e)
    <3>1. f \in edges /\ f \in Rivals(new) /\ f \in EdgeRow /\ IsOpen(f)
      BY <1>9 DEF Superseded
    <3>2. f # base
      BY <1>4, <3>1
    <3>3. now \in Nat /\ new.valid_at \in Nat /\ new.valid_at <= now
      BY <1>a, <1>7
    <3> HIDE DEF new
    <3>4. Narrows(e, f) /\ ~IsOpen(e)
      BY <2>2, <3>1, <3>3, CloseNarrows
    <3> QED BY <3>1, <3>2, <3>4
  <2> QED BY <1>6, <1>10, <2>1, <2>2
<1> HIDE DEF written
<1>11. CASE base \in edges
  <2>1. Narrows(new, base)
    BY <1>2, <1>11 DEF Narrows, Covers, OpenEdges, IsOpen, PointsAt
  <2>2. Narrows(written, base)
    BY <1>8, <2>1 DEF Narrows
  <2>3. \A e \in edges' : \E f \in edges : Narrows(e, f)
    BY <1>10, <1>11, <2>2
  <2> QED BY <1>7, <2>3, NarrowingKeeps
<1>12. CASE base \notin edges
  <2>1. ASSUME NEW e \in edges', e # written, e.src = written.src, IsPunctual(written),
               NEW u \in Nat, Covers(e, u), Covers(written, u)
        PROVE  FALSE
    <3>1. new.valid_at = now /\ now <= u
      BY <1>2, <1>7, <1>8, <1>12, <2>1 DEF Narrows, Covers, IsPunctual
    <3>2. PICK f \in edges \ {base} :
              Narrows(e, f) /\ (~IsOpen(e) \/ (e = f /\ f \notin Superseded(new)))
      BY <1>10, <2>1
    <3>3. f \in EdgeRow /\ e.src = f.src /\ f.valid_at <= now
      BY <1>7, <3>2 DEF Narrows, TypeOK, WindowsInThePast, EdgeRow
    <3>4. IsOpen(e)
      BY <1>a, <2>1, <3>1, <3>2 DEF Covers, Narrows
    <3>5. e = f /\ f \notin Superseded(new)
      BY <3>2, <3>4
    <3>6. f \in Rivals(new)
      BY <1>2, <1>3, <1>8, <1>12, <2>1, <3>2, <3>3, <3>4, <3>5
      DEF Rivals, OpenEdges, WindowsOverlap, Narrows
    <3>7. f \in Superseded(new)
      BY <3>1, <3>3, <3>6 DEF Superseded, IsLaterFact
    <3> QED BY <3>5, <3>7
  <2>2. WindowsInThePast'
    <3>1. \A e \in edges' : /\ e.valid_at <= e.ingested_at /\ e.ingested_at <= now
                            /\ IsOpen(e) \/ e.invalid_at <= now
      <4>1. ASSUME NEW e \in edges', e # written
            PROVE  /\ e.valid_at <= e.ingested_at /\ e.ingested_at <= now
                   /\ IsOpen(e) \/ e.invalid_at <= now
        BY <1>10, <4>1 DEF Narrows, WindowsInThePast
      <4>2. /\ written.valid_at <= written.ingested_at /\ written.ingested_at <= now
            /\ IsOpen(written) \/ written.invalid_at <= now
        BY <1>7, <1>8 DEF Narrows
      <4> QED BY <4>1, <4>2
    <3> QED BY <1>7, <3>1 DEF WindowsInThePast, IsOpen
  <2>3. OneTruth'
    <3> SUFFICES ASSUME NEW e \in edges', NEW f \in edges', NEW u \in Nat,
                        IsPunctual(e), IsPunctual(f),
                        Covers(e, u), Covers(f, u), e.src = f.src
                 PROVE  e.dst = f.dst
      BY DEF OneTruth, Covers, IsOpen, IsPunctual
    <3>1. CASE e # written /\ f # written
      <4>1. PICK g \in edges : Narrows(e, g)
        BY <1>10, <3>1
      <4>2. PICK h \in edges : Narrows(f, h)
        BY <1>10, <3>1
      <4>3. /\ IsPunctual(g) /\ IsPunctual(h) /\ Covers(g, u) /\ Covers(h, u)
            /\ g.src = h.src
        BY <4>1, <4>2 DEF Narrows, IsPunctual
      <4> QED BY <4>1, <4>2, <4>3 DEF OneTruth, Narrows
    <3>2. CASE e = written \/ f = written
      BY <2>1, <3>2
    <3> QED BY <3>1, <3>2
  <2> QED BY <2>2, <2>3
<1> QED BY <1>11, <1>12

\* Among the facts recorded when they began to hold, an as-of read in valid time
\* never finds two values of one key: whatever is claimed late in between,
\* retracted, expired or swept.
THEOREM AsOfOneTruthHolds == Spec => []AsOfOneTruth
<1>1. Init => IInv
  <2>1. Init => WindowsInThePast /\ OneTruth /\ OneOpenEdge
    BY DEF Init, WindowsInThePast, OneTruth, OneOpenEdge
  <2> QED BY <2>1, InitTypeOK DEF IInv
<1>2. IInv /\ [Next]_vars /\ TypeOK' /\ OneOpenEdge' => IInv'
  <2> SUFFICES ASSUME IInv, [Next]_vars PROVE WindowsInThePast' /\ OneTruth'
    BY DEF IInv
  <2> USE DEF IInv
  <2>1. CASE FoldNext
    BY <2>1, FoldKeepsTruth DEF FoldNext
  <2>2. ASSUME NEW n \in Nodes, Retract(n) PROVE WindowsInThePast' /\ OneTruth'
    <3>1. OnlyCloses
      BY <2>2 DEF OnlyCloses, Retract, CloseEdgesOf, TypeOK
    <3> QED BY <2>2, <3>1, OnlyClosesKeeps DEF Retract
  <2>3. CASE CloseExpired
    <3>1. ASSUME NEW e \in edges, NEW v \in Due \ {Anchor}, PointsAt(e, v)
          PROVE  node[e.dst].expires_at \in Nat /\ node[e.dst].expires_at <= now
      BY <3>1 DEF Due, Lapsed, PointsAt, TypeOK, NodeRow, Time, Never
    <3>2. OnlyCloses
      BY <2>3, <3>1 DEF OnlyCloses, CloseExpired
    <3> QED BY <2>3, <3>2, OnlyClosesKeeps DEF CloseExpired
  <2>4. CASE SweepWorking
    <3>1. OnlyCloses
      BY <2>4 DEF OnlyCloses, SweepWorking
    <3> QED BY <2>4, <3>1, OnlyClosesKeeps DEF SweepWorking
  <2>5. CASE Tick
    <3>1. now' = now + 1 /\ edges' = edges
      BY <2>5 DEF Tick
    <3>2. WindowsInThePast'
      BY <3>1 DEF WindowsInThePast, IsOpen, TypeOK, EdgeRow, Time, Never
    <3>3. OneTruth'
      BY <3>1 DEF OneTruth, Covers, IsOpen, IsPunctual
    <3> QED BY <3>2, <3>3
  <2>6. CASE UNCHANGED vars
    BY <2>6 DEF vars, WindowsInThePast, OneTruth, Covers, IsOpen, IsPunctual
  <2> QED BY <2>1, <2>2, <2>3, <2>4, <2>5, <2>6 DEF Next
<1>3. IInv => AsOfOneTruth
  BY DEF IInv, OneTruth, AsOfOneTruth, TypeOK, IsPunctual
<1> QED BY <1>1, <1>2, <1>3, TypeCorrect, OneOpenEdgeHolds, PTL DEF Spec

-----------------------------------------------------------------------------
(* The mark of a value follows its edges.  A fold derives the mark from    *)
(* the edges it leaves; the steps outside the fold open none.  The         *)
(* strengthening is about the sweep: a new anchor row has an identity no   *)
(* surviving edge carries.                                                 *)

SourcesAreOld == \A e \in edges : e.src <= row[Anchor]

MInv == SourcesAreOld /\ SupersededIsClosed

LEMMA FoldKeepsMarks ==
  ASSUME TypeOK, MInv, NEW c \in Claim, FoldClaim(c)
  PROVE  MInv'
<1>0. PICK base \in Upserted(c) : \E t \in Bounds(Written(base, c)) : FoldOf(c, base, t)
  BY DEF FoldClaim
<1>1. PICK t \in Bounds(Written(base, c)) : FoldOf(c, base, t)
  BY <1>0
<1> DEFINE new == Written(base, c)
           after == EdgesAfter(base, new, t)
<1>2. new \in EdgeRow /\ new.src = row[Anchor]
  BY WrittenEdge
<1>3. edges' = after /\ row' = row
  BY <1>1 DEF FoldOf
<1>4. SourcesAreOld'
  <2>1. Bounded(new, t).src = row[Anchor]
    BY <1>2 DEF Bounded, Close, EdgeRow
  <2>2. \A e \in Superseded(new) : Close(e, new.valid_at).src = row[Anchor]
    BY DEF Superseded, Rivals, OpenEdges, Close, TypeOK, EdgeRow
  <2>3. row[Anchor] \in Nat
    BY DEF TypeOK, Nodes
  <2>4. \A e \in after : e \in edges \/ e.src = row[Anchor]
    BY <2>1, <2>2 DEF EdgesAfter
  <2> HIDE DEF after
  <2> QED BY <1>3, <2>3, <2>4 DEF SourcesAreOld, MInv
<1>5. SupersededIsClosed'
  <2> SUFFICES ASSUME NEW v \in Values, node'[v].status = "superseded"
               PROVE  v \notin OpenTargets(edges)'
    BY DEF SupersededIsClosed
  <2> DEFINE r == ObservedNode(v, c)
  <2>1. node'[v] = Marked(v, r, after)
    BY <1>1 DEF FoldOf, Nodes
  <2>2. r \in NodeRow
    BY WithExpiryType DEF ObservedNode, TypeOK, Nodes
  <2>3. ASSUME v \in OpenTargets(after)
        PROVE  Marked(v, r, after).status # "superseded"
    <3> HIDE DEF r, after
    <3> QED BY <2>2, <2>3 DEF Marked, NodeRow
  <2>4. OpenTargets(edges)' = OpenTargets(after)
    <3> HIDE DEF after
    <3> QED BY <1>3 DEF OpenTargets, Targets, PointsAt, IsOpen
  <2> QED BY <2>1, <2>3, <2>4
<1> QED BY <1>4, <1>5 DEF MInv

\* A step that opens no edge, builds no row and marks no value superseded.
LEMMA ClosingKeepsMarks ==
  ASSUME MInv, row' = row,
         \A e \in edges' : \E f \in edges : e.src = f.src /\ (IsOpen(e) => e = f),
         \A v \in Values : node'[v].status = "superseded" => node[v].status = "superseded"
  PROVE  MInv'
<1>1. SourcesAreOld'
  BY DEF MInv, SourcesAreOld
<1>2. SupersededIsClosed'
  BY DEF MInv, SupersededIsClosed, OpenTargets, Targets, PointsAt, IsOpen
<1> QED BY <1>1, <1>2 DEF MInv

LEMMA SweepKeepsMarks ==
  ASSUME TypeOK, MInv, SweepWorking
  PROVE  MInv'
<1>1. edges' \subseteq edges
  BY DEF SweepWorking
<1>2. \A n \in Nodes : row'[n] = row[n] \/ row'[n] = row[n] + 1
  BY DEF SweepWorking
<1>3. row[Anchor] \in Nat /\ \A e \in edges : e.src \in Nat
  BY DEF TypeOK, Nodes, EdgeRow
<1>4. SourcesAreOld'
  BY <1>1, <1>2, <1>3 DEF MInv, SourcesAreOld, Nodes
<1>5. ASSUME NEW v \in Values, node'[v].status = "superseded",
             NEW e \in edges', IsOpen(e), e.src = row'[Anchor],
             e.dst = v, e.dst_row = row'[v]
      PROVE  FALSE
  <2>1. node[v].status = "superseded" /\ row'[v] = row[v]
    BY <1>5 DEF SweepWorking, NoRow, Sweepable, Nodes
  <2>2. e \in edges /\ e.src = row[Anchor]
    BY <1>1, <1>2, <1>3, <1>5 DEF MInv, SourcesAreOld, Nodes
  <2> QED BY <1>5, <2>1, <2>2
          DEF MInv, SupersededIsClosed, OpenTargets, Targets, PointsAt
<1>6. SupersededIsClosed'
  BY <1>5 DEF SupersededIsClosed, OpenTargets, Targets, PointsAt, IsOpen
<1> QED BY <1>4, <1>6 DEF MInv

\* The hygiene of _apply_edges keeps its promise after every step, not only
\* after a fold: a value marked superseded has no open edge from the anchor's
\* current row, so the fact list and the keyed expansion agree on it.
THEOREM SupersededIsClosedHolds == Spec => []SupersededIsClosed
<1>1. Init => MInv
  BY DEF Init, MInv, SourcesAreOld, SupersededIsClosed, OpenTargets, Targets
<1>2. TypeOK /\ MInv /\ [Next]_vars => MInv'
  <2> SUFFICES ASSUME TypeOK, MInv, [Next]_vars PROVE MInv'
    OBVIOUS
  <2>1. CASE FoldNext
    BY <2>1, ArrivingAreClaims, FoldKeepsMarks DEF FoldNext
  <2>2. ASSUME NEW n \in Nodes, Retract(n) PROVE MInv'
    <3>1. \A e \in edges : ~IsOpen(Close(e, now)) /\ Close(e, now).src = e.src
      BY DEF Close, IsOpen, TypeOK, EdgeRow, Never
    <3>2. \A v \in Values :
            node'[v].status = "superseded" => node[v].status = "superseded"
      BY <2>2 DEF Retract, TypeOK, NodeRow, Nodes
    <3> QED BY <2>2, <3>1, <3>2, ClosingKeepsMarks DEF Retract, CloseEdgesOf
  <2>3. CASE CloseExpired
    <3>1. \A v \in Due : node[v].expires_at # Never
      BY DEF Due, Lapsed
    <3>2. \A e \in edges, v \in Due \ {Anchor} :
            PointsAt(e, v) => /\ ~IsOpen(Close(e, node[e.dst].expires_at))
                              /\ Close(e, node[e.dst].expires_at).src = e.src
      BY <3>1 DEF Close, IsOpen, PointsAt, TypeOK, EdgeRow
    <3>3. \A v \in Values :
            node'[v].status = "superseded" => node[v].status = "superseded"
      BY <2>3 DEF CloseExpired, TypeOK, NodeRow, Nodes
    <3> QED BY <2>3, <3>2, <3>3, ClosingKeepsMarks DEF CloseExpired
  <2>4. CASE SweepWorking
    BY <2>4, SweepKeepsMarks
  <2>5. CASE Tick
    BY <2>5 DEF Tick, MInv, SourcesAreOld, SupersededIsClosed, OpenTargets, Targets,
                PointsAt, IsOpen
  <2>6. CASE UNCHANGED vars
    BY <2>6 DEF vars, MInv, SourcesAreOld, SupersededIsClosed, OpenTargets, Targets,
                PointsAt, IsOpen
  <2> QED BY <2>1, <2>2, <2>3, <2>4, <2>5, <2>6 DEF Next
<1>3. MInv => SupersededIsClosed
  BY DEF MInv
<1> QED BY <1>1, <1>2, <1>3, TypeCorrect, PTL DEF Spec

-----------------------------------------------------------------------------
(* What a step may never do.  Resurrection: a fold of another value opens  *)
(* no edge to this one, and only an open edge lifts the mark superseded.   *)

\* No step but a fold makes a value current, and the folds only their own value.
LEMMA FoldRevivesItsOwn ==
  ASSUME TypeOK, SupersededIsClosed, NEW c \in Claim, FoldClaim(c),
         NEW v \in Values, v \in Current', v # c.value
  PROVE  v \in Current
<1>0. PICK base \in Upserted(c) : \E t \in Bounds(Written(base, c)) : FoldOf(c, base, t)
  BY DEF FoldClaim
<1>1. PICK t \in Bounds(Written(base, c)) : FoldOf(c, base, t)
  BY <1>0
<1> DEFINE new == Written(base, c)
           after == EdgesAfter(base, new, t)
<1>2. new \in EdgeRow /\ new.src = row[Anchor] /\ new.dst = c.value
  BY WrittenEdge
<1>3. node'[v] = Marked(v, node[v], after) /\ now' = now
  BY <1>1, ConstantsAssumption DEF FoldOf, Nodes, ObservedNode
<1>4. v \in OpenTargets(after) => v \in OpenTargets(edges)
  <2>1. Bounded(new, t).dst = c.value
    BY <1>2 DEF Bounded, Close, EdgeRow
  <2>2. \A e \in Superseded(new) : ~IsOpen(Close(e, new.valid_at))
    BY <1>2 DEF Superseded, Rivals, OpenEdges, TypeOK, Close, IsOpen, EdgeRow, Never
  <2>3. \A e \in after : IsOpen(e) => e \in edges \/ e.dst = c.value
    BY <2>1, <2>2 DEF EdgesAfter
  <2> HIDE DEF after
  <2> QED  BY <2>3 DEF OpenTargets, Targets, PointsAt
<1>5. Marked(v, node[v], after) = node[v] \/ Marked(v, node[v], after).status = "superseded"
  <2>1. node[v] \in NodeRow
    BY DEF TypeOK, Nodes
  <2> HIDE DEF after
  <2> QED  BY <1>4, <2>1 DEF Marked, SupersededIsClosed, NodeRow
<1>6. node'[v].status # "superseded"
  BY DEF Current
<1> QED  BY <1>3, <1>5, <1>6 DEF Current

\* No retraction, expiry, sweep, passing of time or claim of another value brings a
\* value back into the current view (supersede, mark and close in the updater and worker).
THEOREM NoResurrectionHolds == Spec => NoResurrection
<1>1. TypeOK /\ SupersededIsClosed /\ [Next]_vars =>
        [\A v \in Values : v \in Current' \ Current =>
           \E c \in Arriving : c.value = v /\ FoldClaim(c)]_vars
  <2> SUFFICES ASSUME TypeOK, SupersededIsClosed, Next, NEW v \in Values, v \in Current' \ Current
               PROVE  \E c \in Arriving : c.value = v /\ FoldClaim(c)
    OBVIOUS
  <2>0. v \in Nodes /\ node[v] \in NodeRow /\ now \in Nat
    BY DEF TypeOK, Nodes
  <2>1. CASE FoldNext
    <3>1. PICK c \in Arriving : FoldClaim(c)
      BY <2>1 DEF FoldNext
    <3>2. c \in Claim
      BY ArrivingAreClaims
    <3> QED  BY <3>1, <3>2, FoldRevivesItsOwn
  <2>2. ASSUME NEW n \in Nodes, Retract(n) PROVE FALSE
    <3>1. node'[v].status = "retracted" \/ node'[v] = node[v]
      BY <2>0, <2>2 DEF Retract, TypeOK, NodeRow
    <3> QED  BY <2>2, <3>1 DEF Current, Retract
  <2>3. CASE CloseExpired
    <3>1. node'[v].status = "expired" \/ node'[v] = node[v]
      BY <2>0, <2>3 DEF CloseExpired, NodeRow
    <3> QED  BY <2>3, <3>1 DEF Current, CloseExpired
  <2>4. CASE SweepWorking
    <3>1. node'[v].status = "absent" \/ node'[v] = node[v]
      BY <2>0, <2>4 DEF SweepWorking, NoRow
    <3> QED  BY <2>4, <3>1 DEF Current, SweepWorking
  <2>5. CASE Tick
    BY <2>0, <2>5 DEF Tick, Current, NodeRow, Time, Never
  <2> QED  BY <2>1, <2>2, <2>3, <2>4, <2>5 DEF Next
<1> QED  BY <1>1, TypeCorrect, SupersededIsClosedHolds, PTL DEF Spec, NoResurrection

-----------------------------------------------------------------------------
(* Belief.  An edge is closed once, at the instant of the step, so what    *)
(* was believed before that instant stays as it was.  The strengthening:   *)
(* an edge whose window is open has not been closed, and none is recorded  *)
(* in the future.                                                          *)

OpenIsBelieved == \A e \in edges : IsOpen(e) => e.expired_at = Never

\* The instant at which the ledger records an edge, and whether it believed it at t.
Identity(e) == <<e.src, e.dst, e.dst_row, e.valid_at, e.ingested_at>>

BelievedAt(e, t) == e.ingested_at <= t /\ (e.expired_at = Never \/ e.expired_at > t)

\* Edge e is edge f, observed again or closed by this step.
Continues(e, f) ==
  /\ Identity(e) = Identity(f)
  /\ e.expired_at = f.expired_at \/ (f.expired_at = Never /\ e.expired_at = now)

\* A step that removes only working rows and records edges only as of now.
Records ==
  /\ \A e \in edges' : (\E f \in edges : Continues(e, f)) \/ e.ingested_at = now
  /\ \A f \in edges : Sweepable(f) \/ \E e \in edges' : Continues(e, f)

LEMMA RecordsKeepBelief ==
  ASSUME TypeOK, Records, NEW t \in 0..(now - 1)
  PROVE  /\ Believed(edges, t) \subseteq
              Believed(edges', t) \union Believed({e \in edges : Sweepable(e)}, t)
         /\ Believed(edges', t) \subseteq Believed(edges, t)
<1>0. now \in Nat /\ t \in Nat /\ t < now /\ now # Never
  BY DEF TypeOK, Never
<1>1. \A E : Believed(E, t) = {Identity(e) : e \in {f \in E : BelievedAt(f, t)}}
  BY Zenon DEF Believed, Identity, BelievedAt
<1>2. ASSUME NEW e, NEW f, Continues(e, f)
      PROVE  Identity(e) = Identity(f) /\ (BelievedAt(e, t) <=> BelievedAt(f, t))
  <2>1. e.ingested_at = f.ingested_at
    BY <1>2 DEF Continues, Identity
  <2> QED  BY <1>0, <1>2, <2>1 DEF Continues, BelievedAt
<1>3. ASSUME NEW f \in edges, BelievedAt(f, t), ~Sweepable(f)
      PROVE  Identity(f) \in Believed(edges', t)
  <2>1. PICK e \in edges' : Continues(e, f)
    BY <1>3 DEF Records
  <2> QED  BY <1>1, <1>2, <1>3, <2>1
<1>4. ASSUME NEW e \in edges', BelievedAt(e, t)
      PROVE  Identity(e) \in Believed(edges, t)
  <2>1. PICK f \in edges : Continues(e, f)
    BY <1>0, <1>4 DEF Records, BelievedAt
  <2> QED  BY <1>1, <1>2, <1>4, <2>1
<1>5. ASSUME NEW x \in Believed(edges, t)
      PROVE  x \in Believed(edges', t) \union Believed({e \in edges : Sweepable(e)}, t)
  <2>1. PICK f \in edges : BelievedAt(f, t) /\ x = Identity(f)
    BY <1>1
  <2>2. CASE Sweepable(f)
    BY <1>1, <2>1, <2>2
  <2>3. CASE ~Sweepable(f)
    BY <1>3, <2>1, <2>3
  <2> QED  BY <2>2, <2>3
<1>6. ASSUME NEW x \in Believed(edges', t)
      PROVE  x \in Believed(edges, t)
  <2>1. PICK e \in edges' : BelievedAt(e, t) /\ x = Identity(e)
    BY <1>1
  <2> QED  BY <1>4, <2>1
<1> QED  BY <1>5, <1>6

\* To close an open edge continues it, whatever world-time end it is given.
LEMMA CloseContinues ==
  ASSUME TypeOK, OpenIsBelieved
  PROVE  \A f \in edges : IsOpen(f) =>
           \A x : Continues(Close(f, x), f) /\ (x # Never => ~IsOpen(Close(f, x)))
<1> SUFFICES ASSUME NEW f \in edges, IsOpen(f), NEW x
             PROVE  Continues(Close(f, x), f) /\ (x # Never => ~IsOpen(Close(f, x)))
  OBVIOUS
<1>1. f \in EdgeRow /\ f.expired_at = Never
  BY DEF TypeOK, OpenIsBelieved
<1> QED  BY <1>1 DEF Close, Continues, Identity, IsOpen, EdgeRow

LEMMA FoldKeepsBelief ==
  ASSUME TypeOK, OpenIsBelieved, NEW c \in Claim, FoldClaim(c)
  PROVE  Records /\ OpenIsBelieved'
<1>0. PICK base \in Upserted(c) : \E t \in Bounds(Written(base, c)) : FoldOf(c, base, t)
  BY DEF FoldClaim
<1>1. PICK t \in Bounds(Written(base, c)) : FoldOf(c, base, t)
  BY <1>0
<1> DEFINE new == Written(base, c)
           written == Bounded(new, t)
<1>2. /\ new \in EdgeRow /\ IsOpen(new)
      /\ base \in edges => base \in OpenEdges /\ Identity(new) = Identity(base)
      /\ base \notin edges => new.ingested_at = now
  BY WrittenEdge DEF PointsAt, OpenEdges, Identity
<1>3. new.expired_at = Never
  <2>1. base \in edges \/ base = Inserted(c)
    BY DEF Upserted, OpenEdges
  <2>2. CASE base \in edges
    <3>1. base \in EdgeRow /\ base.expired_at = Never
      BY <1>2, <2>2 DEF OpenIsBelieved, OpenEdges, TypeOK
    <3> QED  BY <2>2, <3>1 DEF Written, Stamped, WithExpiry, EdgeRow
  <2>3. CASE base \notin edges
    <3>1. base.expired_at = Never /\ new = WithExpiry(base, c)
      BY <2>1, <2>3 DEF Inserted, Fresh, Written
    <3>2. CASE c.valid_until = Never
      BY <3>1, <3>2 DEF WithExpiry
    <3>3. CASE c.valid_until # Never
      <4>1. base = Inserted(c)
        BY <2>1, <2>3
      <4> QED  BY <3>1, <3>3, <4>1 DEF WithExpiry, Inserted, Fresh
    <3> QED  BY <3>2, <3>3
  <2> QED  BY <2>2, <2>3
<1>4. edges' = (edges \ (Superseded(new) \union {base}))
                 \union {Close(e, new.valid_at) : e \in Superseded(new)} \union {written}
      /\ now' = now
  BY <1>1 DEF FoldOf, EdgesAfter
<1>5. /\ Identity(written) = Identity(new) /\ written.ingested_at = new.ingested_at
      /\ written.expired_at \in {Never, now}
      /\ IsOpen(written) => written.expired_at = Never
  <2>1. CASE t = Never
    BY <1>3, <2>1 DEF Bounded
  <2>2. CASE t # Never
    BY <1>2, <2>2 DEF Bounded, Close, Identity, IsOpen, EdgeRow
  <2> QED  BY <2>1, <2>2
<1>6. base \in edges => Continues(written, base)
  <2>1. base \in edges => base.expired_at = Never
    BY <1>2 DEF OpenIsBelieved, OpenEdges
  <2> QED  BY <1>2, <1>5, <2>1 DEF Continues
<1>7. base \notin edges => written.ingested_at = now
  BY <1>2, <1>5
<1>8. \A e \in Superseded(new) :
        /\ e \in edges /\ IsOpen(e) /\ Continues(Close(e, new.valid_at), e)
        /\ ~IsOpen(Close(e, new.valid_at))
  <2>1. \A e \in Superseded(new) : e \in edges /\ IsOpen(e)
    BY DEF Superseded, Rivals, OpenEdges
  <2>2. new.valid_at # Never
    BY <1>2 DEF EdgeRow, Never
  <2>3. \A e \in Superseded(new) : ~IsOpen(Close(e, new.valid_at))
    BY <2>1, <2>2 DEF Close, IsOpen, TypeOK, EdgeRow
  <2> HIDE DEF new
  <2> QED  BY <2>1, <2>3, CloseContinues
<1>9. \A e \in edges : Continues(e, e)
  BY DEF Continues
<1> HIDE DEF new, written
<1>10. Records
  BY <1>4, <1>6, <1>7, <1>8, <1>9 DEF Records
<1>11. OpenIsBelieved'
  <2>1. \A e \in edges' : e \in edges \/ ~IsOpen(e) \/ e = written
    BY <1>4, <1>8
  <2> QED  BY <1>5, <2>1 DEF OpenIsBelieved, IsOpen
<1> QED  BY <1>10, <1>11

\* A step that leaves every edge as it is or closes it where it was open.
LEMMA ClosesOrKeeps ==
  ASSUME OpenIsBelieved,
         \A e \in edges' : \E f \in edges : Continues(e, f) /\ (e = f \/ ~IsOpen(e)),
         \A f \in edges : \E e \in edges' : Continues(e, f)
  PROVE  Records /\ OpenIsBelieved'
<1>1. OpenIsBelieved'
  BY DEF OpenIsBelieved, IsOpen
<1> QED  BY <1>1 DEF Records

\* The ledger is append-only in belief time: what it believed at an instant already past
\* is never rewritten, but for the working rows that the sweep deletes.
THEOREM BeliefIsStableHolds == Spec => BeliefIsStable
<1>1. Init => OpenIsBelieved
  BY DEF Init, OpenIsBelieved
<1>2. TypeOK /\ OpenIsBelieved /\ Next => Records /\ OpenIsBelieved'
  <2> SUFFICES ASSUME TypeOK, OpenIsBelieved, Next PROVE Records /\ OpenIsBelieved'
    OBVIOUS
  <2>1. CASE FoldNext
    BY <2>1, ArrivingAreClaims, FoldKeepsBelief DEF FoldNext
  <2>2. ASSUME NEW n \in Nodes, Retract(n) PROVE Records /\ OpenIsBelieved'
    <3>1. \A e \in edges : IsOpen(e) /\ Touches(e, n) =>
            Continues(Close(e, now), e) /\ ~IsOpen(Close(e, now))
      BY CloseContinues DEF TypeOK, Never
    <3>2. edges' = {IF IsOpen(e) /\ Touches(e, n) THEN Close(e, now) ELSE e : e \in edges}
      BY <2>2 DEF Retract, CloseEdgesOf
    <3>3. \A e \in edges : Continues(e, e)
      BY DEF Continues
    <3>4. \A e \in edges' : \E f \in edges : Continues(e, f) /\ (e = f \/ ~IsOpen(e))
      BY <3>1, <3>2, <3>3
    <3>5. \A f \in edges : \E e \in edges' : Continues(e, f)
      BY <3>1, <3>2, <3>3
    <3> QED  BY <3>4, <3>5, ClosesOrKeeps
  <2>3. CASE CloseExpired
    <3> DEFINE Hit(e) == \E v \in Due \ {Anchor} : PointsAt(e, v)
               Ended(e) == Close(e, node[e.dst].expires_at)
    <3>1. \A e \in edges : IsOpen(e) /\ Hit(e) => Continues(Ended(e), e) /\ ~IsOpen(Ended(e))
      BY CloseContinues DEF Due, Lapsed, PointsAt
    <3>2. edges' = {IF IsOpen(e) /\ Hit(e) THEN Ended(e) ELSE e : e \in edges}
      BY <2>3 DEF CloseExpired
    <3>3. \A e \in edges : Continues(e, e)
      BY DEF Continues
    <3> HIDE DEF Hit, Ended
    <3>4. \A e \in edges' : \E f \in edges : Continues(e, f) /\ (e = f \/ ~IsOpen(e))
      BY <3>1, <3>2, <3>3
    <3>5. \A f \in edges : \E e \in edges' : Continues(e, f)
      BY <3>1, <3>2, <3>3
    <3> QED  BY <3>4, <3>5, ClosesOrKeeps
  <2>4. CASE SweepWorking
    <3>1. edges' = edges \ {e \in edges : Sweepable(e)}
      BY <2>4 DEF SweepWorking
    <3>2. \A e \in edges : Continues(e, e)
      BY DEF Continues
    <3> QED  BY <3>1, <3>2 DEF Records, OpenIsBelieved, IsOpen
  <2>5. CASE Tick
    BY <2>5 DEF Tick, Records, Continues, OpenIsBelieved, IsOpen
  <2> QED  BY <2>1, <2>2, <2>3, <2>4, <2>5 DEF Next
<1>3. OpenIsBelieved /\ UNCHANGED vars => OpenIsBelieved'
  BY DEF vars, OpenIsBelieved, IsOpen
<1>4. TypeOK /\ Records => \A t \in 0..(now - 1) :
        /\ Believed(edges, t) \subseteq
             Believed(edges', t) \union Believed({e \in edges : Sweepable(e)}, t)
        /\ Believed(edges', t) \subseteq Believed(edges, t)
  BY RecordsKeepBelief
<1> QED  BY <1>1, <1>2, <1>3, <1>4, TypeCorrect, PTL DEF Spec, BeliefIsStable

-----------------------------------------------------------------------------
(* Durable claims only: no episode's lifecycle is "working".  Then nothing *)
(* is working, nothing is swept, and a value that may be served always has *)
(* an edge from the anchor, open or closed: a fold that opens another edge *)
(* finds it closed and marks the value.                                    *)

NothingWorking ==
  /\ \A n \in Nodes : node[n].status # "working"
  /\ \A e \in edges : e.status # "working"

DurableInv ==
  /\ TypeOK /\ OneOpenEdge /\ NothingWorking
  /\ OneCurrentValue /\ Current \subseteq Targets(edges)

\* What a fold leaves of the edges keeps the targets and adds the claimed value.
LEMMA FoldKeepsTargets ==
  ASSUME TypeOK, NEW c \in Claim, NEW base \in Upserted(c), NEW t \in Time
  PROVE  LET after == EdgesAfter(base, Written(base, c), t)
         IN  Targets(edges) \union {c.value} \subseteq Targets(after)
<1> DEFINE new == Written(base, c)
           after == EdgesAfter(base, new, t)
           written == Bounded(new, t)
<1>1. /\ new \in EdgeRow
      /\ new.src = row[Anchor] /\ new.dst = c.value /\ new.dst_row = row[c.value]
      /\ base \in edges => base \in OpenEdges /\ PointsAt(base, c.value)
  BY WrittenEdge
<1>2. written \in after /\ written.src = row[Anchor] /\ PointsAt(written, c.value)
  BY <1>1 DEF EdgesAfter, Bounded, Close, PointsAt, EdgeRow
<1>3. ASSUME NEW e \in edges
      PROVE  \E f \in after : f.src = e.src /\ f.dst = e.dst /\ f.dst_row = e.dst_row
  <2>1. CASE e = base
    BY <1>1, <1>2, <2>1 DEF OpenEdges, PointsAt
  <2>2. CASE e \in Superseded(new)
    <3>1. Close(e, new.valid_at) \in after
      BY <2>2 DEF EdgesAfter
    <3>2. e \in EdgeRow
      BY DEF TypeOK
    <3> QED  BY <3>1, <3>2 DEF Close, EdgeRow
  <2>3. CASE e # base /\ e \notin Superseded(new)
    BY <2>3 DEF EdgesAfter
  <2> QED  BY <2>1, <2>2, <2>3
<1> HIDE DEF after, written
<1>4. Targets(edges) \subseteq Targets(after)
  BY <1>3 DEF Targets, PointsAt
<1>5. c.value \in Targets(after)
  BY <1>2 DEF Targets, Claim
<1> QED  BY <1>4, <1>5 DEF after

\* A durable claim writes no working row.
LEMMA FoldWritesNothingWorking ==
  ASSUME TypeOK, NothingWorking, NEW c \in Claim, c.lifecycle # "working", FoldClaim(c)
  PROVE  NothingWorking'
<1>0. PICK base \in Upserted(c) : \E t \in Bounds(Written(base, c)) : FoldOf(c, base, t)
  BY DEF FoldClaim
<1>1. PICK t \in Bounds(Written(base, c)) : FoldOf(c, base, t)
  BY <1>0
<1> DEFINE new == Written(base, c)
           after == EdgesAfter(base, new, t)
<1>2. /\ new \in EdgeRow
      /\ base \in edges => base \in OpenEdges
  BY WrittenEdge
<1>3. new.status # "working"
  <2>1. base \in edges \/ base = Inserted(c)
    BY DEF Upserted, OpenEdges
  <2>2. CASE base \in edges
    <3>1. base \in EdgeRow /\ base.status # "working"
      BY <2>2 DEF TypeOK, NothingWorking
    <3> QED  BY <2>2, <3>1 DEF Written, Stamped, WithExpiry, EdgeRow
  <2>3. CASE base \notin edges
    <3>1. base = Inserted(c) /\ new = WithExpiry(base, c)
      BY <2>1, <2>3 DEF Written
    <3> QED  BY <3>1 DEF WithExpiry, Inserted, Fresh
  <2> QED  BY <2>2, <2>3
<1>4. \A e \in after : e.status # "working"
  <2>1. Bounded(new, t).status # "working"
    BY <1>2, <1>3 DEF Bounded, Close, EdgeRow
  <2>2. \A e \in Superseded(new) : Close(e, new.valid_at).status # "working"
    BY DEF Superseded, Rivals, OpenEdges, Close, TypeOK, EdgeRow, NothingWorking
  <2> QED  BY <2>1, <2>2 DEF EdgesAfter, NothingWorking
<1>5. \A n \in Nodes : ObservedNode(n, c) \in NodeRow /\ ObservedNode(n, c).status # "working"
  <2>1. ASSUME NEW r \in NodeRow, r.status # "working"
        PROVE  Observe(r, c) \in NodeRow /\ Observe(r, c).status # "working"
    <3>1. Observe(r, c) \in NodeRow
      BY WithExpiryType
    <3> QED  BY <2>1, <3>1 DEF Observe, Fresh, Stamped, NodeRow
  <2>2. ASSUME NEW r \in NodeRow, r.status # "working"
        PROVE  WithExpiry(r, c) \in NodeRow /\ WithExpiry(r, c).status # "working"
    <3>1. WithExpiry(r, c) \in NodeRow
      BY WithExpiryType
    <3> QED  BY <2>2, <3>1 DEF WithExpiry, NodeRow
  <2> QED  BY <2>1, <2>2 DEF ObservedNode, TypeOK, NothingWorking
<1> HIDE DEF after
<1>6. \A n \in Nodes : Marked(n, ObservedNode(n, c), after).status # "working"
  BY <1>5 DEF Marked, NodeRow
<1> QED  BY <1>1, <1>4, <1>6 DEF FoldOf, NothingWorking, after

\* After a fold, a value that may be served is the one the anchor's open edge leads to.
LEMMA FoldServesTheOpenEdge ==
  ASSUME TypeOK, Current \subseteq Targets(edges), OneOpenEdge',
         NEW c \in Claim, FoldClaim(c)
  PROVE  OneCurrentValue' /\ (Current \subseteq Targets(edges))'
<1>0. PICK base \in Upserted(c) : \E t \in Bounds(Written(base, c)) : FoldOf(c, base, t)
  BY DEF FoldClaim
<1>1. PICK t \in Bounds(Written(base, c)) : FoldOf(c, base, t)
  BY <1>0
<1> DEFINE after == EdgesAfter(base, Written(base, c), t)
<1>2. Written(base, c) \in EdgeRow /\ t \in Time
  BY <1>1, WrittenEdge, BoundsType
<1>3. Targets(edges) \union {c.value} \subseteq Targets(after)
  BY <1>2, FoldKeepsTargets
<1>4. edges' = after /\ row' = row /\ now' = now
  BY <1>1 DEF FoldOf
<1> HIDE DEF after
<1>5. /\ OpenTargets(after) = OpenTargets(edges)' /\ Targets(after) = Targets(edges)'
      /\ Targets(after) = OpenTargets(after) \union ClosedTargets(after)
  BY <1>4 DEF OpenTargets, ClosedTargets, Targets, PointsAt, IsOpen
<1>6. ASSUME NEW v \in Values, v \in Current'
      PROVE  v \in OpenTargets(after)
  <2>1. node'[v] = Marked(v, ObservedNode(v, c), after) /\ ObservedNode(v, c) \in NodeRow
    BY <1>1, WithExpiryType DEF FoldOf, Nodes, ObservedNode, TypeOK, after
  <2>2. node'[v].status \in {"committed", "working"}
    BY <1>6 DEF Current
  <2>3. v \notin ClosedTargets(after) \ OpenTargets(after)
    BY <2>1, <2>2 DEF Marked, NodeRow
  <2>4. CASE v = c.value
    BY <1>3, <1>5, <2>3, <2>4
  <2>5. CASE v # c.value /\ v \notin OpenTargets(after)
    <3>1. node'[v] = node[v]
      BY <2>1, <2>3, <2>5, ConstantsAssumption DEF Marked, ObservedNode
    <3>2. v \in Current
      BY <1>4, <1>6, <3>1 DEF Current
    <3> QED  BY <1>3, <1>5, <2>3, <3>2
  <2> QED  BY <2>4, <2>5
<1>7. OneCurrentValue'
  <2> SUFFICES ASSUME NEW v \in Values, NEW w \in Values, v \in Current', w \in Current'
               PROVE  v = w
    BY DEF OneCurrentValue, Current
  <2>1. PICK e \in edges' : IsOpen(e) /\ e.src = row[Anchor] /\ e.dst = v
    BY <1>4, <1>6 DEF OpenTargets, Targets, PointsAt
  <2>2. PICK f \in edges' : IsOpen(f) /\ f.src = row[Anchor] /\ f.dst = w
    BY <1>4, <1>6 DEF OpenTargets, Targets, PointsAt
  <2> QED  BY <2>1, <2>2 DEF OneOpenEdge, IsOpen
<1>8. (Current \subseteq Targets(edges))'
  BY <1>5, <1>6 DEF Current
<1> QED  BY <1>7, <1>8

\* A step that makes nothing current and leaves every edge's ends.
LEMMA ClosingServesNoMore ==
  ASSUME OneCurrentValue, Current \subseteq Targets(edges), row' = row,
         Current' \subseteq Current,
         \A e \in edges : \E f \in edges' : f.src = e.src /\ f.dst = e.dst /\ f.dst_row = e.dst_row
  PROVE  OneCurrentValue' /\ (Current \subseteq Targets(edges))'
<1>1. Targets(edges) \subseteq Targets(edges)'
  BY DEF Targets, PointsAt
<1> QED  BY <1>1 DEF OneCurrentValue

LEMMA NextDurable ==
  ASSUME "working" \notin Lifecycles
  PROVE  DurableInv /\ [Next]_vars /\ TypeOK' /\ OneOpenEdge' => DurableInv'
<1> SUFFICES ASSUME DurableInv, [Next]_vars, OneOpenEdge'
             PROVE  NothingWorking' /\ OneCurrentValue' /\ (Current \subseteq Targets(edges))'
  BY DEF DurableInv
<1> USE DEF DurableInv
<1>0. now \in Nat /\ \A n \in Nodes : node[n] \in NodeRow
  BY DEF TypeOK
<1>1. CASE FoldNext
  <2>1. PICK c \in Arriving : FoldClaim(c)
    BY <1>1 DEF FoldNext
  <2>2. c \in Claim /\ c.lifecycle # "working"
    BY ArrivingAreClaims DEF Claim
  <2> QED  BY <2>1, <2>2, FoldWritesNothingWorking, FoldServesTheOpenEdge
<1>2. ASSUME NEW n \in Nodes, Retract(n)
      PROVE  NothingWorking' /\ OneCurrentValue' /\ (Current \subseteq Targets(edges))'
  <2>1. \A m \in Nodes : node'[m] = node[m] \/ node'[m].status = "retracted"
    BY <1>0, <1>2 DEF Retract, TypeOK, NodeRow
  <2>2. \A e \in edges : LET f == Close(e, now) IN
          f.src = e.src /\ f.dst = e.dst /\ f.dst_row = e.dst_row /\ f.status = e.status
    BY DEF TypeOK, EdgeRow, Close
  <2>3. edges' = CloseEdgesOf(n) /\ row' = row /\ now' = now
    BY <1>2 DEF Retract
  <2>4. NothingWorking'
    BY <2>1, <2>2, <2>3 DEF NothingWorking, CloseEdgesOf
  <2>5. Current' \subseteq Current
    BY <2>1, <2>3 DEF Current, Nodes
  <2>6. \A e \in edges : \E f \in edges' : f.src = e.src /\ f.dst = e.dst /\ f.dst_row = e.dst_row
    BY <2>2, <2>3 DEF CloseEdgesOf
  <2> QED  BY <2>3, <2>4, <2>5, <2>6, ClosingServesNoMore
<1>3. CASE CloseExpired
  <2>1. \A m \in Nodes : node'[m] = node[m] \/ node'[m].status = "expired"
    BY <1>0, <1>3 DEF CloseExpired, NodeRow
  <2>2. \A e \in edges : LET f == Close(e, node[e.dst].expires_at) IN
          f.src = e.src /\ f.dst = e.dst /\ f.dst_row = e.dst_row /\ f.status = e.status
    BY DEF TypeOK, EdgeRow, Close
  <2>3. row' = row /\ now' = now
    BY <1>3 DEF CloseExpired
  <2>4. NothingWorking'
    BY <1>3, <2>1, <2>2 DEF NothingWorking, CloseExpired
  <2>5. Current' \subseteq Current
    BY <2>1, <2>3 DEF Current, Nodes
  <2>6. \A e \in edges : \E f \in edges' : f.src = e.src /\ f.dst = e.dst /\ f.dst_row = e.dst_row
    BY <1>3, <2>2 DEF CloseExpired
  <2> QED  BY <2>3, <2>4, <2>5, <2>6, ClosingServesNoMore
<1>4. CASE SweepWorking
  BY <1>4 DEF SweepWorking, Sweepable, NothingWorking
<1>5. CASE Tick
  <2>1. Current' \subseteq Current
    BY <1>0, <1>5 DEF Tick, Current, Nodes, NodeRow, Time, Never
  <2>2. NothingWorking'
    BY <1>5 DEF Tick, NothingWorking
  <2> QED  BY <1>5, <2>1, <2>2, ClosingServesNoMore DEF Tick
<1>6. CASE UNCHANGED vars
  <2>1. Current' = Current /\ NothingWorking'
    BY <1>6 DEF vars, Current, NothingWorking
  <2> QED  BY <1>6, <2>1, ClosingServesNoMore DEF vars
<1> QED  BY <1>1, <1>2, <1>3, <1>4, <1>5, <1>6 DEF Next

\* Of what durable claims leave, whatever end their writers give them and however late they
\* arrive, the current view of one key serves at most one value.  (With working claims it
\* does not hold: the sweep of a working anchor leaves the old value's edge on a row that
\* the next fold does not look at.)
THEOREM OneCurrentValueHolds ==
  ASSUME "working" \notin Lifecycles
  PROVE  Spec => []OneCurrentValue
<1>1. Init => DurableInv
  <2>1. Init => Current = {} /\ NothingWorking
    BY DEF Init, Current, Nodes, NoRow, NothingWorking
  <2>2. Init => OneOpenEdge
    BY DEF Init, OneOpenEdge
  <2>3. Current = {} => OneCurrentValue
    BY DEF OneCurrentValue
  <2> QED  BY <2>1, <2>2, <2>3, InitTypeOK DEF DurableInv
<1>2. DurableInv /\ [Next]_vars /\ TypeOK' /\ OneOpenEdge' => DurableInv'
  BY NextDurable
<1>3. DurableInv => OneCurrentValue
  BY DEF DurableInv
<1> QED  BY <1>1, <1>2, <1>3, TypeCorrect, OneOpenEdgeHolds, PTL DEF Spec

-----------------------------------------------------------------------------
(* Undated durable claims only: nothing lapses, so only a person closes an *)
(* edge without another taking its place.                                  *)

NothingLapses ==
  /\ \A n \in Nodes : node[n].expires_at = Never
  /\ \A e \in edges : e.expires_at = Never

KeptInv == TypeOK /\ NothingWorking /\ NothingLapses /\ DurableKnowledgeKept

LEMMA FoldDatesNothing ==
  ASSUME TypeOK, NothingLapses, NEW c \in Claim, c.lifecycle # "working", c.valid_until = Never,
         FoldClaim(c)
  PROVE  NothingLapses'
<1>0. PICK base \in Upserted(c) : \E t \in Bounds(Written(base, c)) : FoldOf(c, base, t)
  BY DEF FoldClaim
<1>1. PICK t \in Bounds(Written(base, c)) : FoldOf(c, base, t)
  BY <1>0
<1> DEFINE new == Written(base, c)
           after == EdgesAfter(base, new, t)
<1>2. new \in EdgeRow /\ \A r : WithExpiry(r, c) = r
  BY WrittenEdge DEF WithExpiry
<1>3. new.expires_at = Never
  <2>1. base \in edges \/ base = Inserted(c)
    BY DEF Upserted, OpenEdges
  <2>2. CASE base \in edges
    <3>1. base \in EdgeRow /\ base.expires_at = Never
      BY <2>2 DEF TypeOK, NothingLapses
    <3>2. Stamped(base, c).expires_at = Never
      BY <3>1 DEF Stamped, EdgeRow
    <3>3. new = Stamped(base, c)
      BY <2>2 DEF Written, WithExpiry
    <3> QED  BY <3>2, <3>3
  <2>3. CASE base \notin edges
    <3>1. base = Inserted(c) /\ new = base
      BY <1>2, <2>1, <2>3 DEF Written
    <3> QED  BY <3>1 DEF Inserted, Fresh
  <2> QED  BY <2>2, <2>3
<1>4. \A e \in after : e.expires_at = Never
  <2>1. Bounded(new, t).expires_at = Never
    BY <1>2, <1>3 DEF Bounded, Close, EdgeRow
  <2>2. \A e \in Superseded(new) : Close(e, new.valid_at).expires_at = Never
    BY DEF Superseded, Rivals, OpenEdges, Close, TypeOK, EdgeRow, NothingLapses
  <2> QED  BY <2>1, <2>2 DEF EdgesAfter, NothingLapses
<1>5. \A n \in Nodes : ObservedNode(n, c) \in NodeRow /\ ObservedNode(n, c).expires_at = Never
  <2>1. ASSUME NEW r \in NodeRow, r.expires_at = Never
        PROVE  Observe(r, c) \in NodeRow /\ Observe(r, c).expires_at = Never
    <3>1. Observe(r, c) \in NodeRow
      BY WithExpiryType
    <3> QED  BY <2>1, <3>1 DEF Observe, Fresh, Stamped, NodeRow
  <2> QED  BY <1>2, <2>1 DEF ObservedNode, TypeOK, NothingLapses
<1> HIDE DEF after
<1>6. \A n \in Nodes : Marked(n, ObservedNode(n, c), after).expires_at = Never
  BY <1>5 DEF Marked, NodeRow
<1> QED  BY <1>1, <1>4, <1>6 DEF FoldOf, NothingLapses, after

\* A fold leaves an open edge: the one it wrote, or the later one that bounds it.
LEMMA FoldLeavesAnOpenEdge ==
  ASSUME TypeOK, NEW c \in Claim, FoldClaim(c)
  PROVE  OpenEdges' # {}
<1>0. PICK base \in Upserted(c) : \E t \in Bounds(Written(base, c)) : FoldOf(c, base, t)
  BY DEF FoldClaim
<1>1. PICK t \in Bounds(Written(base, c)) : FoldOf(c, base, t)
  BY <1>0
<1> DEFINE new == Written(base, c)
<1>2. /\ new \in EdgeRow /\ IsOpen(new) /\ new.src = row[Anchor] /\ new.dst = c.value
      /\ base \in edges => PointsAt(base, c.value)
  BY WrittenEdge
<1>3. CASE t = Never
  <2>1. new \in edges' /\ row' = row
    BY <1>1, <1>3 DEF FoldOf, EdgesAfter, Bounded
  <2> QED  BY <1>2, <2>1 DEF OpenEdges, IsOpen
<1>4. CASE t # Never
  <2>1. PICK e \in Rivals(new) : e \notin Superseded(new)
    BY <1>1, <1>4 DEF Bounds
  <2>2. e \in OpenEdges /\ ~PointsAt(e, c.value)
    BY <1>2 DEF Rivals
  <2>3. e \in edges' /\ row' = row
    BY <1>1, <1>2, <2>1, <2>2 DEF FoldOf, EdgesAfter, OpenEdges
  <2> QED  BY <2>2, <2>3 DEF OpenEdges, IsOpen
<1> QED  BY <1>3, <1>4

\* Once a durable undated claim of a key has been folded, and until a person retracts, the
\* anchor has a current value: no backfill, tie or supersession closes the last open edge.
THEOREM DurableKnowledgeKeptHolds ==
  ASSUME "working" \notin Lifecycles, Horizons = {}
  PROVE  Spec => []DurableKnowledgeKept
<1>1. Init => KeptInv
  BY InitTypeOK DEF Init, KeptInv, NothingWorking, NothingLapses, DurableKnowledgeKept, NoRow, Nodes
<1>2. KeptInv /\ [Next]_vars /\ TypeOK' => KeptInv'
  <2> SUFFICES ASSUME KeptInv, [Next]_vars
               PROVE  NothingWorking' /\ NothingLapses' /\ DurableKnowledgeKept'
    BY DEF KeptInv
  <2> USE DEF KeptInv
  <2>1. CASE FoldNext
    <3>1. PICK c \in Arriving : FoldClaim(c)
      BY <2>1 DEF FoldNext
    <3>2. c \in Claim /\ c.lifecycle # "working" /\ c.valid_until = Never
      BY ArrivingAreClaims DEF Claim, Arriving
    <3>3. OpenEdges' # {}
      BY <3>1, <3>2, FoldLeavesAnOpenEdge
    <3> QED  BY <3>1, <3>2, <3>3, FoldWritesNothingWorking, FoldDatesNothing
             DEF DurableKnowledgeKept
  <2>2. ASSUME NEW n \in Nodes, Retract(n)
        PROVE  NothingWorking' /\ NothingLapses' /\ DurableKnowledgeKept'
    <3>1. \A m \in Nodes : /\ node'[m].expires_at = Never
                           /\ node'[m].status # "working"
      BY <2>2 DEF Retract, TypeOK, NodeRow, NothingWorking, NothingLapses
    <3>2. \A e \in edges : LET f == Close(e, now) IN
            f.status = e.status /\ f.expires_at = e.expires_at
      BY DEF TypeOK, EdgeRow, Close
    <3>3. ~settled' /\ edges' = CloseEdgesOf(n)
      BY <2>2 DEF Retract
    <3> QED  BY <3>1, <3>2, <3>3
             DEF NothingWorking, NothingLapses, DurableKnowledgeKept, CloseEdgesOf
  <2>3. CASE CloseExpired
    BY <2>3 DEF CloseExpired, Due, Lapsed, NothingLapses
  <2>4. CASE SweepWorking
    BY <2>4 DEF SweepWorking, Sweepable, NothingWorking
  <2>5. CASE Tick
    BY <2>5 DEF Tick, NothingWorking, NothingLapses, DurableKnowledgeKept, OpenEdges, IsOpen
  <2>6. CASE UNCHANGED vars
    BY <2>6 DEF vars, NothingWorking, NothingLapses, DurableKnowledgeKept, OpenEdges, IsOpen
  <2> QED  BY <2>1, <2>2, <2>3, <2>4, <2>5, <2>6 DEF Next
<1>3. KeptInv => DurableKnowledgeKept
  BY DEF KeptInv
<1> QED  BY <1>1, <1>2, <1>3, TypeCorrect, PTL DEF Spec
=============================================================================
