--------------------------- MODULE SharingProofs ---------------------------
(***************************************************************************)
(* What one person's memory gives to others stays governed: proofs about   *)
(* the tree of units (what it grants settles, it stays rooted while its    *)
(* edits do not overlap, and what climbs it does so by policy), consent,   *)
(* trust by consequence, what a session start says unasked, what the read  *)
(* path serves, and what a HOP is tuned on and adopted by.                 *)
(***************************************************************************)
EXTENDS Sharing, SequenceTheorems, Iteration

-----------------------------------------------------------------------------
(* The walks over a tree.  Up from u and down from u are the least sets    *)
(* that hold where they start and are closed under a step.                 *)

Trees == [UnitIds -> Row \cup {NoUnit}]

ChildrenOf(t, us) == {x \in Rows(t) : t[x].parent \in us}

\* A row is no absence of one, and its parent is a unit or the org.
LEMMA RowFacts ==
  ASSUME NEW t \in Trees
  PROVE  /\ Rows(t) \subseteq UnitIds
         /\ \A u \in UnitIds : u \in Rows(t) <=> t[u] \in Row
         /\ \A u \in Rows(t) : t[u].parent \in UnitIds \cup {Org}
         /\ \A us : ParentsOf(t, us) \subseteq UnitIds
<1>1. NoUnit \notin Row
  BY DEF NoUnit, Row
<1> QED  BY <1>1 DEF Trees, Rows, Row, ParentsOf

\* The walk up from a unit goes through units, misses no parent of a row it met,
\* and meets nothing but what any set closed under parents holds.
LEMMA AncestorsAreLeast ==
  ASSUME UnitsAssumption, NEW t \in Trees, NEW u \in UnitIds
  PROVE  /\ AncestorsIn(t, u) \subseteq UnitIds
         /\ ParentsOf(t, AncestorsIn(t, u) \cup {u}) \subseteq AncestorsIn(t, u) \cup {u}
         /\ \A T \in SUBSET UnitIds :
              u \in T /\ ParentsOf(t, T) \subseteq T => AncestorsIn(t, u) \subseteq T
<1> DEFINE Up[n \in Nat] == IF n = 0 THEN {u} ELSE Up[n-1] \cup ParentsOf(t, Up[n-1])
           F == [X \in SUBSET UnitIds |-> X \cup ParentsOf(t, X)]
           N == Cardinality(UnitIds)
<1>1. AncestorsIn(t, u) = Up[N] \ {u}
  BY DEF AncestorsIn
<1>2. F \in [SUBSET UnitIds -> SUBSET UnitIds] /\ {u} \in SUBSET UnitIds
  BY RowFacts
<1>3. \A X \in SUBSET UnitIds : F[X] = X \cup ParentsOf(t, X)
  OBVIOUS
<1>4. Up = [n \in Nat |-> IF n = 0 THEN {u} ELSE Up[n-1] \cup ParentsOf(t, Up[n-1])]
  <2> HIDE DEF F
  <2>1. PICK g \in [Nat -> SUBSET UnitIds] : Iterates(g, {u}, F)
    BY <1>2, IterationExists
  <2>2. ASSUME NEW n \in Nat
        PROVE  g[n] = IF n = 0 THEN {u} ELSE g[n-1] \cup ParentsOf(t, g[n-1])
    <3>1. CASE n = 0
      BY <3>1, <2>1 DEF Iterates
    <3>2. CASE n # 0
      <4>1. n - 1 \in Nat /\ (n - 1) + 1 = n
        BY <3>2
      <4>2. g[(n - 1) + 1] = F[g[n - 1]]
        BY <4>1, <2>1 DEF Iterates
      <4> QED  BY <4>1, <4>2, <3>2, <1>3
    <3> QED  BY <3>1, <3>2
  <2>3. g = [n \in Nat |-> IF n = 0 THEN {u} ELSE g[n-1] \cup ParentsOf(t, g[n-1])]
    BY <2>2
  <2> QED  BY <2>3
<1> HIDE DEF Up, F, N
<1>5. Up[0] = {u} /\ \A n \in Nat : Up[n + 1] = Up[n] \cup ParentsOf(t, Up[n])
  <2>1. \A n \in Nat : n + 1 # 0 /\ n + 1 \in Nat /\ (n + 1) - 1 = n
    OBVIOUS
  <2> QED  BY <1>4, <2>1
<1>6. Up \in [Nat -> SUBSET UnitIds]
  <2> DEFINE In == {n \in Nat : Up[n] \in SUBSET UnitIds}
  <2>1. 0 \in In /\ \A n \in Nat : n \in In => n + 1 \in In
    BY <1>5, RowFacts
  <2> HIDE DEF In
  <2>2. Nat \subseteq In
    BY <2>1, SetInduction
  <2> QED  BY <2>2, <1>4 DEF In
<1>7. Iterates(Up, {u}, F)
  BY <1>3, <1>5, <1>6 DEF Iterates
<1>8. IsFiniteSet(UnitIds) /\ N \in Nat
  BY FS_CardinalityType DEF UnitsAssumption, N
<1>9. F[Up[N]] = Up[N] /\ {u} \subseteq Up[N]
  <2>1. \A X \in SUBSET UnitIds : X \subseteq F[X]
    BY <1>3
  <2> QED  BY <1>2, <1>6, <1>7, <1>8, <2>1, IterationSettles DEF N
<1>10. ASSUME NEW T \in SUBSET UnitIds, u \in T, ParentsOf(t, T) \subseteq T
       PROVE  Up[N] \subseteq T
  <2>1. \A X \in SUBSET T : F[X] \subseteq T
    BY <1>3, <1>10 DEF ParentsOf
  <2>2. \A n \in Nat : Up[n] \subseteq T
    BY <1>7, <1>10, <2>1, IterationStaysBelow
  <2> QED  BY <2>2, <1>8
<1>11. Up[N] \in SUBSET UnitIds
  BY <1>6, <1>8
<1>12. AncestorsIn(t, u) \cup {u} = Up[N]
  BY <1>1, <1>9
<1>13. ParentsOf(t, Up[N]) \subseteq Up[N]
  BY <1>3, <1>9, <1>11
<1> QED  BY <1>1, <1>10, <1>11, <1>12, <1>13

\* The walk down from a place holds the units right under it and those right under
\* what it holds, and nothing but what any such set holds.
LEMMA DescendantsAreLeast ==
  ASSUME UnitsAssumption, NEW t \in Trees, NEW u
  PROVE  /\ DescendantsIn(t, u) \subseteq UnitIds
         /\ ChildrenOf(t, {u}) \subseteq DescendantsIn(t, u)
         /\ ChildrenOf(t, DescendantsIn(t, u)) \subseteq DescendantsIn(t, u)
         /\ \A T \in SUBSET UnitIds :
              ChildrenOf(t, {u}) \subseteq T /\ ChildrenOf(t, T) \subseteq T
                => DescendantsIn(t, u) \subseteq T
<1> DEFINE Down[n \in Nat] ==
             IF n = 0 THEN {x \in Rows(t) : t[x].parent = u}
             ELSE Down[n-1] \cup {x \in Rows(t) : t[x].parent \in Down[n-1]}
           c == ChildrenOf(t, {u})
           F == [X \in SUBSET UnitIds |-> X \cup ChildrenOf(t, X)]
           N == Cardinality(UnitIds)
<1>1. DescendantsIn(t, u) = Down[N]
  BY DEF DescendantsIn
<1>2. /\ c = {x \in Rows(t) : t[x].parent = u}
      /\ \A X : ChildrenOf(t, X) = {x \in Rows(t) : t[x].parent \in X}
      /\ \A X : ChildrenOf(t, X) \subseteq UnitIds
  BY RowFacts DEF ChildrenOf
<1>3. F \in [SUBSET UnitIds -> SUBSET UnitIds] /\ c \in SUBSET UnitIds
  BY <1>2
<1>4. \A X \in SUBSET UnitIds : F[X] = X \cup ChildrenOf(t, X)
  OBVIOUS
<1>5. Down = [n \in Nat |-> IF n = 0 THEN {x \in Rows(t) : t[x].parent = u}
                            ELSE Down[n-1] \cup {x \in Rows(t) : t[x].parent \in Down[n-1]}]
  <2> HIDE DEF F, c
  <2>1. PICK g \in [Nat -> SUBSET UnitIds] : Iterates(g, c, F)
    BY <1>3, IterationExists
  <2>2. ASSUME NEW n \in Nat
        PROVE  g[n] = IF n = 0 THEN c ELSE g[n-1] \cup ChildrenOf(t, g[n-1])
    <3>1. CASE n = 0
      BY <3>1, <2>1 DEF Iterates
    <3>2. CASE n # 0
      <4>1. n - 1 \in Nat /\ (n - 1) + 1 = n
        BY <3>2
      <4>2. g[(n - 1) + 1] = F[g[n - 1]]
        BY <4>1, <2>1 DEF Iterates
      <4> QED  BY <4>1, <4>2, <3>2, <1>4
    <3> QED  BY <3>1, <3>2
  <2>3. \A n \in Nat : g[n] = IF n = 0 THEN {x \in Rows(t) : t[x].parent = u}
                              ELSE g[n-1] \cup {x \in Rows(t) : t[x].parent \in g[n-1]}
    BY <2>2, <1>2
  <2>4. g = [n \in Nat |-> IF n = 0 THEN {x \in Rows(t) : t[x].parent = u}
                           ELSE g[n-1] \cup {x \in Rows(t) : t[x].parent \in g[n-1]}]
    BY <2>3
  <2> QED  BY <2>4
<1> HIDE DEF Down, F, N, c
<1>6. Down[0] = c /\ \A n \in Nat : Down[n + 1] = Down[n] \cup ChildrenOf(t, Down[n])
  <2>1. \A n \in Nat : n + 1 # 0 /\ n + 1 \in Nat /\ (n + 1) - 1 = n
    OBVIOUS
  <2>2. Down[0] = {x \in Rows(t) : t[x].parent = u}
    BY <1>5
  <2>3. \A n \in Nat : Down[n + 1] = Down[n] \cup {x \in Rows(t) : t[x].parent \in Down[n]}
    BY <1>5, <2>1
  <2> QED  BY <1>2, <2>2, <2>3
<1>7. Down \in [Nat -> SUBSET UnitIds]
  <2> DEFINE In == {n \in Nat : Down[n] \in SUBSET UnitIds}
  <2>1. 0 \in In /\ \A n \in Nat : n \in In => n + 1 \in In
    BY <1>2, <1>3, <1>6
  <2> HIDE DEF In
  <2>2. Nat \subseteq In
    BY <2>1, SetInduction
  <2> QED  BY <2>2, <1>5 DEF In
<1>8. Iterates(Down, c, F)
  BY <1>4, <1>6, <1>7 DEF Iterates
<1>9. IsFiniteSet(UnitIds) /\ N \in Nat
  BY FS_CardinalityType DEF UnitsAssumption, N
<1>10. F[Down[N]] = Down[N] /\ c \subseteq Down[N]
  <2>1. \A X \in SUBSET UnitIds : X \subseteq F[X]
    BY <1>4
  <2> QED  BY <1>3, <1>7, <1>8, <1>9, <2>1, IterationSettles DEF N
<1>11. ASSUME NEW T \in SUBSET UnitIds, c \subseteq T, ChildrenOf(t, T) \subseteq T
       PROVE  Down[N] \subseteq T
  <2>1. \A X \in SUBSET T : F[X] \subseteq T
    BY <1>4, <1>11 DEF ChildrenOf
  <2>2. \A n \in Nat : Down[n] \subseteq T
    BY <1>8, <1>11, <2>1, IterationStaysBelow
  <2> QED  BY <2>2, <1>9
<1>12. Down[N] \in SUBSET UnitIds
  BY <1>7, <1>9
<1>13. ChildrenOf(t, Down[N]) \subseteq Down[N]
  BY <1>4, <1>10, <1>12
<1> QED  BY <1>1, <1>10, <1>11, <1>12, <1>13 DEF c

-----------------------------------------------------------------------------
(* An edit alone keeps a forest a forest. *)

Parented(t) == \A u \in Rows(t) : t[u].parent \in Rows(t) \cup {Org}
Acyclic(t) == \A u \in Rows(t) : u \notin DescendantsIn(t, u)
Forest(t) == Parented(t) /\ Acyclic(t)

\* To hang from the org by units that exist is to have only parents that exist.
LEMMA ParentedIsRooted ==
  ASSUME UnitsAssumption, NEW t \in Trees
  PROVE  Parented(t) <=> \A u \in Rows(t) : AncestorsIn(t, u) \subseteq Rows(t)
<1>0. Rows(t) \in SUBSET UnitIds
  BY RowFacts
<1>1. ASSUME Parented(t), NEW u \in Rows(t)
      PROVE  AncestorsIn(t, u) \subseteq Rows(t)
  <2>1. ParentsOf(t, Rows(t)) \subseteq Rows(t)
    BY <1>1 DEF Parented, ParentsOf
  <2> QED  BY <1>0, <2>1, AncestorsAreLeast
<1>2. ASSUME NEW u \in Rows(t), AncestorsIn(t, u) \subseteq Rows(t)
      PROVE  t[u].parent \in Rows(t) \cup {Org}
  <2>1. t[u].parent # Org => t[u].parent \in ParentsOf(t, AncestorsIn(t, u) \cup {u})
    BY DEF ParentsOf
  <2>2. ParentsOf(t, AncestorsIn(t, u) \cup {u}) \subseteq AncestorsIn(t, u) \cup {u}
    BY <1>0, AncestorsAreLeast
  <2> QED  BY <1>2, <2>1, <2>2
<1> QED  BY <1>1, <1>2 DEF Parented

\* A tree that gives no unit a new parent has nothing new below any unit.
LEMMA FewerChildrenFewerBelow ==
  ASSUME UnitsAssumption, NEW t \in Trees, NEW s \in Trees,
         \A u \in Rows(s) : u \in Rows(t) /\ s[u].parent = t[u].parent,
         NEW u
  PROVE  DescendantsIn(s, u) \subseteq DescendantsIn(t, u)
<1>1. \A us : ChildrenOf(s, us) \subseteq ChildrenOf(t, us)
  BY DEF ChildrenOf
<1>2. DescendantsIn(t, u) \in SUBSET UnitIds
  BY DescendantsAreLeast
<1>3. /\ ChildrenOf(s, {u}) \subseteq DescendantsIn(t, u)
      /\ ChildrenOf(s, DescendantsIn(t, u)) \subseteq DescendantsIn(t, u)
  BY <1>1, DescendantsAreLeast
<1> QED  BY <1>2, <1>3, DescendantsAreLeast

\* What is below a unit below u is below u.
LEMMA BelowBelow ==
  ASSUME UnitsAssumption, NEW t \in Trees, NEW u, NEW x \in DescendantsIn(t, u)
  PROVE  DescendantsIn(t, x) \subseteq DescendantsIn(t, u)
<1> DEFINE D == DescendantsIn(t, u)
<1>1. D \in SUBSET UnitIds /\ ChildrenOf(t, D) \subseteq D
  BY DescendantsAreLeast
<1>2. ChildrenOf(t, {x}) \subseteq ChildrenOf(t, D)
  BY DEF ChildrenOf
<1> HIDE DEF D
<1>3. DescendantsIn(t, x) \subseteq D
  BY <1>1, <1>2, DescendantsAreLeast
<1> QED  BY <1>3 DEF D

NewRow(p) == [parent |-> p, shares |-> FALSE, adminsOnly |-> FALSE]

LEMMA CreateKeepsForest ==
  ASSUME UnitsAssumption, NEW t \in Trees, Forest(t),
         NEW x \in UnitIds, t[x] = NoUnit, NEW p \in Rows(t) \cup {Org},
         NEW s \in Trees, s = [t EXCEPT ![x] = NewRow(p)]
  PROVE  Forest(s)
<1>1. /\ x \notin Rows(t) /\ x # Org /\ p # x
      /\ Rows(t) \subseteq UnitIds /\ Rows(s) \subseteq UnitIds
  BY RowFacts DEF UnitsAssumption, Rows
<1>2. /\ s[x].parent = p
      /\ \A u \in UnitIds \ {x} : s[u] = t[u]
  BY DEF NewRow, Trees
<1>3. s[x] # NoUnit
  BY DEF NewRow, NoUnit, Trees
<1>4. Rows(s) = Rows(t) \cup {x}
  BY <1>1, <1>2, <1>3 DEF Rows
<1>5. Parented(s)
  BY <1>1, <1>2, <1>4 DEF Forest, Parented
<1>6. \A us : ChildrenOf(s, us) \subseteq ChildrenOf(t, us) \cup {x}
  BY <1>1, <1>2, <1>4 DEF ChildrenOf
<1>7. ChildrenOf(s, {x}) = {}
  <2>1. \A u \in Rows(t) : t[u].parent # x
    BY <1>1 DEF Forest, Parented
  <2>2. \A u \in Rows(s) : s[u].parent # x
    BY <1>1, <1>2, <1>4, <2>1
  <2> QED  BY <2>2 DEF ChildrenOf
<1>8. ASSUME NEW u \in Rows(s)
      PROVE  u \notin DescendantsIn(s, u)
  <2>1. CASE u = x
    <3>1. ChildrenOf(s, {x}) \subseteq {} /\ ChildrenOf(s, {}) \subseteq {} /\ {} \in SUBSET UnitIds
      BY <1>7 DEF ChildrenOf
    <3>2. DescendantsIn(s, x) \subseteq {}
      BY <3>1, DescendantsAreLeast
    <3> QED  BY <2>1, <3>2
  <2>2. CASE u # x
    <3> DEFINE T == DescendantsIn(t, u) \cup {x}
    <3>1. DescendantsIn(t, u) \in SUBSET UnitIds
      BY DescendantsAreLeast
    <3>2. T \in SUBSET UnitIds
      BY <3>1
    <3>3. ChildrenOf(t, {u}) \subseteq T /\ ChildrenOf(t, DescendantsIn(t, u)) \subseteq T
      BY DescendantsAreLeast
    <3>4. ChildrenOf(s, {u}) \subseteq T
      BY <1>6, <3>3
    <3>5. ChildrenOf(s, T) \subseteq T
      <4>1. ChildrenOf(s, T) = ChildrenOf(s, DescendantsIn(t, u)) \cup ChildrenOf(s, {x})
        BY DEF ChildrenOf
      <4>2. ChildrenOf(s, DescendantsIn(t, u)) \subseteq ChildrenOf(t, DescendantsIn(t, u)) \cup {x}
        BY <1>6
      <4> QED  BY <1>7, <3>3, <4>1, <4>2
    <3> HIDE DEF T
    <3>6. DescendantsIn(s, u) \subseteq T
      BY <3>2, <3>4, <3>5, DescendantsAreLeast
    <3>7. u \notin DescendantsIn(t, u)
      BY <1>4, <2>2 DEF Forest, Acyclic
    <3> QED  BY <2>2, <3>6, <3>7 DEF T
  <2> QED  BY <2>1, <2>2
<1> QED  BY <1>5, <1>8 DEF Forest, Acyclic

LEMMA DeleteKeepsForest ==
  ASSUME UnitsAssumption, NEW t \in Trees, Forest(t),
         NEW x \in UnitIds, \A u \in Rows(t) : t[u].parent # x,
         NEW s \in Trees, s = [t EXCEPT ![x] = NoUnit]
  PROVE  Forest(s)
<1>1. Rows(s) = Rows(t) \ {x} /\ \A u \in UnitIds \ {x} : s[u] = t[u]
  BY DEF Rows, Trees
<1>2. Rows(t) \subseteq UnitIds
  BY RowFacts
<1>3. Parented(s)
  BY <1>1, <1>2 DEF Forest, Parented
<1>4. \A u \in Rows(s) : u \in Rows(t) /\ s[u].parent = t[u].parent
  BY <1>1, <1>2
<1>5. Acyclic(s)
  BY <1>1, <1>4, FewerChildrenFewerBelow DEF Forest, Acyclic
<1> QED  BY <1>3, <1>5 DEF Forest

\* A change of policy moves nothing.
LEMMA SameParentsKeepForest ==
  ASSUME UnitsAssumption, NEW t \in Trees, Forest(t), NEW s \in Trees,
         Rows(s) = Rows(t), \A u \in Rows(t) : s[u].parent = t[u].parent
  PROVE  Forest(s)
<1>1. Parented(s)
  BY DEF Forest, Parented
<1>2. Acyclic(s)
  BY FewerChildrenFewerBelow DEF Forest, Acyclic
<1> QED  BY <1>1, <1>2 DEF Forest

\* A unit that moves to a place that is neither itself nor below it takes its
\* subtree along: what is in that subtree has nothing new below it, and what is
\* not has at most that subtree.
LEMMA MoveKeepsForest ==
  ASSUME UnitsAssumption, NEW t \in Trees, Forest(t),
         NEW x \in Rows(t), NEW p \in Rows(t) \cup {Org},
         p \notin {x} \cup DescendantsIn(t, x),
         NEW s \in Trees, s = [t EXCEPT ![x].parent = p]
  PROVE  Forest(s)
<1> DEFINE D == {x} \cup DescendantsIn(t, x)
<1>1. Rows(t) \subseteq UnitIds /\ x \in UnitIds /\ t[x] \in Row
  BY RowFacts
<1>2. s[x].parent = p /\ \A u \in UnitIds \ {x} : s[u] = t[u]
  BY <1>1 DEF Row, Trees
<1>3. s[x] # NoUnit
  <2>1. s[x] = [t[x] EXCEPT !.parent = p]
    BY <1>1 DEF Trees
  <2>2. DOMAIN s[x] = DOMAIN t[x] /\ DOMAIN t[x] = {"parent", "shares", "adminsOnly"}
    BY <1>1, <2>1 DEF Row
  <2> QED  BY <2>2 DEF NoUnit
<1>4. Rows(s) = Rows(t)
  BY <1>1, <1>2, <1>3 DEF Rows
<1>5. Parented(s)
  BY <1>1, <1>2, <1>4 DEF Forest, Parented
<1>6. \A us : /\ ChildrenOf(s, us) \subseteq ChildrenOf(t, us) \cup {x}
              /\ p \notin us => ChildrenOf(s, us) \subseteq ChildrenOf(t, us)
  BY <1>1, <1>2, <1>4 DEF ChildrenOf
<1>7. /\ D \in SUBSET UnitIds /\ x \in D /\ p \notin D
      /\ ChildrenOf(t, {x}) \subseteq D /\ ChildrenOf(t, DescendantsIn(t, x)) \subseteq D
  BY <1>1, DescendantsAreLeast
<1>8. ChildrenOf(t, D) \subseteq D
  <2>1. ChildrenOf(t, D) = ChildrenOf(t, {x}) \cup ChildrenOf(t, DescendantsIn(t, x))
    BY DEF ChildrenOf
  <2> QED  BY <1>7, <2>1
<1>9. ASSUME NEW u \in Rows(s)
      PROVE  u \notin DescendantsIn(s, u)
  <2> DEFINE B == DescendantsIn(t, u)
  <2>1. B \in SUBSET UnitIds /\ ChildrenOf(t, {u}) \subseteq B /\ ChildrenOf(t, B) \subseteq B
    BY DescendantsAreLeast
  <2>2. u \notin B
    BY <1>4 DEF Forest, Acyclic
  <2>3. u \in D => B \subseteq D
    BY BelowBelow
  <2> HIDE DEF B, D
  <2>4. CASE u \in D
    <3>1. p \notin {u} /\ p \notin B
      BY <1>7, <2>3, <2>4
    <3>2. ChildrenOf(s, {u}) \subseteq B /\ ChildrenOf(s, B) \subseteq B
      <4>1. ChildrenOf(s, {u}) \subseteq ChildrenOf(t, {u})
        BY <1>6, <3>1
      <4>2. ChildrenOf(s, B) \subseteq ChildrenOf(t, B)
        BY <1>6, <3>1
      <4> QED  BY <2>1, <4>1, <4>2
    <3>3. DescendantsIn(s, u) \subseteq B
      BY <2>1, <3>2, DescendantsAreLeast
    <3> QED  BY <2>2, <3>3
  <2>5. CASE u \notin D
    <3> DEFINE T == B \cup D
    <3>1. T \in SUBSET UnitIds /\ x \in T
      BY <1>7, <2>1
    <3>2. ChildrenOf(t, T) = ChildrenOf(t, B) \cup ChildrenOf(t, D)
      BY DEF ChildrenOf
    <3>3. ChildrenOf(s, T) \subseteq T
      <4>1. ChildrenOf(s, T) \subseteq ChildrenOf(t, T) \cup {x}
        BY <1>6
      <4> QED  BY <1>8, <2>1, <3>1, <3>2, <4>1
    <3>4. ChildrenOf(s, {u}) \subseteq T
      <4>1. ChildrenOf(s, {u}) \subseteq ChildrenOf(t, {u}) \cup {x}
        BY <1>6
      <4> QED  BY <2>1, <3>1, <4>1
    <3> HIDE DEF T
    <3>5. DescendantsIn(s, u) \subseteq T
      BY <3>1, <3>3, <3>4, DescendantsAreLeast
    <3> QED  BY <2>2, <2>5, <3>5 DEF T
  <2> QED  BY <2>4, <2>5
<1> QED  BY <1>5, <1>9 DEF Forest, Acyclic

\* What a commit writes, of a change that is still allowed on the tree it finds.
LEMMA CommitKeepsForest ==
  ASSUME UnitsAssumption, tree \in Trees, Forest(tree), NEW c \in Change,
         Allowed(tree, member, c), TreeAfter(c) \in Trees
  PROVE  Forest(TreeAfter(c))
<1> DEFINE s == TreeAfter(c)
<1>0. c.unit \in UnitIds /\ s \in Trees
  BY DEF Change
<1>1. CASE c.op = "create"
  <2>1. s = [tree EXCEPT ![c.unit] = NewRow(c.to)]
    BY <1>1 DEF TreeAfter, NewRow
  <2>2. tree[c.unit] = NoUnit /\ c.to \in Rows(tree) \cup {Org}
    BY <1>1 DEF Allowed
  <2> HIDE DEF s
  <2>3. Forest(s)
    BY <1>0, <2>1, <2>2, CreateKeepsForest
  <2> QED  BY <2>3 DEF s
<1>2. CASE c.op = "delete"
  <2>1. s = [tree EXCEPT ![c.unit] = NoUnit]
    BY <1>2 DEF TreeAfter
  <2>2. \A u \in Rows(tree) : tree[u].parent # c.unit
    BY <1>2 DEF Allowed
  <2> HIDE DEF s
  <2>3. Forest(s)
    BY <1>0, <2>1, <2>2, DeleteKeepsForest
  <2> QED  BY <2>3 DEF s
<1>3. CASE c.op = "move"
  <2>1. /\ c.unit \in Rows(tree) /\ c.to \in Rows(tree) \cup {Org}
        /\ c.to \notin {c.unit} \cup DescendantsIn(tree, c.unit)
    BY <1>3 DEF Allowed
  <2>2. tree[c.unit] # NoUnit
    BY <2>1 DEF Rows
  <2>3. s = [tree EXCEPT ![c.unit].parent = c.to]
    BY <1>3, <2>2 DEF TreeAfter
  <2> HIDE DEF s
  <2>4. Forest(s)
    BY <1>0, <2>1, <2>3, MoveKeepsForest
  <2> QED  BY <2>4 DEF s
<1>4. CASE c.op = "share"
  <2>1. c.unit \in Rows(tree)
    BY <1>4 DEF Allowed
  <2>2. tree[c.unit] # NoUnit /\ tree[c.unit] \in Row
    BY <2>1, RowFacts DEF Rows
  <2>3. s = [tree EXCEPT ![c.unit].shares = TRUE, ![c.unit].adminsOnly = TRUE]
    BY <1>4, <2>2 DEF TreeAfter
  <2> DEFINE r == [tree[c.unit] EXCEPT !.shares = TRUE, !.adminsOnly = TRUE]
  <2>4. r.parent = tree[c.unit].parent /\ r \in Row
    BY <2>2 DEF Row
  <2> HIDE DEF r
  <2>5. s[c.unit] = r /\ \A u \in UnitIds \ {c.unit} : s[u] = tree[u]
    BY <1>0, <2>3 DEF Trees, r
  <2> HIDE DEF s
  <2>6. s[c.unit] # NoUnit
    BY <1>0, <2>4, <2>5, RowFacts DEF Rows
  <2>7. Rows(s) = Rows(tree)
    BY <2>1, <2>5, <2>6 DEF Rows
  <2>8. \A u \in Rows(tree) : s[u].parent = tree[u].parent
    BY <2>4, <2>5 DEF Rows
  <2>9. Forest(s)
    BY <1>0, <2>7, <2>8, SameParentsKeepForest
  <2> QED  BY <2>9 DEF s
<1>5. CASE c.op \in {"join", "admin", "leave"}
  <2>1. s = tree
    BY <1>5 DEF TreeAfter
  <2> QED  BY <2>1
<1>6. c.op \in {"create", "move", "delete", "share", "join", "admin", "leave"}
  BY DEF Change
<1> QED  BY <1>1, <1>2, <1>3, <1>4, <1>5, <1>6

LEMMA CommitKeepsTypes ==
  ASSUME tree \in Trees, member \in [UnitIds -> Roles], NEW c \in Change
  PROVE  TreeAfter(c) \in Trees /\ MemberAfter(c) \in [UnitIds -> Roles]
<1>0. c.unit \in UnitIds
  BY DEF Change
<1>1. MemberAfter(c) \in [UnitIds -> Roles]
  <2>1. MemberAfter(c) \in {member, [member EXCEPT ![c.unit] = "member"],
                            [member EXCEPT ![c.unit] = "admin"],
                            [member EXCEPT ![c.unit] = "none"]}
    BY DEF MemberAfter
  <2> QED  BY <1>0, <2>1 DEF Roles
<1>2. tree[c.unit] # NoUnit => tree[c.unit] \in Row
  BY <1>0 DEF Trees
<1>3. CASE c.op = "create"
  <2>1. c.to \in UnitIds \cup {Org}
    BY <1>3 DEF Change
  <2>2. NewRow(c.to) \in Row
    BY <2>1 DEF NewRow, Row
  <2>3. TreeAfter(c) = [tree EXCEPT ![c.unit] = NewRow(c.to)]
    BY <1>3 DEF TreeAfter, NewRow
  <2> HIDE DEF NewRow, Row
  <2> QED  BY <1>0, <1>1, <2>2, <2>3 DEF Trees
<1>4. CASE c.op = "move" /\ tree[c.unit] # NoUnit
  <2>1. c.to \in UnitIds \cup {Org}
    BY <1>4 DEF Change
  <2> DEFINE r == [tree[c.unit] EXCEPT !.parent = c.to]
  <2>2. r \in Row
    BY <1>2, <1>4, <2>1 DEF Row
  <2>3. TreeAfter(c) = [tree EXCEPT ![c.unit] = r]
    BY <1>0, <1>4 DEF TreeAfter, Trees
  <2> HIDE DEF r
  <2> QED  BY <1>0, <1>1, <2>2, <2>3 DEF Trees
<1>5. CASE c.op = "share" /\ tree[c.unit] # NoUnit
  <2> DEFINE r == [tree[c.unit] EXCEPT !.shares = TRUE, !.adminsOnly = TRUE]
  <2>1. r \in Row
    BY <1>2, <1>5 DEF Row
  <2>2. TreeAfter(c) = [tree EXCEPT ![c.unit] = r]
    BY <1>0, <1>5 DEF TreeAfter, Trees
  <2> HIDE DEF r
  <2> QED  BY <1>0, <1>1, <2>1, <2>2 DEF Trees
<1>6. CASE c.op = "delete"
  BY <1>0, <1>1, <1>6 DEF TreeAfter, Trees
<1>7. CASE /\ c.op \notin {"create", "delete"}
           /\ ~(c.op = "move" /\ tree[c.unit] # NoUnit)
           /\ ~(c.op = "share" /\ tree[c.unit] # NoUnit)
  <2>1. TreeAfter(c) = tree
    BY <1>7 DEF TreeAfter
  <2> QED  BY <1>1, <2>1
<1> QED  BY <1>3, <1>4, <1>5, <1>6, <1>7

EditRow == [phase : {"checked", "flushed"}, change : Change]

\* The person belongs to units that exist.
MembersBelong(t, m) == \A u \in UnitIds : m[u] # "none" => t[u] # NoUnit

LEMMA CommitKeepsMembers ==
  ASSUME tree \in Trees, member \in [UnitIds -> Roles], NEW c \in Change,
         Allowed(tree, member, c), MembersBelong(tree, member)
  PROVE  MembersBelong(TreeAfter(c), MemberAfter(c))
<1>0. /\ c.unit \in UnitIds
      /\ c.op \in {"create", "move", "delete", "share", "join", "admin", "leave"}
      /\ TreeAfter(c) \in Trees
  BY CommitKeepsTypes DEF Change
<1>1. \A u \in UnitIds \ {c.unit} : TreeAfter(c)[u] = tree[u] /\ MemberAfter(c)[u] = member[u]
  BY <1>0 DEF TreeAfter, MemberAfter, Trees
<1>2. c.op = "delete" => member[c.unit] = "none" /\ MemberAfter(c) = member
  BY DEF Allowed, MemberAfter
<1>3. c.op \notin {"join", "admin"} => MemberAfter(c)[c.unit] \in {member[c.unit], "none"}
  BY <1>0 DEF MemberAfter
<1>4. c.op \in {"join", "admin"} => c.unit \in Rows(tree) /\ TreeAfter(c) = tree
  BY DEF Allowed, TreeAfter
<1>5. c.op # "delete" /\ tree[c.unit] # NoUnit => TreeAfter(c)[c.unit] # NoUnit
  <2> SUFFICES ASSUME c.op # "delete", tree[c.unit] # NoUnit
               PROVE  TreeAfter(c)[c.unit] # NoUnit
    OBVIOUS
  <2>1. tree[c.unit] \in Row
    BY <1>0 DEF Trees
  <2>2. c.op # "create"
    BY DEF Allowed
  <2>3. CASE c.op = "move"
    <3>1. TreeAfter(c)[c.unit] = [tree[c.unit] EXCEPT !.parent = c.to]
      BY <1>0, <2>3 DEF TreeAfter, Trees
    <3>2. DOMAIN TreeAfter(c)[c.unit] = {"parent", "shares", "adminsOnly"}
      BY <2>1, <3>1 DEF Row
    <3> QED  BY <3>2 DEF NoUnit
  <2>4. CASE c.op = "share"
    <3>1. TreeAfter(c)[c.unit] = [tree[c.unit] EXCEPT !.shares = TRUE, !.adminsOnly = TRUE]
      BY <1>0, <2>4 DEF TreeAfter, Trees
    <3>2. DOMAIN TreeAfter(c)[c.unit] = {"parent", "shares", "adminsOnly"}
      BY <2>1, <3>1 DEF Row
    <3> QED  BY <3>2 DEF NoUnit
  <2>5. CASE c.op \in {"join", "admin", "leave"}
    BY <2>5 DEF TreeAfter
  <2> QED  BY <1>0, <2>2, <2>3, <2>4, <2>5
<1> QED  BY <1>0, <1>1, <1>2, <1>3, <1>4, <1>5 DEF MembersBelong, Rows

\* While no two edits have overlapped, the one under way was checked on the tree
\* as it is.
RootedInv ==
  /\ tree \in Trees /\ member \in [UnitIds -> Roles]
  /\ edit \in [Editors -> EditRow \cup {NoEdit}] /\ raced \in BOOLEAN
  /\ ~raced =>
       /\ Forest(tree) /\ MembersBelong(tree, member)
       /\ \A e \in Editors : edit[e] # NoEdit =>
            /\ Allowed(tree, member, edit[e].change)
            /\ \A o \in Editors \ {e} : edit[o] = NoEdit

LEMMA RootedInvHolds ==
  ASSUME UnitsAssumption
  PROVE  UnitsSpec => []RootedInv
<1>0. NoEdit \notin EditRow
  BY DEF NoEdit, EditRow
<1>1. UnitsInit => RootedInv
  <2> SUFFICES ASSUME UnitsInit PROVE RootedInv
    OBVIOUS
  <2>1. tree \in Trees
    <3>1. \A p \in UnitIds \cup {Org} : [parent |-> p, shares |-> FALSE, adminsOnly |-> FALSE] \in Row
      BY DEF Row
    <3> HIDE DEF Row, NoUnit
    <3> QED  BY <3>1 DEF UnitsInit, Trees
  <2>2. \A u \in Rows(tree) : /\ AncestorsIn(tree, u) \subseteq Rows(tree)
                              /\ u \notin DescendantsIn(tree, u)
    BY DEF UnitsInit
  <2>3. Forest(tree)
    BY <2>1, <2>2, ParentedIsRooted DEF Forest, Acyclic
  <2>4. /\ member \in [UnitIds -> Roles] /\ edit = [e \in Editors |-> NoEdit]
        /\ MembersBelong(tree, member) /\ raced \in BOOLEAN
    BY DEF UnitsInit, Roles, MembersBelong
  <2> QED  BY <2>1, <2>3, <2>4 DEF RootedInv
<1>2. RootedInv /\ [UnitsNext]_unitsVars => RootedInv'
  <2> SUFFICES ASSUME RootedInv, [UnitsNext]_unitsVars
               PROVE  RootedInv'
    OBVIOUS
  <2>1. ASSUME NEW e \in Editors, NEW c \in Change, BeginEdit(e, c)
        PROVE  RootedInv'
    <3>1. /\ edit[e] = NoEdit /\ Allowed(tree, member, c)
          /\ edit' = [edit EXCEPT ![e] = [phase |-> "checked", change |-> c]]
          /\ raced' = (raced \/ Overlapping(e))
          /\ tree' = tree /\ member' = member
      BY <2>1 DEF BeginEdit
    <3> DEFINE r == [phase |-> "checked", change |-> c]
    <3>2. r \in EditRow /\ r.change = c
      BY DEF EditRow
    <3> HIDE DEF r
    <3>3. /\ edit' \in [Editors -> EditRow \cup {NoEdit}]
          /\ edit'[e] = r /\ \A o \in Editors \ {e} : edit'[o] = edit[o]
      BY <3>1, <3>2 DEF RootedInv, r
    <3>4. raced' \in BOOLEAN /\ (~raced' => ~raced /\ \A o \in Editors \ {e} : edit[o] = NoEdit)
      BY <3>1 DEF RootedInv, Overlapping
    <3>5. ~raced' => \A o \in Editors : edit'[o] # NoEdit =>
                       /\ Allowed(tree, member, edit'[o].change)
                       /\ \A d \in Editors \ {o} : edit'[d] = NoEdit
      BY <3>1, <3>2, <3>3, <3>4
    <3> QED  BY <3>1, <3>3, <3>4, <3>5 DEF RootedInv
  <2>2. ASSUME NEW e \in Editors, FlushEdit(e)
        PROVE  RootedInv'
    <3>1. /\ edit[e] # NoEdit /\ edit' = [edit EXCEPT ![e].phase = "flushed"]
          /\ tree' = tree /\ member' = member /\ raced' = raced
      BY <2>2 DEF FlushEdit
    <3> DEFINE r == [edit[e] EXCEPT !.phase = "flushed"]
    <3>2. edit[e] \in EditRow
      BY <3>1 DEF RootedInv
    <3>3. r \in EditRow /\ r.change = edit[e].change
      BY <3>2 DEF EditRow
    <3>4. edit' = [edit EXCEPT ![e] = r]
      BY <3>1 DEF RootedInv
    <3> HIDE DEF r
    <3>5. /\ edit' \in [Editors -> EditRow \cup {NoEdit}]
          /\ edit'[e] = r /\ \A o \in Editors \ {e} : edit'[o] = edit[o]
      BY <3>3, <3>4 DEF RootedInv
    <3> QED  BY <3>1, <3>3, <3>5 DEF RootedInv
  <2>3. ASSUME NEW e \in Editors, CommitEdit(e)
        PROVE  RootedInv'
    <3> DEFINE c == edit[e].change
    <3>1. /\ edit[e] # NoEdit /\ edit' = [edit EXCEPT ![e] = NoEdit]
          /\ tree' = TreeAfter(c) /\ member' = MemberAfter(c) /\ raced' = raced
      BY <2>3 DEF CommitEdit
    <3>2. c \in Change
      BY <3>1 DEF RootedInv, EditRow
    <3>3. ~raced => /\ Forest(tree) /\ MembersBelong(tree, member) /\ Allowed(tree, member, c)
                    /\ \A o \in Editors : edit'[o] = NoEdit
      BY <3>1 DEF RootedInv
    <3>4. edit' \in [Editors -> EditRow \cup {NoEdit}]
      BY <3>1 DEF RootedInv
    <3> HIDE DEF c
    <3>5. tree \in Trees /\ member \in [UnitIds -> Roles]
      BY DEF RootedInv
    <3>6. TreeAfter(c) \in Trees /\ MemberAfter(c) \in [UnitIds -> Roles]
      BY <3>2, <3>5, CommitKeepsTypes
    <3>7. ~raced => Forest(TreeAfter(c))
      BY <3>2, <3>3, <3>5, <3>6, CommitKeepsForest
    <3>8. ~raced => MembersBelong(TreeAfter(c), MemberAfter(c))
      BY <3>2, <3>3, <3>5, CommitKeepsMembers
    <3>9. ~raced' => Forest(tree)' /\ MembersBelong(tree, member)'
      BY <3>1, <3>7, <3>8
    <3> QED  BY <3>1, <3>3, <3>4, <3>6, <3>9 DEF RootedInv
  <2>4. CASE UNCHANGED <<tree, member, edit, raced>>
    BY <2>4 DEF RootedInv
  <2>5. /\ \A p \in Processes : BeginFill(p) \/ LoadTree(p) \/ StoreAccess(p) =>
             UNCHANGED <<tree, member, edit, raced>>
        /\ UnitsTick => UNCHANGED <<tree, member, edit, raced>>
        /\ UNCHANGED unitsVars => UNCHANGED <<tree, member, edit, raced>>
    BY DEF BeginFill, LoadTree, StoreAccess, UnitsTick, unitsVars
  <2> QED  BY <2>1, <2>2, <2>3, <2>4, <2>5 DEF UnitsNext
<1> QED  BY <1>1, <1>2, PTL DEF UnitsSpec

\* update_unit, delete_unit: as long as no two edits overlapped, every unit hangs
\* from the org by units that exist, and the person belongs to units that exist.
THEOREM RootedUnlessRacedHolds ==
  ASSUME UnitsAssumption
  PROVE  UnitsSpec => []RootedUnlessRaced
<1>1. RootedInv => RootedUnlessRaced
  BY ParentedIsRooted DEF RootedInv, RootedUnlessRaced, Forest, Acyclic, MembersBelong
<1> QED  BY RootedInvHolds, <1>1, PTL DEF UnitsSpec

-----------------------------------------------------------------------------
(* What a process answers from its cache was asked for at most TTL *)
(* before it lapses, so an entry that is live a TTL after the last commit  *)
(* was asked for, read and stored after that commit.                       *)

FillIsTimed(p) ==
  fill[p] # NoFill =>
    /\ fill[p].phase \in {"asked", "loaded"}
    /\ fill[p].at \in Nat /\ fill[p].at <= clock
    /\ fill[p].phase = "loaded" /\ fill[p].at > changed => fill[p].tree = tree

EntryIsTimed(p) ==
  cache[p] # NoEntry =>
    /\ cache[p].expires \in Nat /\ cache[p].expires <= clock + TTL
    /\ cache[p].expires > changed + TTL => cache[p].access = Access(tree, member)

SettleInv ==
  /\ clock \in Nat /\ changed \in Nat /\ changed <= clock
  /\ DOMAIN cache = Processes /\ DOMAIN fill = Processes
  /\ \A p \in Processes : FillIsTimed(p) /\ EntryIsTimed(p)

\* An edit's steps: the check reads, the flush only forgets, and the commit dates
\* everything that was read before it.
LEMMA EditKeepsSettled ==
  ASSUME UnitsAssumption, SettleInv, NEW e \in Editors,
         (\E c \in Change : BeginEdit(e, c)) \/ FlushEdit(e) \/ CommitEdit(e)
  PROVE  SettleInv'
<1> USE DEF SettleInv, FillIsTimed, EntryIsTimed, UnitsAssumption
<1>1. ASSUME NEW c \in Change, BeginEdit(e, c)
      PROVE  SettleInv'
  BY <1>1 DEF BeginEdit
<1>2. CASE FlushEdit(e)
  <2>1. /\ cache' = [p \in Processes |-> IF p = ProcessOf[e] THEN NoEntry ELSE cache[p]]
        /\ UNCHANGED <<tree, member, fill, clock, changed>>
    BY <1>2 DEF FlushEdit
  <2>2. \A p \in Processes : cache'[p] = NoEntry \/ cache'[p] = cache[p]
    BY <2>1
  <2> QED  BY <2>1, <2>2
<1>3. CASE CommitEdit(e)
  <2>1. changed' = clock /\ UNCHANGED <<cache, fill, clock>>
    BY <1>3 DEF CommitEdit
  <2> QED  BY <2>1
<1> QED  BY <1>1, <1>2, <1>3

\* A resolution's steps: what is stored was read after it was asked for.
LEMMA ResolveKeepsSettled ==
  ASSUME UnitsAssumption, SettleInv, NEW p \in Processes,
         BeginFill(p) \/ LoadTree(p) \/ StoreAccess(p)
  PROVE  SettleInv'
<1> USE DEF UnitsAssumption
<1>0. /\ clock \in Nat /\ changed \in Nat /\ changed <= clock /\ TTL \in Nat
      /\ DOMAIN cache = Processes /\ DOMAIN fill = Processes
      /\ \A q \in Processes : FillIsTimed(q) /\ EntryIsTimed(q)
  BY DEF SettleInv
<1>1. UNCHANGED <<tree, member, clock, changed>>
  BY DEF BeginFill, LoadTree, StoreAccess
<1>2. \A q \in Processes \ {p} : fill'[q] = fill[q] /\ cache'[q] = cache[q]
  BY <1>0 DEF BeginFill, LoadTree, StoreAccess
<1>3. DOMAIN cache' = Processes /\ DOMAIN fill' = Processes
  BY <1>0 DEF BeginFill, LoadTree, StoreAccess
<1>4. FillIsTimed(p)' /\ EntryIsTimed(p)'
  <2>1. CASE BeginFill(p)
    <3>1. fill'[p] = [phase |-> "asked", at |-> clock] /\ cache' = cache
      BY <2>1, <1>0 DEF BeginFill
    <3> QED  BY <3>1, <1>0, <1>1 DEF FillIsTimed, EntryIsTimed
  <2>2. CASE LoadTree(p)
    <3>1. /\ fill[p].phase = "asked" /\ cache' = cache
          /\ fill'[p] = [phase |-> "loaded", at |-> fill[p].at, tree |-> tree]
      BY <2>2, <1>0 DEF LoadTree
    <3>2. fill[p] # NoFill
      BY <3>1 DEF NoFill
    <3> QED  BY <3>1, <3>2, <1>0, <1>1 DEF FillIsTimed, EntryIsTimed
  <2>3. CASE StoreAccess(p)
    <3>1. /\ fill[p].phase = "loaded" /\ fill'[p] = NoFill
          /\ \/ cache' = cache
             \/ cache'[p] = [expires |-> fill[p].at + TTL,
                             access |-> Access(fill[p].tree, member)]
      BY <2>3, <1>0 DEF StoreAccess
    <3>2. fill[p] # NoFill
      BY <3>1 DEF NoFill
    <3>3. /\ fill[p].at \in Nat /\ fill[p].at <= clock
          /\ fill[p].at > changed => fill[p].tree = tree
      BY <3>1, <3>2, <1>0 DEF FillIsTimed
    <3>4. CASE cache'[p] = [expires |-> fill[p].at + TTL,
                            access |-> Access(fill[p].tree, member)]
      <4>1. /\ cache'[p].expires = fill[p].at + TTL
            /\ cache'[p].access = Access(fill[p].tree, member)
        BY <3>4
      <4>2. fill[p].tree = tree => cache'[p].access = Access(tree, member)
        BY <4>1
      <4>3. /\ cache'[p].expires \in Nat /\ cache'[p].expires <= clock + TTL
            /\ cache'[p].expires > changed + TTL => fill[p].tree = tree
        BY <4>1, <3>3, <1>0
      <4>4. cache'[p].expires > changed + TTL => cache'[p].access = Access(tree, member)
        BY <4>2, <4>3
      <4>5. Access(tree, member)' = Access(tree, member)
        BY <1>1 DEF Access, Readable, Writable, Administered, Own, AdminOf, Rows, ParentsOf,
                    AncestorsIn, DescendantsIn
      <4>6. EntryIsTimed(p)'
        BY <4>3, <4>4, <4>5, <1>1 DEF EntryIsTimed
      <4> QED  BY <4>6, <3>1 DEF FillIsTimed
    <3>5. CASE cache' = cache
      BY <3>5, <3>1, <1>0, <1>1 DEF FillIsTimed, EntryIsTimed
    <3> QED  BY <3>1, <3>4, <3>5
  <2> QED  BY <2>1, <2>2, <2>3
<1>5. \A q \in Processes \ {p} : FillIsTimed(q)' /\ EntryIsTimed(q)'
  BY <1>0, <1>1, <1>2 DEF FillIsTimed, EntryIsTimed
<1> QED  BY <1>0, <1>1, <1>3, <1>4, <1>5 DEF SettleInv

LEMMA SettleInvHolds ==
  ASSUME UnitsAssumption
  PROVE  UnitsSpec => []SettleInv
<1>1. UnitsInit => SettleInv
  BY DEF UnitsInit, SettleInv, FillIsTimed, EntryIsTimed
<1>2. SettleInv /\ [UnitsNext]_unitsVars => SettleInv'
  <2> SUFFICES ASSUME SettleInv, [UnitsNext]_unitsVars
               PROVE  SettleInv'
    OBVIOUS
  <2>1. CASE UnitsTick
    BY <2>1 DEF UnitsTick, SettleInv, FillIsTimed, EntryIsTimed, UnitsAssumption
  <2>2. CASE UNCHANGED unitsVars
    BY <2>2 DEF unitsVars, SettleInv, FillIsTimed, EntryIsTimed
  <2> QED  BY <2>1, <2>2, EditKeepsSettled, ResolveKeepsSettled DEF UnitsNext
<1> QED  BY <1>1, <1>2, PTL DEF UnitsSpec

\* Once the tree has been left alone for CACHE_TTL_S, what any process answers from
\* its cache is what the tree grants, whichever process made the last change.
THEOREM SettledWithinTTLHolds ==
  ASSUME UnitsAssumption
  PROVE  UnitsSpec => []SettledWithinTTL
<1>1. SettleInv => SettledWithinTTL
  BY DEF SettleInv, EntryIsTimed, SettledWithinTTL, Hit, UnitsAssumption
<1> QED  BY SettleInvHolds, <1>1, PTL DEF UnitsSpec

-----------------------------------------------------------------------------
(* The roll-up.  PathUp is the path from a place to the org; a learning    *)
(* that climbs takes one step of it at a time.                             *)

\* The path of a unit is the unit and the path of its parent.
LEMMA PathUpSteps ==
  ASSUME LiftAssumption
  PROVE  PathUp[Tenant] = {Tenant} /\ \A u \in Units : PathUp[u] = {u} \cup PathUp[ParentOf[u]]
<1> DEFINE Closed == {T \in SUBSET Places : \A x \in T : x \in Units => ParentOf[x] \in T}
           Up(p) == {q \in Places : \A T \in Closed : p \in T => q \in T}
           f == [p \in Places |-> Up(p)]
<1>0. Tenant \in Places /\ Tenant \notin Units /\ \A p \in Places : p # Tenant => p \in Units
  BY DEF Places, LiftAssumption
<1>1. Up(Tenant) = {Tenant}
  <2>1. {Tenant} \in Closed
    BY <1>0
  <2> QED  BY <2>1, <1>0
<1>2. ASSUME NEW p \in Units
      PROVE  Up(p) = {p} \cup Up(ParentOf[p])
  <2>1. p \in Places /\ ParentOf[p] \in Places
    BY DEF LiftAssumption, Places
  <2>2. {p} \cup Up(ParentOf[p]) \subseteq Up(p)
    BY <2>1
  <2>3. {p} \cup Up(ParentOf[p]) \in Closed
    <3>1. ASSUME NEW x \in Up(ParentOf[p]), x \in Units
          PROVE  ParentOf[x] \in Up(ParentOf[p])
      BY <3>1 DEF LiftAssumption
    <3>2. ParentOf[p] \in Up(ParentOf[p])
      BY <2>1
    <3> QED  BY <2>1, <3>1, <3>2
  <2>4. Up(p) \subseteq {p} \cup Up(ParentOf[p])
    BY <2>3
  <2> QED  BY <2>2, <2>4
<1>3. \A p \in Places : f[p] = IF p = Tenant THEN {Tenant} ELSE {p} \cup f[ParentOf[p]]
  <2>1. \A p \in Places : f[p] = Up(p)
    OBVIOUS
  <2>2. \A p \in Units : p \in Places /\ ParentOf[p] \in Places
    BY DEF LiftAssumption, Places
  <2> HIDE DEF Up, f
  <2> QED  BY <1>0, <1>1, <1>2, <2>1, <2>2
<1>4. f = [p \in Places |-> IF p = Tenant THEN {Tenant} ELSE {p} \cup f[ParentOf[p]]]
  <2> HIDE DEF Up
  <2>1. f = [p \in Places |-> f[p]]
    OBVIOUS
  <2> HIDE DEF f
  <2> QED  BY <1>3, <2>1
<1>5. PathUp = [p \in Places |-> IF p = Tenant THEN {Tenant} ELSE {p} \cup PathUp[ParentOf[p]]]
  <2> HIDE DEF f
  <2> QED  BY <1>4 DEF PathUp
<1>6. \A u \in Units : u \in Places /\ u # Tenant
  BY DEF LiftAssumption, Places
<1> QED  BY <1>0, <1>5, <1>6

\* A path holds where it starts and, with each unit, the unit's parent.
LEMMA PathUpClimbs ==
  ASSUME LiftAssumption
  PROVE  \A p \in Places : /\ p \in PathUp[p]
                           /\ \A q \in PathUp[p] : q \in Units => ParentOf[q] \in PathUp[p]
<1> DEFINE Climbs(p) == /\ p \in PathUp[p]
                        /\ \A q \in PathUp[p] : q \in Units => ParentOf[q] \in PathUp[p]
<1>0. PICK rank \in [Places -> 0..Cardinality(Units)] :
        \A u \in Units : rank[ParentOf[u]] < rank[u]
  BY DEF LiftAssumption
<1>1. Cardinality(Units) \in Nat
  BY FS_CardinalityType DEF LiftAssumption
<1>2. \A p \in Places : rank[p] \in Nat
  BY <1>0, <1>1
<1> DEFINE Low == {n \in Nat : \A p \in Places : rank[p] < n => Climbs(p)}
<1>3. 0 \in Low
  BY <1>2
<1>4. ASSUME NEW n \in Nat, n \in Low
      PROVE  n + 1 \in Low
  <2> SUFFICES ASSUME NEW p \in Places, rank[p] < n + 1
               PROVE  Climbs(p)
    OBVIOUS
  <2>1. CASE p = Tenant
    BY <2>1, PathUpSteps DEF LiftAssumption
  <2>2. CASE p \in Units
    <3>1. ParentOf[p] \in Places /\ rank[ParentOf[p]] < n
      BY <1>0, <1>2, <2>2 DEF LiftAssumption
    <3>2. Climbs(ParentOf[p])
      BY <1>4, <3>1
    <3>3. PathUp[p] = {p} \cup PathUp[ParentOf[p]]
      BY <2>2, PathUpSteps
    <3> QED  BY <3>2, <3>3
  <2> QED  BY <2>1, <2>2 DEF Places
<1> HIDE DEF Low
<1>5. Nat \subseteq Low
  BY <1>3, <1>4, SetInduction
<1>6. ASSUME NEW p \in Places
      PROVE  Climbs(p)
  <2>1. rank[p] + 1 \in Nat /\ rank[p] < rank[p] + 1
    BY <1>2
  <2> HIDE DEF Climbs
  <2> QED  BY <1>5, <2>1 DEF Low
<1> QED  BY <1>6

-----------------------------------------------------------------------------
(* What a run writes. *)

LiftTyped ==
  /\ lift \in [Units -> {"none", "corroborated", "endorsed"}]
  /\ node \in [Ids -> NodeRows \cup {NoNode}]

TaughtAtItsKey == \A id \in NodeIds : node[id].from = "nobody" => id.key = <<>>

LEMMA NodeFacts ==
  ASSUME LiftTyped
  PROVE  /\ NoNode \notin NodeRows
         /\ NodeIds \subseteq Ids
         /\ \A id \in Ids : id \in NodeIds <=> node[id] \in NodeRows
<1>1. NoNode \notin NodeRows
  BY DEF NoNode, NodeRows
<1> HIDE DEF NoNode, NodeRows
<1> QED  BY <1>1 DEF LiftTyped, NodeIds

\* The count of a row is a count whatever is added to it, and nothing else changes.
LEMMA CountUpKeeps ==
  ASSUME LiftAssumption, NEW n \in NodeRows
  PROVE  /\ CountUp(n) \in NodeRows
         /\ CountUp(n).value = n.value /\ CountUp(n).from = n.from
         /\ CountUp(n).origin = n.origin
<1> DEFINE k == IF n.count < MaxCount THEN n.count + 1 ELSE n.count
<1>1. k \in 1..MaxCount
  BY DEF NodeRows, LiftAssumption
<1>2. CountUp(n) = [n EXCEPT !.count = k]
  BY DEF CountUp, NodeRows
<1> HIDE DEF k
<1> QED  BY <1>1, <1>2 DEF NodeRows

\* A row that was lifted says what the row it comes from says, and comes from below.
CopyOf(lifted, n, u) == lifted.value = n.value /\ lifted.origin = n.origin /\ lifted.from = u

\* A row that was observed once more is the row it was.
SameLearning(lifted, n) == lifted.value = n.value /\ lifted.origin = n.origin /\ lifted.from = n.from

LEMMA CopiedFacts ==
  ASSUME LiftAssumption, LiftTyped, NEW id \in NodeIds, id.at \in Units
  PROVE  Copied(id) \in NodeRows /\ CopyOf(Copied(id), node[id], id.at)
<1>1. node[id] \in NodeRows
  BY NodeFacts
<1>2. 1 \in 1..MaxCount
  BY DEF LiftAssumption
<1>3. Copied(id) = [node[id] EXCEPT !.count = 1, !.from = id.at]
  BY DEF Copied
<1> QED  BY <1>1, <1>2, <1>3 DEF NodeRows, CopyOf

LEMMA RecopiedFacts ==
  ASSUME LiftAssumption, LiftTyped, NEW id \in NodeIds, id.at \in Units, NEW old \in NodeRows
  PROVE  Recopied(id, old) \in NodeRows /\ CopyOf(Recopied(id, old), node[id], id.at)
<1>1. Copied(id) \in NodeRows /\ CopyOf(Copied(id), node[id], id.at)
  BY CopiedFacts
<1> DEFINE c == Copied(id)
           e == c.endorsed \/ old.endorsed
           m == IF c.merged = {} THEN old.merged ELSE c.merged
<1>2. /\ old.count \in 1..MaxCount /\ e \in BOOLEAN /\ m \in SUBSET Units
  BY <1>1 DEF NodeRows
<1>3. Recopied(id, old) = [c EXCEPT !.count = old.count, !.endorsed = e, !.merged = m]
  BY <1>1 DEF Recopied, NodeRows
<1>4. c \in NodeRows /\ CopyOf(c, node[id], id.at)
  BY <1>1
<1> HIDE DEF c, e, m
<1> QED  BY <1>2, <1>3, <1>4 DEF NodeRows, CopyOf

LEMMA MergedFacts ==
  ASSUME LiftAssumption, NEW n \in NodeRows, NEW u \in Units
  PROVE  Merged(n, u) \in NodeRows /\ SameLearning(Merged(n, u), n)
<1> DEFINE m == [n EXCEPT !.merged = n.merged \cup {u}]
<1>1. m \in NodeRows /\ SameLearning(m, n)
  BY DEF NodeRows, SameLearning
<1>2. Merged(n, u) \in {n, CountUp(m)}
  BY DEF Merged, NodeRows
<1> HIDE DEF m
<1> QED  BY <1>1, <1>2, CountUpKeeps DEF SameLearning

\* Where a lift writes: over nothing, over a row that says the same, which stays, or
\* at a key that no learning of people's own has.
LEMMA LiftWrites ==
  ASSUME LiftAssumption, LiftTyped, TaughtAtItsKey, NEW u \in Units,
         NEW id \in Liftable(u), NEW w \in Ids, w \in DOMAIN Lifted(id)
  PROVE  /\ w.at = ParentOf[u] /\ Lifted(id)[w] \in NodeRows
         /\ \/ /\ CopyOf(Lifted(id)[w], node[id], u)
               /\ w \in NodeIds => w.key # <<>>
            \/ w \in NodeIds /\ SameLearning(Lifted(id)[w], node[w])
<1>0. /\ id \in NodeIds /\ id \in Ids /\ id.at = u
      /\ Copied(id) \in NodeRows /\ CopyOf(Copied(id), node[id], u)
  BY NodeFacts, CopiedFacts DEF Liftable
<1>2. Above(id).at = ParentOf[u] /\ Contending(id).at = ParentOf[u]
  BY <1>0 DEF Above, Contending
<1>3. Contending(id).key # <<>>
  <2>1. id.key \in Keys
    BY <1>0 DEF Ids
  <2>2. PICK n \in 0..Cardinality(Units) : id.key \in [1..n -> Units]
    BY <2>1 DEF Keys
  <2>3. id.key \in Seq(Units)
    BY <2>2, SeqDef
  <2>4. Len(Append(id.key, id.at)) = Len(id.key) + 1 /\ Len(id.key) \in Nat
    BY <1>0, <2>3
  <2>5. Len(<<>>) = 0
    OBVIOUS
  <2>6. Append(id.key, id.at) # <<>>
    BY <2>4, <2>5
  <2> QED  BY <2>6 DEF Contending
<1>4. CASE node[Above(id)] = NoNode
  <2>1. Lifted(id) = At(Above(id), Copied(id))
    BY <1>4 DEF Lifted
  <2>2. w = Above(id) /\ Lifted(id)[w] = Copied(id)
    BY <2>1 DEF At
  <2>3. w \notin NodeIds
    BY <1>4, <2>2 DEF NodeIds
  <2> QED  BY <1>0, <1>2, <2>2, <2>3
<1>5. CASE node[Above(id)] # NoNode /\ node[Above(id)].value = node[id].value
  <2>1. Lifted(id) = At(Above(id), Merged(node[Above(id)], id.at))
    BY <1>5 DEF Lifted
  <2>2. w = Above(id) /\ Lifted(id)[w] = Merged(node[Above(id)], id.at)
    BY <2>1 DEF At
  <2>3. w \in NodeIds /\ node[w] \in NodeRows
    BY <1>5, <2>2, NodeFacts DEF NodeIds
  <2>4. Lifted(id)[w] = Merged(node[w], u)
    BY <1>0, <2>2
  <2> QED  BY <1>2, <2>2, <2>3, <2>4, MergedFacts
<1>6. CASE node[Above(id)] # NoNode /\ node[Above(id)].value # node[id].value
  <2> DEFINE r == IF node[Contending(id)] = NoNode THEN Copied(id)
                  ELSE Recopied(id, node[Contending(id)])
  <2>1. Lifted(id) = At(Contending(id), r)
    BY <1>6 DEF Lifted
  <2>2. w = Contending(id) /\ Lifted(id)[w] = r
    BY <2>1 DEF At
  <2>3. node[w] # NoNode => node[w] \in NodeRows
    BY NodeFacts DEF NodeIds
  <2>4. r \in NodeRows /\ CopyOf(r, node[id], u)
    BY <1>0, <2>2, <2>3, RecopiedFacts
  <2> QED  BY <1>2, <1>3, <2>2, <2>4
<1> QED  BY <1>4, <1>5, <1>6

\* A step of a run over u leaves a row, or writes what the lift of one row of u writes.
LEMMA LiftUnitWrites ==
  ASSUME NEW u \in Units, LiftUnit(u)
  PROVE  /\ lift' = lift /\ node' = [w \in Ids |-> node'[w]]
         /\ \A w \in Ids :
              \/ node'[w] = node[w]
              \/ /\ lift[u] # "none"
                 /\ \E id \in Liftable(u) : w \in DOMAIN Lifted(id) /\ node'[w] = Lifted(id)[w]
<1> DEFINE ids == IF lift[u] = "none" THEN {} ELSE Liftable(u)
           from(w) == CHOOSE id \in ids : w \in DOMAIN Lifted(id)
           writes == [w \in UNION {DOMAIN Lifted(id) : id \in ids} |-> Lifted(from(w))[w]]
<1>1. node' = [w \in Ids |-> IF w \in DOMAIN writes THEN writes[w] ELSE node[w]]
  BY DEF LiftUnit
<1>2. DOMAIN writes = UNION {DOMAIN Lifted(id) : id \in ids}
  OBVIOUS
<1>3. ASSUME NEW w \in DOMAIN writes
      PROVE  /\ from(w) \in ids /\ w \in DOMAIN Lifted(from(w))
             /\ writes[w] = Lifted(from(w))[w]
  <2>1. \E id \in ids : w \in DOMAIN Lifted(id)
    BY <1>2, <1>3
  <2> HIDE DEF ids
  <2> QED  BY <1>3, <2>1
<1>4. \A id \in ids : lift[u] # "none" /\ id \in Liftable(u)
  OBVIOUS
<1> HIDE DEF ids, from, writes
<1>5. node' = [w \in Ids |-> node'[w]]
  BY <1>1
<1> QED  BY <1>1, <1>3, <1>4, <1>5 DEF LiftUnit

\* The steps that write no copy leave each learning what it is, or teach a new one.
Teaches(w) ==
  /\ w \notin NodeIds /\ w.key = <<>>
  /\ node'[w].from = "nobody" /\ node'[w].origin = w.at

LEMMA PeopleWrite ==
  ASSUME LiftAssumption, LiftTyped,
         \/ \E p \in Places, v \in Values : Learn(p, v)
         \/ \E id \in Ids : EndorseLearning(id)
         \/ TrustJoin \/ BeginRun
  PROVE  /\ LiftTyped'
         /\ \A w \in NodeIds : SameLearning(node'[w], node[w])
         /\ \A w \in NodeIds' : w \in NodeIds \/ Teaches(w)
<1>0. lift' = lift
  BY DEF Learn, EndorseLearning, TrustJoin, BeginRun
<1>1. ASSUME NEW p \in Places, NEW v \in Values, Learn(p, v)
      PROVE  /\ LiftTyped'
             /\ \A w \in NodeIds : SameLearning(node'[w], node[w])
             /\ \A w \in NodeIds' : w \in NodeIds \/ Teaches(w)
  <2> DEFINE id == [at |-> p, key |-> <<>>]
             new == [value |-> v, tier |-> "probation", endorsed |-> FALSE, count |-> 1,
                     from |-> "nobody", merged |-> {}, origin |-> p]
             r == IF node[id] # NoNode THEN CountUp(node[id]) ELSE new
  <2>1. <<>> \in Keys
    <3>1. <<>> \in [1..0 -> Units]
      OBVIOUS
    <3>2. 0 \in 0..Cardinality(Units)
      BY FS_CardinalityType DEF LiftAssumption
    <3> QED  BY <3>1, <3>2 DEF Keys
  <2>2. id \in Ids /\ id.at = p /\ id.key = <<>>
    BY <2>1 DEF Ids
  <2>3. /\ new \in NodeRows /\ new.from = "nobody" /\ new.origin = p
    BY DEF NodeRows, Tiers, TierRank, LiftAssumption
  <2>4. node[id] # NoNode => node[id] \in NodeRows
    BY <2>2 DEF LiftTyped
  <2>5. r \in NodeRows /\ (node[id] # NoNode => SameLearning(r, node[id]))
    BY <2>3, <2>4, CountUpKeeps DEF SameLearning
  <2>6. node[id] = NoNode => r.from = "nobody" /\ r.origin = p
    BY <2>3
  <2>7. node' = [node EXCEPT ![id] = r]
    BY <1>1, <2>2 DEF Learn, LiftTyped
  <2> HIDE DEF new, r, id
  <2>8. node' \in [Ids -> NodeRows \cup {NoNode}] /\ node'[id] = r
    BY <2>2, <2>5, <2>7 DEF LiftTyped
  <2>9. \A w \in Ids \ {id} : node'[w] = node[w]
    BY <2>7 DEF LiftTyped
  <2> QED  BY <1>0, <2>2, <2>5, <2>6, <2>8, <2>9, NodeFacts
           DEF LiftTyped, NodeIds, SameLearning, Teaches
<1>2. ASSUME NEW id \in Ids, EndorseLearning(id)
      PROVE  /\ LiftTyped'
             /\ \A w \in NodeIds : SameLearning(node'[w], node[w])
             /\ NodeIds' = NodeIds
  <2> DEFINE r == [node[id] EXCEPT !.endorsed = TRUE, !.tier = TierFor(TRUE, 1)]
  <2>1. id \in NodeIds /\ node[id] \in NodeRows
    BY <1>2, NodeFacts DEF EndorseLearning
  <2>2. TierFor(TRUE, 1) \in Tiers
    BY DEF TierFor, Tiers, TierRank
  <2>3. r \in NodeRows /\ SameLearning(r, node[id])
    BY <2>1, <2>2 DEF NodeRows, SameLearning
  <2>4. node' = [node EXCEPT ![id] = r]
    BY <1>2, <2>1 DEF EndorseLearning, LiftTyped, NodeIds
  <2> HIDE DEF r
  <2>5. node' \in [Ids -> NodeRows \cup {NoNode}] /\ node'[id] = r
    BY <2>3, <2>4 DEF LiftTyped
  <2>6. \A w \in Ids \ {id} : node'[w] = node[w]
    BY <2>4 DEF LiftTyped
  <2> QED  BY <1>0, <2>1, <2>3, <2>5, <2>6, NodeFacts DEF LiftTyped, NodeIds, SameLearning
<1>3. ASSUME TrustJoin
      PROVE  /\ LiftTyped'
             /\ \A w \in NodeIds : SameLearning(node'[w], node[w])
             /\ NodeIds' = NodeIds
  <2> DEFINE t(w) == TierFor(node[w].endorsed, node[w].count)
             r(w) == [node[w] EXCEPT !.tier = t(w)]
  <2>1. \A w \in NodeIds : t(w) \in Tiers
    BY DEF TierFor, Tiers, TierRank
  <2>2. \A w \in NodeIds : r(w) \in NodeRows /\ SameLearning(r(w), node[w])
    <3> HIDE DEF t
    <3> QED  BY <2>1, NodeFacts DEF NodeRows, SameLearning
  <2>3. node' = [w \in Ids |-> IF w \in NodeIds THEN r(w) ELSE NoNode]
    BY <1>3 DEF TrustJoin
  <2> HIDE DEF r
  <2> QED  BY <1>0, <2>2, <2>3, NodeFacts DEF LiftTyped, NodeIds
<1>4. CASE BeginRun
  BY <1>0, <1>4 DEF BeginRun, LiftTyped, NodeIds, SameLearning
<1> QED  BY <1>1, <1>2, <1>3, <1>4

LiftInv == LiftTyped /\ TaughtAtItsKey

LEMMA LiftInvHolds ==
  ASSUME LiftAssumption
  PROVE  (LiftInit => LiftInv) /\ (LiftInv /\ [LiftNext]_liftVars => LiftInv')
<1>1. LiftInit => LiftInv
  BY DEF LiftInit, LiftInv, LiftTyped, TaughtAtItsKey, NodeIds
<1>2. ASSUME LiftInv, [LiftNext]_liftVars
      PROVE  LiftInv'
  <2>1. CASE \/ \E p \in Places, v \in Values : Learn(p, v)
             \/ \E id \in Ids : EndorseLearning(id)
             \/ TrustJoin \/ BeginRun
    <3>1. /\ LiftTyped /\ TaughtAtItsKey /\ LiftTyped'
          /\ \A w \in NodeIds : SameLearning(node'[w], node[w])
          /\ \A w \in NodeIds' : w \in NodeIds \/ Teaches(w)
      BY <1>2, <2>1, PeopleWrite DEF LiftInv
    <3>2. \A w \in NodeIds' : node'[w].from = "nobody" => w.key = <<>>
      BY <3>1 DEF TaughtAtItsKey, SameLearning, Teaches
    <3> QED  BY <3>1, <3>2 DEF LiftInv, TaughtAtItsKey
  <2>2. ASSUME NEW u \in Units, LiftUnit(u)
        PROVE  LiftInv'
    <3>1. /\ LiftTyped /\ TaughtAtItsKey /\ lift' = lift
      BY <1>2, <2>2, LiftUnitWrites DEF LiftInv
    <3>2. ASSUME NEW w \in Ids
          PROVE  /\ node'[w] \in NodeRows \cup {NoNode}
                 /\ w \in NodeIds' /\ node'[w].from = "nobody" => w.key = <<>>
      <4>1. CASE node'[w] = node[w]
        BY <3>1, <4>1 DEF LiftTyped, TaughtAtItsKey, NodeIds
      <4>2. CASE node'[w] # node[w]
        <5>1. PICK id \in Liftable(u) : w \in DOMAIN Lifted(id) /\ node'[w] = Lifted(id)[w]
          BY <2>2, <4>2, LiftUnitWrites
        <5>2. /\ node'[w] \in NodeRows
              /\ \/ CopyOf(node'[w], node[id], u)
                 \/ w \in NodeIds /\ SameLearning(node'[w], node[w])
          BY <3>1, <5>1, LiftWrites
        <5> QED  BY <3>1, <5>2 DEF CopyOf, SameLearning, TaughtAtItsKey, LiftAssumption
      <4> QED  BY <4>1, <4>2
    <3>3. node' \in [Ids -> NodeRows \cup {NoNode}]
      <4>1. node' = [w \in Ids |-> node'[w]]
        BY <2>2, LiftUnitWrites
      <4> QED  BY <3>2, <4>1
    <3>4. \A w \in NodeIds' : w \in Ids
      BY DEF NodeIds
    <3> QED  BY <3>1, <3>2, <3>3, <3>4 DEF LiftInv, LiftTyped, TaughtAtItsKey
  <2>3. CASE UNCHANGED liftVars
    BY <1>2, <2>3 DEF liftVars, LiftInv, LiftTyped, TaughtAtItsKey, NodeIds
  <2> QED  BY <1>2, <2>1, <2>2, <2>3 DEF LiftNext
<1> QED  BY <1>1, <1>2

LEMMA LiftInvAlways ==
  ASSUME LiftAssumption
  PROVE  LiftSpec => []LiftInv
BY LiftInvHolds, PTL DEF LiftSpec

\* "distinct key when contending": no run replaces what people taught a place,
\* whatever comes up to it from below.
THEOREM TaughtIsNotReplacedHolds ==
  ASSUME LiftAssumption
  PROVE  LiftSpec => TaughtIsNotReplaced
<1> DEFINE A == \A id \in NodeIds : node[id].from = "nobody" =>
                  node'[id].value = node[id].value /\ node'[id].from = "nobody"
<1>1. LiftInv /\ [LiftNext]_liftVars => [A]_liftVars
  <2> SUFFICES ASSUME LiftInv, LiftNext
               PROVE  A
    OBVIOUS
  <2>1. CASE \/ \E p \in Places, v \in Values : Learn(p, v)
             \/ \E id \in Ids : EndorseLearning(id)
             \/ TrustJoin \/ BeginRun
    BY <2>1, PeopleWrite DEF LiftInv, SameLearning
  <2>2. ASSUME NEW u \in Units, LiftUnit(u), NEW w \in NodeIds, node[w].from = "nobody"
        PROVE  node'[w].value = node[w].value /\ node'[w].from = "nobody"
    <3>1. w \in Ids /\ w.key = <<>>
      BY <2>2 DEF LiftInv, TaughtAtItsKey, NodeIds
    <3>2. CASE node'[w] = node[w]
      BY <2>2, <3>2
    <3>3. CASE node'[w] # node[w]
      <4>1. PICK id \in Liftable(u) : w \in DOMAIN Lifted(id) /\ node'[w] = Lifted(id)[w]
        BY <2>2, <3>1, <3>3, LiftUnitWrites
      <4>2. SameLearning(node'[w], node[w])
        BY <3>1, <4>1, LiftWrites DEF LiftInv
      <4> QED  BY <2>2, <4>2 DEF SameLearning
    <3> QED  BY <3>2, <3>3
  <2> QED  BY <2>1, <2>2 DEF LiftNext
<1> QED  BY <1>1, LiftInvHolds, PTL DEF LiftSpec, TaughtIsNotReplaced

\* A row has climbed from where it was learned by lifts alone.
ClimbedByLifts(p, n) ==
  /\ p \in Places /\ n.origin \in Places
  /\ p \in PathUp[n.origin]
  /\ \A u \in PathUp[n.origin] \ PathUp[p] : lift[u] # "none"
  /\ p # n.origin => n.value \notin NamesAPerson

ClimbInv == LiftInv /\ \A id \in NodeIds : ClimbedByLifts(id.at, node[id])

\* One lift more: a unit with a lift, and a value that names no person.
LEMMA OneStepUp ==
  ASSUME LiftAssumption, NEW u \in Units, lift[u] # "none"
  PROVE  \A n : ClimbedByLifts(u, n) /\ n.value \notin NamesAPerson => ClimbedByLifts(ParentOf[u], n)
<1>1. ParentOf[u] \in Places
  BY DEF LiftAssumption
<1>2. \A n : ClimbedByLifts(u, n) => ParentOf[u] \in PathUp[n.origin]
  BY PathUpClimbs DEF ClimbedByLifts
<1>3. PathUp[u] = {u} \cup PathUp[ParentOf[u]]
  BY PathUpSteps
<1> QED  BY <1>1, <1>2, <1>3 DEF ClimbedByLifts

\* "Nothing rolls past a unit whose policy has no lift": a learning stands only where
\* it was learned or above, every unit in between lifts, and it names no person.
THEOREM ClimbsByPolicyHolds ==
  ASSUME LiftAssumption
  PROVE  LiftSpec => []ClimbsByPolicy
<1>1. LiftInit => ClimbInv
  BY LiftInvHolds DEF LiftInit, ClimbInv, NodeIds
<1>2. ClimbInv /\ [LiftNext]_liftVars => ClimbInv'
  <2> SUFFICES ASSUME ClimbInv, [LiftNext]_liftVars
               PROVE  ClimbInv'
    OBVIOUS
  <2>0. LiftInv /\ LiftInv' /\ LiftTyped /\ TaughtAtItsKey /\ NodeIds' \subseteq Ids
    BY LiftInvHolds DEF ClimbInv, LiftInv, NodeIds
  <2>1. CASE \/ \E p \in Places, v \in Values : Learn(p, v)
             \/ \E id \in Ids : EndorseLearning(id)
             \/ TrustJoin \/ BeginRun
    <3>1. lift' = lift
      BY <2>1 DEF Learn, EndorseLearning, TrustJoin, BeginRun
    <3>2. ASSUME NEW w \in NodeIds'
          PROVE  ClimbedByLifts(w.at, node[w])'
      <4>1. (w \in NodeIds /\ SameLearning(node'[w], node[w])) \/ Teaches(w)
        BY <2>0, <2>1, PeopleWrite
      <4>2. CASE w \in NodeIds /\ SameLearning(node'[w], node[w])
        BY <3>1, <4>2 DEF ClimbInv, ClimbedByLifts, SameLearning
      <4>3. CASE Teaches(w)
        <5>1. w.at \in Places /\ node'[w].origin = w.at
          BY <2>0, <4>3 DEF Ids, Teaches
        <5> QED  BY <5>1, PathUpClimbs DEF ClimbedByLifts
      <4> QED  BY <4>1, <4>2, <4>3
    <3> QED  BY <2>0, <3>2 DEF ClimbInv
  <2>2. ASSUME NEW u \in Units, LiftUnit(u)
        PROVE  ClimbInv'
    <3>1. lift' = lift
      BY <2>2 DEF LiftUnit
    <3>2. ASSUME NEW w \in NodeIds'
          PROVE  ClimbedByLifts(w.at, node[w])'
      <4>0. w \in Ids
        BY <2>0
      <4>1. CASE node'[w] = node[w]
        <5>1. w \in NodeIds
          BY <4>0, <4>1 DEF NodeIds
        <5> QED  BY <3>1, <4>1, <5>1 DEF ClimbInv, ClimbedByLifts
      <4>2. CASE node'[w] # node[w]
        <5>1. PICK id \in Liftable(u) : /\ lift[u] # "none"
                                        /\ w \in DOMAIN Lifted(id) /\ node'[w] = Lifted(id)[w]
          BY <2>2, <4>0, <4>2, LiftUnitWrites
        <5>2. w.at = ParentOf[u]
          BY <2>0, <4>0, <5>1, LiftWrites
        <5>3. CASE w \in NodeIds /\ SameLearning(node'[w], node[w])
          BY <3>1, <5>3 DEF ClimbInv, ClimbedByLifts, SameLearning
        <5>4. CASE CopyOf(node'[w], node[id], u)
          <6>1. /\ id \in NodeIds /\ id.at = u /\ node[id].value \notin NamesAPerson
            BY DEF Liftable
          <6>2. ClimbedByLifts(u, node[id])
            BY <6>1 DEF ClimbInv
          <6>3. ClimbedByLifts(ParentOf[u], node[id])
            BY <5>1, <6>1, <6>2, OneStepUp
          <6>4. \A n \in {node'[w]} : n.value = node[id].value /\ n.origin = node[id].origin
            BY <5>4 DEF CopyOf
          <6> QED  BY <3>1, <5>2, <6>3, <6>4 DEF ClimbedByLifts
        <5> QED  BY <2>0, <4>0, <5>1, <5>3, <5>4, LiftWrites
      <4> QED  BY <4>1, <4>2
    <3> QED  BY <2>0, <3>2 DEF ClimbInv
  <2>3. CASE UNCHANGED liftVars
    BY <2>0, <2>3 DEF liftVars, ClimbInv, ClimbedByLifts, NodeIds
  <2> QED  BY <2>1, <2>2, <2>3 DEF LiftNext
<1>3. ClimbInv => ClimbsByPolicy
  BY DEF ClimbInv, ClimbsByPolicy, ClimbedByLifts
<1> QED  BY <1>1, <1>2, <1>3, PTL DEF LiftSpec

-----------------------------------------------------------------------------
(* Consent.  A cleared scope that has not been active since lets no fold   *)
(* of its own through the gate that would keep anything, and had none past *)
(* it when it was cleared; an episode's scope is set when it is stored,    *)
(* and memory holds nothing of an episode that is not stored.              *)

EpisodeRow == [scope : Scopes, source : SourceNames, state : {"stored", "folded", "dropped"}]

FoldRow == [phase : {"gated"}, episode : EpisodeIds, drop : BOOLEAN]

ClearedInv ==
  /\ consent \in [Scopes -> States] /\ cleared \subseteq Scopes
  /\ episode \in [EpisodeIds -> EpisodeRow \cup {NoEpisode}]
  /\ fold \in [Folders -> FoldRow \cup {NoFold}]
  /\ \A f \in Folders : fold[f] # NoFold => episode[fold[f].episode] # NoEpisode
  /\ memory \subseteq MemoryTiers \X {e \in EpisodeIds : episode[e] # NoEpisode}
  /\ \A s \in cleared : consent[s] # "active" /\ ~InFlight(s)
  /\ ClearedStaysEmpty

\* The records that stand for nothing are none of the others.
LEMMA NothingIsNothing ==
  /\ NoEpisode \notin EpisodeRow /\ NoEpisode.scope \notin Scopes
  /\ NoFold \notin FoldRow
BY DEF NoEpisode, EpisodeRow, Scopes, NoFold, FoldRow

\* A scope that is off or paused has every fold of its own dropped at the gate.
LEMMA BlockedIsDropped ==
  ASSUME ClearedInv, NEW s \in Scopes, consent[s] # "active", NEW src
  PROVE  Gated(s, src) = TRUE
<1>1. consent[s] \in {"off", "pause"}
  BY DEF ClearedInv, States
<1>2. Blocked(s)
  BY <1>1 DEF Blocked, consent_chain
<1> QED  BY <1>2 DEF Gated

LEMMA StoreKeepsCleared ==
  ASSUME ClearedInv, NEW e \in EpisodeIds, StoreEpisode(e)
  PROVE  ClearedInv'
<1> USE DEF ClearedInv
<1>1. PICK s \in Scopes, src \in SourceNames :
        episode' = [episode EXCEPT ![e] = [scope |-> s, source |-> src, state |-> "stored"]]
  BY DEF StoreEpisode
<1>2. /\ episode[e] = NoEpisode
      /\ UNCHANGED <<consent, memory, fold, cleared>>
  BY DEF StoreEpisode
<1>3. /\ episode' \in [EpisodeIds -> EpisodeRow \cup {NoEpisode}]
      /\ episode'[e] # NoEpisode
      /\ \A d \in EpisodeIds \ {e} : episode'[d] = episode[d]
  BY <1>1, NothingIsNothing DEF EpisodeRow
<1>4. \A f \in Folders : fold[f] # NoFold =>
        /\ fold[f].episode \in EpisodeIds \ {e}
        /\ episode'[fold[f].episode] = episode[fold[f].episode]
  BY <1>2, <1>3 DEF FoldRow
<1>5. \A x \in memory : x[2] \in EpisodeIds \ {e}
  BY <1>2
<1>6. memory' \subseteq MemoryTiers \X {d \in EpisodeIds : episode'[d] # NoEpisode}
  BY <1>2, <1>3
<1>7. \A t \in Scopes : memory' \cap Of(t)' = memory \cap Of(t)
  BY <1>2, <1>3, <1>5 DEF Of
<1>8. \A t \in Scopes : InFlight(t)' <=> InFlight(t)
  BY <1>2, <1>4 DEF InFlight
<1> QED  BY <1>2, <1>3, <1>4, <1>6, <1>7, <1>8 DEF ClearedStaysEmpty

LEMMA GateKeepsCleared ==
  ASSUME ClearedInv, NEW f \in Folders, NEW e \in EpisodeIds, PassGate(f, e)
  PROVE  ClearedInv'
<1> USE DEF ClearedInv
<1> DEFINE g == [phase |-> "gated", episode |-> e,
                 drop |-> Gated(episode[e].scope, episode[e].source)]
<1>1. /\ fold' = [fold EXCEPT ![f] = g]
      /\ UNCHANGED <<consent, episode, memory, cleared>> /\ episode[e].state = "stored"
  BY DEF PassGate
<1>2. g \in FoldRow /\ episode[e] \in EpisodeRow
  <2>1. Gated(episode[e].scope, episode[e].source) \in BOOLEAN
    BY DEF Gated
  <2>2. episode[e] # NoEpisode
    BY <1>1 DEF NoEpisode
  <2> QED  BY <2>1, <2>2 DEF FoldRow
<1>3. fold' \in [Folders -> FoldRow \cup {NoFold}]
  BY <1>1, <1>2
<1>4. \A h \in Folders : fold'[h] # NoFold => episode'[fold'[h].episode] # NoEpisode
  BY <1>1, <1>2, NothingIsNothing
<1>5. ASSUME NEW s \in cleared PROVE ~InFlight(s)'
  <2>1. episode[e].scope = s => g.drop
    BY <1>5, BlockedIsDropped
  <2>2. \A h \in Folders : h # f => fold'[h] = fold[h]
    BY <1>1
  <2>3. fold'[f] = g
    BY <1>1
  <2>4. g.episode = e
    OBVIOUS
  <2> HIDE DEF g
  <2> QED  BY <1>1, <1>5, <2>1, <2>2, <2>3, <2>4 DEF InFlight
<1>6. \A s \in cleared : memory' \cap Of(s)' = {}
  BY <1>1 DEF ClearedStaysEmpty, Of
<1> QED  BY <1>1, <1>3, <1>4, <1>5, <1>6 DEF ClearedStaysEmpty

\* What a fold keeps is of a scope that is not cleared.
LEMMA CommitKeepsCleared ==
  ASSUME ClearedInv, NEW f \in Folders, CommitFold(f)
  PROVE  ClearedInv'
<1> USE DEF ClearedInv
<1> DEFINE e == fold[f].episode
<1>1. /\ fold[f] \in FoldRow /\ e \in EpisodeIds /\ episode[e] \in EpisodeRow
      /\ episode' = [episode EXCEPT ![e].state = IF fold[f].drop THEN "dropped" ELSE "folded"]
      /\ memory' = memory \cup (IF fold[f].drop THEN {} ELSE MemoryTiers \X {e})
      /\ fold' = [fold EXCEPT ![f] = NoFold]
      /\ UNCHANGED <<consent, cleared>>
  BY DEF CommitFold, FoldRow
<1>2. /\ episode' \in [EpisodeIds -> EpisodeRow \cup {NoEpisode}]
      /\ \A d \in EpisodeIds : /\ episode'[d] = NoEpisode <=> episode[d] = NoEpisode
                               /\ episode'[d].scope = episode[d].scope
  <2>1. \A d \in EpisodeIds : d # e => episode'[d] = episode[d]
    BY <1>1
  <2>2. episode'[e] = [episode[e] EXCEPT !.state = IF fold[f].drop THEN "dropped" ELSE "folded"]
    BY <1>1
  <2>3. episode'[e] \in EpisodeRow /\ episode'[e].scope = episode[e].scope
    BY <1>1, <2>2 DEF EpisodeRow
  <2>4. DOMAIN episode' = EpisodeIds
    BY <1>1
  <2> QED  BY <1>1, <2>1, <2>3, <2>4, NothingIsNothing
<1>3. fold' \in [Folders -> FoldRow \cup {NoFold}] /\ \A h \in Folders :
        fold'[h] # NoFold => fold'[h] = fold[h]
  BY <1>1
<1>4. \A h \in Folders : fold'[h] # NoFold => episode'[fold'[h].episode] # NoEpisode
  BY <1>2, <1>3, NothingIsNothing DEF FoldRow
<1>5. memory' \subseteq MemoryTiers \X {d \in EpisodeIds : episode'[d] # NoEpisode}
  BY <1>1, <1>2, NothingIsNothing
<1>6. \A s \in cleared : ~InFlight(s)'
  <2> SUFFICES ASSUME NEW s \in cleared, NEW h \in Folders, fold'[h] # NoFold, ~fold'[h].drop,
                      episode'[fold'[h].episode].scope = s
               PROVE  FALSE
    BY <1>1 DEF InFlight
  <2>1. fold'[h] = fold[h] /\ fold[h] # NoFold /\ fold[h].episode \in EpisodeIds
    BY <1>3, NothingIsNothing DEF FoldRow
  <2>2. episode[fold[h].episode].scope = s /\ ~fold[h].drop
    BY <1>2, <2>1
  <2> QED  BY <2>1, <2>2 DEF InFlight
<1>7. \A s \in cleared : memory' \cap Of(s)' = {}
  <2> SUFFICES ASSUME NEW s \in cleared, NEW x \in memory', x \in Of(s)'
               PROVE  FALSE
    OBVIOUS
  <2>1. x \in Of(s)
    BY <1>2 DEF Of
  <2>2. CASE x \in memory
    BY <2>1, <2>2 DEF ClearedStaysEmpty
  <2>3. CASE x \notin memory
    <3>1. ~fold[f].drop /\ x[2] = e
      BY <1>1, <2>3
    <3>2. episode[e].scope = s
      BY <2>1, <3>1 DEF Of
    <3> QED  BY <1>1, <3>1, <3>2, NothingIsNothing DEF InFlight
  <2> QED  BY <2>2, <2>3
<1> QED  BY <1>1, <1>2, <1>3, <1>4, <1>5, <1>6, <1>7 DEF ClearedStaysEmpty

\* A decision takes memory away and, clearing a scope with nothing in flight, all of it.
LEMMA DecisionKeepsCleared ==
  ASSUME ClearedInv, UNCHANGED <<episode, fold>>, memory' \subseteq memory,
         consent' \in [Scopes -> States], cleared' \subseteq Scopes,
         \A s \in cleared' : /\ consent'[s] # "active"
                             /\ \/ s \in cleared
                                \/ ~InFlight(s) /\ memory' \cap Of(s) = {}
  PROVE  ClearedInv'
<1>1. \A s : InFlight(s)' = InFlight(s) /\ Of(s)' = Of(s)
  BY DEF InFlight, Of
<1>2. ClearedStaysEmpty' /\ \A s \in cleared' : ~InFlight(s)'
  BY <1>1 DEF ClearedInv, ClearedStaysEmpty
<1>3. memory' \subseteq MemoryTiers \X {e \in EpisodeIds : episode'[e] # NoEpisode}
  BY DEF ClearedInv
<1> QED  BY <1>2, <1>3 DEF ClearedInv

LEMMA ClearedInvHolds ==
  ConsentSpec => []ClearedInv
<1>1. ConsentInit => ClearedInv
  BY NothingIsNothing DEF ConsentInit, ClearedInv, ClearedStaysEmpty, States
<1>2. ClearedInv /\ [ConsentNext]_consentVars => ClearedInv'
  <2> SUFFICES ASSUME ClearedInv, [ConsentNext]_consentVars PROVE ClearedInv'
    OBVIOUS
  <2>1. ASSUME NEW e \in EpisodeIds, StoreEpisode(e) PROVE ClearedInv'
    BY <2>1, StoreKeepsCleared
  <2>2. ASSUME NEW e \in EpisodeIds, NEW f \in Folders, PassGate(f, e) PROVE ClearedInv'
    BY <2>2, GateKeepsCleared
  <2>3. ASSUME NEW f \in Folders, CommitFold(f) PROVE ClearedInv'
    BY <2>3, CommitKeepsCleared
  <2>4. ASSUME NEW f \in Folders, FoldFails(f) PROVE ClearedInv'
    <3>1. UNCHANGED <<consent, episode, memory, cleared>> /\ fold' = [fold EXCEPT ![f] = NoFold]
      BY <2>4 DEF FoldFails
    <3>2. fold' \in [Folders -> FoldRow \cup {NoFold}]
          /\ \A h \in Folders : fold'[h] # NoFold => fold'[h] = fold[h]
      BY <3>1 DEF ClearedInv
    <3>3. \A s \in cleared : ~InFlight(s)'
      BY <3>1, <3>2 DEF ClearedInv, InFlight
    <3> QED  BY <3>1, <3>2, <3>3 DEF ClearedInv, ClearedStaysEmpty, Of
  <2>5. ASSUME NEW s \in Scopes, SetConsent(s) PROVE ClearedInv'
    <3>1. PICK st \in States : consent' = [consent EXCEPT ![s] = st]
      BY <2>5 DEF SetConsent
    <3>2. /\ cleared' = IF consent'[s] = "active" THEN cleared \ {s} ELSE cleared
          /\ UNCHANGED <<episode, memory, fold>>
      BY <2>5 DEF SetConsent
    <3>3. consent' \in [Scopes -> States] /\ \A t \in Scopes : t # s => consent'[t] = consent[t]
      BY <3>1 DEF ClearedInv
    <3>4. cleared' \subseteq Scopes /\ \A t \in cleared' : consent'[t] # "active" /\ t \in cleared
      BY <3>2, <3>3 DEF ClearedInv
    <3> QED  BY <3>2, <3>3, <3>4, DecisionKeepsCleared
  <2>6. ASSUME NEW s \in Scopes, Clear(s) PROVE ClearedInv'
    <3>1. /\ memory' = memory \ Of(s) /\ consent' = [consent EXCEPT ![s] = "off"]
          /\ cleared' = IF InFlight(s) THEN cleared \ {s} ELSE cleared \cup {s}
          /\ UNCHANGED <<episode, fold>>
      BY <2>6 DEF Clear
    <3>2. consent' \in [Scopes -> States] /\ consent'[s] = "off"
          /\ \A t \in Scopes : t # s => consent'[t] = consent[t]
      BY <3>1 DEF ClearedInv, States
    <3>3. cleared' \subseteq Scopes /\ \A t \in cleared' :
            consent'[t] # "active" /\ (t \in cleared \/ (~InFlight(t) /\ memory' \cap Of(t) = {}))
      BY <3>1, <3>2 DEF ClearedInv
    <3> QED  BY <3>1, <3>2, <3>3, DecisionKeepsCleared
  <2>7. CASE PurgePerson \/ PurgeWorkspace
    <3>1. memory' \subseteq memory /\ UNCHANGED <<consent, episode, fold, cleared>>
      BY <2>7 DEF PurgePerson, PurgeWorkspace
    <3> QED  BY <3>1, DecisionKeepsCleared DEF ClearedInv
  <2>8. ASSUME NEW s \in Scopes, SetPolicy(s) PROVE ClearedInv'
    BY <2>8, DecisionKeepsCleared DEF SetPolicy, ClearedInv
  <2>9. CASE UNCHANGED consentVars
    BY <2>9, DecisionKeepsCleared DEF consentVars, ClearedInv
  <2> QED  BY <2>1, <2>2, <2>3, <2>4, <2>5, <2>6, <2>7, <2>8, <2>9 DEF ConsentNext
<1> QED  BY <1>1, <1>2, PTL DEF ConsentSpec

\* set_consent: nothing is left of a cleared scope's memory in either tier, and nothing is
\* learned into it before it is active again, whatever is decided above it meanwhile.
THEOREM ClearedStaysEmptyHolds == ConsentSpec => []ClearedStaysEmpty
<1>1. ClearedInv => ClearedStaysEmpty
  BY DEF ClearedInv
<1> QED  BY ClearedInvHolds, <1>1, PTL DEF ConsentSpec

-----------------------------------------------------------------------------
(* Trust.  Every copy in a session's hands is labelled as its own props    *)
(* and the observations so far allow, so whichever columns of it land, and *)
(* in whatever order, the row stays so; and only a fold and a retraction   *)
(* write the status.                                                       *)

Columns == {"status", "count", "props"}

TrustRow == [status : {"working", "committed", "retracted"}, count : Nat, props : Props]

LabelEarned(p) ==
  /\ p.tier = "endorsed" <=> p.endorsers # {}
  /\ p.tier = "corroborated" => grounded /\ (observed >= 2 \/ p.seen.passed)

Earned(r) == r \in TrustRow /\ LabelEarned(r.props) /\ r.count <= observed

SessionWork == [kind : Kinds, row : TrustRow, columns : SUBSET Columns]

StatusWriters(w) ==
  /\ "status" \in w.columns => w.kind \in {"fold", "retract"}
  /\ w.kind = "retract" => "status" \in w.columns /\ w.row.status = "retracted"

CopiesAreEarned ==
  \A s \in Sessions : work[s] # NoWork => Earned(work[s].row) /\ StatusWriters(work[s])

TrustInv ==
  /\ Earned(row) /\ RetractionHolds
  /\ work \in [Sessions -> SessionWork \cup {NoWork}]
  /\ CopiesAreEarned
  /\ ledger \in Verdicts /\ grounded \in BOOLEAN /\ observed \in Nat

\* tier_for gives an earned label, if it is asked with no more than was observed.
LEMMA ScoredIsEarned ==
  ASSUME observed \in Nat, NEW p \in Props, NEW E \in SUBSET People, NEW n \in Nat, n <= observed,
         NEW tally \in Verdicts
  PROVE  Scored(p, E, n, tally) \in Props /\ LabelEarned(Scored(p, E, n, tally))
<1>1. TierOf(E # {}, n, tally) \in {"probation", "corroborated", "endorsed"}
  BY DEF TierOf
<1>2. TierOf(E # {}, n, tally) = "endorsed" <=> E # {}
  BY DEF TierOf
<1>3. TierOf(E # {}, n, tally) = "corroborated" => grounded /\ (observed >= 2 \/ tally.passed)
  BY DEF TierOf
<1> DEFINE tier == TierOf(E # {}, n, tally)
           q == [p EXCEPT !.endorsers = E, !.seen = tally, !.tier = tier]
<1>4. Scored(p, E, n, tally) = q
  BY DEF Scored
<1> HIDE DEF tier
<1>5. q \in Props /\ q.endorsers = E /\ q.seen = tally /\ q.tier = tier
  BY <1>1 DEF Props, tier
<1> HIDE DEF q
<1> QED  BY <1>2, <1>3, <1>4, <1>5 DEF LabelEarned, tier

\* A session that begins with an earned copy, and changes the status only in a fold or to
\* retract, keeps the invariant.
LEMMA BeginKeepsTrust ==
  ASSUME TrustInv, NEW s \in Sessions, NEW kind \in Kinds, NEW copy \in TrustRow,
         Begin(s, kind, copy),
         LabelEarned(copy.props), copy.count <= observed',
         copy.status = row.status \/ kind \in {"fold", "retract"},
         kind = "retract" => copy.status = "retracted" /\ row.status # "retracted"
  PROVE  TrustInv'
<1> USE DEF TrustInv
<1> DEFINE w == [kind |-> kind, row |-> copy, columns |-> Changed(kind, copy)]
<1>1. /\ work' = [work EXCEPT ![s] = w]
      /\ observed' \in Nat /\ observed' >= observed
      /\ UNCHANGED <<row, ledger, grounded, retired, promoted>>
  BY DEF Begin
<1>2. /\ \A p : LabelEarned(p) => LabelEarned(p)'
      /\ \A r : Earned(r) => Earned(r)'
  BY <1>1 DEF LabelEarned, Earned, TrustRow
<1>3. DOMAIN row = Columns
  BY DEF Earned, TrustRow, Columns
<1>4. w \in SessionWork
  BY <1>3 DEF SessionWork, Changed, Columns
<1>5. Earned(copy)'
  BY <1>1 DEF Earned, LabelEarned
<1>6. StatusWriters(w)
  <2>1. "status" \in Changed(kind, copy) <=> copy.status # row.status
    BY <1>3 DEF Changed, Columns
  <2> QED  BY <2>1 DEF StatusWriters
<1>7. work' \in [Sessions -> SessionWork \cup {NoWork}]
  BY <1>1, <1>4
<1>8. CopiesAreEarned'
  <2>1. work'[s] = w /\ \A q \in Sessions : q # s => work'[q] = work[q]
    BY <1>1
  <2>2. w.row = copy
    OBVIOUS
  <2> SUFFICES ASSUME NEW q \in Sessions, work'[q] # NoWork
               PROVE  (Earned(work[q].row) /\ StatusWriters(work[q]))'
    BY DEF CopiesAreEarned
  <2>3. CASE q = s
    BY <1>1, <1>5, <1>6, <2>1, <2>2, <2>3 DEF Earned, LabelEarned, StatusWriters
  <2>4. CASE q # s
    <3>1. work'[q] = work[q] /\ Earned(work[q].row) /\ StatusWriters(work[q])
      BY <2>1, <2>4 DEF CopiesAreEarned
    <3> HIDE DEF w
    <3> QED  BY <1>1, <3>1 DEF Earned, TrustRow, LabelEarned, StatusWriters
  <2> QED  BY <2>3, <2>4
<1>9. Earned(row)' /\ RetractionHolds'
  BY <1>1, <1>2 DEF RetractionHolds, Earned, LabelEarned
<1> QED  BY <1>1, <1>7, <1>8, <1>9

\* What lands of a copy is earned column by column.
LEMMA CommitKeepsTrust ==
  ASSUME TrustInv, NEW s \in Sessions, CommitWork(s)
  PROVE  TrustInv'
<1> USE DEF TrustInv
<1> DEFINE w == work[s]
<1>1. /\ w # NoWork /\ w \in SessionWork /\ Earned(w.row) /\ StatusWriters(w)
      /\ row' = Written(w) /\ work' = [work EXCEPT ![s] = NoWork]
      /\ retired' = (retired \/ w.kind = "retract")
      /\ promoted' = (promoted \/ (retired /\ w.kind = "fold" /\ "status" \in w.columns))
      /\ UNCHANGED <<ledger, grounded, observed>>
  BY DEF CommitWork, CopiesAreEarned
<1>2. /\ DOMAIN row = Columns /\ w.columns \subseteq Columns
      /\ row \in TrustRow /\ w.row \in TrustRow
  BY <1>1 DEF Earned, TrustRow, Columns, SessionWork
<1>3. row' = [c \in Columns |-> IF c \in w.columns THEN w.row[c] ELSE row[c]]
  BY <1>1, <1>2 DEF Written
<1>4. /\ row'.status = IF "status" \in w.columns THEN w.row.status ELSE row.status
      /\ row'.count = IF "count" \in w.columns THEN w.row.count ELSE row.count
      /\ row'.props = IF "props" \in w.columns THEN w.row.props ELSE row.props
  BY <1>3 DEF Columns
<1>5. row' = [status |-> row'.status, count |-> row'.count, props |-> row'.props]
  BY <1>3 DEF Columns
<1>6. row' \in TrustRow
  BY <1>2, <1>4, <1>5 DEF TrustRow
<1>7. Earned(row)'
  BY <1>1, <1>4, <1>6 DEF Earned, LabelEarned
<1>8. RetractionHolds'
  <2>1. w.kind = "fold" => ~(w.kind = "retract")
    OBVIOUS
  <2>2. CASE "status" \in w.columns
    BY <1>1, <1>4, <2>2 DEF RetractionHolds, StatusWriters
  <2>3. CASE "status" \notin w.columns
    BY <1>1, <1>4, <2>3 DEF RetractionHolds, StatusWriters
  <2> QED  BY <2>2, <2>3
<1>9. /\ work' \in [Sessions -> SessionWork \cup {NoWork}]
      /\ \A q \in Sessions : work'[q] # NoWork => work'[q] = work[q]
  BY <1>1
<1>10. CopiesAreEarned'
  BY <1>1, <1>9 DEF CopiesAreEarned, Earned, LabelEarned, StatusWriters
<1> QED  BY <1>1, <1>7, <1>8, <1>9, <1>10

LEMMA NextTrust == TrustInv /\ [TrustNext]_trustVars => TrustInv'
<1> SUFFICES ASSUME TrustInv, [TrustNext]_trustVars PROVE TrustInv'
  OBVIOUS
<1>0. /\ row \in TrustRow /\ row.props \in Props /\ row.count \in Nat /\ row.count <= observed
      /\ LabelEarned(row.props) /\ observed \in Nat /\ ledger \in Verdicts
      /\ row.props.seen \in Verdicts /\ row.props.endorsers \in SUBSET People
  BY DEF TrustInv, Earned, TrustRow, Props
<1>1. ASSUME NEW s \in Sessions, BeginFold(s) PROVE TrustInv'
  <2> DEFINE copy == [row EXCEPT !.count = @ + 1,
                                 !.status = IF @ = "working" THEN "committed" ELSE @]
  <2>1. copy \in TrustRow /\ copy.props = row.props /\ copy.count = row.count + 1
    <3> DEFINE status == IF row.status = "working" THEN "committed" ELSE row.status
    <3>1. status \in {"working", "committed", "retracted"}
      BY <1>0 DEF TrustRow
    <3>2. row.count + 1 \in Nat
      BY <1>0
    <3> DEFINE count == row.count + 1
    <3>3. copy = [row EXCEPT !.count = count, !.status = status]
      OBVIOUS
    <3> HIDE DEF copy, status, count
    <3>4. copy \in TrustRow /\ copy.props = row.props /\ copy.count = count
      BY <1>0, <3>1, <3>2, <3>3 DEF TrustRow, count
    <3> QED  BY <3>4 DEF count
  <2>2. Begin(s, "fold", copy)
    BY <1>1 DEF BeginFold
  <2>3. observed' = observed + 1
    BY <2>2 DEF Begin
  <2> HIDE DEF copy
  <2> QED  BY <1>0, <2>1, <2>2, <2>3, BeginKeepsTrust DEF Kinds
<1>2. ASSUME NEW s \in Sessions, BeginMerge(s) PROVE TrustInv'
  <2> DEFINE copy == [row EXCEPT !.count = @ + 1]
  <2>1. /\ copy \in TrustRow /\ copy.props = row.props /\ copy.count = row.count + 1
        /\ copy.status = row.status
    BY <1>0 DEF TrustRow
  <2>2. Begin(s, "merge", copy)
    BY <1>2 DEF BeginMerge
  <2>3. observed' = observed + 1
    BY <2>2 DEF Begin
  <2> HIDE DEF copy
  <2> QED  BY <1>0, <2>1, <2>2, <2>3, BeginKeepsTrust DEF Kinds
<1>3. ASSUME NEW s \in Sessions, NEW E \in SUBSET People, NEW tally \in Verdicts,
             NEW kind \in {"endorse", "withdraw", "join"},
             Begin(s, kind, [row EXCEPT !.props = Scored(@, E, row.count, tally)])
      PROVE  TrustInv'
  <2> DEFINE p == Scored(row.props, E, row.count, tally)
             copy == [row EXCEPT !.props = p]
  <2>1. p \in Props /\ LabelEarned(p)
    BY <1>0, ScoredIsEarned
  <2>2. Begin(s, kind, copy)
    BY <1>3
  <2> HIDE DEF p
  <2>3. /\ copy \in TrustRow /\ copy.props = p /\ copy.count = row.count /\ copy.status = row.status
    BY <1>0, <2>1 DEF TrustRow
  <2>4. observed' = observed
    BY <2>2 DEF Begin
  <2> HIDE DEF copy
  <2> QED  BY <1>0, <2>1, <2>2, <2>3, <2>4, BeginKeepsTrust DEF Kinds
<1>4. ASSUME NEW s \in Sessions, BeginRetract(s) PROVE TrustInv'
  <2> DEFINE copy == [row EXCEPT !.status = "retracted"]
  <2>1. /\ copy \in TrustRow /\ copy.props = row.props /\ copy.count = row.count
        /\ copy.status = "retracted"
    BY <1>0 DEF TrustRow
  <2>2. Begin(s, "retract", copy) /\ row.status # "retracted"
    BY <1>4 DEF BeginRetract
  <2>3. observed' = observed
    BY <2>2 DEF Begin
  <2> HIDE DEF copy
  <2> QED  BY <1>0, <2>1, <2>2, <2>3, BeginKeepsTrust DEF Kinds
<1>5. ASSUME NEW s \in Sessions, NEW u \in People, BeginEndorse(s, u) \/ BeginWithdraw(s, u)
      PROVE  TrustInv'
  <2>1. row.props.endorsers \cup {u} \in SUBSET People /\ row.props.endorsers \ {u} \in SUBSET People
    BY <1>0
  <2> QED  BY <1>0, <1>3, <1>5, <2>1 DEF BeginEndorse, BeginWithdraw
<1>6. ASSUME NEW s \in Sessions, BeginJoin(s) PROVE TrustInv'
  BY <1>0, <1>3, <1>6 DEF BeginJoin
<1>7. ASSUME NEW s \in Sessions, CommitWork(s) PROVE TrustInv'
  BY <1>7, CommitKeepsTrust
<1>8. CASE Verdict
  <2>1. UNCHANGED <<row, work, grounded, observed, retired, promoted>> /\ ledger' \in Verdicts
    BY <1>0, <1>8 DEF Verdict, Verdicts
  <2> QED  BY <2>1 DEF TrustInv, Earned, LabelEarned, RetractionHolds, StatusWriters, CopiesAreEarned
<1>9. CASE UNCHANGED trustVars
  BY <1>9 DEF trustVars, TrustInv, Earned, LabelEarned, RetractionHolds, StatusWriters, CopiesAreEarned
<1> QED  BY <1>1, <1>2, <1>4, <1>5, <1>6, <1>7, <1>8, <1>9 DEF TrustNext

LEMMA InitTrust == TrustInit => TrustInv
<1> SUFFICES ASSUME TrustInit PROVE TrustInv
  OBVIOUS
<1>1. PICK status \in {"working", "committed"} :
        row = [status |-> status, count |-> 1,
               props |-> [endorsers |-> {}, tier |-> "probation",
                          seen |-> [passed |-> FALSE, failed |-> FALSE]]]
  BY DEF TrustInit
<1>2. row \in TrustRow /\ row.count = 1 /\ row.props.tier = "probation" /\ row.props.endorsers = {}
  BY <1>1 DEF TrustRow, Props, Verdicts
<1> QED  BY <1>2 DEF TrustInit, TrustInv, CopiesAreEarned, Earned, LabelEarned, RetractionHolds, Verdicts

LEMMA TrustInvHolds == TrustSpec => []TrustInv
BY InitTrust, NextTrust, PTL DEF TrustSpec

\* tier_for, trust_record: whatever sessions overlap and whichever of their columns land
\* last, the label a packet shows is one that the memory's people, runs and observations
\* have earned it.
THEOREM TierIsEarnedHolds == TrustSpec => []TierIsEarned
<1>1. TrustInv => TierIsEarned
  BY DEF TrustInv, Earned, LabelEarned, TierIsEarned
<1> QED  BY <1>1, TrustInvHolds, PTL

\* retract_memory: a retraction outlives every fold, merge, endorsement and join in flight,
\* but for a fold that read the memory while it was working and lands after it.
THEOREM RetractionHoldsAlways == TrustSpec => []RetractionHolds
<1>1. TrustInv => RetractionHolds
  BY DEF TrustInv
<1> QED  BY <1>1, TrustInvHolds, PTL

-----------------------------------------------------------------------------
(* The page a session starts with.  The persons behind a learning are      *)
(* those whose claims stand, an unasked claim marks its row for good, and  *)
(* the HOP of the row is the HOP of a claim that stands.                   *)

FactRow ==
  [status : {"none", "committed", "retracted"}, hook : BOOLEAN, hop : Hops \cup {AnyHop},
   build : BOOLEAN, pinned : BOOLEAN, tier : Standings]

ClaimHeard == [who : Persons, hop : Hops, asked : BOOLEAN]

StandsFor(l) ==
  /\ \A u : u \in decided[l] <=> \E c \in heard[l] : c.who = u
  /\ \A c \in heard[l] : ~c.asked => fact[l].hook
  /\ heard[l] # {} => \E c \in heard[l] : c.hop = fact[l].hop

SessionInv ==
  /\ fact \in [Learnings -> FactRow]
  /\ decided \in [Learnings -> SUBSET Persons]
  /\ heard \in [Learnings -> SUBSET ClaimHeard]
  /\ \A l \in Learnings : StandsFor(l)

\* A claim puts its person, its HOP and whether it was asked for on the row.
LEMMA ClaimKeepsStanding ==
  ASSUME SessionInv, NEW l \in Learnings, NEW u \in Persons, NEW hop \in Hops,
         NEW hook \in BOOLEAN, NEW as, ClaimLearning(l, u, hop, hook, as)
  PROVE  SessionInv'
<1> DEFINE was == fact[l]
           new == Reclaimed(was, hop, hook, as)
           claim == [who |-> u, hop |-> hop, asked |-> ~hook]
<1>1. was \in FactRow
  BY DEF SessionInv
<1>2. new \in FactRow /\ new.hop = hop /\ (was.hook \/ hook => new.hook)
  <2> DEFINE st == IF was.status = "none" THEN "committed" ELSE was.status
             hk == was.hook \/ hook
             bd == was.build \/ as = "build"
             pn == was.pinned \/ as = "pinned"
  <2>1. new = [was EXCEPT !.status = st, !.hop = hop, !.hook = hk, !.build = bd, !.pinned = pn]
    BY <1>1 DEF Reclaimed, FactRow
  <2>2. /\ st \in {"none", "committed", "retracted"}
        /\ hk \in BOOLEAN /\ bd \in BOOLEAN /\ pn \in BOOLEAN
    BY <1>1 DEF FactRow
  <2>3. was.hook \/ hook => hk
    OBVIOUS
  <2> HIDE DEF st, hk, bd, pn, new, was
  <2>4. new \in FactRow /\ new.hop = hop /\ new.hook = hk
    BY <1>1, <2>1, <2>2 DEF FactRow
  <2> QED  BY <2>3, <2>4
<1>3. /\ fact' = [fact EXCEPT ![l] = new]
      /\ decided' = [decided EXCEPT ![l] = decided[l] \cup {u}]
      /\ heard' = [heard EXCEPT ![l] = heard[l] \cup {claim}]
  BY DEF ClaimLearning, SessionInv
<1>4. claim \in ClaimHeard /\ claim.who = u /\ claim.hop = hop /\ (~claim.asked => hook)
  BY DEF ClaimHeard
<1> HIDE DEF new, claim
<1>5. /\ fact' \in [Learnings -> FactRow] /\ decided' \in [Learnings -> SUBSET Persons]
      /\ heard' \in [Learnings -> SUBSET ClaimHeard]
  BY <1>2, <1>3, <1>4 DEF SessionInv
<1>6. \A k \in Learnings \ {l} : fact'[k] = fact[k] /\ decided'[k] = decided[k] /\ heard'[k] = heard[k]
  BY <1>3 DEF SessionInv
<1>7. fact'[l] = new /\ decided'[l] = decided[l] \cup {u} /\ heard'[l] = heard[l] \cup {claim}
  BY <1>3 DEF SessionInv
<1>8. StandsFor(l)'
  BY <1>2, <1>4, <1>7 DEF SessionInv, StandsFor
<1>9. \A k \in Learnings \ {l} : StandsFor(k)'
  BY <1>6 DEF SessionInv, StandsFor
<1> QED  BY <1>5, <1>8, <1>9 DEF SessionInv

LEMMA SessionKeepsStanding ==
  ASSUME SessionInv, [SessionStartNext]_startVars
  PROVE  SessionInv'
<1>1. ASSUME NEW l \in Learnings, NEW tier \in Standings, TierMoves(l, tier)
      PROVE  SessionInv'
  <2> DEFINE new == [fact[l] EXCEPT !.tier = tier]
  <2>1. new \in FactRow /\ new.hook = fact[l].hook /\ new.hop = fact[l].hop
    BY DEF SessionInv, FactRow
  <2>2. fact' = [fact EXCEPT ![l] = new] /\ UNCHANGED <<decided, heard>>
    BY <1>1 DEF TierMoves, SessionInv
  <2> HIDE DEF new
  <2> QED  BY <2>1, <2>2 DEF SessionInv, StandsFor
<1>2. ASSUME NEW l \in Learnings, RetractLearning(l)
      PROVE  SessionInv'
  <2> DEFINE new == [fact[l] EXCEPT !.status = "retracted"]
  <2>1. new \in FactRow
    BY DEF SessionInv, FactRow
  <2>2. /\ fact' = [fact EXCEPT ![l] = new]
        /\ decided' = [decided EXCEPT ![l] = {}] /\ heard' = [heard EXCEPT ![l] = {}]
    BY <1>2 DEF RetractLearning, SessionInv
  <2> HIDE DEF new
  <2> QED  BY <2>1, <2>2 DEF SessionInv, StandsFor
<1>3. CASE UNCHANGED <<fact, decided, heard>>
  BY <1>3 DEF SessionInv, StandsFor
<1> QED  BY <1>1, <1>2, <1>3, ClaimKeepsStanding DEF SessionStartNext, startVars, Render

LEMMA SessionInvHolds ==
  SessionStartSpec => []SessionInv
<1>1. SessionStartInit => SessionInv
  <2>1. NoFact \in FactRow
    BY DEF NoFact, FactRow, Standings
  <2> QED  BY <2>1 DEF SessionStartInit, SessionInv, StandsFor
<1>2. SessionInv /\ [SessionStartNext]_startVars => SessionInv'
  BY SessionKeepsStanding
<1> QED  BY <1>1, <1>2, PTL DEF SessionStartSpec

\* render_projection: "reaches only the person and HOP it came from": a learning on
\* probation that nobody asked for is listed beyond the pinned slice only for the one
\* person it came from, in a HOP one of its claims came from.
THEOREM UnaskedStaysHomeHolds == SessionStartSpec => UnaskedStaysHome
<1> DEFINE A == page' # page =>
                  \A l \in page'.lines :
                    fact[l].tier = "probation" /\ (\A c \in heard[l] : ~c.asked) =>
                      /\ \A c \in heard[l] : c.who = page'.person
                      /\ page'.hop = AnyHop \/ \E c \in heard[l] : c.hop = page'.hop
<1>1. SessionInv /\ [SessionStartNext]_startVars => [A]_startVars
  <2> SUFFICES ASSUME SessionInv, SessionStartNext
               PROVE  A
    OBVIOUS
  <2>1. ASSUME NEW u \in Persons \cup {NoOne}, NEW hop \in Hops \cup {AnyHop}, Render(u, hop),
               NEW l \in page'.lines, fact[l].tier = "probation", \A c \in heard[l] : ~c.asked
        PROVE  /\ \A c \in heard[l] : c.who = page'.person
               /\ page'.hop = AnyHop \/ \E c \in heard[l] : c.hop = page'.hop
    <3>1. /\ l \in Listed /\ l \notin Foreign(u, hop)
          /\ page'.person = u /\ page'.hop = hop
      BY <2>1 DEF Render
    <3>2. l \in Learnings /\ decided[l] # {} /\ StandsFor(l)
      BY <3>1 DEF Listed, SessionInv
    <3>3. heard[l] # {} /\ fact[l].hook
      BY <2>1, <3>2 DEF StandsFor
    <3>4. SameHop(l, hop) /\ decided[l] \ {u} = {}
      BY <2>1, <3>1, <3>3 DEF Foreign, OnProbationUnasked
    <3> QED  BY <3>1, <3>2, <3>3, <3>4 DEF StandsFor, SameHop
  <2>2. page' # page => \E u \in Persons \cup {NoOne}, hop \in Hops \cup {AnyHop} : Render(u, hop)
    BY DEF SessionStartNext, ClaimLearning, TierMoves, RetractLearning
  <2> QED  BY <2>1, <2>2
<1> QED  BY SessionInvHolds, <1>1, PTL DEF SessionStartSpec, UnaskedStaysHome

-----------------------------------------------------------------------------
(* The read path.  In the store, a committed value that a person's         *)
(* retraction of its anchor has not cut off is held by an open edge that   *)
(* outlasts it.  In a request, each row was, when it was read, a value     *)
(* live at that instant, or one whose status the next phase drops.         *)

ValueRow ==
  [status : {"none", "committed", "superseded", "retracted", "expired"}, expires : 0..Never]
EdgeRow == [open : BOOLEAN, expires : 0..Never]

Held(k) ==
  /\ valueOf[k].status = "committed" /\ k[1] \notin orphaned =>
       holds[k].open /\ valueOf[k].expires <= holds[k].expires
  /\ valueOf[k].status \in {"none", "superseded"} => ~holds[k].open

StoreInv ==
  /\ hour \in Nat
  /\ anchorOf \in [AllScopes -> {"none", "committed", "retracted"}]
  /\ valueOf \in [ScopedValues -> ValueRow]
  /\ holds \in [ScopedValues -> EdgeRow]
  /\ \A k \in ScopedValues : Held(k)

\* What a request may have seen of a value, and of an anchor.
SeenLive(n) == n[1] \in orphaned \/ n \in wasLive
SeenAnchor(n) == \E v \in AnchorValues : <<n[1], v>> \in wasLive

\* The rows of each phase.
FoundRow(r) ==
  /\ r.status \in {"committed", "retracted", "expired"}
  /\ r.status = "committed" => SeenLive(r.node)
RowsAre ==
  \A r \in read.rows :
    /\ r.node[2] # AnchorNode /\ read.phase = "words" => FoundRow(r)
    /\ r.node[2] # AnchorNode /\ read.phase # "words" => SeenLive(r.node)
    /\ r.node[2] = AnchorNode /\ read.phase \in {"watched", "packet", "served"} =>
         SeenAnchor(r.node)

RowRecord ==
  [node : ReadScopes \X Names,
   status : {"none", "committed", "superseded", "retracted", "expired"}]
Phases == {"none", "vector", "words", "merged", "watched", "packet", "served"}
ReadRecord ==
  [tool : {"none", "answer", "search"}, mayRead : BOOLEAN, phase : Phases,
   rows : SUBSET RowRecord]

RequestInv ==
  /\ read \in ReadRecord
  /\ read.phase \in {"none", "vector"} => read.rows = {}
  /\ LiveNow \subseteq wasLive
  /\ RowsAre

ReadInv == StoreInv /\ RequestInv

-----------------------------------------------------------------------------
(* The writes keep the store, and take nothing back that was seen. *)

LEMMA ClaimKeepsStore ==
  ASSUME ReadPathAssumption, StoreInv, NEW s \in AllScopes, NEW v \in AnchorValues,
         NEW end \in {1, Never}, ClaimValue(s, v, end)
  PROVE  StoreInv'
<1> DEFINE k == <<s, v>>
           others == {<<s, w>> : w \in {x \in AnchorValues \ {v} : valueOf[<<s, x>>].status # "none"}}
           st == IF valueOf[k].status \in {"none", "superseded"} THEN "committed"
                 ELSE valueOf[k].status
           vx == IF end # Never THEN end ELSE valueOf[k].expires
           hx == IF end # Never \/ ~holds[k].open THEN end ELSE holds[k].expires
           val == [status |-> st, expires |-> vx]
           edge == [open |-> TRUE, expires |-> hx]
<1>0. /\ k \in ScopedValues /\ k[1] = s /\ end \in 0..Never /\ Never \in Nat
      /\ valueOf[k] \in ValueRow /\ holds[k] \in EdgeRow
  BY DEF ScopedValues, Never, ReadPathAssumption, StoreInv
<1>1. /\ valueOf' = [o \in ScopedValues |->
             IF o = k THEN val
             ELSE IF o \in others THEN [valueOf[o] EXCEPT !.status = "superseded"] ELSE valueOf[o]]
      /\ holds' = [o \in ScopedValues |->
             IF o = k THEN edge
             ELSE IF o \in others THEN [holds[o] EXCEPT !.open = FALSE] ELSE holds[o]]
      /\ hour' = hour /\ orphaned' = orphaned
      /\ anchorOf' \in {anchorOf, [anchorOf EXCEPT ![s] = "committed"]}
  BY DEF ClaimValue, Write
<1>2. val \in ValueRow /\ edge \in EdgeRow
  <2>1. st \in {"none", "committed", "superseded", "retracted", "expired"} /\ vx \in 0..Never /\ hx \in 0..Never
    BY <1>0 DEF ValueRow, EdgeRow
  <2> HIDE DEF st, vx, hx
  <2> QED  BY <2>1 DEF ValueRow, EdgeRow
<1>3. val.status \notin {"none", "superseded"} /\ edge.open
  <2>1. st \notin {"none", "superseded"}
    OBVIOUS
  <2> QED  BY <2>1
<1>4. val.status = "committed" /\ s \notin orphaned => val.expires <= edge.expires
  <2> SUFFICES ASSUME st = "committed", s \notin orphaned
               PROVE  vx <= hx
    OBVIOUS
  <2>1. CASE end # Never
    BY <1>0, <2>1 DEF ValueRow
  <2>2. CASE end = Never /\ ~holds[k].open
    <3>1. valueOf[k].expires <= Never
      BY <1>0 DEF ValueRow
    <3> QED  BY <3>1, <2>2
  <2>3. CASE end = Never /\ holds[k].open
    <3>1. valueOf[k].status = "committed"
      BY <1>0, <2>3 DEF StoreInv, Held
    <3>2. valueOf[k].expires <= holds[k].expires
      BY <1>0, <3>1 DEF StoreInv, Held
    <3> QED  BY <1>0, <2>3, <3>2 DEF ValueRow, EdgeRow
  <2> QED  BY <2>1, <2>2, <2>3
<1> HIDE DEF val, edge, others
<1>5. ASSUME NEW o \in ScopedValues
      PROVE  valueOf'[o] \in ValueRow /\ holds'[o] \in EdgeRow /\ Held(o)'
  <2>0. valueOf[o] \in ValueRow /\ holds[o] \in EdgeRow /\ Held(o)
    BY DEF StoreInv
  <2>1. CASE o = k
    BY <1>0, <1>1, <1>2, <1>3, <1>4, <2>1 DEF Held
  <2>2. CASE o # k /\ o \in others
    <3>1. /\ valueOf'[o] = [valueOf[o] EXCEPT !.status = "superseded"]
          /\ holds'[o] = [holds[o] EXCEPT !.open = FALSE]
      BY <1>1, <2>2
    <3>2. /\ valueOf'[o] \in ValueRow /\ valueOf'[o].status = "superseded"
          /\ holds'[o] \in EdgeRow /\ ~holds'[o].open
      BY <2>0, <3>1 DEF ValueRow, EdgeRow
    <3> QED  BY <3>2 DEF Held
  <2>3. CASE o # k /\ o \notin others
    <3>1. valueOf'[o] = valueOf[o] /\ holds'[o] = holds[o]
      BY <1>1, <2>3
    <3> QED  BY <1>1, <2>0, <3>1 DEF Held
  <2> QED  BY <2>1, <2>2, <2>3
<1>6. /\ valueOf' \in [ScopedValues -> ValueRow] /\ holds' \in [ScopedValues -> EdgeRow]
      /\ \A o \in ScopedValues : Held(o)'
  BY <1>1, <1>5
<1>7. anchorOf' \in [AllScopes -> {"none", "committed", "retracted"}] /\ hour' \in Nat
  BY <1>1 DEF StoreInv
<1> QED  BY <1>6, <1>7 DEF StoreInv

\* The closing writes: a retraction of a value, of an anchor, and the sweep.
LEMMA CloseKeepsStore ==
  ASSUME ReadPathAssumption, StoreInv,
         (\E k \in ScopedValues : RetractValue(k)) \/ (\E s \in AllScopes : RetractAnchor(s)) \/ SweepDue
  PROVE  StoreInv' /\ LiveNow' \subseteq LiveNow /\ orphaned \subseteq orphaned'
         /\ UNCHANGED <<hour, read, wasLive>>
<1> DEFINE Closed(o) == holds'[o] = holds[o] \/ holds'[o] = [holds[o] EXCEPT !.open = FALSE]
<1>0. hour' = hour /\ UNCHANGED <<read, wasLive>>
  BY DEF RetractValue, RetractAnchor, SweepDue, Write
<1>1. ASSUME DOMAIN holds' = ScopedValues, holds' = [o \in ScopedValues |-> holds'[o]],
             \A o \in ScopedValues : Closed(o)
      PROVE  holds' \in [ScopedValues -> EdgeRow] /\ LiveNow' \subseteq LiveNow
  <2>1. ASSUME NEW o \in ScopedValues
        PROVE  /\ holds'[o] \in EdgeRow /\ holds'[o].expires = holds[o].expires
               /\ holds'[o].open => holds[o].open
    <3>1. holds[o] \in EdgeRow
      BY DEF StoreInv
    <3>2. CASE holds'[o] = holds[o]
      BY <3>1, <3>2
    <3>3. CASE holds'[o] = [holds[o] EXCEPT !.open = FALSE]
      BY <3>1, <3>3 DEF EdgeRow
    <3> QED  BY <1>1, <3>2, <3>3
  <2>2. \A o \in ScopedValues : o = <<o[1], o[2]>>
    BY DEF ScopedValues
  <2>3. LiveNow' \subseteq LiveNow
    BY <1>0, <2>1, <2>2 DEF LiveNow, Live, Unexpired
  <2> QED  BY <1>1, <2>1, <2>3
<1>2. ASSUME NEW k \in ScopedValues, RetractValue(k)
      PROVE  StoreInv' /\ LiveNow' \subseteq LiveNow /\ orphaned \subseteq orphaned'
  <2> DEFINE val == [valueOf[k] EXCEPT !.status = "retracted"]
             edge == [holds[k] EXCEPT !.open = FALSE]
  <2>1. val \in ValueRow /\ val.status = "retracted" /\ edge \in EdgeRow
    BY DEF StoreInv, ValueRow, EdgeRow
  <2>2. /\ valueOf' = [valueOf EXCEPT ![k] = val] /\ holds' = [holds EXCEPT ![k] = edge]
        /\ anchorOf' = anchorOf /\ orphaned' = orphaned
    BY <1>2 DEF RetractValue, StoreInv
  <2>3. LiveNow' \subseteq LiveNow /\ holds' \in [ScopedValues -> EdgeRow]
    BY <1>1, <2>2 DEF StoreInv
  <2> HIDE DEF val, edge
  <2>4. valueOf' \in [ScopedValues -> ValueRow]
    BY <2>1, <2>2 DEF StoreInv
  <2>5. Held(k)'
    BY <2>1, <2>2 DEF StoreInv, Held
  <2>6. \A o \in ScopedValues \ {k} : Held(o)'
    BY <2>2 DEF StoreInv, Held
  <2> QED  BY <1>0, <2>2, <2>3, <2>4, <2>5, <2>6 DEF StoreInv
<1>3. ASSUME NEW s \in AllScopes, RetractAnchor(s)
      PROVE  StoreInv' /\ LiveNow' \subseteq LiveNow /\ orphaned \subseteq orphaned'
  <2>1. /\ anchorOf' = [anchorOf EXCEPT ![s] = "retracted"]
        /\ holds' = [o \in ScopedValues |->
                       IF o[1] = s THEN [holds[o] EXCEPT !.open = FALSE] ELSE holds[o]]
        /\ orphaned' = orphaned \cup {s} /\ valueOf' = valueOf
    BY <1>3 DEF RetractAnchor
  <2>2. LiveNow' \subseteq LiveNow /\ holds' \in [ScopedValues -> EdgeRow]
    BY <1>1, <2>1
  <2>3. \A o \in ScopedValues : o[1] = s => ~holds'[o].open
    BY <2>1 DEF StoreInv, EdgeRow
  <2>4. \A o \in ScopedValues : Held(o)'
    BY <2>1, <2>3 DEF StoreInv, Held
  <2> QED  BY <1>0, <2>1, <2>2, <2>4 DEF StoreInv
<1>4. CASE SweepDue
  <2>1. /\ valueOf' = [o \in ScopedValues |->
                         IF o \in Due THEN [valueOf[o] EXCEPT !.status = "expired"] ELSE valueOf[o]]
        /\ holds' = [o \in ScopedValues |->
                       IF o \in Due THEN [holds[o] EXCEPT !.open = FALSE] ELSE holds[o]]
        /\ anchorOf' = anchorOf /\ orphaned' = orphaned
    BY <1>4 DEF SweepDue
  <2>2. LiveNow' \subseteq LiveNow /\ holds' \in [ScopedValues -> EdgeRow]
    BY <1>1, <2>1
  <2>3. \A o \in ScopedValues :
          IF o \in Due THEN valueOf'[o] \in ValueRow /\ valueOf'[o].status = "expired"
          ELSE valueOf'[o] = valueOf[o] /\ holds'[o] = holds[o]
    BY <2>1 DEF StoreInv, ValueRow
  <2>4. \A o \in ScopedValues : Held(o)'
    BY <2>1, <2>3 DEF StoreInv, Held
  <2>5. valueOf' \in [ScopedValues -> ValueRow]
    <3>1. valueOf' = [o \in ScopedValues |-> valueOf'[o]]
      BY <2>1
    <3> QED  BY <2>3, <3>1 DEF StoreInv
  <2> QED  BY <1>0, <2>1, <2>2, <2>4, <2>5 DEF StoreInv
<1> QED  BY <1>0, <1>2, <1>3, <1>4

\* A committed value that is not cut off is live while its node has not run out.
LEMMA CommittedIsLive ==
  ASSUME ReadPathAssumption, StoreInv, LiveNow \subseteq wasLive
  PROVE  \A k \in ScopedValues :
           valueOf[k].status = "committed" /\ Unexpired(valueOf[k]) => SeenLive(k)
<1> SUFFICES ASSUME NEW k \in ScopedValues, valueOf[k].status = "committed",
                    Unexpired(valueOf[k]), k[1] \notin orphaned
             PROVE  k \in LiveNow
  BY DEF SeenLive
<1>1. holds[k].open /\ valueOf[k].expires <= holds[k].expires
  BY DEF StoreInv, Held
<1>2. /\ hour \in Nat /\ valueOf[k].expires \in Nat /\ holds[k].expires \in Nat
      /\ k = <<k[1], k[2]>>
  BY DEF StoreInv, ValueRow, EdgeRow, ScopedValues, Never, ReadPathAssumption
<1> QED  BY <1>1, <1>2 DEF LiveNow, Live, Unexpired

-----------------------------------------------------------------------------
(* A request's steps. *)

LEMMA RequestFacts ==
  ASSUME read \in ReadRecord
  PROVE  \A phase \in Phases, rows \in SUBSET RowRecord :
           /\ Request(phase, rows) \in ReadRecord
           /\ Request(phase, rows).phase = phase /\ Request(phase, rows).rows = rows
BY DEF ReadRecord, Request

\* A row of a node the caller may read, and its node if it is a value.
LEMMA RowReadFacts ==
  ASSUME ReadPathAssumption, StoreInv
  PROVE  \A n \in ReadScopes \X Names :
           /\ RowRead(n) \in RowRecord /\ RowRead(n).node = n /\ RowRead(n).status = StatusOf(n)
           /\ n[2] # AnchorNode => n \in ScopedValues /\ StatusOf(n) = valueOf[n].status
<1> SUFFICES ASSUME NEW n \in ReadScopes \X Names
             PROVE  /\ StatusOf(n) \in {"none", "committed", "superseded", "retracted", "expired"}
                    /\ n[2] # AnchorNode => n \in ScopedValues /\ StatusOf(n) = valueOf[n].status
  BY DEF RowRead, RowRecord
<1>1. n[1] \in AllScopes
  BY DEF ReadPathAssumption, AllScopes
<1>2. n[2] # AnchorNode => n \in ScopedValues
  BY <1>1 DEF Names, ScopedValues
<1> QED  BY <1>1, <1>2 DEF StatusOf, StoreInv, ValueRow

LEMMA CachedRows ==
  ASSUME ReadPathAssumption, StoreInv
  PROVE  \A rows \in SUBSET RowRecord, ns \in SUBSET (ReadScopes \X Names) :
           /\ Cached(rows, ns) \in SUBSET RowRecord
           /\ \A r \in Cached(rows, ns) : r \in rows \/ \E n \in ns : r = RowRead(n)
BY RowReadFacts DEF Cached

\* What a query finds now: a value it finds committed is live.
LEMMA FindableRows ==
  ASSUME ReadPathAssumption, StoreInv, LiveNow \subseteq wasLive
  PROVE  /\ Findable \subseteq ReadScopes \X Names
         /\ \A n \in Findable : n[2] # AnchorNode => FoundRow(RowRead(n))
<1>1. Findable \subseteq ReadScopes \X Names
  BY DEF Findable
<1>2. ASSUME NEW n \in Findable, n[2] # AnchorNode
      PROVE  FoundRow(RowRead(n))
  <2>1. /\ RowRead(n).node = n /\ RowRead(n).status = valueOf[n].status
        /\ n \in ScopedValues /\ valueOf[n].status \notin {"none", "superseded"}
        /\ Unexpired(valueOf[n])
    BY <1>1, <1>2, RowReadFacts DEF Findable
  <2>2. valueOf[n].status \in {"committed", "retracted", "expired"}
    BY <2>1 DEF StoreInv, ValueRow
  <2> QED  BY <2>1, <2>2, CommittedIsLive DEF FoundRow
<1> QED  BY <1>1, <1>2

\* The values of an anchor a request expands are live now; an anchor it keeps has one.
LEMMA ExpandedRows ==
  ASSUME ReadPathAssumption, StoreInv, RequestInv, read.phase = "merged"
  PROVE  /\ Expanded(read.rows) \in SUBSET RowRecord
         /\ \A r \in Expanded(read.rows) :
              /\ r.node[2] # AnchorNode => SeenLive(r.node)
              /\ r.node[2] = AnchorNode => SeenAnchor(r.node)
<1> DEFINE anchors == {r \in read.rows : r.node[2] = AnchorNode}
           empty == {r \in anchors : LiveValues(r.node[1]) = {}}
           values == UNION {LiveValues(r.node[1]) : r \in anchors \ empty}
<1>0. read.rows \in SUBSET RowRecord
  BY DEF RequestInv, ReadRecord
<1>1. \A s : \A n \in LiveValues(s) : /\ n[1] = s /\ n = <<s, n[2]>>
                                      /\ n[2] \in AnchorValues /\ Live(s, n[2])
  <2>1. \A s : \A n \in LiveValues(s) : \E v \in AnchorValues : n = <<s, v>> /\ Live(s, v)
    BY DEF LiveValues
  <2> QED  BY <2>1
<1>2. ASSUME NEW r \in anchors
      PROVE  /\ r.node[1] \in ReadScopes /\ r.node[1] \in AllScopes
             /\ LiveValues(r.node[1]) \subseteq (ReadScopes \X Names) \cap wasLive
  <2>1. r.node[1] \in ReadScopes /\ r.node[1] \in AllScopes
    BY <1>0 DEF RowRecord, ReadPathAssumption, AllScopes
  <2>2. ASSUME NEW n \in LiveValues(r.node[1])
        PROVE  n \in (ReadScopes \X Names) \cap wasLive
    <3>1. n = <<r.node[1], n[2]>> /\ n[2] \in AnchorValues /\ Live(r.node[1], n[2]) /\ n[1] = r.node[1]
      BY <1>1
    <3>2. n \in ScopedValues /\ n \in ReadScopes \X Names
      BY <2>1, <3>1 DEF ScopedValues, Names
    <3>3. n \in LiveNow
      BY <3>1, <3>2 DEF LiveNow
    <3> QED  BY <3>2, <3>3 DEF RequestInv
  <2> QED  BY <2>1, <2>2
<1>3. Expanded(read.rows) = Cached(read.rows \ empty, values)
  BY DEF Expanded
<1>4. values \in SUBSET (ReadScopes \X Names) /\ values \subseteq wasLive
  BY <1>2
<1>5. ASSUME NEW n \in values
      PROVE  SeenLive(n) /\ SeenAnchor(n)
  <2>1. PICK r \in anchors : n \in LiveValues(r.node[1])
    OBVIOUS
  <2>2. n = <<n[1], n[2]>> /\ n[2] \in AnchorValues
    BY <1>1, <2>1
  <2>3. n \in wasLive
    BY <1>4
  <2> QED  BY <2>2, <2>3 DEF SeenLive, SeenAnchor
<1>6. ASSUME NEW r \in anchors \ empty
      PROVE  SeenAnchor(r.node)
  <2>1. PICK n \in LiveValues(r.node[1]) : TRUE
    OBVIOUS
  <2>2. n = <<r.node[1], n[2]>> /\ n[2] \in AnchorValues
    BY <1>1
  <2>3. n \in wasLive
    BY <1>2
  <2> QED  BY <2>2, <2>3 DEF SeenAnchor
<1>7. \A r \in read.rows : r.node[2] # AnchorNode => SeenLive(r.node)
  BY DEF RequestInv, RowsAre
<1>8. \A r \in read.rows \ empty : r.node[2] = AnchorNode => SeenAnchor(r.node)
  BY <1>6
<1>9. read.rows \ empty \in SUBSET RowRecord
  BY <1>0
<1> HIDE DEF anchors, empty, values
<1>10. /\ Expanded(read.rows) \in SUBSET RowRecord
       /\ \A r \in Expanded(read.rows) :
            r \in read.rows \ empty \/ \E n \in values : r = RowRead(n)
  BY <1>3, <1>4, <1>9, CachedRows
<1>11. \A n \in values : RowRead(n).node = n
  BY <1>4, RowReadFacts
<1> QED  BY <1>5, <1>7, <1>8, <1>10, <1>11

LEMMA ReadKeepsRows ==
  ASSUME ReadPathAssumption, ReadInv,
         VectorLeg \/ LexicalLeg \/ ExpandValues \/ LookUpWatched \/ BuildPacket
  PROVE  read' \in ReadRecord /\ read'.phase \notin {"none", "vector"} /\ RowsAre'
<1>0. /\ StoreInv /\ RequestInv /\ RowsAre /\ read \in ReadRecord /\ LiveNow \subseteq wasLive
      /\ read.rows \in SUBSET RowRecord
  BY DEF ReadInv, RequestInv, ReadRecord
<1>1. wasLive' = wasLive /\ orphaned' = orphaned
  BY DEF VectorLeg, LexicalLeg, ExpandValues, LookUpWatched, BuildPacket, ReadStep
<1>2. CASE VectorLeg
  <2>1. PICK found \in SUBSET Findable : read' = Request("words", Cached({}, found))
    BY <1>2 DEF VectorLeg
  <2>2. found \in SUBSET (ReadScopes \X Names) /\ {} \in SUBSET RowRecord
    BY <1>0, FindableRows
  <2>3. /\ Cached({}, found) \in SUBSET RowRecord
        /\ \A r \in Cached({}, found) : \E n \in found : r = RowRead(n)
    BY <1>0, <2>2, CachedRows
  <2>4. read' \in ReadRecord /\ read'.phase = "words" /\ read'.rows = Cached({}, found)
    BY <1>0, <2>1, <2>3, RequestFacts DEF Phases
  <2>5. \A r \in read'.rows : r.node[2] # AnchorNode => FoundRow(r)
    <3>1. \A n \in found : RowRead(n).node = n
      BY <1>0, <2>2, RowReadFacts
    <3> QED  BY <1>0, <2>3, <2>4, <3>1, FindableRows
  <2> QED  BY <1>1, <2>4, <2>5 DEF RowsAre, FoundRow, SeenLive
<1>3. CASE LexicalLeg
  <2>1. PICK found \in SUBSET Findable : read' = Request("merged", Narrowest(Cached(read.rows, found)))
    BY <1>3 DEF LexicalLeg
  <2>2. found \in SUBSET (ReadScopes \X Names)
    BY <1>0, FindableRows
  <2>3. /\ Cached(read.rows, found) \in SUBSET RowRecord
        /\ \A r \in Cached(read.rows, found) : r \in read.rows \/ \E n \in found : r = RowRead(n)
    BY <1>0, <2>2, CachedRows
  <2>4. /\ Narrowest(Cached(read.rows, found)) \subseteq Cached(read.rows, found)
        /\ \A r \in Narrowest(Cached(read.rows, found)) : r.status \notin {"retracted", "expired"}
    BY DEF Narrowest, NotCurrent
  <2>5. /\ read' \in ReadRecord /\ read'.phase = "merged"
        /\ read'.rows = Narrowest(Cached(read.rows, found))
    BY <1>0, <2>1, <2>3, <2>4, RequestFacts DEF Phases
  <2>6. read.phase = "words"
    BY <1>3 DEF LexicalLeg
  <2>7. \A r \in read'.rows : r.node[2] # AnchorNode => SeenLive(r.node)
    <3>1. \A n \in found : RowRead(n).node = n
      BY <1>0, <2>2, RowReadFacts
    <3>2. \A r \in read'.rows : r.node[2] # AnchorNode => FoundRow(r)
      BY <1>0, <2>3, <2>4, <2>5, <2>6, <3>1, FindableRows DEF RowsAre
    <3> QED  BY <2>4, <2>5, <3>2 DEF FoundRow
  <2> QED  BY <1>1, <2>5, <2>7 DEF RowsAre, SeenLive
<1>4. CASE ExpandValues
  <2> DEFINE phase == IF read.tool = "answer" THEN "watched" ELSE "served"
             rows == IF read.mayRead THEN Expanded(read.rows) ELSE {}
  <2>1. read.phase = "merged" /\ read' = Request(phase, rows)
    BY <1>4 DEF ExpandValues
  <2>2. /\ rows \in SUBSET RowRecord
        /\ \A r \in rows : /\ r.node[2] # AnchorNode => SeenLive(r.node)
                           /\ r.node[2] = AnchorNode => SeenAnchor(r.node)
    BY <1>0, <2>1, ExpandedRows
  <2>3. phase \in {"watched", "served"} /\ phase \in Phases
    BY DEF Phases
  <2> HIDE DEF phase, rows
  <2>4. read' \in ReadRecord /\ read'.phase = phase /\ read'.rows = rows
    BY <1>0, <2>1, <2>2, <2>3, RequestFacts
  <2> QED  BY <1>1, <2>2, <2>3, <2>4 DEF RowsAre, SeenLive, SeenAnchor
<1>5. CASE LookUpWatched
  <2>1. PICK ss \in SUBSET ReadScopes : read' = Request("packet", Cached(read.rows, Watched(ss)))
    BY <1>5 DEF LookUpWatched
  <2>2. /\ Watched(ss) \in SUBSET (ReadScopes \X Names) /\ Watched(ss) \subseteq wasLive
        /\ \A n \in Watched(ss) : n[2] \in AnchorValues /\ n = <<n[1], n[2]>>
    BY <1>0 DEF Watched, LiveNow, ScopedValues, Names
  <2>3. /\ Cached(read.rows, Watched(ss)) \in SUBSET RowRecord
        /\ \A r \in Cached(read.rows, Watched(ss)) :
             r \in read.rows \/ \E n \in Watched(ss) : r = RowRead(n)
    BY <1>0, <2>2, CachedRows
  <2>4. /\ read' \in ReadRecord /\ read'.phase = "packet"
        /\ read'.rows = Cached(read.rows, Watched(ss)) /\ read.phase = "watched"
    BY <1>0, <1>5, <2>1, <2>3, RequestFacts DEF Phases, LookUpWatched
  <2>5. \A n \in Watched(ss) : RowRead(n).node = n /\ SeenLive(n) /\ SeenAnchor(n)
    BY <1>0, <2>2, RowReadFacts DEF SeenLive, SeenAnchor
  <2>6. \A r \in read'.rows : /\ r.node[2] # AnchorNode => SeenLive(r.node)
                              /\ r.node[2] = AnchorNode => SeenAnchor(r.node)
    BY <1>0, <2>3, <2>4, <2>5 DEF RowsAre
  <2> QED  BY <1>1, <2>4, <2>6 DEF RowsAre, SeenLive, SeenAnchor
<1>6. CASE BuildPacket
  <2>1. /\ read.phase = "packet" /\ read' = Request("served", PacketRows(read.rows))
        /\ PacketRows(read.rows) \subseteq read.rows
    BY <1>6 DEF BuildPacket, PacketRows
  <2>2. /\ read' \in ReadRecord /\ read'.phase = "served"
        /\ read'.rows = PacketRows(read.rows)
    BY <1>0, <2>1, RequestFacts DEF Phases
  <2> QED  BY <1>0, <1>1, <2>1, <2>2 DEF RowsAre, SeenLive, SeenAnchor
<1> QED  BY <1>2, <1>3, <1>4, <1>5, <1>6, <1>0 DEF RowsAre

LEMMA ReadInvHolds ==
  ASSUME ReadPathAssumption
  PROVE  ReadPathSpec => []ReadInv
<1>1. ReadPathInit => ReadInv
  <2> SUFFICES ASSUME ReadPathInit PROVE ReadInv
    OBVIOUS
  <2>1. Never \in Nat /\ Never \in 0..Never
    BY DEF Never, ReadPathAssumption
  <2>2. StoreInv
    BY <2>1 DEF ReadPathInit, StoreInv, ValueRow, EdgeRow, Held
  <2>3. LiveNow = {}
    <3>1. \A k \in ScopedValues : k = <<k[1], k[2]>>
      BY DEF ScopedValues
    <3>2. \A k \in ScopedValues : ~holds[k].open
      BY DEF ReadPathInit
    <3> QED  BY <3>1, <3>2 DEF LiveNow, Live
  <2> QED  BY <2>2, <2>3 DEF ReadPathInit, ReadInv, RequestInv, ReadRecord, Phases, RowsAre
<1>2. ReadInv /\ [ReadPathNext]_readVars => ReadInv'
  <2> SUFFICES ASSUME ReadInv, [ReadPathNext]_readVars
               PROVE  ReadInv'
    OBVIOUS
  <2>0. StoreInv /\ RequestInv
    BY DEF ReadInv
  <2>1. ASSUME read' = read, wasLive \subseteq wasLive', orphaned \subseteq orphaned',
               LiveNow' \subseteq wasLive'
        PROVE  RequestInv'
    BY <2>0, <2>1 DEF RequestInv, RowsAre, FoundRow, SeenLive, SeenAnchor
  <2>2. ASSUME NEW s \in AllScopes, NEW v \in AnchorValues, NEW end \in {1, Never},
               ClaimValue(s, v, end)
        PROVE  ReadInv'
    <3>1. /\ read' = read /\ orphaned' = orphaned
          /\ wasLive \subseteq wasLive' /\ LiveNow' \subseteq wasLive'
      BY <2>2 DEF ClaimValue, Write
    <3> QED  BY <2>0, <2>1, <2>2, <3>1, ClaimKeepsStore DEF ReadInv
  <2>3. CASE \/ \E k \in ScopedValues : RetractValue(k)
             \/ \E s \in AllScopes : RetractAnchor(s)
             \/ SweepDue
    <3>1. /\ StoreInv' /\ LiveNow' \subseteq LiveNow /\ orphaned \subseteq orphaned'
          /\ UNCHANGED <<hour, read, wasLive>>
      BY <2>0, <2>3, CloseKeepsStore
    <3> QED  BY <2>0, <2>1, <3>1 DEF ReadInv, RequestInv
  <2>4. CASE HourPasses
    <3>1. /\ hour' = hour + 1 /\ hour \in Nat
          /\ UNCHANGED <<anchorOf, valueOf, holds, read, wasLive, orphaned>>
      BY <2>0, <2>4 DEF HourPasses, StoreInv
    <3>2. StoreInv'
      BY <2>0, <3>1 DEF StoreInv, Held
    <3>3. LiveNow' \subseteq LiveNow
      <4>1. ASSUME NEW k \in ScopedValues, Live(k[1], k[2])'
            PROVE  Live(k[1], k[2])
        <5>1. k = <<k[1], k[2]>> /\ holds[k].expires \in Nat
          BY <2>0 DEF StoreInv, EdgeRow, ScopedValues, Never, ReadPathAssumption
        <5> QED  BY <3>1, <4>1, <5>1 DEF Live, Unexpired
      <4> QED  BY <4>1 DEF LiveNow
    <3> QED  BY <2>0, <2>1, <3>1, <3>2, <3>3 DEF ReadInv, RequestInv
  <2>5. ASSUME NEW tool \in {"answer", "search"}, NEW grant \in BOOLEAN, BeginRead(tool, grant)
        PROVE  ReadInv'
    <3>1. /\ read' = [tool |-> tool, mayRead |-> grant, phase |-> "vector", rows |-> {}]
          /\ wasLive' = LiveNow
          /\ UNCHANGED <<anchorOf, valueOf, holds, hour, orphaned>>
      BY <2>5 DEF BeginRead
    <3>2. StoreInv' /\ LiveNow' = LiveNow
      BY <2>0, <3>1 DEF StoreInv, Held, LiveNow, Live, Unexpired
    <3>3. read' \in ReadRecord /\ read'.rows = {}
      BY <3>1 DEF ReadRecord, Phases
    <3> QED  BY <3>1, <3>2, <3>3 DEF ReadInv, RequestInv, RowsAre
  <2>6. CASE VectorLeg \/ LexicalLeg \/ ExpandValues \/ LookUpWatched \/ BuildPacket
    <3>1. UNCHANGED <<anchorOf, valueOf, holds, hour, orphaned, wasLive>>
      BY <2>6 DEF VectorLeg, LexicalLeg, ExpandValues, LookUpWatched, BuildPacket, ReadStep
    <3>2. StoreInv' /\ LiveNow' = LiveNow
      BY <2>0, <3>1 DEF StoreInv, Held, LiveNow, Live, Unexpired
    <3>3. read' \in ReadRecord /\ read'.phase \notin {"none", "vector"} /\ RowsAre'
      BY <2>6, ReadKeepsRows
    <3> QED  BY <2>0, <3>1, <3>2, <3>3 DEF ReadInv, RequestInv
  <2>7. CASE UNCHANGED readVars
    BY <2>0, <2>7 DEF readVars, ReadInv, StoreInv, Held, RequestInv, RowsAre, FoundRow, SeenLive,
                      SeenAnchor, LiveNow, Live, Unexpired
  <2> QED  BY <2>2, <2>3, <2>4, <2>5, <2>6, <2>7 DEF ReadPathNext
<1> QED  BY <1>1, <1>2, PTL DEF ReadPathSpec

\* resolve, build_packet: a value a request serves was live at some instant of the
\* request, and an anchor it serves had a live value, unless a person had retracted
\* the anchor.
THEOREM ServedWasLiveHolds ==
  ASSUME ReadPathAssumption
  PROVE  ReadPathSpec => []ServedWasLive
<1>1. ReadInv => ServedWasLive
  BY DEF ReadInv, RequestInv, RowsAre, ServedWasLive, SeenLive, SeenAnchor
<1> QED  BY ReadInvHolds, <1>1, PTL DEF ReadPathSpec

-----------------------------------------------------------------------------
(* TuneFacts: a fact is counted from runs of the main loop, and runs only    *)
(* become more, so what a proposal rests on was never more than there is.    *)

MainRuns == {at \in RunsAt(Instants) : RunAt(at).role = "main"}

\* A fact counted from at most k runs, above its floor.
Powered(f, k) ==
  /\ f.n \in Nat /\ f.of \in Nat /\ f.n <= f.of /\ f.of <= k
  /\ IF f.key[1] = "failure" THEN f.n >= MinRegression ELSE f.of >= MinRuns

EvidenceInv ==
  /\ DOMAIN reported = Instants
  /\ \A f \in facts \cup reading.found : Powered(f, Cardinality(MainRuns))
  /\ \A p \in proposals : \A f \in p.p.evidence : Powered(f, Cardinality(MainRuns))

LEMMA CountsGrow ==
  ASSUME TuneFactsAssumption
  PROVE  \A A, B : A \subseteq B /\ B \subseteq Instants =>
           Cardinality(A) \in Nat /\ Cardinality(B) \in Nat /\ Cardinality(A) <= Cardinality(B)
<1> SUFFICES ASSUME NEW A, NEW B, A \subseteq B, B \subseteq Instants
             PROVE  Cardinality(A) \in Nat /\ Cardinality(B) \in Nat /\ Cardinality(A) <= Cardinality(B)
  OBVIOUS
<1>1. IsFiniteSet(Instants)
  BY FS_Interval DEF Instants, TuneFactsAssumption
<1>2. IsFiniteSet(B)
  BY <1>1, FS_Subset
<1> QED  BY <1>2, FS_Subset, FS_CardinalityType

\* Of two rates and a third between them.
LEMMA RatesCompose ==
  ASSUME NEW a \in Nat, NEW b \in Nat, NEW c \in Nat,
         NEW x \in Nat \ {0}, NEW y \in Nat \ {0}, NEW z \in Nat \ {0},
         c * y >= b * z, b * x >= a * y
  PROVE  /\ c * x >= a * z
         /\ c * y > b * z \/ b * x > a * y => c * x > a * z
<1>1. \A p, q \in Nat : \A r \in Nat \ {0} : (p >= q => p * r >= q * r) /\ (p > q => p * r > q * r)
  OBVIOUS
<1>2. c * y \in Nat /\ b * z \in Nat /\ b * x \in Nat /\ a * y \in Nat /\ c * x \in Nat /\ a * z \in Nat
  OBVIOUS
<1>3. (c * y) * x >= (b * z) * x /\ (c * y > b * z => (c * y) * x > (b * z) * x)
  BY <1>1, <1>2
<1>4. (b * x) * z >= (a * y) * z /\ (b * x > a * y => (b * x) * z > (a * y) * z)
  BY <1>1, <1>2
<1>5. (b * z) * x = (b * x) * z /\ (c * y) * x = (c * x) * y /\ (a * y) * z = (a * z) * y
  OBVIOUS
<1> DEFINE l == (c * x) * y
           m == (b * x) * z
           r == (a * z) * y
<1>6. l \in Nat /\ m \in Nat /\ r \in Nat
  BY <1>2
<1>7. l >= m /\ m >= r /\ (c * y > b * z \/ b * x > a * y => l > r)
  BY <1>3, <1>4, <1>5, <1>6
<1>8. (a * z > c * x => r > l) /\ (a * z >= c * x => r >= l)
  BY <1>1, <1>2
<1> HIDE DEF l, m, r
<1> QED  BY <1>2, <1>6, <1>7, <1>8

\* Of finitely many tiers one has the best rate, the dearest of those that have it.
Beats(n, of, b, t) ==
  n[b] * of[t] > n[t] * of[b] \/ (n[b] * of[t] = n[t] * of[b] /\ b >= t)

LEMMA BestExists ==
  ASSUME NEW D \in SUBSET Nat, D # {}, IsFiniteSet(D), NEW n \in [D -> Nat], NEW of \in [D -> Nat \ {0}]
  PROVE  \E b \in D : \A t \in D : Beats(n, of, b, t)
<1> DEFINE N == Cardinality(D)
<1>1. N \in Nat /\ \E f : f \in Bijection(1..N, D)
  BY FS_CardinalityType DEF ExistsBijection
<1> HIDE DEF N
<1>2. PICK f : f \in [1..N -> D] /\ \A t \in D : \E i \in 1..N : f[i] = t
  BY <1>1 DEF Bijection, Surjection, Injection
<1>3. ASSUME NEW s \in D, NEW t \in D
      PROVE  Beats(n, of, s, t) \/ Beats(n, of, t, s)
  <2>1. n[s] * of[t] \in Nat /\ n[t] * of[s] \in Nat /\ s \in Nat /\ t \in Nat
    OBVIOUS
  <2> QED  BY <2>1 DEF Beats
<1>4. ASSUME NEW s \in D, NEW t \in D, NEW u \in D, Beats(n, of, s, t), Beats(n, of, t, u)
      PROVE  Beats(n, of, s, u)
  <2>1. /\ n[s] \in Nat /\ n[t] \in Nat /\ n[u] \in Nat
        /\ of[s] \in Nat \ {0} /\ of[t] \in Nat \ {0} /\ of[u] \in Nat \ {0}
        /\ s \in Nat /\ t \in Nat /\ u \in Nat
    OBVIOUS
  <2>2. n[s] * of[t] >= n[t] * of[s] /\ n[t] * of[u] >= n[u] * of[t]
    BY <1>4, <2>1 DEF Beats
  <2>3. /\ n[s] * of[u] >= n[u] * of[s]
        /\ n[s] * of[t] > n[t] * of[s] \/ n[t] * of[u] > n[u] * of[t] => n[s] * of[u] > n[u] * of[s]
    BY <2>1, <2>2, RatesCompose
  <2>4. s >= u \/ n[s] * of[t] > n[t] * of[s] \/ n[t] * of[u] > n[u] * of[t]
    BY <1>4, <2>1 DEF Beats
  <2>5. n[s] * of[u] \in Nat /\ n[u] * of[s] \in Nat
    BY <2>1
  <2> QED  BY <2>3, <2>4, <2>5 DEF Beats
<1> DEFINE Some == {k \in Nat : k <= N => k = 0 \/ \E b \in D : \A i \in 1..k : Beats(n, of, b, f[i])}
<1>5. 0 \in Some
  OBVIOUS
<1>6. ASSUME NEW k \in Nat, k \in Some
      PROVE  k + 1 \in Some
  <2> SUFFICES ASSUME k + 1 <= N
               PROVE  \E b \in D : \A i \in 1..(k + 1) : Beats(n, of, b, f[i])
    OBVIOUS
  <2> DEFINE s == f[k + 1]
  <2>1. s \in D /\ \A i \in 1..(k + 1) : i \in 1..N /\ f[i] \in D /\ (i = k + 1 \/ i \in 1..k)
    <3>1. 1..N # {} /\ \A i \in 1..(k + 1) : i \in 1..N /\ (i = k + 1 \/ i \in 1..k)
      BY <1>1
    <3>2. k + 1 \in 1..(k + 1)
      OBVIOUS
    <3> QED  BY <1>2, <3>1, <3>2
  <2>2. Beats(n, of, s, s)
    BY <1>3, <2>1
  <2>3. CASE k = 0
    <3>1. \A i \in 1..(k + 1) : i = k + 1
      BY <2>3
    <3> QED  BY <2>1, <2>2, <3>1
  <2>4. CASE k # 0
    <3>1. PICK b \in D : \A i \in 1..k : Beats(n, of, b, f[i])
      <4>1. k <= N
        BY <1>1
      <4> QED  BY <1>6, <2>4, <4>1
    <3>2. CASE Beats(n, of, b, s)
      BY <2>1, <3>1, <3>2
    <3>3. CASE Beats(n, of, s, b)
      <4>1. ASSUME NEW i \in 1..k
            PROVE  Beats(n, of, s, f[i])
        <5>1. i \in 1..(k + 1)
          OBVIOUS
        <5> HIDE DEF s
        <5> QED  BY <1>4, <2>1, <3>1, <3>3, <5>1
      <4> QED  BY <2>1, <2>2, <4>1
    <3> QED  BY <1>3, <2>1, <3>2, <3>3
  <2> QED  BY <2>3, <2>4
<1> HIDE DEF Some
<1>7. N \in Some
  BY <1>1, <1>5, <1>6, SetInduction
<1>8. N # 0
  <2>1. N = 0 => 1..N = {}
    OBVIOUS
  <2> QED  BY <1>2, <2>1
<1>9. PICK b \in D : \A i \in 1..N : Beats(n, of, b, f[i])
  BY <1>1, <1>7, <1>8 DEF Some
<1> QED  BY <1>2, <1>9


\* What one rule of the distiller makes of a set of runs.
LEMMA FloorFacts ==
  ASSUME TuneFactsAssumption, NEW counted \in SUBSET Instants, NEW hits \in SUBSET counted, NEW key,
         NEW f \in AboveFloor(key, hits, counted)
  PROVE  /\ f.key = key /\ f.n \in Nat /\ f.of \in Nat /\ f.n <= f.of
         /\ f.of = Cardinality(counted) /\ f.of >= MinRuns
<1>1. f = Fact(key, hits, counted) /\ Cardinality(counted) >= MinRuns
  BY DEF AboveFloor
<1>2. f.key = key /\ f.n = Cardinality(hits) /\ f.of = Cardinality(counted)
  BY <1>1 DEF Fact
<1>3. Cardinality(hits) \in Nat /\ Cardinality(counted) \in Nat /\ Cardinality(hits) <= Cardinality(counted)
  BY CountsGrow
<1> QED  BY <1>1, <1>2, <1>3

\* What a window of runs of the main loop gives.
LEMMA DistilledFacts ==
  \A window : TuneFactsAssumption /\ window \subseteq Instants =>
    \A f \in Distilled(window) :
      /\ Powered(f, Cardinality(Counted(window)))
      /\ Counted(window) \subseteq MainRuns
<1> SUFFICES ASSUME TuneFactsAssumption, NEW window \in SUBSET Instants, NEW f \in Distilled(window)
             PROVE  /\ Powered(f, Cardinality(Counted(window)))
                    /\ Counted(window) \subseteq MainRuns
  OBVIOUS
<1> DEFINE counted == Counted(window)
           k == Cardinality(counted)
<1>1. counted \subseteq MainRuns /\ counted \subseteq Instants
  BY DEF Counted, RunsAt, MainRuns
<1>2. ASSUME NEW on, NEW hits, NEW key, on \subseteq counted, hits \subseteq on, key[1] # "failure",
             f \in AboveFloor(key, hits, on)
      PROVE  Powered(f, k)
  <2>1. on \in SUBSET Instants /\ hits \in SUBSET on
    BY <1>1, <1>2
  <2>2. /\ f.key = key /\ f.n \in Nat /\ f.of \in Nat /\ f.n <= f.of
        /\ f.of = Cardinality(on) /\ f.of >= MinRuns
    BY <1>2, <2>1, FloorFacts
  <2>3. Cardinality(on) <= k
    BY <1>1, <1>2, CountsGrow
  <2> QED  BY <1>2, <2>2, <2>3 DEF Powered
<1> HIDE DEF k
<1>3. ASSUME f \in AboveFloor(<<"stall">>, {at \in counted : RunAt(at).failure = "step_budget_stall"}, counted)
      PROVE  Powered(f, k)
  <2> DEFINE hits == {at \in counted : RunAt(at).failure = "step_budget_stall"}
             key == <<"stall">>
  <2>1. hits \subseteq counted /\ key[1] # "failure"
    OBVIOUS
  <2> HIDE DEF hits, key, counted
  <2> QED  BY <1>2, <1>3, <2>1 DEF hits, key
<1>4. ASSUME f \in AboveFloor(<<"fired">>, {at \in counted : RunAt(at).fired}, counted)
      PROVE  Powered(f, k)
  <2> DEFINE hits == {at \in counted : RunAt(at).fired}
             key == <<"fired">>
  <2>1. hits \subseteq counted /\ key[1] # "failure"
    OBVIOUS
  <2> HIDE DEF hits, key, counted
  <2> QED  BY <1>2, <1>4, <2>1 DEF hits, key
<1>5. ASSUME f \in Waste(counted)
      PROVE  Powered(f, k)
  <2> DEFINE ran == {at \in counted : RunAt(at).observe # "off"}
             key == <<"waste">>
  <2>1. f \in AboveFloor(key, {}, ran)
    BY <1>5 DEF Waste
  <2>2. ran \subseteq counted /\ key[1] # "failure" /\ {} \subseteq ran
    OBVIOUS
  <2> HIDE DEF ran, key, counted
  <2> QED  BY <1>2, <2>1, <2>2
<1>6. ASSUME f \in Routes(counted)
      PROVE  Powered(f, k)
  <2> DEFINE Tier(t) == {at \in counted : RunAt(at).tier = t}
             On(t, m) == {at \in Tier(t) : RunAt(at).model = m}
             Done(on) == {at \in on : RunAt(at).success}
             Models(t) == {RunAt(at).model : at \in Tier(t)}
  <2>1. PICK t \in RunTiers :
          f \in AboveFloor(<<"route", t>>, Done(Tier(t)), Tier(t))
                \cup (IF Cardinality(Models(t)) < 2 THEN {}
                      ELSE UNION {AboveFloor(<<"route", t, m>>, Done(On(t, m)), On(t, m)) : m \in Models(t)})
    BY <1>6 DEF Routes
  <2>2. /\ Tier(t) \subseteq counted /\ Done(Tier(t)) \subseteq Tier(t)
        /\ \A m : On(t, m) \subseteq counted /\ Done(On(t, m)) \subseteq On(t, m)
    OBVIOUS
  <2> HIDE DEF Tier, On, Done, Models, counted
  <2>3. ASSUME f \in AboveFloor(<<"route", t>>, Done(Tier(t)), Tier(t))
        PROVE  Powered(f, k)
    <3> DEFINE key == <<"route", t>>
    <3>1. key[1] # "failure"
      OBVIOUS
    <3> HIDE DEF key
    <3> QED  BY <1>2, <2>2, <2>3, <3>1 DEF key
  <2>4. ASSUME NEW m \in Models(t), f \in AboveFloor(<<"route", t, m>>, Done(On(t, m)), On(t, m))
        PROVE  Powered(f, k)
    <3> DEFINE key == <<"route", t, m>>
    <3>1. key[1] # "failure"
      OBVIOUS
    <3> HIDE DEF key
    <3> QED  BY <1>2, <2>2, <2>4, <3>1 DEF key
  <2> QED  BY <2>1, <2>3, <2>4
<1>7. ASSUME f \in Failures(counted)
      PROVE  Powered(f, k)
  <2> DEFINE OfVersion(v) == {a \in counted : RunAt(a).version = v}
             Same(v, c) == {a \in OfVersion(v) : RunAt(a).failure = c}
  <2>1. \E v, c : f = Fact(<<"failure", v, c>>, Same(v, c), OfVersion(v)) /\ f.n >= MinRegression
    BY <1>7 DEF Failures
  <2>2. PICK v, c : f = Fact(<<"failure", v, c>>, Same(v, c), OfVersion(v)) /\ f.n >= MinRegression
    BY <2>1
  <2>3. Same(v, c) \subseteq OfVersion(v) /\ OfVersion(v) \subseteq counted
    OBVIOUS
  <2> HIDE DEF OfVersion, Same, counted
  <2>4. f.key = <<"failure", v, c>> /\ f.n = Cardinality(Same(v, c)) /\ f.of = Cardinality(OfVersion(v))
    BY <2>2 DEF Fact
  <2>5. f.key[1] = "failure"
    BY <2>4
  <2>6. /\ Cardinality(Same(v, c)) \in Nat /\ Cardinality(OfVersion(v)) \in Nat
        /\ Cardinality(Same(v, c)) <= Cardinality(OfVersion(v)) /\ Cardinality(OfVersion(v)) <= k
    <3>1. Same(v, c) \subseteq Instants /\ OfVersion(v) \subseteq Instants
      BY <1>1, <2>3
    <3> QED  BY <1>1, <2>3, <3>1, CountsGrow DEF k
  <2> QED  BY <2>2, <2>4, <2>5, <2>6 DEF Powered
<1>8. f \in AboveFloor(<<"stall">>, {at \in counted : RunAt(at).failure = "step_budget_stall"}, counted)
      \/ f \in AboveFloor(<<"fired">>, {at \in counted : RunAt(at).fired}, counted)
      \/ f \in Waste(counted) \/ f \in Routes(counted) \/ f \in Failures(counted)
  BY DEF Distilled
<1> QED  BY <1>1, <1>3, <1>4, <1>5, <1>6, <1>7, <1>8 DEF k

\* The windows a distillation may read.
LEMMA WindowsAreOfInstants ==
  ASSUME TuneFactsAssumption, NEW window \in {SinceLastTurn} \cup {since..LastReport : since \in Instants}
  PROVE  window \subseteq Instants
<1>1. SinceLastTurn \subseteq Instants
  BY DEF SinceLastTurn
<1>2. \A since \in Instants : since..LastReport \subseteq Instants
  BY DEF Instants, TuneFactsAssumption
<1> QED  BY <1>1, <1>2

\* More runs, more power.
LEMMA PowerStays ==
  \A f, j, k : Powered(f, j) /\ j \in Nat /\ k \in Nat /\ j <= k => Powered(f, k)
BY DEF Powered

\* A route proposed is from one of the facts chosen to another.
LEMMA RoutedEvidence ==
  ASSUME NEW chosen, DOMAIN chosen \subseteq Nat, IsFiniteSet(DOMAIN chosen),
         \A t \in DOMAIN chosen : chosen[t].n \in Nat /\ chosen[t].of \in Nat \ {0},
         NEW p \in Routed(chosen)
  PROVE  \A f \in p.evidence : \E t \in DOMAIN chosen : f = chosen[t]
<1> DEFINE D == DOMAIN chosen
           n == [t \in D |-> chosen[t].n]
           of == [t \in D |-> chosen[t].of]
           Best(b) == \A t \in D : LET mine == chosen[b].n * chosen[t].of
                                       theirs == chosen[t].n * chosen[b].of
                                   IN mine > theirs \/ (mine = theirs /\ b >= t)
           best == CHOOSE b \in D : Best(b)
           close == {t \in D : t < best /\
                       (chosen[best].n * chosen[t].of - chosen[t].n * chosen[best].of) * 100
                         <= 5 * chosen[t].of * chosen[best].of}
<1>1. close # {} /\ p = Proposal("route", "model.main", Min(close), {chosen[Min(close)], chosen[best]})
  BY DEF Routed
<1>2. p.evidence = {chosen[Min(close)], chosen[best]}
  BY <1>1 DEF Proposal
<1>3. D # {} /\ close \subseteq D
  BY <1>1
<1>4. best \in D
  <2>1. n \in [D -> Nat] /\ of \in [D -> Nat \ {0}]
    OBVIOUS
  <2>2. \A b, t \in D : n[b] = chosen[b].n /\ n[t] = chosen[t].n /\ of[b] = chosen[b].of /\ of[t] = chosen[t].of
    OBVIOUS
  <2> HIDE DEF n, of, D
  <2>3. \E b \in D : \A t \in D : Beats(n, of, b, t)
    BY <1>3, <2>1, BestExists DEF D
  <2>4. \E b \in D : Best(b)
    BY <2>2, <2>3 DEF Beats
  <2> HIDE DEF Best
  <2> QED  BY <2>4
<1> HIDE DEF best, close
<1>5. Min(close) \in close
  <2>1. \E x \in close : \A y \in close : x <= y
    <3>1. close \in SUBSET Nat
      BY <1>3
    <3> QED  BY <1>1, <3>1, LeastNatural
  <2> QED  BY <2>1 DEF Min
<1> QED  BY <1>2, <1>3, <1>4, <1>5


\* A report takes an instant that had none: the runs there are only become more.
LEMMA ReportKeepsEvidence ==
  ASSUME TuneFactsAssumption, EvidenceInv, NEW at \in Instants, NEW event, Report(at, event)
  PROVE  EvidenceInv'
<1>1. /\ reported[at] = Nothing /\ reported' = [reported EXCEPT ![at] = event]
      /\ UNCHANGED <<facts, reading, proposals>> /\ DOMAIN reported = Instants
  BY DEF Report, EvidenceInv
<1>2. at \notin MainRuns
  BY <1>1 DEF MainRuns, RunsAt, Nothing
<1>3. \A i \in Instants : i # at => reported'[i] = reported[i]
  BY <1>1
<1>4. MainRuns \subseteq MainRuns' /\ MainRuns' \subseteq Instants
  BY <1>2, <1>3 DEF MainRuns, RunsAt, RunAt
<1>5. /\ Cardinality(MainRuns) \in Nat /\ Cardinality(MainRuns') \in Nat
      /\ Cardinality(MainRuns) <= Cardinality(MainRuns')
  BY <1>4, CountsGrow
<1>6. \A f : Powered(f, Cardinality(MainRuns)) => Powered(f, Cardinality(MainRuns'))
  BY <1>5, PowerStays
<1>7. DOMAIN reported' = Instants
  BY <1>1
<1> QED  BY <1>1, <1>6, <1>7 DEF EvidenceInv

\* The facts a window gives are counted from runs there are.
LEMMA ReadingKeepsEvidence ==
  ASSUME TuneFactsAssumption, EvidenceInv, DistillReads
  PROVE  EvidenceInv'
<1>1. PICK window \in {SinceLastTurn} \cup {since..LastReport : since \in Instants} :
        reading' = [busy |-> TRUE, window |-> Counted(window), found |-> Distilled(window)]
  BY DEF DistillReads
<1>2. UNCHANGED <<reported, facts, proposals>> /\ MainRuns' = MainRuns
  BY DEF DistillReads, MainRuns, RunsAt, RunAt
<1>3. ASSUME NEW f \in Distilled(window)
      PROVE  Powered(f, Cardinality(MainRuns))
  <2>1. window \subseteq Instants
    BY WindowsAreOfInstants
  <2>2. Powered(f, Cardinality(Counted(window))) /\ Counted(window) \subseteq MainRuns
    BY <2>1, DistilledFacts
  <2>3. MainRuns \subseteq Instants
    BY DEF MainRuns, RunsAt
  <2>4. /\ Cardinality(Counted(window)) \in Nat /\ Cardinality(MainRuns) \in Nat
        /\ Cardinality(Counted(window)) <= Cardinality(MainRuns)
    BY <2>2, <2>3, CountsGrow
  <2> QED  BY <2>2, <2>4, PowerStays
<1>4. reading'.found = Distilled(window)
  BY <1>1
<1> QED  BY <1>2, <1>3, <1>4 DEF EvidenceInv

\* A rule's proposal rests on the fact that met it.
LEMMA RuledEvidence ==
  \A g, q : q \in ByRule(g) => q.evidence = {g}
<1> SUFFICES ASSUME NEW g, NEW q, q \in ByRule(g)
             PROVE  q.evidence = {g}
  OBVIOUS
<1>1. \A kind, knob, to : Proposal(kind, knob, to, {g}).evidence = {g}
  BY DEF Proposal
<1>2. \E kind, knob, to : q = Proposal(kind, knob, to, {g})
  <2> DEFINE one == g.key[1] = "stall" /\ AtLeast(g, 20)
             two == g.key[1] = "waste" /\ g.n = 0
             three == g.key[1] = "fired" /\ (AtLeast(g, 50) \/ g.n * 100 <= 5 * g.of)
             four == g.key[1] = "failure" /\ AtLeast(g, 10)
  <2>1. (one => ~two /\ ~three /\ ~four) /\ (two => ~three /\ ~four) /\ (three => ~four)
    OBVIOUS
  <2>2. ByRule(g) =
          CASE one -> {Proposal("budget", "budgets.maxTurns", 0, {g})}
            [] two -> {Proposal("waste", "", 0, {g})}
            [] three -> {Proposal("verification", "verification.selfCheck.minEdits", 0, {g})}
            [] four -> {Proposal("regression", "version", 0, {g})}
            [] OTHER -> {}
    BY DEF ByRule
  <2> HIDE DEF one, two, three, four
  <2>3. \/ q \in {Proposal("budget", "budgets.maxTurns", 0, {g})}
        \/ q \in {Proposal("waste", "", 0, {g})}
        \/ q \in {Proposal("verification", "verification.selfCheck.minEdits", 0, {g})}
        \/ q \in {Proposal("regression", "version", 0, {g})}
    <3>1. CASE one    BY <2>1, <2>2, <3>1
    <3>2. CASE two    BY <2>1, <2>2, <3>2
    <3>3. CASE three  BY <2>1, <2>2, <3>3
    <3>4. CASE four   BY <2>1, <2>2, <3>4
    <3>5. CASE ~one /\ ~two /\ ~three /\ ~four
      BY <2>2, <3>5
    <3> QED  BY <3>1, <3>2, <3>3, <3>4, <3>5
  <2> QED  BY <2>3
<1> QED  BY <1>1, <1>2

\* Every proposal rests on facts that are current.
LEMMA ProposeKeepsEvidence ==
  ASSUME TuneFactsAssumption, EvidenceInv, Propose
  PROVE  EvidenceInv'
<1> DEFINE known == {t \in RunTiers : TierFacts(t) # {}}
<1>1. PICK chosen \in [known -> facts] :
        /\ \A t \in known : chosen[t] \in TierFacts(t)
        /\ LET made == (UNION {ByRule(f) : f \in facts})
                       \cup (IF Cardinality(known) < 2 THEN {} ELSE Routed(chosen))
           IN proposals' = {[p |-> p, applies |-> Applicability(p)] : p \in made}
  BY DEF Propose
<1>2. UNCHANGED <<reported, facts, reading>> /\ MainRuns' = MainRuns
  BY DEF Propose, MainRuns, RunsAt, RunAt
<1>3. /\ DOMAIN chosen = known /\ known \subseteq RunTiers /\ known \subseteq Nat /\ IsFiniteSet(known)
      /\ \A t \in known : chosen[t] \in facts /\ chosen[t].key[1] = "route"
  <2>1. known \subseteq RunTiers
    OBVIOUS
  <2>2. known \subseteq Nat /\ IsFiniteSet(known)
    BY <2>1, FS_Subset DEF TuneFactsAssumption
  <2>3. \A t \in known : chosen[t] \in facts /\ chosen[t].key[1] = "route"
    BY <1>1 DEF TierFacts
  <2> HIDE DEF known
  <2> QED  BY <1>1, <2>1, <2>2, <2>3
<1>4. \A t \in known : chosen[t].n \in Nat /\ chosen[t].of \in Nat \ {0}
  <2>1. \A f \in facts : Powered(f, Cardinality(MainRuns))
    BY DEF EvidenceInv
  <2>2. MinRuns \in Nat \ {0}
    BY DEF TuneFactsAssumption
  <2> HIDE DEF known
  <2> QED  BY <1>3, <2>1, <2>2 DEF Powered
<1> HIDE DEF known
<1>5. ASSUME NEW p \in proposals', NEW f \in p.p.evidence
      PROVE  f \in facts
  <2>1. PICK q \in (UNION {ByRule(g) : g \in facts}) \cup (IF Cardinality(known) < 2 THEN {} ELSE Routed(chosen)) :
          p = [p |-> q, applies |-> Applicability(q)]
    BY <1>1
  <2>2. p.p = q /\ f \in q.evidence
    BY <1>5, <2>1
  <2>3. ASSUME NEW g \in facts, q \in ByRule(g)
        PROVE  f \in facts
    BY <2>2, <2>3, RuledEvidence
  <2>4. CASE q \in Routed(chosen)
    <3>1. \A e \in q.evidence : \E t \in DOMAIN chosen : e = chosen[t]
      BY <1>3, <1>4, <2>4, RoutedEvidence
    <3> QED  BY <1>3, <2>2, <3>1
  <2>5. (\E g \in facts : q \in ByRule(g)) \/ q \in Routed(chosen)
    <3>1. q \in (UNION {ByRule(g) : g \in facts}) \/ q \in Routed(chosen)
      <4>1. CASE Cardinality(known) < 2
        <5>1. q \in (UNION {ByRule(g) : g \in facts}) \cup {}
          BY ONLY <2>1, <4>1
        <5> QED  BY ONLY <5>1
      <4>2. CASE ~(Cardinality(known) < 2)
        <5>1. q \in (UNION {ByRule(g) : g \in facts}) \cup Routed(chosen)
          BY ONLY <2>1, <4>2
        <5> QED  BY ONLY <5>1
      <4> QED  BY <4>1, <4>2
    <3> QED  BY <3>1
  <2> QED  BY <2>3, <2>4, <2>5
<1> QED  BY <1>2, <1>5 DEF EvidenceInv

\* tune-due and the distiller look at the same runs: those after the last turn.
LEMMA PowerMakesDue ==
  ASSUME TuneFactsAssumption, NEW f \in Distilled(SinceLastTurn), f.key[1] # "failure"
  PROVE  DueByRuns
<1> DEFINE due == {at \in RunsAt(Instants) : /\ RunAt(at).role = "main"
                                             /\ LastTurn # {} => at > Max(LastTurn)}
           counted == Counted(SinceLastTurn)
<1>1. SinceLastTurn \subseteq Instants
  BY DEF SinceLastTurn
<1>2. Powered(f, Cardinality(counted))
  BY <1>1, DistilledFacts
<1>3. Instants \subseteq Nat /\ LastTurn \subseteq Instants
  BY DEF Instants, LastTurn
<1>4. LastTurn # {} => Max(LastTurn) \in LastTurn
  <2> SUFFICES ASSUME LastTurn # {}
               PROVE  Max(LastTurn) \in LastTurn
    OBVIOUS
  <2>1. \A at \in LastTurn : at <= LastReport
    BY <1>3 DEF Instants, TuneFactsAssumption
  <2>2. \E x \in LastTurn : \A y \in LastTurn : y <= x
    <3>1. \A S : S \in SUBSET Nat /\ S # {} /\ (\A n \in S : n <= LastReport) =>
            \E n \in S : \A m \in S : m <= n
      BY GreatestNatural DEF TuneFactsAssumption
    <3> QED  BY <1>3, <2>1, <3>1
  <2> QED  BY <2>2 DEF Max
<1>5. counted \subseteq due
  <2> SUFFICES ASSUME NEW at \in counted, LastTurn # {}
               PROVE  at > Max(LastTurn)
    BY <1>1 DEF Counted, RunsAt
  <2>1. at \in Instants /\ at >= Max(LastTurn) /\ reported[at].is = "run"
    BY DEF Counted, RunsAt, SinceLastTurn
  <2>2. reported[Max(LastTurn)].is = "turn"
    BY <1>4 DEF LastTurn, Turn
  <2>3. at # Max(LastTurn)
    BY <2>1, <2>2
  <2>4. at \in Nat /\ Max(LastTurn) \in Nat
    BY <1>3, <1>4, <2>1
  <2> DEFINE last == Max(LastTurn)
  <2>5. at >= last /\ at # last /\ last \in Nat
    BY <2>1, <2>3, <2>4
  <2> HIDE DEF last
  <2>6. at > last
    BY <2>4, <2>5
  <2> QED  BY <2>6 DEF last
<1>6. due \subseteq Instants
  BY DEF RunsAt
<1> HIDE DEF due, counted
<1>7. Cardinality(counted) \in Nat /\ Cardinality(due) \in Nat /\ Cardinality(counted) <= Cardinality(due)
  BY <1>5, <1>6, CountsGrow
<1>8. Cardinality(due) >= MinRuns
  BY <1>2, <1>7 DEF Powered, TuneFactsAssumption
<1> QED  BY <1>8 DEF DueByRuns, due

LEMMA EvidenceInvHolds ==
  ASSUME TuneFactsAssumption
  PROVE  TuneFactsSpec => []EvidenceInv
<1>1. TuneFactsInit => EvidenceInv
  BY DEF TuneFactsInit, EvidenceInv, NotReading
<1>2. EvidenceInv /\ [TuneFactsNext]_tuneVars => EvidenceInv'
  <2> SUFFICES ASSUME EvidenceInv, [TuneFactsNext]_tuneVars PROVE EvidenceInv'
    OBVIOUS
  <2>1. ASSUME NEW wipe \in BOOLEAN, DistillWrites(wipe)
        PROVE  EvidenceInv'
    <3>1. /\ reading'.found = {} /\ facts' \subseteq facts \cup reading.found
          /\ UNCHANGED <<reported, proposals>> /\ MainRuns' = MainRuns
      BY <2>1 DEF DistillWrites, NotReading, MainRuns, RunsAt, RunAt
    <3> QED  BY <3>1 DEF EvidenceInv
  <2>2. CASE UNCHANGED tuneVars
    <3>1. MainRuns' = MainRuns
      BY <2>2 DEF tuneVars, MainRuns, RunsAt, RunAt
    <3> QED  BY <2>2, <3>1 DEF tuneVars, EvidenceInv
  <2> QED  BY <2>1, <2>2, ReportKeepsEvidence, ReadingKeepsEvidence, ProposeKeepsEvidence DEF TuneFactsNext
<1> QED  BY <1>1, <1>2, PTL DEF TuneFactsSpec

\* distill_runs, propose and tune_due: whatever the runs reported and in what order they
\* arrive, no change is proposed on fewer runs than its floor, or on more than there were,
\* and a window with the power to compare rates makes a turn due.
THEOREM EvidenceHasPowerHolds ==
  ASSUME TuneFactsAssumption
  PROVE  TuneFactsSpec => []EvidenceHasPower
<1>1. EvidenceInv => EvidenceHasPower
  <2> SUFFICES ASSUME EvidenceInv PROVE EvidenceHasPower
    OBVIOUS
  <2>1. \A p \in proposals : \A f \in p.p.evidence :
          /\ f.of <= Cardinality(MainRuns)
          /\ IF f.key[1] = "failure" THEN f.n >= MinRegression ELSE f.of >= MinRuns
    BY DEF EvidenceInv, Powered
  <2>2. (\E f \in Distilled(SinceLastTurn) : f.key[1] # "failure") => DueByRuns
    BY PowerMakesDue
  <2> QED  BY <2>1, <2>2 DEF EvidenceHasPower, MainRuns
<1> QED  BY EvidenceInvHolds, <1>1, PTL DEF TuneFactsSpec

-----------------------------------------------------------------------------
(* TuneGate: a ladder that did not stop passed every gate on its way, and a  *)
(* decision under way is dated before any that lands on its turn.            *)

VerdictOf(v, b) ==
  /\ v.of \in Artifacts /\ v.disposition = Disposition(v.of, v.outcome, b)

GateInv ==
  /\ artifact \in Artifacts /\ evaluating \subseteq Artifacts /\ steps \in Nat
  /\ verdict = NoVerdict \/ \E b \in BOOLEAN : VerdictOf(verdict, b)
  /\ DOMAIN ruled = Turns /\ DOMAIN deciding = Deciders
  /\ \A o \in Deciders : deciding[o] # NotDeciding =>
       /\ deciding[o].turn \in Turns /\ deciding[o].dated \in Nat /\ deciding[o].dated < steps
       /\ \A d \in ruled[deciding[o].turn] : deciding[o].dated < d.landed

Climbs(names) == [ran : SUBSET names, stopped : BOOLEAN]

\* The suites of one role in turn: one that gates and failed has stopped the ladder, and a
\* ladder that was stopped stays so.
LEMMA RungFacts ==
  ASSUME NEW evals \in Seq(Suites), NEW role, NEW outcome, NEW from \in Climbs(STRING)
  PROVE  LET top == Rung(evals, role, outcome, from) IN
         /\ top \in Climbs(STRING)
         /\ ~top.stopped => /\ ~from.stopped
                            /\ \A i \in 1..Len(evals) : evals[i].role = role /\ Gates(evals[i])
                                                          => outcome[evals[i].name].pass
<1> DEFINE N == Len(evals)
           S == Climbs(STRING)
           Step(x, n) == IF evals[n].role = role THEN Climbed(x, evals[n], outcome) ELSE x
           climb[n \in 0..N] == IF n = 0 THEN from
                                ELSE IF evals[n].role = role THEN Climbed(climb[n - 1], evals[n], outcome)
                                ELSE climb[n - 1]
           F == [k \in (1..N) \X S |-> Step(k[2], k[1])]
<1>1. N \in Nat /\ \A i \in 1..N : evals[i] \in Suites
  OBVIOUS
<1>2. ASSUME NEW x \in S, NEW n \in 1..N
      PROVE  /\ Step(x, n) \in S
             /\ ~Step(x, n).stopped => /\ ~x.stopped
                                       /\ evals[n].role = role /\ Gates(evals[n])
                                            => outcome[evals[n].name].pass
  <2> DEFINE suite == evals[n]
             y == [ran |-> x.ran \cup {suite.name}, stopped |-> Gates(suite) /\ ~outcome[suite.name].pass]
  <2>1. suite.name \in STRING /\ x.ran \subseteq STRING /\ x.stopped \in BOOLEAN
    BY <1>1 DEF Suites, Climbs
  <2>2. y \in S /\ (~y.stopped /\ Gates(suite) => outcome[suite.name].pass)
    BY <2>1 DEF Climbs
  <2>3. Step(x, n) = IF suite.role = role
                     THEN IF x.stopped \/ (~suite.built /\ ~Gates(suite)) THEN x ELSE y
                     ELSE x
    BY DEF Climbed
  <2> HIDE DEF Step, y, suite
  <2> QED  BY <2>2, <2>3 DEF suite
<1>3. F \in [(1..N) \X S -> S]
  BY <1>2
<1>4. \A n \in 1..N : \A x \in S : F[<<n, x>>] = Step(x, n)
  OBVIOUS
<1>5. PICK g \in [0..N -> S] : Walked(g, N, from, F)
  <2> HIDE DEF S, N, F
  <2>1. from \in S
    BY DEF S
  <2> QED  BY <1>1, <1>3, <2>1, WalkExists
<1> HIDE DEF F, Step
<1>6. g = [n \in 0..N |-> IF n = 0 THEN from ELSE Step(g[n - 1], n)]
  <2>1. ASSUME NEW n \in 0..N
        PROVE  g[n] = IF n = 0 THEN from ELSE Step(g[n - 1], n)
    <3>1. CASE n = 0
      BY <3>1, <1>5 DEF Walked
    <3>2. CASE n # 0
      <4>1. n \in 1..N /\ n - 1 \in 0..N /\ g[n - 1] \in S
        BY <1>1, <3>2
      <4> QED  BY <4>1, <3>2, <1>4, <1>5 DEF Walked
    <3> QED  BY <3>1, <3>2
  <2> HIDE DEF S
  <2>2. g = [n \in 0..N |-> g[n]]
    OBVIOUS
  <2> QED  BY <2>1, <2>2
<1>7. climb = [n \in 0..N |-> IF n = 0 THEN from
                               ELSE IF evals[n].role = role THEN Climbed(climb[n - 1], evals[n], outcome)
                               ELSE climb[n - 1]]
  BY <1>6 DEF Step
<1>8. Rung(evals, role, outcome, from) = climb[N]
  BY DEF Rung
<1> HIDE DEF climb
<1>9. ASSUME NEW n \in 1..N
      PROVE  climb[n] = Step(climb[n - 1], n)
  <2>1. n \in 0..N /\ n # 0
    BY <1>1
  <2> QED  BY <1>7, <2>1 DEF Step
<1> DEFINE Good == {n \in Nat : n <= N =>
                      /\ climb[n] \in S
                      /\ ~climb[n].stopped => /\ ~from.stopped
                                              /\ \A i \in 1..n : evals[i].role = role /\ Gates(evals[i])
                                                                   => outcome[evals[i].name].pass}
<1>10. 0 \in Good
  <2>1. climb[0] = from
    BY <1>1, <1>7
  <2> QED  BY <2>1
<1>11. ASSUME NEW n \in Nat, n \in Good
       PROVE  n + 1 \in Good
  <2> SUFFICES ASSUME n + 1 <= N
               PROVE  /\ climb[n + 1] \in S
                      /\ ~climb[n + 1].stopped =>
                           /\ ~from.stopped
                           /\ \A i \in 1..(n + 1) : evals[i].role = role /\ Gates(evals[i])
                                                      => outcome[evals[i].name].pass
    OBVIOUS
  <2>1. n + 1 \in 1..N /\ (n + 1) - 1 = n /\ n <= N
    BY <1>1
  <2>2. climb[n + 1] = Step(climb[n], n + 1) /\ climb[n] \in S
    BY <1>9, <1>11, <2>1
  <2>3. /\ climb[n + 1] \in S
        /\ ~climb[n + 1].stopped => /\ ~climb[n].stopped
                                    /\ evals[n + 1].role = role /\ Gates(evals[n + 1])
                                         => outcome[evals[n + 1].name].pass
    BY <1>2, <2>1, <2>2
  <2>4. ~climb[n].stopped => /\ ~from.stopped
                             /\ \A i \in 1..n : evals[i].role = role /\ Gates(evals[i])
                                                  => outcome[evals[i].name].pass
    BY <1>11, <2>1
  <2>5. \A i \in 1..(n + 1) : i \in 1..n \/ i = n + 1
    OBVIOUS
  <2> HIDE DEF S
  <2> QED  BY <2>3, <2>4, <2>5
<1> HIDE DEF Good
<1>12. N \in Good
  BY <1>1, <1>10, <1>11, SetInduction
<1> QED  BY <1>1, <1>8, <1>12 DEF Good

\* run_ladder: an accepted candidate passed its gates and met its margin.
LEMMA AcceptedIsGreen ==
  ASSUME TuneGateAssumption, NEW hop \in Artifacts, NEW outcome, NEW b \in BOOLEAN,
         Disposition(hop, outcome, b) = "accepted"
  PROVE  /\ \A s \in Range(hop.evals) : Gates(s) => outcome[s.name].pass
         /\ MeetsMargin(hop, outcome[hop.frontier].score)
<1> DEFINE evals == hop.evals
           ground == [ran |-> {}, stopped |-> FALSE]
           probed == Rung(evals, "probe", outcome, ground)
           golden == Rung(evals, "golden", outcome, probed)
           scored == Rung(evals, "frontier", outcome, golden)
           top == Rung(evals, "none", outcome, scored)
<1>1. evals \in Seq(Suites)
  BY DEF TuneGateAssumption
<1>2. Ladder(evals, outcome) = top
  BY DEF Ladder
<1>3. ~top.stopped /\ MeetsMargin(hop, outcome[hop.frontier].score)
  BY <1>2 DEF Disposition
<1>4. ground \in Climbs(STRING)
  BY DEF Climbs
<1> HIDE DEF evals, ground, probed, golden, scored, top
<1>5. probed \in Climbs(STRING)
  BY <1>1, <1>4, RungFacts DEF probed
<1>6. golden \in Climbs(STRING)
  BY <1>1, <1>5, RungFacts DEF golden
<1>7. scored \in Climbs(STRING)
  BY <1>1, <1>6, RungFacts DEF scored
<1> DEFINE Passed(role) == \A i \in 1..Len(evals) : evals[i].role = role /\ Gates(evals[i])
                                                     => outcome[evals[i].name].pass
<1>8. ~scored.stopped /\ Passed("none")
  BY <1>1, <1>3, <1>7, RungFacts DEF top
<1>9. ~golden.stopped /\ Passed("frontier")
  BY <1>1, <1>8, <1>6, RungFacts DEF scored
<1>10. ~probed.stopped /\ Passed("golden")
  BY <1>1, <1>9, <1>5, RungFacts DEF golden
<1>11. Passed("probe")
  BY <1>1, <1>10, <1>4, RungFacts DEF probed
<1>12. ASSUME NEW s \in Range(evals), Gates(s)
       PROVE  outcome[s.name].pass
  <2>1. PICK i \in 1..Len(evals) : s = evals[i]
    BY <1>1 DEF Range
  <2>2. s \in Suites
    BY <1>1, <2>1
  <2>3. s.role \in {"probe", "golden", "frontier", "none"}
    BY <2>2 DEF Suites
  <2> QED  BY <1>8, <1>9, <1>10, <1>11, <1>12, <2>1, <2>3
<1> QED  BY <1>3, <1>12 DEF evals


\* The adoption side leaves the door, and a verdict is of the artifact its eval read.
LEMMA AdoptKeepsGate ==
  ASSUME GateInv, AdoptNext
  PROVE  GateInv' /\ UNCHANGED <<ruled, deciding>>
<1> DEFINE Door == /\ DOMAIN ruled = Turns /\ DOMAIN deciding = Deciders
                   /\ \A o \in Deciders : deciding[o] # NotDeciding =>
                        /\ deciding[o].turn \in Turns /\ deciding[o].dated \in Nat /\ deciding[o].dated < steps
                        /\ \A d \in ruled[deciding[o].turn] : deciding[o].dated < d.landed
           Adopt == /\ artifact \in Artifacts /\ evaluating \subseteq Artifacts
                    /\ verdict = NoVerdict \/ \E b \in BOOLEAN : VerdictOf(verdict, b)
<1>1. UNCHANGED <<ruled, deciding>> /\ (steps' = steps \/ steps' = steps + 1)
  BY DEF AdoptNext, GateStep, EditHop, EvalStarts, Promote, EvalEnds, doorVars
<1>2. Door'
  <2>1. Door /\ steps \in Nat
    BY DEF GateInv
  <2>2. \A n \in Nat : n < steps => n < steps'
    BY <1>1, <2>1
  <2> QED  BY <1>1, <2>1, <2>2
<1>3. Adopt'
  <2>1. Adopt
    BY DEF GateInv
  <2>2. ASSUME NEW outcome \in Outcomes, NEW baseline \in BOOLEAN, EvalEnds(outcome, baseline)
        PROVE  Adopt'
    <3>1. PICK hop \in evaluating :
            verdict' = [disposition |-> Disposition(hop, outcome, baseline), of |-> hop, outcome |-> outcome]
      BY <2>2 DEF EvalEnds
    <3>2. VerdictOf(verdict', baseline)
      BY <2>1, <3>1 DEF VerdictOf
    <3>3. artifact' = artifact /\ evaluating' = {}
      BY <2>2 DEF EvalEnds
    <3> QED  BY <2>1, <3>2, <3>3
  <2>3. CASE Promote
    BY <2>1, <2>3 DEF Promote
  <2>4. CASE \E a \in Artifacts : EditHop(a)
    BY <2>1, <2>4 DEF EditHop
  <2>5. CASE EvalStarts
    BY <2>1, <2>5 DEF EvalStarts
  <2> QED  BY <2>2, <2>3, <2>4, <2>5 DEF AdoptNext, GateStep
<1>4. steps' \in Nat
  BY <1>1 DEF GateInv
<1> QED  BY <1>1, <1>2, <1>3, <1>4 DEF GateInv

\* The door leaves the adoption; a decision lands after the date of every one under way.
LEMMA DoorKeepsGate ==
  ASSUME GateInv, DoorNext
  PROVE  /\ GateInv' /\ promotion' = promotion
         /\ ruled' = ruled \/ \E o \in Deciders : DecideCommits(o)
<1>1. UNCHANGED evalVars /\ (steps' = steps \/ steps' = steps + 1) /\ steps \in Nat
  BY DEF DoorNext, GateStep, DecideReads, WriteProposal, DecideCommits, DecideFails, GateInv
<1> DEFINE Dated(o) == /\ deciding[o].turn \in Turns /\ deciding[o].dated \in Nat /\ deciding[o].dated < steps
                       /\ \A d \in ruled[deciding[o].turn] : deciding[o].dated < d.landed
<1>2. /\ DOMAIN ruled = Turns /\ DOMAIN deciding = Deciders
      /\ \A o \in Deciders : deciding[o] # NotDeciding => Dated(o)
  BY DEF GateInv
<1>3. ASSUME NEW o \in Deciders, NEW t \in Turns, NEW says, GateStep(DecideReads(o, t, says))
      PROVE  GateInv' /\ ruled' = ruled
  <2>1. /\ ruled[t] = {} /\ steps' = steps + 1 /\ ruled' = ruled
        /\ deciding' = [deciding EXCEPT ![o] = [turn |-> t, says |-> says, dated |-> steps]]
    BY <1>3 DEF GateStep, DecideReads, Undecided
  <2>2. Dated(o)'
    BY <1>1, <1>2, <2>1
  <2>3. \A p \in Deciders : p # o => deciding'[p] = deciding[p]
    BY <1>2, <2>1
  <2>4. \A n \in Nat : n < steps => n < steps'
    BY <1>1, <2>1
  <2>5. \A p \in Deciders : p # o /\ deciding'[p] # NotDeciding => Dated(p)'
    BY <1>2, <2>1, <2>3, <2>4
  <2>6. DOMAIN ruled' = Turns /\ DOMAIN deciding' = Deciders /\ steps' \in Nat
    BY <1>1, <1>2, <2>1
  <2> HIDE DEF Dated
  <2>7. \A p \in Deciders : deciding'[p] # NotDeciding => Dated(p)'
    BY <2>2, <2>5
  <2> QED  BY <1>1, <2>1, <2>6, <2>7 DEF GateInv, evalVars, Dated
<1>4. ASSUME NEW o \in Deciders, DecideCommits(o), steps' = steps
      PROVE  GateInv'
  <2> DEFINE d == deciding[o]
             new == [says |-> d.says, dated |-> d.dated, landed |-> steps]
  <2>1. /\ d # NotDeciding /\ ruled' = [ruled EXCEPT ![d.turn] = @ \cup {new}]
        /\ deciding' = [deciding EXCEPT ![o] = NotDeciding]
    BY <1>4 DEF DecideCommits
  <2>2. /\ DOMAIN ruled' = Turns /\ DOMAIN deciding' = Deciders
        /\ \A p \in Deciders : deciding'[p] # NotDeciding => deciding'[p] = deciding[p] /\ Dated(p)
    BY <1>2, <2>1
  <2>3. \A t \in Turns : \A e \in ruled'[t] : e \in ruled[t] \/ e.landed = steps
    BY <1>2, <2>1
  <2>4. \A p \in Deciders : deciding'[p] # NotDeciding => Dated(p)'
    BY <1>4, <2>2, <2>3
  <2> QED  BY <1>1, <1>4, <2>2, <2>4 DEF GateInv, evalVars
<1>5. ASSUME NEW o \in Deciders, DecideFails(o), steps' = steps
      PROVE  GateInv' /\ ruled' = ruled
  BY <1>1, <1>2, <1>5 DEF DecideFails, GateInv, evalVars
<1>6. ASSUME NEW t \in Turns, WriteProposal(t), steps' = steps
      PROVE  GateInv' /\ ruled' = ruled
  BY <1>1, <1>2, <1>6 DEF WriteProposal, GateInv, evalVars
<1>7. promotion' = promotion
  BY <1>1 DEF evalVars
<1> HIDE DEF Dated
<1> QED  BY <1>3, <1>4, <1>5, <1>6, <1>7 DEF DoorNext, GateStep

LEMMA GateInvHolds ==
  ASSUME TuneGateAssumption
  PROVE  TuneGateSpec => []GateInv
<1>1. TuneGateInit => GateInv
  BY DEF TuneGateInit, GateInv
<1>2. GateInv /\ [TuneGateNext]_gateVars => GateInv'
  <2>1. CASE UNCHANGED gateVars
    BY <2>1 DEF gateVars, GateInv
  <2> QED  BY <2>1, AdoptKeepsGate, DoorKeepsGate DEF TuneGateNext
<1> QED  BY <1>1, <1>2, PTL DEF TuneGateSpec

\* decide_promotion, decide_tune_proposal: whatever the artifacts, the evals and the people,
\* what promotes itself reads only and is green, and a decision is changed only by one that
\* was under way when it was taken.
THEOREM AdoptionIsEarnedHolds ==
  ASSUME TuneGateAssumption
  PROVE  TuneGateSpec => AdoptionIsEarned
<1> DEFINE PromotionEarned == promotion' = "auto" /\ promotion # "auto" =>
                       /\ ~ApplyCapable(artifact)
                       /\ verdict.of = artifact => GreenCandidate(artifact, verdict)
           Stands == \A t \in Turns : ~Undecided(t) =>
                       /\ ~Undecided(t)'
                       /\ StatusOfTurn(t)' # StatusOfTurn(t) =>
                            \E o \in Deciders : /\ deciding[o].turn = t /\ deciding'[o] = NotDeciding
                                                /\ \A d \in ruled[t] : deciding[o].dated < d.landed
<1>1. ASSUME GateInv, Promote, promotion' = "auto"
      PROVE  /\ ~ApplyCapable(artifact)
             /\ verdict.of = artifact => GreenCandidate(artifact, verdict)
  <2>1. verdict.disposition = "accepted" /\ GoldenGates(artifact) /\ ~ApplyCapable(artifact)
    BY <1>1 DEF Promote, Promotion
  <2>2. ASSUME verdict.of = artifact
        PROVE  GreenCandidate(artifact, verdict)
    <3>1. verdict # NoVerdict /\ artifact \in Artifacts
      BY <1>1, <2>1 DEF NoVerdict, GateInv
    <3>2. PICK b \in BOOLEAN : Disposition(artifact, verdict.outcome, b) = "accepted"
      BY <1>1, <2>1, <2>2, <3>1 DEF GateInv, VerdictOf
    <3>3. /\ \A s \in Range(artifact.evals) : Gates(s) => verdict.outcome[s.name].pass
          /\ MeetsMargin(artifact, verdict.outcome[artifact.frontier].score)
      <4> HIDE DEF PromotionEarned, Stands
      <4>1. \A hop \in Artifacts : \A outcome : \A c \in BOOLEAN :
              Disposition(hop, outcome, c) = "accepted" =>
                /\ \A s \in Range(hop.evals) : Gates(s) => outcome[s.name].pass
                /\ MeetsMargin(hop, outcome[hop.frontier].score)
        BY AcceptedIsGreen
      <4> QED  BY <3>1, <3>2, <4>1
    <3>4. ASSUME NEW s \in Named(artifact, artifact.golden), s.role = "golden"
          PROVE  verdict.outcome[s.name].pass
      <4>1. PICK g \in Named(artifact, artifact.golden) : g.gates # "no"
        BY <2>1 DEF GoldenGates
      <4>2. g = s /\ s \in Range(artifact.evals)
        BY <3>1, <4>1 DEF Named, TuneGateAssumption
      <4>3. s \in Suites
        <5>1. artifact.evals \in Seq(Suites)
          BY <3>1 DEF TuneGateAssumption
        <5> DEFINE evals == artifact.evals
        <5> HIDE DEF evals
        <5>2. \A i \in 1..Len(evals) : evals[i] \in Suites
          BY <5>1 DEF evals
        <5> QED  BY <4>2, <5>1, <5>2 DEF Range, evals
      <4>4. Gates(s)
        <5>1. s.gates \in {"unsaid", "yes", "no"}
          BY <4>3 DEF Suites
        <5> QED  BY <3>4, <4>1, <4>2, <5>1 DEF Gates
      <4> QED  BY <3>3, <4>2, <4>4
    <3> QED  BY <3>3, <3>4 DEF GreenCandidate
  <2> QED  BY <2>1, <2>2
<1>2. ASSUME GateInv, AdoptNext
      PROVE  PromotionEarned
  <2>1. promotion' = promotion \/ Promote
    BY <1>2 DEF AdoptNext, GateStep, EditHop, EvalStarts, EvalEnds
  <2> QED  BY <1>1, <1>2, <2>1
<1>3. ASSUME NEW t \in Turns, ruled' = ruled
      PROVE  StatusOfTurn(t)' = StatusOfTurn(t) /\ Undecided(t)' = Undecided(t)
  BY <1>3 DEF StatusOfTurn, Undecided
<1>4. ASSUME GateInv, NEW o \in Deciders, DecideCommits(o)
      PROVE  Stands
  <2> DEFINE d == deciding[o]
             new == [says |-> d.says, dated |-> d.dated, landed |-> steps]
  <2>1. /\ d # NotDeciding /\ ruled' = [ruled EXCEPT ![d.turn] = @ \cup {new}]
        /\ deciding' = [deciding EXCEPT ![o] = NotDeciding]
    BY <1>4 DEF DecideCommits
  <2>2. deciding'[o] = NotDeciding /\ \A e \in ruled[d.turn] : d.dated < e.landed
    BY <1>4, <2>1 DEF GateInv
  <2>3. ASSUME NEW t \in Turns, ~Undecided(t)
        PROVE  ~Undecided(t)'
    BY <1>4, <2>1, <2>3 DEF Undecided, GateInv
  <2>4. ASSUME NEW t \in Turns, StatusOfTurn(t)' # StatusOfTurn(t)
        PROVE  t = d.turn
    <3>1. ASSUME t # d.turn
          PROVE  ruled'[t] = ruled[t]
      BY <2>1, <3>1
    <3> DEFINE Last(ds) == (CHOOSE e \in ds : \A f \in ds : f.dated <= e.dated).says
    <3>2. /\ StatusOfTurn(t) = IF ruled[t] = {} THEN "pending" ELSE Last(ruled[t])
          /\ StatusOfTurn(t)' = IF ruled'[t] = {} THEN "pending" ELSE Last(ruled'[t])
      BY DEF StatusOfTurn, Undecided
    <3> HIDE DEF Last
    <3> QED  BY <2>4, <3>1, <3>2
  <2> QED  BY <2>2, <2>3, <2>4
<1>5. ASSUME GateInv, [TuneGateNext]_gateVars
      PROVE  PromotionEarned /\ Stands
  <2>1. CASE UNCHANGED gateVars
    BY <1>3, <2>1 DEF gateVars
  <2>2. CASE AdoptNext
    BY <1>2, <1>3, <1>5, <2>2, AdoptKeepsGate
  <2>3. CASE DoorNext
    BY <1>3, <1>4, <1>5, <2>3, DoorKeepsGate
  <2> QED  BY <1>5, <2>1, <2>2, <2>3 DEF TuneGateNext
<1>6. GateInv /\ [TuneGateNext]_gateVars => [PromotionEarned /\ Stands]_gateVars
  BY <1>5
<1> HIDE DEF PromotionEarned, Stands
<1> QED  BY GateInvHolds, <1>6, PTL DEF TuneGateSpec, AdoptionIsEarned, PromotionEarned, Stands

-----------------------------------------------------------------------------
(* Units: types.                                                            *)

Grants == [readable : SUBSET UnitIds, writable : SUBSET UnitIds, administered : SUBSET UnitIds]

Fills ==
  [phase : {"asked"}, at : 0..LastTick] \cup [phase : {"loaded"}, at : 0..LastTick, tree : Trees]
    \cup {NoFill}

\* What is granted is of units.
LEMMA AccessIsOfUnits ==
  ASSUME UnitsAssumption, NEW t \in Trees, NEW m \in [UnitIds -> Roles]
  PROVE  Access(t, m) \in Grants
<1> DEFINE Level[n \in Nat] == IF n = 0 THEN Own(t, m) ELSE Level[n-1] \cup ParentsOf(t, Level[n-1])
           F == [X \in SUBSET UnitIds |-> X \cup ParentsOf(t, X)]
           N == Cardinality(UnitIds)
<1>1. /\ Own(t, m) \in SUBSET UnitIds /\ AdminOf(t, m) \in SUBSET UnitIds
      /\ \A us : ParentsOf(t, us) \subseteq UnitIds
  BY RowFacts DEF Own, AdminOf
<1>2. \A u \in UnitIds : AncestorsIn(t, u) \subseteq UnitIds
  BY AncestorsAreLeast
<1>3. \A u : DescendantsIn(t, u) \subseteq UnitIds
  BY DescendantsAreLeast
<1>4. F \in [SUBSET UnitIds -> SUBSET UnitIds]
      /\ \A X \in SUBSET UnitIds : F[X] = X \cup ParentsOf(t, X)
  BY <1>1
<1>5. N \in Nat
  BY FS_CardinalityType DEF UnitsAssumption
<1>6. Level[N] \subseteq UnitIds
  <2>1. Level = [n \in Nat |-> IF n = 0 THEN Own(t, m) ELSE Level[n-1] \cup ParentsOf(t, Level[n-1])]
    <3> HIDE DEF F, N
    <3>1. PICK g \in [Nat -> SUBSET UnitIds] : Iterates(g, Own(t, m), F)
      BY <1>1, <1>4, IterationExists
    <3>2. ASSUME NEW n \in Nat
          PROVE  g[n] = IF n = 0 THEN Own(t, m) ELSE g[n-1] \cup ParentsOf(t, g[n-1])
      <4>1. CASE n = 0
        BY <4>1, <3>1 DEF Iterates
      <4>2. CASE n # 0
        <5>1. n - 1 \in Nat /\ (n - 1) + 1 = n
          BY <4>2
        <5>2. g[(n - 1) + 1] = F[g[n - 1]]
          BY <5>1, <3>1 DEF Iterates
        <5> QED  BY <5>1, <5>2, <4>2, <1>4
      <4> QED  BY <4>1, <4>2
    <3>3. g = [n \in Nat |-> IF n = 0 THEN Own(t, m) ELSE g[n-1] \cup ParentsOf(t, g[n-1])]
      BY <3>2
    <3> QED  BY <3>3
  <2> HIDE DEF Level, F, N
  <2>2. \A n \in Nat : Level[n] = IF n = 0 THEN Own(t, m) ELSE Level[n-1] \cup ParentsOf(t, Level[n-1])
    BY <2>1
  <2> DEFINE In == {n \in Nat : Level[n] \subseteq UnitIds}
  <2>3. 0 \in In
    BY <1>1, <2>2
  <2>4. \A n \in Nat : n \in In => n + 1 \in In
    <3>1. \A n \in Nat : n + 1 # 0 /\ n + 1 \in Nat /\ (n + 1) - 1 = n
      OBVIOUS
    <3>2. \A n \in Nat : Level[n + 1] = Level[n] \cup ParentsOf(t, Level[n])
      BY <2>2, <3>1
    <3> QED  BY <1>1, <3>1, <3>2
  <2> HIDE DEF In
  <2>5. Nat \subseteq In
    BY <2>3, <2>4, SetInduction
  <2> QED  BY <1>5, <2>5 DEF In
<1> HIDE DEF F
<1>7. Readable(t, m) \subseteq UnitIds
  <2>1. Readable(t, m) = Level[N] \cup UNION {DescendantsIn(t, u) : u \in {x \in AdminOf(t, m) : t[x].shares}}
    BY DEF Readable
  <2> HIDE DEF Level, N
  <2> QED  BY <1>3, <1>6, <2>1
<1> HIDE DEF Level, N
<1>8. Writable(t, m) \subseteq UnitIds
  BY <1>1, <1>2 DEF Writable
<1>9. Administered(t, m) \subseteq UnitIds
  BY <1>1, <1>3 DEF Administered
<1> QED  BY <1>7, <1>8, <1>9 DEF Access, Grants

UnitsTyped ==
  /\ cache \in [Processes -> [expires : 1..(LastTick + TTL), access : Grants] \cup {NoEntry}]
  /\ fill \in [Processes -> Fills]
  /\ clock \in 0..LastTick /\ changed \in 0..clock /\ edits \in 0..MaxEdits

\* services/units.py: the tree, the requests on it and what is cached stay in their types, for
\* any units, editors and processes.
LEMMA UnitsTypeOKHolds ==
  ASSUME UnitsAssumption
  PROVE  UnitsSpec => []UnitsTypeOK
<1> USE DEF UnitsAssumption
<1>1. UnitsInit => UnitsTyped
  BY DEF UnitsInit, UnitsTyped, Fills
<1>2. RootedInv /\ UnitsTyped /\ [UnitsNext]_unitsVars => UnitsTyped'
  <2> SUFFICES ASSUME RootedInv, UnitsTyped, [UnitsNext]_unitsVars PROVE UnitsTyped'
    OBVIOUS
  <2>1. ASSUME NEW e \in Editors, (\E c \in Change : BeginEdit(e, c)) \/ FlushEdit(e) \/ CommitEdit(e)
        PROVE  UnitsTyped'
    <3>1. /\ fill' = fill /\ clock' = clock /\ changed' \in {changed, clock}
          /\ cache' = cache \/ cache' = [p \in Processes |-> IF p = ProcessOf[e] THEN NoEntry ELSE cache[p]]
          /\ edits' = edits \/ (edits > 0 /\ edits' = edits - 1)
      BY <2>1 DEF BeginEdit, FlushEdit, CommitEdit
    <3> QED  BY <3>1 DEF UnitsTyped
  <2>2. ASSUME NEW p \in Processes, BeginFill(p)
        PROVE  UnitsTyped'
    <3>1. [phase |-> "asked", at |-> clock] \in Fills
      BY DEF Fills, UnitsTyped
    <3> QED  BY <2>2, <3>1 DEF BeginFill, UnitsTyped
  <2>3. ASSUME NEW p \in Processes, LoadTree(p)
        PROVE  UnitsTyped'
    <3>1. fill[p].at \in 0..LastTick
      BY <2>3 DEF LoadTree, UnitsTyped, Fills, NoFill
    <3>2. [phase |-> "loaded", at |-> fill[p].at, tree |-> tree] \in Fills
      BY <3>1 DEF Fills, RootedInv
    <3> QED  BY <2>3, <3>2 DEF LoadTree, UnitsTyped
  <2>4. ASSUME NEW p \in Processes, StoreAccess(p)
        PROVE  UnitsTyped'
    <3>1. fill[p].at \in 0..LastTick /\ fill[p].tree \in Trees
      BY <2>4 DEF StoreAccess, UnitsTyped, Fills, NoFill
    <3> DEFINE r == [expires |-> fill[p].at + TTL, access |-> Access(fill[p].tree, member)]
    <3>2. r.expires \in 1..(LastTick + TTL)
      BY <3>1
    <3>3. Access(fill[p].tree, member) \in Grants
      BY <3>1, AccessIsOfUnits DEF RootedInv
    <3>4. r \in [expires : 1..(LastTick + TTL), access : Grants]
      BY <3>2, <3>3
    <3>5. cache' = cache \/ cache' = [cache EXCEPT ![p] = r]
      BY <2>4 DEF StoreAccess
    <3>6. fill' = [fill EXCEPT ![p] = NoFill] /\ UNCHANGED <<clock, changed, edits>>
      BY <2>4 DEF StoreAccess
    <3> HIDE DEF r
    <3>7. NoFill \in Fills
      BY DEF Fills
    <3> HIDE DEF Fills
    <3> QED  BY <3>4, <3>5, <3>6, <3>7 DEF UnitsTyped
  <2>5. CASE UnitsTick
    BY <2>5 DEF UnitsTick, UnitsTyped
  <2>6. CASE UNCHANGED unitsVars
    BY <2>6 DEF unitsVars, UnitsTyped
  <2> QED  BY <2>1, <2>2, <2>3, <2>4, <2>5, <2>6 DEF UnitsNext
<1>3. RootedInv /\ UnitsTyped => UnitsTypeOK
  <2> SUFFICES ASSUME RootedInv, UnitsTyped PROVE UnitsTypeOK
    OBVIOUS
  <2>1. \A e \in Editors : edit[e] # NoEdit =>
          edit[e].phase \in {"checked", "flushed"} /\ edit[e].change \in Change
    BY DEF RootedInv, EditRow
  <2>2. \A p \in Processes : fill[p].phase \in {"none", "asked", "loaded"}
    BY DEF UnitsTyped, Fills, NoFill
  <2>3. \A p \in Processes : cache[p] # NoEntry =>
          /\ cache[p].expires \in 1..(LastTick + TTL)
          /\ cache[p].access.readable \subseteq UnitIds
          /\ cache[p].access.writable \subseteq UnitIds
    BY DEF UnitsTyped, Grants
  <2>4. tree \in [UnitIds -> Row \cup {NoUnit}] /\ member \in [UnitIds -> Roles] /\ raced \in BOOLEAN
    BY DEF RootedInv, Trees
  <2> QED  BY <2>1, <2>2, <2>3, <2>4 DEF UnitsTyped, UnitsTypeOK
<1> QED  BY <1>1, <1>2, <1>3, RootedInvHolds, PTL DEF UnitsSpec

-----------------------------------------------------------------------------
(* UnitsLift, Trust, Consent: types.                                        *)

\* services/units_lift.py: lifted rows stay rows of the types they had, for any tree and policies.
LEMMA LiftTypeOKHolds ==
  ASSUME LiftAssumption
  PROVE  LiftSpec => []LiftTypeOK
<1> DEFINE Runs == todo \subseteq Units /\ runs \in 0..MaxRuns
<1>1. LiftInit => Runs
  BY DEF LiftInit, LiftAssumption
<1>2. Runs /\ [LiftNext]_liftVars => Runs'
  <2> SUFFICES ASSUME Runs, [LiftNext]_liftVars PROVE Runs'
    OBVIOUS
  <2>1. CASE \/ \E p \in Places, v \in Values : Learn(p, v)
             \/ \E id \in Ids : EndorseLearning(id)
             \/ TrustJoin \/ UNCHANGED liftVars
    BY <2>1 DEF Learn, EndorseLearning, TrustJoin, liftVars
  <2>2. CASE BeginRun
    BY <2>2 DEF BeginRun, LiftAssumption
  <2>3. ASSUME NEW u \in Units, LiftUnit(u) PROVE Runs'
    <3>1. todo' = todo \ {u} /\ runs' = runs
      BY <2>3 DEF LiftUnit
    <3> QED  BY <3>1
  <2> QED  BY <2>1, <2>2, <2>3 DEF LiftNext
<1>3. LiftInv /\ Runs => LiftTypeOK
  <2>1. {"none", "corroborated", "endorsed"} \subseteq Tiers \cup {"none"}
    BY DEF Tiers, TierRank
  <2> QED  BY <2>1 DEF LiftInv, LiftTyped, LiftTypeOK
<1> HIDE DEF Runs
<1> QED  BY <1>1, <1>2, <1>3, LiftInvAlways, PTL DEF LiftSpec

TrustTyped ==
  /\ begun \in 0..MaxSessions /\ observed \in 1..MaxObserved
  /\ row.count >= 1 /\ \A s \in Sessions : work[s] # NoWork => work[s].row.count >= 1
  /\ retired \in BOOLEAN /\ promoted \in BOOLEAN

\* A session begins with a copy that counts no less.
LEMMA BeginKeepsTyped ==
  ASSUME TrustAssumption, TrustInv, TrustTyped, NEW s \in Sessions, NEW kind, NEW copy,
         Begin(s, kind, copy), copy.count >= 1,
         kind \in {"fold", "merge"} => observed < MaxObserved
  PROVE  TrustTyped'
<1> DEFINE w == [kind |-> kind, row |-> copy, columns |-> Changed(kind, copy)]
<1>1. /\ work' = [work EXCEPT ![s] = w] /\ begun < MaxSessions /\ begun' = begun + 1
      /\ observed' = IF kind \in {"fold", "merge"} THEN observed + 1 ELSE observed
      /\ UNCHANGED <<row, retired, promoted>>
  BY DEF Begin
<1>2. w.row = copy
  OBVIOUS
<1> HIDE DEF w
<1>3. \A q \in Sessions : work'[q] # NoWork => work'[q].row.count >= 1
  BY <1>1, <1>2 DEF TrustInv, TrustTyped
<1> QED  BY <1>1, <1>3 DEF TrustTyped, TrustAssumption

\* pipeline/trust.py, api/v1/memory.py: a memory's row keeps its types whichever of the sessions'
\* columns land, and counts no more than was observed.
LEMMA TrustTypeOKHolds ==
  ASSUME TrustAssumption
  PROVE  TrustSpec => []TrustTypeOK
<1>1. TrustInit => TrustTyped
  <2> SUFFICES ASSUME TrustInit PROVE TrustTyped
    OBVIOUS
  <2>1. row.count = 1
    BY DEF TrustInit
  <2>2. \A s \in Sessions : work[s] = NoWork
    BY DEF TrustInit
  <2>3. begun = 0 /\ observed = 1 /\ retired = FALSE /\ promoted = FALSE
    BY DEF TrustInit
  <2> HIDE DEF TrustInit
  <2>4. row.count >= 1 /\ \A s \in Sessions : work[s] # NoWork => work[s].row.count >= 1
    BY <2>1, <2>2
  <2>5. begun \in 0..MaxSessions /\ observed \in 1..MaxObserved
    BY <2>3 DEF TrustAssumption
  <2> QED  BY <2>3, <2>4, <2>5 DEF TrustTyped
<1>2. TrustInv /\ TrustTyped /\ [TrustNext]_trustVars => TrustTyped'
  <2> SUFFICES ASSUME TrustInv, TrustTyped, [TrustNext]_trustVars PROVE TrustTyped'
    OBVIOUS
  <2>0. row \in TrustRow /\ row.count \in Nat /\ row.count >= 1
    BY DEF TrustInv, Earned, TrustRow, TrustTyped
  <2>1. ASSUME NEW s \in Sessions, BeginFold(s)
        PROVE  TrustTyped'
    <3> DEFINE copy == [row EXCEPT !.count = @ + 1, !.status = IF @ = "working" THEN "committed" ELSE @]
    <3>1. copy.count >= 1
      BY <2>0 DEF TrustRow
    <3>2. Begin(s, "fold", copy) /\ observed < MaxObserved
      BY <2>1 DEF BeginFold
    <3> HIDE DEF copy
    <3> QED  BY <3>1, <3>2, BeginKeepsTyped
  <2>2. ASSUME NEW s \in Sessions, BeginMerge(s)
        PROVE  TrustTyped'
    <3> DEFINE copy == [row EXCEPT !.count = @ + 1]
    <3>1. copy.count >= 1
      BY <2>0 DEF TrustRow
    <3>2. Begin(s, "merge", copy) /\ observed < MaxObserved
      BY <2>2 DEF BeginMerge
    <3> HIDE DEF copy
    <3> QED  BY <3>1, <3>2, BeginKeepsTyped
  <2>3. ASSUME NEW s \in Sessions, NEW kind \in {"endorse", "withdraw", "join"}, NEW p,
               Begin(s, kind, [row EXCEPT !.props = p])
        PROVE  TrustTyped'
    <3> DEFINE copy == [row EXCEPT !.props = p]
    <3>1. copy.count >= 1
      BY <2>0 DEF TrustRow
    <3>2. Begin(s, kind, copy) /\ kind \notin {"fold", "merge"}
      BY <2>3
    <3> HIDE DEF copy
    <3> QED  BY <3>1, <3>2, BeginKeepsTyped
  <2>4. ASSUME NEW s \in Sessions, BeginJoin(s) \/ \E u \in People : BeginEndorse(s, u) \/ BeginWithdraw(s, u)
        PROVE  TrustTyped'
    BY <2>3, <2>4 DEF BeginJoin, BeginEndorse, BeginWithdraw
  <2>5. ASSUME NEW s \in Sessions, BeginRetract(s)
        PROVE  TrustTyped'
    <3> DEFINE copy == [row EXCEPT !.status = "retracted"]
    <3>1. copy.count >= 1
      BY <2>0 DEF TrustRow
    <3>2. Begin(s, "retract", copy)
      BY <2>5 DEF BeginRetract
    <3> HIDE DEF copy
    <3> QED  BY <3>1, <3>2, BeginKeepsTyped
  <2>6. ASSUME NEW s \in Sessions, CommitWork(s)
        PROVE  TrustTyped'
    <3> DEFINE w == work[s]
    <3>1. /\ w # NoWork /\ row' = [c \in DOMAIN row |-> IF c \in w.columns THEN w.row[c] ELSE row[c]]
          /\ work' = [work EXCEPT ![s] = NoWork] /\ UNCHANGED <<begun, observed>>
          /\ retired' \in BOOLEAN /\ promoted' \in BOOLEAN
      BY <2>6 DEF CommitWork, Written, TrustTyped
    <3>2. row'.count \in {w.row.count, row.count}
      <4>1. "count" \in DOMAIN row
        BY <2>0 DEF TrustRow
      <4> HIDE DEF w
      <4> QED  BY <3>1, <4>1
    <3> QED  BY <2>0, <3>1, <3>2 DEF TrustTyped, TrustInv
  <2>7. CASE Verdict \/ UNCHANGED trustVars
    BY <2>7 DEF Verdict, trustVars, TrustTyped
  <2> QED  BY <2>1, <2>2, <2>4, <2>5, <2>6, <2>7 DEF TrustNext
<1>3. TrustInv /\ TrustTyped => TrustTypeOK
  <2> SUFFICES ASSUME TrustInv, TrustTyped PROVE TrustTypeOK
    OBVIOUS
  <2>1. \A r \in TrustRow : r.count >= 1 /\ r.count <= observed => r \in FactRows
    BY DEF TrustRow, FactRows, TrustTyped, TrustAssumption
  <2>2. row \in FactRows
    BY <2>1 DEF TrustInv, Earned, TrustTyped
  <2>3. \A s \in Sessions : work[s] # NoWork => work[s].kind \in Kinds /\ work[s].row \in FactRows
    BY <2>1 DEF TrustInv, SessionWork, CopiesAreEarned, Earned, TrustTyped
  <2> QED  BY <2>2, <2>3 DEF TrustInv, TrustTyped, TrustTypeOK
<1> QED  BY <1>1, <1>2, <1>3, TrustInvHolds, PTL DEF TrustSpec

\* services/policy.py, api/v1/governance.py: episodes, folds, decisions and the two tiers stay in
\* their types.
LEMMA ConsentTypeOKHolds ==
  ASSUME ConsentAssumption
  PROVE  ConsentSpec => []ConsentTypeOK
<1> DEFINE Decisions == policy \in [Scopes -> Policies] /\ decisions \in 0..MaxDecisions
<1>1. ConsentInit => Decisions
  BY DEF ConsentInit, ConsentAssumption
<1>2. Decisions /\ [ConsentNext]_consentVars => Decisions'
  <2> SUFFICES ASSUME Decisions, [ConsentNext]_consentVars PROVE Decisions'
    OBVIOUS
  <2>1. \/ policy' = policy
        \/ \E s \in Scopes, p \in Policies : policy' = [policy EXCEPT ![s] = p]
    BY DEF ConsentNext, consentVars, StoreEpisode, PassGate, CommitFold, FoldFails, SetConsent, Clear,
           SetPolicy, PurgePerson, PurgeWorkspace
  <2>2. decisions' = decisions \/ Decide
    BY DEF ConsentNext, consentVars, StoreEpisode, PassGate, CommitFold, FoldFails, SetConsent, Clear,
           SetPolicy, PurgePerson, PurgeWorkspace
  <2> QED  BY <2>1, <2>2 DEF Decide, ConsentAssumption
<1>3. ClearedInv /\ Decisions => ConsentTypeOK
  BY DEF ClearedInv, ConsentTypeOK, EpisodeRow, FoldRow
<1> HIDE DEF Decisions
<1> QED  BY <1>1, <1>2, <1>3, ClearedInvHolds, PTL DEF ConsentSpec

-----------------------------------------------------------------------------
(* ReadPath, SessionStart, TuneFacts, TuneGate: types.                      *)

ReadTyped ==
  /\ hour \in Hours /\ changes \in 0..MaxChanges
  /\ wasLive \subseteq ScopedValues /\ orphaned \subseteq AllScopes

\* services/retrieval.py beside the writes: anchors, values, edges and the rows of a request stay
\* in their types.
LEMMA ReadPathTypeOKHolds ==
  ASSUME ReadPathAssumption
  PROVE  ReadPathSpec => []ReadPathTypeOK
<1>1. ReadPathInit => ReadTyped
  BY DEF ReadPathInit, ReadTyped, Hours, ReadPathAssumption
<1>2. ReadTyped /\ [ReadPathNext]_readVars => ReadTyped'
  <2> SUFFICES ASSUME ReadTyped, [ReadPathNext]_readVars PROVE ReadTyped'
    OBVIOUS
  <2>0. LiveNow \subseteq ScopedValues /\ LiveNow' \subseteq ScopedValues
    BY DEF LiveNow, ScopedValues, AllScopes
  <2>1. ASSUME Write, orphaned' \subseteq AllScopes, wasLive' \subseteq ScopedValues
        PROVE  ReadTyped'
    BY <2>1 DEF Write, ReadTyped, Hours, ReadPathAssumption
  <2>2. ASSUME NEW s \in AllScopes, NEW v \in AnchorValues, NEW end, ClaimValue(s, v, end)
        PROVE  ReadTyped'
    <3>1. Write /\ wasLive' = wasLive \cup LiveNow' /\ orphaned' = orphaned
      BY <2>2 DEF ClaimValue
    <3> QED  BY <2>0, <2>1, <3>1 DEF ReadTyped
  <2>3. ASSUME (\E k \in ScopedValues : RetractValue(k)) \/ SweepDue
        PROVE  ReadTyped'
    <3>1. Write /\ wasLive' = wasLive /\ orphaned' = orphaned
      BY <2>3 DEF RetractValue, SweepDue
    <3> QED  BY <2>1, <3>1 DEF ReadTyped
  <2>4. ASSUME NEW s \in AllScopes, RetractAnchor(s)
        PROVE  ReadTyped'
    <3>1. Write /\ wasLive' = wasLive /\ orphaned' = orphaned \cup {s}
      BY <2>4 DEF RetractAnchor
    <3> QED  BY <2>1, <3>1 DEF ReadTyped
  <2>5. CASE HourPasses
    BY <2>5 DEF HourPasses, ReadTyped, Hours, ReadPathAssumption
  <2>6. ASSUME NEW tool, NEW grant, BeginRead(tool, grant)
        PROVE  ReadTyped'
    BY <2>0, <2>6 DEF BeginRead, ReadTyped
  <2>7. CASE VectorLeg \/ LexicalLeg \/ ExpandValues \/ LookUpWatched \/ BuildPacket \/ UNCHANGED readVars
    <3>1. UNCHANGED <<hour, changes, wasLive, orphaned>>
      BY <2>7 DEF VectorLeg, LexicalLeg, ExpandValues, LookUpWatched, BuildPacket, ReadStep, readVars
    <3> QED  BY <3>1 DEF ReadTyped
  <2> QED  BY <2>2, <2>3, <2>4, <2>5, <2>6, <2>7 DEF ReadPathNext
<1>3. ReadInv /\ ReadTyped => ReadPathTypeOK
  <2> SUFFICES ASSUME ReadInv, ReadTyped PROVE ReadPathTypeOK
    OBVIOUS
  <2>1. 0..Never = Hours \cup {Never}
    BY DEF Hours, Never, ReadPathAssumption
  <2>2. /\ valueOf \in [ScopedValues -> [status : {"none", "committed", "superseded", "retracted", "expired"},
                                         expires : Hours \cup {Never}]]
        /\ holds \in [ScopedValues -> [open : BOOLEAN, expires : Hours \cup {Never}]]
    BY <2>1 DEF ReadInv, StoreInv, ValueRow, EdgeRow
  <2>3. \A r \in read.rows : r.node \in ReadScopes \X Names
    BY DEF ReadInv, RequestInv, ReadRecord, RowRecord
  <2> QED  BY <2>2, <2>3 DEF ReadInv, StoreInv, ReadTyped, ReadPathTypeOK
<1> QED  BY <1>1, <1>2, <1>3, ReadInvHolds, PTL DEF ReadPathSpec

PageTyped == page.lines \cap page.pinned = {} /\ claims \in 0..MaxClaims

\* services/projection.py: learnings and the people behind them stay in their types, and no
\* learning is listed twice on a page.
LEMMA SessionStartTypeOKHolds ==
  ASSUME SessionStartAssumption
  PROVE  SessionStartSpec => []SessionStartTypeOK
<1>1. SessionStartInit => PageTyped
  BY DEF SessionStartInit, PageTyped, NoPage, SessionStartAssumption
<1>2. PageTyped /\ [SessionStartNext]_startVars => PageTyped'
  <2> SUFFICES ASSUME PageTyped, [SessionStartNext]_startVars PROVE PageTyped'
    OBVIOUS
  <2>1. ASSUME NEW u, NEW hop, Render(u, hop)
        PROVE  PageTyped'
    <3>1. \E slice, lines : /\ \A l \in lines : l \notin slice
                            /\ page' = [person |-> u, hop |-> hop, pinned |-> slice, lines |-> lines]
      BY <2>1 DEF Render
    <3>2. page'.lines \cap page'.pinned = {}
      BY <3>1
    <3>3. claims' = claims
      BY <2>1 DEF Render
    <3> QED  BY <3>2, <3>3 DEF PageTyped
  <2>2. ASSUME NEW l, NEW u, NEW hop, NEW hook, NEW as, ClaimLearning(l, u, hop, hook, as)
        PROVE  PageTyped'
    <3>1. page' = page /\ claims < MaxClaims /\ claims' = claims + 1
      BY <2>2 DEF ClaimLearning
    <3> QED  BY <3>1 DEF PageTyped, SessionStartAssumption
  <2>3. ASSUME \/ \E l \in Learnings : RetractLearning(l) \/ \E tier \in Standings : TierMoves(l, tier)
               \/ UNCHANGED startVars
        PROVE  PageTyped'
    <3>1. page' = page /\ claims' = claims
      BY <2>3 DEF TierMoves, RetractLearning, startVars
    <3> QED  BY <3>1 DEF PageTyped
  <2> QED  BY <2>1, <2>2, <2>3 DEF SessionStartNext
<1>3. SessionInv /\ PageTyped => SessionStartTypeOK
  BY DEF SessionInv, FactRow, PageTyped, SessionStartTypeOK
<1> QED  BY <1>1, <1>2, <1>3, SessionInvHolds, PTL DEF SessionStartSpec

WindowTyped ==
  /\ reported \in [Instants -> Reports \cup {Turn, Nothing}]
  /\ lastWindow \subseteq Instants /\ reading.window \subseteq Instants

\* pipeline/hop_distiller.py: what was reported and distilled stays in its types, and no fact
\* counts more hits than runs.
LEMMA TuneFactsTypeOKHolds ==
  ASSUME TuneFactsAssumption
  PROVE  TuneFactsSpec => []TuneFactsTypeOK
<1>1. TuneFactsInit => WindowTyped
  BY DEF TuneFactsInit, WindowTyped, NotReading
<1>2. WindowTyped /\ [TuneFactsNext]_tuneVars => WindowTyped'
  <2> SUFFICES ASSUME WindowTyped, [TuneFactsNext]_tuneVars PROVE WindowTyped'
    OBVIOUS
  <2>1. ASSUME NEW at \in Instants, NEW e \in Reports \cup {Turn}, Report(at, e)
        PROVE  WindowTyped'
    BY <2>1 DEF Report, WindowTyped
  <2>2. CASE DistillReads
    <3>1. PICK window \in {SinceLastTurn} \cup {since..LastReport : since \in Instants} :
            reading' = [busy |-> TRUE, window |-> Counted(window), found |-> Distilled(window)]
      BY <2>2 DEF DistillReads
    <3>2. window \subseteq Instants
      BY WindowsAreOfInstants
    <3>3. Counted(window) \subseteq window
      BY DEF Counted, RunsAt
    <3>4. reading'.window = Counted(window)
      BY <3>1
    <3>5. UNCHANGED <<reported, lastWindow>>
      BY <2>2 DEF DistillReads
    <3> QED  BY <3>2, <3>3, <3>4, <3>5 DEF WindowTyped
  <2>3. ASSUME NEW wipe, DistillWrites(wipe)
        PROVE  WindowTyped'
    BY <2>3 DEF DistillWrites, NotReading, WindowTyped
  <2>4. CASE Propose \/ UNCHANGED tuneVars
    <3>1. UNCHANGED <<reported, lastWindow, reading>>
      BY <2>4 DEF Propose, tuneVars
    <3> QED  BY <3>1 DEF WindowTyped
  <2> QED  BY <2>1, <2>2, <2>3, <2>4 DEF TuneFactsNext
<1>3. EvidenceInv /\ WindowTyped => TuneFactsTypeOK
  BY DEF EvidenceInv, Powered, WindowTyped, TuneFactsTypeOK
<1> QED  BY <1>1, <1>2, <1>3, EvidenceInvHolds, PTL DEF TuneFactsSpec

DoorTyped ==
  /\ artifact \in Artifacts /\ evaluating \subseteq Artifacts /\ steps \in 0..MaxGateSteps
  /\ verdict.disposition \in {"none", "accepted", "rejected", "scored"}
  /\ promotion \in {"none", "refused", "human", "auto"}
  /\ proposed \subseteq Turns /\ learned \subseteq proposed
  /\ \A o \in Deciders : deciding[o] # NotDeciding => deciding[o].turn \in proposed

\* pipeline/hop_promote.py, api/v1/registry.py: verdicts, promotions and decisions stay in their
\* types, and only a turn proposed teaches anything.
LEMMA TuneGateTypeOKHolds ==
  ASSUME TuneGateAssumption
  PROVE  TuneGateSpec => []TuneGateTypeOK
<1>1. TuneGateInit => DoorTyped
  BY DEF TuneGateInit, DoorTyped, NoVerdict, TuneGateAssumption
<1>2. DoorTyped /\ GateInv /\ [TuneGateNext]_gateVars => DoorTyped'
  <2> SUFFICES ASSUME DoorTyped, GateInv, [TuneGateNext]_gateVars PROVE DoorTyped'
    OBVIOUS
  <2>0. ASSUME GateStep(TRUE)
        PROVE  steps' \in 0..MaxGateSteps
    BY <2>0 DEF GateStep, DoorTyped, TuneGateAssumption
  <2>1. ASSUME UNCHANGED doorVars, steps' \in 0..MaxGateSteps, artifact' \in Artifacts,
               evaluating' \subseteq Artifacts,
               verdict'.disposition \in {"none", "accepted", "rejected", "scored"},
               promotion' \in {"none", "refused", "human", "auto"}
        PROVE  DoorTyped'
    BY <2>1 DEF doorVars, DoorTyped
  <2>2. ASSUME NEW hop \in Artifacts, GateStep(EditHop(hop))
        PROVE  DoorTyped'
    BY <2>0, <2>1, <2>2 DEF GateStep, EditHop, DoorTyped
  <2>3. CASE GateStep(EvalStarts)
    BY <2>0, <2>1, <2>3 DEF GateStep, EvalStarts, DoorTyped
  <2>4. ASSUME steps' = steps, Promote
        PROVE  DoorTyped'
    <3>1. Promotion(artifact) \in {"refused", "human", "auto"}
      BY DEF Promotion
    <3> QED  BY <2>1, <2>4, <3>1 DEF Promote, DoorTyped
  <2>5. ASSUME steps' = steps, NEW outcome, NEW baseline, EvalEnds(outcome, baseline)
        PROVE  DoorTyped'
    <3>1. \A hop : Disposition(hop, outcome, baseline) \in {"accepted", "rejected", "scored"}
      BY DEF Disposition
    <3>2. PICK hop \in evaluating :
            /\ verdict' = [disposition |-> Disposition(hop, outcome, baseline), of |-> hop, outcome |-> outcome]
            /\ evaluating' = {} /\ UNCHANGED <<artifact, promotion, doorVars>>
      BY <2>5 DEF EvalEnds
    <3> QED  BY <2>1, <2>5, <3>1, <3>2 DEF DoorTyped
  <2>6. ASSUME UNCHANGED evalVars, steps' \in 0..MaxGateSteps, proposed' \subseteq Turns, learned' \subseteq proposed',
               \A o \in Deciders : deciding'[o] # NotDeciding => deciding'[o].turn \in proposed'
        PROVE  DoorTyped'
    BY <2>6 DEF evalVars, DoorTyped
  <2>7. ASSUME NEW o \in Deciders, NEW t \in Turns, NEW says, GateStep(DecideReads(o, t, says))
        PROVE  DoorTyped'
    <3> DEFINE new == [turn |-> t, says |-> says, dated |-> steps]
    <3>1. /\ t \in proposed /\ deciding' = [deciding EXCEPT ![o] = new]
          /\ UNCHANGED <<evalVars, proposed, learned>>
      BY <2>7 DEF GateStep, DecideReads
    <3>2. new.turn = t
      OBVIOUS
    <3> HIDE DEF new
    <3>3. \A p \in Deciders : deciding'[p] # NotDeciding => deciding'[p].turn \in proposed'
      BY <3>1, <3>2 DEF GateInv, DoorTyped
    <3>4. steps' \in 0..MaxGateSteps
      BY <2>0, <2>7 DEF GateStep
    <3> QED  BY <2>6, <3>1, <3>3, <3>4 DEF DoorTyped
  <2>8. ASSUME steps' = steps, NEW t \in Turns, WriteProposal(t)
        PROVE  DoorTyped'
    <3>1. proposed' = proposed \cup {t} /\ UNCHANGED <<evalVars, deciding, learned>>
      BY <2>8 DEF WriteProposal
    <3> QED  BY <2>6, <2>8, <3>1 DEF DoorTyped
  <2>9. ASSUME steps' = steps, NEW o \in Deciders, DecideCommits(o) \/ DecideFails(o)
        PROVE  DoorTyped'
    <3>1. /\ deciding[o] # NotDeciding /\ deciding' = [deciding EXCEPT ![o] = NotDeciding]
          /\ learned' \subseteq learned \cup {deciding[o].turn} /\ UNCHANGED <<evalVars, proposed>>
      BY <2>9 DEF DecideCommits, DecideFails
    <3>2. \A p \in Deciders : deciding'[p] # NotDeciding => deciding'[p] = deciding[p]
      BY <3>1 DEF GateInv
    <3> QED  BY <2>6, <2>9, <3>1, <3>2 DEF DoorTyped
  <2>10. CASE AdoptNext
    BY <2>2, <2>3, <2>4, <2>5, <2>10 DEF AdoptNext, GateStep
  <2>11. CASE DoorNext
    BY <2>7, <2>8, <2>9, <2>11 DEF DoorNext, GateStep
  <2>12. CASE UNCHANGED gateVars
    BY <2>12 DEF gateVars, DoorTyped
  <2> QED  BY <2>10, <2>11, <2>12 DEF TuneGateNext
<1>3. DoorTyped => TuneGateTypeOK
  BY DEF DoorTyped, TuneGateTypeOK
<1> QED  BY <1>1, <1>2, <1>3, GateInvHolds, PTL DEF TuneGateSpec

-----------------------------------------------------------------------------
(* Sharing: a step of the whole is a step of one component and a stutter   *)
(* of the others.                                                          *)

LEMMA SharingIsItsComponents ==
  Spec => /\ UnitsSpec /\ LiftSpec /\ TrustSpec /\ ConsentSpec
          /\ ReadPathSpec /\ SessionStartSpec /\ TuneFactsSpec /\ TuneGateSpec
<1>1. Init => /\ UnitsInit /\ LiftInit /\ TrustInit /\ ConsentInit
              /\ ReadPathInit /\ SessionStartInit /\ TuneFactsInit /\ TuneGateInit
  BY DEF Init
<1>2. [Next]_vars => /\ [UnitsNext]_unitsVars /\ [LiftNext]_liftVars
                     /\ [TrustNext]_trustVars /\ [ConsentNext]_consentVars
                     /\ [ReadPathNext]_readVars /\ [SessionStartNext]_startVars
                     /\ [TuneFactsNext]_tuneVars /\ [TuneGateNext]_gateVars
  BY DEF Next, NextOfThoseWhoShare, NextOfThoseServed, TuneGateNext, vars
<1> QED  BY <1>1, <1>2, PTL DEF Spec, UnitsSpec, LiftSpec, TrustSpec, ConsentSpec,
                                ReadPathSpec, SessionStartSpec, TuneFactsSpec, TuneGateSpec

\* Of all that people and HOPs share, whichever component moves, every variable stays in its
\* type, for any units, topics, people, scopes, learnings, runs and artifacts.
THEOREM TypesOKHolds ==
  ASSUME SharingAssumption
  PROVE  Spec => []TypesOK
<1>1. /\ UnitsAssumption /\ LiftAssumption /\ TrustAssumption /\ ConsentAssumption
      /\ ReadPathAssumption /\ SessionStartAssumption
      /\ TuneFactsAssumption /\ TuneGateAssumption
  BY DEF SharingAssumption
<1>2. /\ UnitsSpec => []UnitsTypeOK
      /\ LiftSpec => []LiftTypeOK
      /\ TrustSpec => []TrustTypeOK
      /\ ConsentSpec => []ConsentTypeOK
  BY <1>1, UnitsTypeOKHolds, LiftTypeOKHolds, TrustTypeOKHolds, ConsentTypeOKHolds
<1>3. /\ ReadPathSpec => []ReadPathTypeOK
      /\ SessionStartSpec => []SessionStartTypeOK
      /\ TuneFactsSpec => []TuneFactsTypeOK
      /\ TuneGateSpec => []TuneGateTypeOK
  BY <1>1, ReadPathTypeOKHolds, SessionStartTypeOKHolds, TuneFactsTypeOKHolds, TuneGateTypeOKHolds
<1> QED  BY <1>2, <1>3, SharingIsItsComponents, PTL DEF TypesOK
============================================================================
