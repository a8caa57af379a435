------------------------------ MODULE Iteration ------------------------------
(***************************************************************************)
(* Induction over the naturals and the walks the models define with it, as *)
(* facts about sets and functions.  A definition like Up[n] is an iteration *)
(* of a step from a start; on the subsets of a finite set, a step that only *)
(* adds has nothing left to add after as many rounds as there are elements. *)
(* A fold of a set or a sequence is a recursion over the subsets of its     *)
(* domain that takes one element after the other, and has its values.       *)
(***************************************************************************)
EXTENDS Naturals, FiniteSets, FiniteSetsExt, FiniteSetTheorems, WellFoundedInduction, TLAPS

Less == {ss \in Nat \X Nat : ss[1] < ss[2]}

LEMMA LessIsWellFounded == IsWellFoundedOn(Less, Nat)
BY NatLessThanWellFounded DEF OpToRel, Less

\* Induction: a set that holds 0 and the successor of each natural in it holds them all.
LEMMA SetInduction ==
  ASSUME NEW S, 0 \in S, \A n \in Nat : n \in S => n + 1 \in S
  PROVE  Nat \subseteq S
<1>1. SUFFICES ASSUME Nat \ S # {}
               PROVE  FALSE
  OBVIOUS
<1> DEFINE T == Nat \ S
<1>2. T \subseteq Nat /\ T # {}
  BY <1>1
<1> HIDE DEF T
<1>3. PICK x \in T : \A y \in T : <<y, x>> \notin Less
  BY <1>2, LessIsWellFounded, WFMin
<1>4. x \in Nat /\ x \notin S
  BY DEF T
<1>5. x # 0 /\ x - 1 \in Nat /\ x = (x - 1) + 1
  BY <1>4
<1>6. x - 1 \in T
  BY <1>4, <1>5 DEF T
<1>7. <<x - 1, x>> \in Less
  BY <1>4, <1>5 DEF Less
<1> QED  BY <1>3, <1>6, <1>7

\* A set of naturals has a least element, and one with a bound a greatest.
LEMMA LeastNatural ==
  ASSUME NEW S \in SUBSET Nat, S # {}
  PROVE  \E n \in S : \A m \in S : n <= m
<1>1. PICK n \in S : \A m \in S : <<m, n>> \notin Less
  BY LessIsWellFounded, WFMin
<1>2. ASSUME NEW m \in S, m < n
      PROVE  FALSE
  <2>1. <<m, n>> \in Nat \X Nat /\ <<m, n>>[1] < <<m, n>>[2]
    BY <1>2
  <2> QED  BY <1>1, <2>1 DEF Less
<1> QED  BY <1>2

LEMMA GreatestNatural ==
  ASSUME NEW S \in SUBSET Nat, S # {}, NEW B \in Nat, \A n \in S : n <= B
  PROVE  \E n \in S : \A m \in S : m <= n
<1> DEFINE T == {B - n : n \in S}
<1>1. T \in SUBSET Nat /\ T # {}
  <2>1. \A n \in S : n \in Nat /\ n <= B /\ B - n \in Nat
    OBVIOUS
  <2> QED  BY <2>1
<1>2. PICK t \in T : \A u \in T : t <= u
  <2> HIDE DEF T
  <2> QED  BY <1>1, LeastNatural
<1>3. PICK n \in S : t = B - n
  OBVIOUS
<1>4. ASSUME NEW m \in S
      PROVE  m <= n
  <2>1. B - m \in T /\ m \in Nat /\ n \in Nat
    OBVIOUS
  <2>2. B - n <= B - m
    BY <1>2, <1>3, <2>1
  <2> QED  BY <2>1, <2>2
<1> QED  BY <1>4

\* The rounds of a step F from c, as one function of the number of rounds.
Iterates(g, c, F) == g[0] = c /\ \A n \in Nat : g[n + 1] = F[g[n]]

\* The first n rounds.
Prefix(h, n, c, F) == h[0] = c /\ \A i \in 0..n : i < n => h[i + 1] = F[h[i]]

\* Every step has its iteration.
LEMMA IterationExists ==
  ASSUME NEW S, NEW c \in S, NEW F \in [S -> S]
  PROVE  \E g \in [Nat -> S] : Iterates(g, c, F)
<1> DEFINE Some == {n \in Nat : \E h \in [0..n -> S] : Prefix(h, n, c, F)}
           Agree == {n \in Nat : \A m \in Nat : n <= m =>
                       \A h \in [0..n -> S], k \in [0..m -> S] :
                         Prefix(h, n, c, F) /\ Prefix(k, m, c, F) => h[n] = k[n]}
<1>1. Nat \subseteq Some
  <2>1. 0 \in Some
    <3>1. [i \in 0..0 |-> c] \in [0..0 -> S] /\ Prefix([i \in 0..0 |-> c], 0, c, F)
      BY DEF Prefix
    <3> QED  BY <3>1
  <2>2. ASSUME NEW n \in Nat, n \in Some
        PROVE  n + 1 \in Some
    <3>1. PICK h \in [0..n -> S] : Prefix(h, n, c, F)
      BY <2>2
    <3> DEFINE k == [i \in 0..(n + 1) |-> IF i = n + 1 THEN F[h[n]] ELSE h[i]]
    <3>2. k \in [0..(n + 1) -> S]
      <4>1. \A i \in 0..(n + 1) : i # n + 1 => i \in 0..n
        OBVIOUS
      <4> QED  BY <4>1
    <3>3. k[0] = c
      BY <3>1 DEF Prefix
    <3>4. ASSUME NEW i \in 0..(n + 1), i < n + 1
          PROVE  k[i + 1] = F[k[i]]
      <4>1. i \in 0..n /\ i + 1 \in 0..(n + 1) /\ k[i] = h[i]
        BY <3>4
      <4>2. CASE i = n
        BY <4>1, <4>2
      <4>3. CASE i # n
        <5>1. i < n /\ k[i + 1] = h[i + 1]
          BY <4>1, <4>3
        <5> QED  BY <4>1, <5>1, <3>1 DEF Prefix
      <4> QED  BY <4>2, <4>3
    <3> HIDE DEF k
    <3>5. Prefix(k, n + 1, c, F)
      BY <3>3, <3>4 DEF Prefix
    <3> QED  BY <3>2, <3>5
  <2> HIDE DEF Some
  <2> QED  BY <2>1, <2>2, SetInduction
<1>2. Nat \subseteq Agree
  <2>1. 0 \in Agree
    BY DEF Prefix
  <2>2. ASSUME NEW n \in Nat, n \in Agree
        PROVE  n + 1 \in Agree
    <3> SUFFICES ASSUME NEW m \in Nat, n + 1 <= m,
                        NEW h \in [0..(n + 1) -> S], NEW k \in [0..m -> S],
                        Prefix(h, n + 1, c, F), Prefix(k, m, c, F)
                 PROVE  h[n + 1] = k[n + 1]
      OBVIOUS
    <3> DEFINE g == [i \in 0..n |-> h[i]]
    <3>1. g \in [0..n -> S]
      OBVIOUS
    <3>2. Prefix(g, n, c, F)
      <4>1. g[0] = c
        BY DEF Prefix
      <4>2. ASSUME NEW i \in 0..n, i < n
            PROVE  g[i + 1] = F[g[i]]
        BY <4>2 DEF Prefix
      <4> QED  BY <4>1, <4>2 DEF Prefix
    <3>3. g[n] = h[n]
      OBVIOUS
    <3> HIDE DEF g
    <3>4. g[n] = k[n]
      BY <2>2, <3>1, <3>2
    <3>5. h[n + 1] = F[h[n]] /\ k[n + 1] = F[k[n]]
      BY DEF Prefix
    <3> QED  BY <3>3, <3>4, <3>5
  <2> HIDE DEF Agree
  <2> QED  BY <2>1, <2>2, SetInduction
<1> DEFINE pre == [n \in Nat |-> CHOOSE h \in [0..n -> S] : Prefix(h, n, c, F)]
           g == [n \in Nat |-> pre[n][n]]
<1>3. \A n \in Nat : pre[n] \in [0..n -> S] /\ Prefix(pre[n], n, c, F)
  BY <1>1
<1> HIDE DEF pre, Some
<1>4. g \in [Nat -> S]
  BY <1>3
<1>5. g[0] = c
  BY <1>3 DEF Prefix
<1>6. ASSUME NEW n \in Nat
      PROVE  g[n + 1] = F[g[n]]
  <2>1. pre[n + 1][n + 1] = F[pre[n + 1][n]]
    BY <1>3 DEF Prefix
  <2>2. pre[n + 1][n] = pre[n][n]
    <3>1. n \in Agree /\ n + 1 \in Nat /\ n <= n + 1
      BY <1>2
    <3> QED  BY <3>1, <1>3
  <2> QED  BY <2>1, <2>2
<1> HIDE DEF g
<1> QED  BY <1>4, <1>5, <1>6 DEF Iterates

\* What holds of the start and is kept by the step holds of every round.
LEMMA IterationStaysIn ==
  ASSUME NEW c, NEW F, NEW g, Iterates(g, c, F),
         NEW T, c \in T, \A x \in T : F[x] \in T
  PROVE  \A n \in Nat : g[n] \in T
<1> DEFINE In == {n \in Nat : g[n] \in T}
<1>1. 0 \in In
  BY DEF Iterates
<1>2. \A n \in Nat : n \in In => n + 1 \in In
  BY DEF Iterates
<1> HIDE DEF In
<1>3. Nat \subseteq In
  BY <1>1, <1>2, SetInduction
<1> QED  BY <1>3 DEF In

\* In particular, the rounds of a step on sets stay below any set it keeps.
LEMMA IterationStaysBelow ==
  ASSUME NEW c, NEW F, NEW g, Iterates(g, c, F),
         NEW T, c \subseteq T, \A X \in SUBSET T : F[X] \subseteq T
  PROVE  \A n \in Nat : g[n] \subseteq T
<1> DEFINE P == SUBSET T
<1>1. c \in P /\ \A X \in P : F[X] \in P
  OBVIOUS
<1>2. \A X \in P : X \subseteq T
  OBVIOUS
<1> HIDE DEF P
<1>3. \A n \in Nat : g[n] \in P
  BY <1>1, IterationStaysIn
<1> QED  BY <1>2, <1>3

\* A step that only adds elements of a finite U has nothing left to add after as
\* many rounds as U has elements.
LEMMA IterationSettles ==
  ASSUME NEW U, IsFiniteSet(U), NEW F \in [SUBSET U -> SUBSET U],
         \A X \in SUBSET U : X \subseteq F[X],
         NEW c \in SUBSET U, NEW g \in [Nat -> SUBSET U], Iterates(g, c, F)
  PROVE  /\ F[g[Cardinality(U)]] = g[Cardinality(U)]
         /\ c \subseteq g[Cardinality(U)]
<1> DEFINE Grown == {n \in Nat : /\ c \subseteq g[n]
                                 /\ F[g[n]] = g[n] \/ Cardinality(g[n]) >= n}
<1>0. \A X \in SUBSET U : IsFiniteSet(X) /\ Cardinality(X) \in Nat
  BY FS_Subset, FS_CardinalityType
<1>1. 0 \in Grown
  BY <1>0 DEF Iterates
<1>2. ASSUME NEW n \in Nat, n \in Grown
      PROVE  n + 1 \in Grown
  <2>1. /\ g[n] \in SUBSET U /\ g[n + 1] \in SUBSET U
        /\ g[n + 1] = F[g[n]] /\ g[n] \subseteq g[n + 1]
    BY DEF Iterates
  <2>2. CASE F[g[n]] = g[n]
    BY <2>1, <2>2, <1>2
  <2>3. CASE F[g[n]] # g[n]
    <3>1. Cardinality(g[n]) <= Cardinality(g[n + 1]) /\ Cardinality(g[n]) # Cardinality(g[n + 1])
      BY <2>1, <2>3, <1>0, FS_Subset
    <3>2. Cardinality(g[n]) >= n
      BY <1>2, <2>3
    <3>3. Cardinality(g[n]) \in Nat /\ Cardinality(g[n + 1]) \in Nat
      BY <1>0, <2>1
    <3>4. Cardinality(g[n + 1]) >= n + 1
      BY <3>1, <3>2, <3>3
    <3> QED  BY <1>2, <2>1, <3>4
  <2> QED  BY <2>2, <2>3
<1> HIDE DEF Grown
<1>3. Nat \subseteq Grown
  BY <1>1, <1>2, SetInduction
<1> DEFINE N == Cardinality(U)
<1>4. N \in Nat
  BY FS_CardinalityType
<1> HIDE DEF N
<1>5. g[N] \in SUBSET U /\ c \subseteq g[N] /\ (F[g[N]] = g[N] \/ Cardinality(g[N]) >= N)
  BY <1>3, <1>4 DEF Grown
<1>6. Cardinality(g[N]) >= N => g[N] = U
  <2>1. /\ Cardinality(g[N]) <= Cardinality(U)
        /\ Cardinality(U) = Cardinality(g[N]) => U = g[N]
    BY <1>5, FS_Subset
  <2>2. Cardinality(g[N]) \in Nat /\ Cardinality(U) = N
    BY <1>0, <1>5 DEF N
  <2> QED  BY <2>1, <2>2, <1>4
<1>7. F[U] = U
  <2>1. U \in SUBSET U
    OBVIOUS
  <2>2. F[U] \in SUBSET U /\ U \subseteq F[U]
    BY <2>1
  <2> QED  BY <2>2
<1>8. F[g[N]] = g[N]
  BY <1>5, <1>6, <1>7
<1> QED  BY <1>5, <1>8 DEF N

\* A walk of N steps, each of which may depend on its number.
Walked(g, N, c, F) == g[0] = c /\ \A n \in 1..N : g[n] = F[<<n, g[n - 1]>>]

\* Every such walk exists.
LEMMA WalkExists ==
  ASSUME NEW S, NEW c \in S, NEW N \in Nat, NEW F \in [(1..N) \X S -> S]
  PROVE  \E g \in [0..N -> S] : Walked(g, N, c, F)
<1> DEFINE Some == {n \in Nat : n <= N => \E g \in [0..n -> S] : Walked(g, n, c, F)}
<1>1. 0 \in Some
  <2> DEFINE g == [i \in 0..0 |-> c]
  <2>1. g \in [0..0 -> S] /\ g[0] = c /\ 1..0 = {}
    OBVIOUS
  <2> HIDE DEF g
  <2>2. Walked(g, 0, c, F)
    BY <2>1 DEF Walked
  <2> QED  BY <2>1, <2>2
<1>2. ASSUME NEW n \in Nat, n \in Some
      PROVE  n + 1 \in Some
  <2> SUFFICES ASSUME n + 1 <= N
               PROVE  \E g \in [0..(n + 1) -> S] : Walked(g, n + 1, c, F)
    OBVIOUS
  <2>1. PICK h \in [0..n -> S] : Walked(h, n, c, F)
    BY <1>2
  <2> DEFINE last == F[<<n + 1, h[n]>>]
             g == [i \in 0..(n + 1) |-> IF i = n + 1 THEN last ELSE h[i]]
  <2>2. last \in S
    OBVIOUS
  <2>3. \A i \in 0..n : i \in 0..(n + 1) /\ i # n + 1
    OBVIOUS
  <2>4. g \in [0..(n + 1) -> S]
    <3>1. \A i \in 0..(n + 1) : i # n + 1 => i \in 0..n
      OBVIOUS
    <3> HIDE DEF last
    <3> QED  BY <2>2, <3>1
  <2>5. g[n + 1] = last /\ \A i \in 0..n : g[i] = h[i]
    BY <2>3
  <2> HIDE DEF g
  <2>6. ASSUME NEW m \in 1..(n + 1)
        PROVE  g[m] = F[<<m, g[m - 1]>>]
    <3>1. CASE m = n + 1
      <4>1. m - 1 = n /\ n \in 0..n
        BY <3>1
      <4> QED  BY <3>1, <4>1, <2>5
    <3>2. CASE m # n + 1
      <4>1. m \in 1..n /\ m \in 0..n /\ m - 1 \in 0..n
        BY <3>2
      <4> QED  BY <4>1, <2>1, <2>5 DEF Walked
    <3> QED  BY <3>1, <3>2
  <2>7. g[0] = c
    <3>1. 0 \in 0..n
      OBVIOUS
    <3> QED  BY <3>1, <2>1, <2>5 DEF Walked
  <2> QED  BY <2>4, <2>6, <2>7 DEF Walked
<1> HIDE DEF Some
<1>3. N \in Some
  BY <1>1, <1>2, SetInduction
<1> QED  BY <1>3 DEF Some

\* What a recursion over a finite set computes that takes one element after the other, the
\* one pick says, as the folds of sets and sequences do.
Folded(g, S, c, pick, F) ==
  \A T \in SUBSET S : g[T] = IF T = {} THEN c ELSE F[<<pick[T], g[T \ {pick[T]}]>>]

\* Every such recursion has its values.
LEMMA FoldExists ==
  ASSUME NEW S, IsFiniteSet(S), NEW V, NEW c \in V, NEW pick,
         \A T \in SUBSET S : T # {} => pick[T] \in T,
         NEW F \in [S \X V -> V]
  PROVE  \E g \in [SUBSET S -> V] : Folded(g, S, c, pick, F)
<1> DEFINE Small(n) == {T \in SUBSET S : Cardinality(T) <= n}
           Eq(g, n) == \A T \in Small(n) :
                         g[T] = IF T = {} THEN c ELSE F[<<pick[T], g[T \ {pick[T]}]>>]
           Some == {n \in Nat : \E g \in [Small(n) -> V] : Eq(g, n)}
<1>0. \A T \in SUBSET S : IsFiniteSet(T) /\ Cardinality(T) \in Nat /\ (Cardinality(T) = 0 <=> T = {})
  BY FS_Subset, FS_CardinalityType, FS_EmptySet
<1>1. \A T \in SUBSET S : T # {} => /\ pick[T] \in S /\ T \ {pick[T]} \in SUBSET S
                                    /\ Cardinality(T \ {pick[T]}) = Cardinality(T) - 1
  <2> SUFFICES ASSUME NEW T \in SUBSET S, T # {}
               PROVE  /\ pick[T] \in S /\ T \ {pick[T]} \in SUBSET S
                      /\ Cardinality(T \ {pick[T]}) = Cardinality(T) - 1
    OBVIOUS
  <2>1. pick[T] \in T /\ IsFiniteSet(T)
    BY <1>0
  <2> QED  BY <2>1, FS_RemoveElement
<1>2. 0 \in Some
  <2> DEFINE g == [T \in Small(0) |-> c]
  <2>1. \A T \in Small(0) : T = {}
    BY <1>0
  <2>2. g \in [Small(0) -> V] /\ Eq(g, 0)
    BY <2>1
  <2> QED  BY <2>2
<1>3. ASSUME NEW n \in Nat, n \in Some
      PROVE  n + 1 \in Some
  <2>1. PICK g \in [Small(n) -> V] : Eq(g, n)
    BY <1>3
  <2>2. \A T \in Small(n + 1) : T # {} => T \ {pick[T]} \in Small(n) /\ pick[T] \in S
    BY <1>0, <1>1
  <2>3. \A T \in Small(n) : T \in Small(n + 1)
    BY <1>0
  <2> HIDE DEF Small
  <2> DEFINE h == [T \in Small(n + 1) |-> IF T = {} THEN c ELSE F[<<pick[T], g[T \ {pick[T]}]>>]]
  <2>4. \A T \in Small(n) : h[T] = g[T]
    BY <2>1, <2>3
  <2>5. h \in [Small(n + 1) -> V]
    <3>1. \A T \in Small(n + 1) : T # {} => <<pick[T], g[T \ {pick[T]}]>> \in S \X V
      BY <2>2
    <3> QED  BY <3>1
  <2>6. Eq(h, n + 1)
    BY <2>2, <2>4
  <2> HIDE DEF h, Eq
  <2> QED  BY <2>5, <2>6
<1> DEFINE N == Cardinality(S)
<1>4. N \in Nat /\ Small(N) = SUBSET S
  BY <1>0, FS_CardinalityType, FS_Subset
<1> HIDE DEF Some, N
<1>5. N \in Some
  BY <1>2, <1>3, <1>4, SetInduction
<1>6. PICK g \in [Small(N) -> V] : Eq(g, N)
  BY <1>5 DEF Some
<1> QED  BY <1>4, <1>6 DEF Folded

\* A fold of a sequence from the left takes its last element last.
LEMMA MaxOfInterval ==
  \A n \in Nat \ {0} : /\ Max(1..n) = n /\ n \in 1..n /\ 1..n # {}
                       /\ (1..n) \ {n} = 1..(n - 1) /\ n - 1 \in Nat
<1> SUFFICES ASSUME NEW n \in Nat \ {0}
             PROVE  /\ Max(1..n) = n /\ n \in 1..n /\ 1..n # {}
                    /\ (1..n) \ {n} = 1..(n - 1) /\ n - 1 \in Nat
  OBVIOUS
<1>1. n \in 1..n /\ \A y \in 1..n : n >= y
  OBVIOUS
<1>2. \A x \in 1..n : (\A y \in 1..n : x >= y) => x = n
  BY <1>1
<1>3. Max(1..n) = n
  BY <1>1, <1>2 DEF Max
<1> QED  BY <1>1, <1>3

LEMMA MaxIsIn ==
  ASSUME NEW N \in Nat, NEW T \in SUBSET (1..N), T # {}
  PROVE  Max(T) \in T
<1>1. T \in SUBSET Nat /\ \A n \in T : n <= N
  OBVIOUS
<1>2. \E n \in T : \A m \in T : m <= n
  BY <1>1, GreatestNatural
<1>3. \A n, m \in T : m <= n <=> n >= m
  BY <1>1
<1> QED  BY <1>2, <1>3 DEF Max

\* So the recursion behind FoldLeft exists, and its values on 1..n are a walk.
LastFirst(N) == [T \in SUBSET (1..N) |-> Max(T)]

LastTaken(g, N, c, F) ==
  \A T \in SUBSET (1..N) : g[T] = IF T = {} THEN c ELSE F[<<Max(T), g[T \ {Max(T)}]>>]

LEMMA SequenceFoldExists ==
  ASSUME NEW N \in Nat, NEW V, NEW c \in V, NEW F \in [(1..N) \X V -> V]
  PROVE  \E g \in [SUBSET (1..N) -> V] : LastTaken(g, N, c, F)
<1>1. IsFiniteSet(1..N)
  BY FS_Interval
<1>2. \A T \in SUBSET (1..N) : LastFirst(N)[T] = Max(T)
  BY DEF LastFirst
<1>3. \A T \in SUBSET (1..N) : T # {} => LastFirst(N)[T] \in T
  BY <1>2, MaxIsIn
<1>4. PICK g \in [SUBSET (1..N) -> V] : Folded(g, 1..N, c, LastFirst(N), F)
  BY <1>1, <1>3, FoldExists
<1>5. ASSUME NEW T \in SUBSET (1..N)
      PROVE  g[T] = IF T = {} THEN c ELSE F[<<Max(T), g[T \ {Max(T)}]>>]
  <2>1. g[T] = IF T = {} THEN c ELSE F[<<LastFirst(N)[T], g[T \ {LastFirst(N)[T]}]>>]
    BY <1>4 DEF Folded
  <2>2. LastFirst(N)[T] = Max(T)
    BY <1>2
  <2> QED  BY <2>1, <2>2, Zenon
<1>6. LastTaken(g, N, c, F)
  BY <1>5, Zenon DEF LastTaken
<1> QED  BY <1>4, <1>6, Zenon

\* And whatever satisfies the equations of the fold, as far as they are known, is such a walk.
TakenWithin(k, N, V, c, F) ==
  /\ k[{}] = c
  /\ \A T \in SUBSET (1..N) : T # {} /\ k[T \ {Max(T)}] \in V =>
       k[T] = F[<<Max(T), k[T \ {Max(T)}]>>]

WalkFold(k, N, V, c, F) ==
  N \in Nat /\ c \in V /\ F \in [(1..N) \X V -> V] /\ TakenWithin(k, N, V, c, F)

HasWalk(k, N, V, c, F) == \E h \in [0..N -> V] : Walked(h, N, c, F) /\ k[1..N] = h[N]

LEMMA FoldWalks ==
  ASSUME NEW N, NEW V, NEW c, NEW F, NEW k, WalkFold(k, N, V, c, F)
  PROVE  HasWalk(k, N, V, c, F)
<1> SUFFICES ASSUME N \in Nat, c \in V, F \in [(1..N) \X V -> V], TakenWithin(k, N, V, c, F)
             PROVE  \E h \in [0..N -> V] : Walked(h, N, c, F) /\ k[1..N] = h[N]
  BY DEF WalkFold, HasWalk
<1>0. /\ k[{}] = c
      /\ \A T \in SUBSET (1..N) : T # {} /\ k[T \ {Max(T)}] \in V =>
           k[T] = F[<<Max(T), k[T \ {Max(T)}]>>]
  BY DEF TakenWithin
<1> DEFINE h == [n \in 0..N |-> k[1..n]]
           In == {n \in Nat : n <= N => h[n] \in V}
<1>1. h[0] = c
  <2>1. 1..0 = {} /\ 0 \in 0..N
    OBVIOUS
  <2> QED  BY <1>0, <2>1
<1>2. ASSUME NEW n \in 1..N, h[n - 1] \in V
      PROVE  h[n] = F[<<n, h[n - 1]>>]
  <2>1. n \in Nat \ {0} /\ n \in 0..N /\ n - 1 \in 0..N /\ 1..n \in SUBSET (1..N)
    OBVIOUS
  <2>2. Max(1..n) = n /\ 1..n # {} /\ (1..n) \ {n} = 1..(n - 1)
    BY <2>1, MaxOfInterval
  <2>3. k[(1..n) \ {Max(1..n)}] \in V
    BY <1>2, <2>1, <2>2
  <2>4. k[1..n] = F[<<n, k[1..(n - 1)]>>]
    BY <1>0, <2>1, <2>2, <2>3
  <2> QED  BY <2>1, <2>4
<1>3. h[N] = k[1..N] /\ h = [n \in 0..N |-> h[n]]
  OBVIOUS
<1> HIDE DEF h
<1>4. 0 \in In
  BY <1>1
<1>5. ASSUME NEW n \in Nat, n \in In
      PROVE  n + 1 \in In
  <2> SUFFICES ASSUME n + 1 <= N
               PROVE  h[n + 1] \in V
    OBVIOUS
  <2>1. n + 1 \in 1..N /\ n <= N /\ (n + 1) - 1 = n /\ h[n] \in V
    BY <1>5
  <2>2. h[n + 1] = F[<<n + 1, h[n]>>]
    BY <1>2, <2>1
  <2> QED  BY <2>1, <2>2
<1> HIDE DEF In
<1>6. Nat \subseteq In
  BY <1>4, <1>5, SetInduction
<1>7. \A n \in 0..N : h[n] \in V
  BY <1>6 DEF In
<1>8. h \in [0..N -> V]
  BY <1>3, <1>7
<1>9. \A n \in 1..N : h[n] = F[<<n, h[n - 1]>>]
  <2>1. \A n \in 1..N : n - 1 \in 0..N
    OBVIOUS
  <2> QED  BY <1>2, <1>7, <2>1
<1> QED  BY <1>1, <1>3, <1>8, <1>9 DEF Walked
=============================================================================
