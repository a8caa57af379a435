--------------------------- MODULE PassagesProofs ---------------------------
(***************************************************************************)
(* What chunk_text keeps of a text, whatever the text, the cap and the     *)
(* mode: nothing is left out, the passages follow the text, none exceeds   *)
(* the cap, and one cut out of a turn says who is talking; and that what   *)
(* is stored of a document is that, whatever was forgotten or purged.      *)
(* A loop of the code is a fold, and a fold a walk that one function takes *)
(* step by step (FoldWalks); each part below says what a step keeps of     *)
(* what was packed so far, then walks.                                     *)
(***************************************************************************)
EXTENDS Passages, SequenceTheorems, Iteration

-----------------------------------------------------------------------------
(* Passages: a text in positions.  Its lines follow each other one apart,   *)
(* its paragraphs two.                                                      *)

Heads == STRING \cup {NoHead}
Interval == [from : Nat, to : Nat, head : Heads]
Piece == [from : Nat, to : Nat, says : Heads]
PackState == [chunks : Seq(Seq(Piece)), buf : Seq(Piece), size : Int]

\* Lines as intervals, none of them empty, each right after the one before.
IsPlaced(lines) ==
  /\ lines \in Seq(Interval) /\ lines # <<>>
  /\ \A i \in DOMAIN lines : lines[i].from < lines[i].to
  /\ \A i \in 2..Len(lines) : lines[i].from = lines[i - 1].to + 1

IsStarting(at, start, lines) ==
  at = [i \in 0..Len(lines) |-> IF i = 0 THEN start ELSE at[i - 1] + lines[i].len + 1]

LEMMA StartingIs ==
  ASSUME NEW start \in Nat, NEW lines \in Seq(TextLine)
  PROVE  /\ Starting(start, lines) \in [0..Len(lines) -> Nat]
         /\ Starting(start, lines)[0] = start
         /\ \A i \in 1..Len(lines) :
              Starting(start, lines)[i] = Starting(start, lines)[i - 1] + lines[i].len + 1
<1> DEFINE N == Len(lines)
           F == [k \in (1..N) \X Nat |-> k[2] + lines[k[1]].len + 1]
           S == Starting(start, lines)
<1>1. N \in Nat /\ \A i \in 1..N : lines[i] \in TextLine /\ lines[i].len \in Nat
  <2>1. N \in Nat /\ \A i \in 1..N : lines[i] \in TextLine
    OBVIOUS
  <2> QED  BY <2>1 DEF TextLine
<1> HIDE DEF N
<1>2. F \in [(1..N) \X Nat -> Nat] /\ \A i \in 1..N, n \in Nat : F[<<i, n>>] = n + lines[i].len + 1
  BY <1>1
<1> HIDE DEF F
<1>3. PICK g \in [0..N -> Nat] : Walked(g, N, start, F)
  BY <1>1, <1>2, WalkExists
<1>4. IsStarting(g, start, lines)
  <2>1. g[0] = start /\ \A i \in 1..N : g[i] = g[i - 1] + lines[i].len + 1
    <3>1. \A i \in 1..N : g[i - 1] \in Nat
      BY <1>1
    <3> QED  BY <1>2, <1>3, <3>1 DEF Walked
  <2>2. \A i \in 0..N : i = 0 \/ i \in 1..N
    BY <1>1
  <2>3. g = [i \in 0..N |-> g[i]]
    OBVIOUS
  <2>4. g = [i \in 0..N |-> IF i = 0 THEN start ELSE g[i - 1] + lines[i].len + 1]
    BY <2>1, <2>2, <2>3
  <2> QED  BY <2>4 DEF IsStarting, N
<1>5. S = CHOOSE at : IsStarting(at, start, lines)
  BY DEF Starting, IsStarting
<1>6. IsStarting(S, start, lines)
  BY <1>4, <1>5
<1> HIDE DEF S
<1>7. /\ DOMAIN S = 0..N /\ S[0] = start
      /\ \A i \in 1..N : S[i] = S[i - 1] + lines[i].len + 1
  <2>1. S = [i \in 0..N |-> IF i = 0 THEN start ELSE S[i - 1] + lines[i].len + 1]
    BY <1>6 DEF IsStarting, N
  <2>2. 0 \in 0..N /\ \A i \in 1..N : i \in 0..N /\ i # 0
    BY <1>1
  <2> QED  BY <2>1, <2>2
<1> DEFINE In == {i \in Nat : i <= N => S[i] \in Nat}
<1>8. 0 \in In
  BY <1>7
<1>9. ASSUME NEW i \in Nat, i \in In
      PROVE  i + 1 \in In
  <2> SUFFICES ASSUME i + 1 <= N
               PROVE  S[i + 1] \in Nat
    OBVIOUS
  <2>1. i + 1 \in 1..N /\ i <= N /\ (i + 1) - 1 = i /\ S[i] \in Nat
    BY <1>1, <1>9
  <2>2. S[i + 1] = S[i] + lines[i + 1].len + 1 /\ lines[i + 1].len \in Nat
    BY <1>1, <1>7, <2>1
  <2> QED  BY <2>1, <2>2
<1> HIDE DEF In
<1>10. \A i \in 0..N : S[i] \in Nat
  <2>1. Nat \subseteq In
    BY <1>8, <1>9, SetInduction
  <2> QED  BY <2>1 DEF In
<1>11. S = [i \in 0..N |-> S[i]]
  <2>1. S = [i \in 0..N |-> IF i = 0 THEN start ELSE S[i - 1] + lines[i].len + 1]
    BY <1>6 DEF IsStarting, N
  <2> QED  BY <2>1
<1>12. S \in [0..N -> Nat]
  BY <1>10, <1>11
<1> QED  BY <1>7, <1>12 DEF S, N

LEMMA PlacedLines ==
  ASSUME NEW start \in Nat, NEW lines \in Seq(TextLine), lines # <<>>
  PROVE  /\ IsPlaced(Placed(start, lines)) /\ Len(Placed(start, lines)) = Len(lines)
         /\ Placed(start, lines)[1].from = start
         /\ Placed(start, lines)[Len(lines)].to + 2 = Starting(start, lines)[Len(lines)] + 1
         /\ Starting(start, lines)[Len(lines)] \in Nat
<1> DEFINE N == Len(lines)
           S == Starting(start, lines)
           P == Placed(start, lines)
<1>1. N \in Nat \ {0} /\ DOMAIN lines = 1..N
      /\ \A i \in 1..N : lines[i].len \in Nat \ {0} /\ lines[i].head \in Heads
  <2>1. \A i \in 1..N : lines[i] \in TextLine
    OBVIOUS
  <2> QED  BY <2>1 DEF TextLine, Heads
<1>2. /\ S \in [0..N -> Nat] /\ S[0] = start
      /\ \A i \in 1..N : S[i] = S[i - 1] + lines[i].len + 1
  BY StartingIs
<1>3. P = [i \in 1..N |-> [from |-> S[i - 1], to |-> S[i] - 1, head |-> lines[i].head]]
  BY <1>1 DEF Placed
<1> HIDE DEF N, S, P
<1>4. \A i \in 1..N : S[i] \in Nat /\ S[i - 1] \in Nat /\ S[i] >= S[i - 1] + 2
  <2> SUFFICES ASSUME NEW i \in 1..N
               PROVE  S[i] \in Nat /\ S[i - 1] \in Nat /\ S[i] >= S[i - 1] + 2
    OBVIOUS
  <2>1. i \in 0..N /\ i - 1 \in 0..N
    BY <1>1
  <2>2. S[i] \in Nat /\ S[i - 1] \in Nat /\ lines[i].len \in Nat \ {0}
        /\ S[i] = S[i - 1] + lines[i].len + 1
    BY <1>1, <1>2, <2>1
  <2> QED  BY <2>2
<1>5. \A i \in 1..N : /\ P[i].from = S[i - 1] /\ P[i].to = S[i] - 1 /\ P[i] \in Interval
  BY <1>1, <1>3, <1>4 DEF Interval
<1>6. P \in Seq(Interval) /\ Len(P) = N /\ DOMAIN P = 1..N
  BY <1>1, <1>3, <1>5
<1>7. \A i \in 1..N : P[i].from < P[i].to
  BY <1>4, <1>5
<1>8. \A i \in 2..N : P[i].from = P[i - 1].to + 1
  <2> SUFFICES ASSUME NEW i \in 2..N
               PROVE  P[i].from = P[i - 1].to + 1
    OBVIOUS
  <2>1. i \in 1..N /\ i - 1 \in 1..N
    BY <1>1
  <2>2. P[i].from = S[i - 1] /\ P[i - 1].to = S[i - 1] - 1 /\ S[i - 1] \in Nat
    BY <1>4, <1>5, <2>1
  <2> QED  BY <2>2
<1>9. P # <<>>
  BY <1>1, <1>6
<1>10. IsPlaced(P)
  BY <1>6, <1>7, <1>8, <1>9 DEF IsPlaced
<1>11. P[1].from = start /\ P[N].to + 2 = S[N] + 1 /\ S[N] \in Nat
  <2>1. 1 \in 1..N /\ N \in 1..N
    BY <1>1
  <2>2. P[1].from = S[1 - 1] /\ 1 - 1 = 0 /\ P[N].to = S[N] - 1 /\ S[N] \in Nat
    BY <1>4, <1>5, <2>1
  <2> QED  BY <1>2, <2>2
<1> QED  BY <1>6, <1>10, <1>11 DEF N, S, P

IsOpening(at, content) ==
  at = [p \in 0..Len(content) |->
          IF p = 0 THEN 0 ELSE Starting(at[p - 1], content[p])[Len(content[p])] + 1]

Text == Seq(Seq(TextLine) \ {<<>>})

LEMMA OpeningIs ==
  ASSUME NEW content \in Text
  PROVE  /\ Opening(content) \in [0..Len(content) -> Nat]
         /\ Opening(content)[0] = 0
         /\ \A p \in 1..Len(content) :
              Opening(content)[p] = Starting(Opening(content)[p - 1], content[p])[Len(content[p])] + 1
<1> DEFINE N == Len(content)
           F == [k \in (1..N) \X Nat |-> Starting(k[2], content[k[1]])[Len(content[k[1]])] + 1]
           S == Opening(content)
<1>1. N \in Nat /\ \A p \in 1..N : content[p] \in Seq(TextLine)
  BY DEF Text
<1> HIDE DEF N
<1>2. \A p \in 1..N, n \in Nat : Starting(n, content[p])[Len(content[p])] + 1 \in Nat
  <2> SUFFICES ASSUME NEW p \in 1..N, NEW n \in Nat
               PROVE  Starting(n, content[p])[Len(content[p])] + 1 \in Nat
    OBVIOUS
  <2>1. Starting(n, content[p]) \in [0..Len(content[p]) -> Nat]
    BY <1>1, StartingIs
  <2>2. Len(content[p]) \in 0..Len(content[p])
    <3>1. Len(content[p]) \in Nat
      BY <1>1
    <3> QED  BY <3>1
  <2>3. Starting(n, content[p])[Len(content[p])] \in Nat
    BY <2>1, <2>2
  <2> QED  BY <2>3
<1>3. /\ F \in [(1..N) \X Nat -> Nat]
      /\ \A p \in 1..N, n \in Nat : F[<<p, n>>] = Starting(n, content[p])[Len(content[p])] + 1
  BY <1>2
<1> HIDE DEF F
<1>4. PICK g \in [0..N -> Nat] : Walked(g, N, 0, F)
  BY <1>1, <1>3, WalkExists
<1>5. IsOpening(g, content)
  <2>1. g[0] = 0 /\ \A p \in 1..N : g[p] = Starting(g[p - 1], content[p])[Len(content[p])] + 1
    <3>1. \A p \in 1..N : g[p - 1] \in Nat
      BY <1>1
    <3> QED  BY <1>3, <1>4, <3>1 DEF Walked
  <2>2. \A p \in 0..N : p = 0 \/ p \in 1..N
    BY <1>1
  <2>3. g = [p \in 0..N |-> g[p]]
    OBVIOUS
  <2>4. g = [p \in 0..N |-> IF p = 0 THEN 0 ELSE Starting(g[p - 1], content[p])[Len(content[p])] + 1]
    BY <2>1, <2>2, <2>3
  <2> QED  BY <2>4 DEF IsOpening, N
<1>6. S = CHOOSE at : IsOpening(at, content)
  BY DEF Opening, IsOpening
<1>7. IsOpening(S, content)
  BY <1>5, <1>6
<1> HIDE DEF S
<1>8. S = [p \in 0..N |-> IF p = 0 THEN 0 ELSE Starting(S[p - 1], content[p])[Len(content[p])] + 1]
  BY <1>7 DEF IsOpening, N
<1>9. /\ DOMAIN S = 0..N /\ S[0] = 0
      /\ \A p \in 1..N : S[p] = Starting(S[p - 1], content[p])[Len(content[p])] + 1
  <2>1. 0 \in 0..N /\ \A p \in 1..N : p \in 0..N /\ p # 0
    BY <1>1
  <2> QED  BY <1>8, <2>1
<1> DEFINE In == {p \in Nat : p <= N => S[p] \in Nat}
<1>10. 0 \in In
  BY <1>9
<1>11. ASSUME NEW p \in Nat, p \in In
       PROVE  p + 1 \in In
  <2> SUFFICES ASSUME p + 1 <= N
               PROVE  S[p + 1] \in Nat
    OBVIOUS
  <2>1. p + 1 \in 1..N /\ p <= N /\ (p + 1) - 1 = p /\ S[p] \in Nat
    BY <1>1, <1>11
  <2> QED  BY <1>2, <1>9, <2>1
<1> HIDE DEF In
<1>12. \A p \in 0..N : S[p] \in Nat
  <2>1. Nat \subseteq In
    BY <1>10, <1>11, SetInduction
  <2> QED  BY <2>1 DEF In
<1>13. S = [p \in 0..N |-> S[p]]
  BY <1>8
<1>14. S \in [0..N -> Nat]
  BY <1>12, <1>13
<1> QED  BY <1>9, <1>14 DEF S, N

\* The paragraphs of a text: lines placed one after the other, two apart.
LEMMA PlacementIs ==
  ASSUME NEW content \in Text
  PROVE  /\ Len(Placement(content)) = Len(content) /\ Placement(content) \in Seq(Seq(Interval))
         /\ DOMAIN Placement(content) = DOMAIN content
         /\ \A p \in DOMAIN content : /\ IsPlaced(Placement(content)[p])
                                      /\ Len(Placement(content)[p]) = Len(content[p])
                                      /\ DOMAIN Placement(content)[p] = DOMAIN content[p]
         /\ \A p \in 2..Len(content) :
              Placement(content)[p][1].from
                = Placement(content)[p - 1][Len(Placement(content)[p - 1])].to + 2
<1> DEFINE N == Len(content)
           S == Opening(content)
           P == Placement(content)
<1>1. /\ N \in Nat /\ DOMAIN content = 1..N
      /\ \A p \in 1..N : content[p] \in Seq(TextLine) /\ content[p] # <<>>
  BY DEF Text
<1>2. /\ S \in [0..N -> Nat] /\ S[0] = 0
      /\ \A p \in 1..N : S[p] = Starting(S[p - 1], content[p])[Len(content[p])] + 1
  BY OpeningIs
<1>3. P = [p \in 1..N |-> Placed(S[p - 1], content[p])]
  BY <1>1 DEF Placement
<1> HIDE DEF N, S, P
<1>4. \A p \in 1..N : /\ IsPlaced(P[p]) /\ Len(P[p]) = Len(content[p]) /\ P[p][1].from = S[p - 1]
                      /\ P[p][Len(content[p])].to + 2 = S[p]
  <2> SUFFICES ASSUME NEW p \in 1..N
               PROVE  /\ IsPlaced(P[p]) /\ Len(P[p]) = Len(content[p]) /\ P[p][1].from = S[p - 1]
                      /\ P[p][Len(content[p])].to + 2 = S[p]
    OBVIOUS
  <2>1. p - 1 \in 0..N
    BY <1>1
  <2>2. S[p - 1] \in Nat /\ P[p] = Placed(S[p - 1], content[p])
    BY <1>2, <1>3, <2>1
  <2>3. content[p] \in Seq(TextLine) /\ content[p] # <<>>
    BY <1>1
  <2>4. S[p] = Starting(S[p - 1], content[p])[Len(content[p])] + 1
    BY <1>2
  <2> QED  BY <2>2, <2>3, <2>4, PlacedLines
<1>5. P \in Seq(Seq(Interval)) /\ Len(P) = N /\ DOMAIN P = 1..N
  BY <1>1, <1>3, <1>4 DEF IsPlaced
<1>6. \A p \in 1..N : DOMAIN P[p] = DOMAIN content[p]
  <2> SUFFICES ASSUME NEW p \in 1..N
               PROVE  DOMAIN P[p] = DOMAIN content[p]
    OBVIOUS
  <2>1. P[p] \in Seq(Interval) /\ content[p] \in Seq(TextLine) /\ Len(P[p]) = Len(content[p])
    BY <1>1, <1>4 DEF IsPlaced
  <2> QED  BY <2>1
<1>7. \A p \in 2..N : P[p][1].from = P[p - 1][Len(P[p - 1])].to + 2
  <2>1. \A p \in 2..N : p \in 1..N /\ p - 1 \in 1..N
    BY <1>1
  <2> QED  BY <1>4, <2>1
<1> QED  BY <1>1, <1>4, <1>5, <1>6, <1>7 DEF N, P

-----------------------------------------------------------------------------
(* Passages: intervals in order, and a text cut every so many characters.   *)

LEMMA Ordered ==
  ASSUME NEW N \in Nat, NEW a \in [1..N -> Nat], NEW b \in [1..N -> Nat],
         \A i \in 1..N : a[i] <= b[i], \A i \in 2..N : b[i - 1] <= a[i]
  PROVE  \A i, j \in 1..N : i < j => b[i] <= a[j]
<1> DEFINE D == {d \in Nat : \A i \in 1..N : i + d + 1 <= N => b[i] <= a[i + d + 1]}
<1>1. 0 \in D
  <2> SUFFICES ASSUME NEW i \in 1..N, i + 1 <= N
               PROVE  b[i] <= a[i + 1]
    OBVIOUS
  <2>1. i + 1 \in 2..N /\ (i + 1) - 1 = i
    OBVIOUS
  <2> QED  BY <2>1
<1>2. ASSUME NEW d \in Nat, d \in D
      PROVE  d + 1 \in D
  <2> SUFFICES ASSUME NEW i \in 1..N, i + (d + 1) + 1 <= N
               PROVE  b[i] <= a[i + (d + 1) + 1]
    OBVIOUS
  <2> DEFINE m == i + d + 1
  <2>1. m \in 1..N /\ m + 1 \in 2..N /\ (m + 1) - 1 = m /\ m + 1 \in 1..N /\ i + (d + 1) + 1 = m + 1
    OBVIOUS
  <2>2. b[i] <= a[m]
    BY <1>2, <2>1
  <2> HIDE DEF m
  <2>3. a[m] <= b[m] /\ b[m] <= a[m + 1]
    BY <2>1
  <2>4. b[i] \in Nat /\ a[m] \in Nat /\ b[m] \in Nat /\ a[m + 1] \in Nat
    BY <2>1
  <2>5. b[i] <= a[m + 1]
    <3>1. \A w, x, y, z \in Nat : w <= x /\ x <= y /\ y <= z => w <= z
      OBVIOUS
    <3> QED  BY Zenon, <2>2, <2>3, <2>4, <3>1
  <2> QED  BY <2>1, <2>5
<1> HIDE DEF D
<1>3. Nat \subseteq D
  BY <1>1, <1>2, SetInduction
<1> SUFFICES ASSUME NEW i \in 1..N, NEW j \in 1..N, i < j
             PROVE  b[i] <= a[j]
  OBVIOUS
<1>4. j - i - 1 \in Nat /\ i + (j - i - 1) + 1 = j
  OBVIOUS
<1>5. j - i - 1 \in D
  BY <1>3, <1>4
<1> QED  BY <1>4, <1>5 DEF D

LEMMA Contiguous ==
  ASSUME NEW N \in Nat \ {0}, NEW a \in [1..N -> Nat], NEW b \in [1..N -> Nat],
         \A i \in 2..N : b[i - 1] = a[i],
         NEW at \in Nat, a[1] <= at, at < b[N]
  PROVE  \E i \in 1..N : a[i] <= at /\ at < b[i]
<1> DEFINE S == {i \in 1..N : a[i] <= at}
<1>1. 1 \in S /\ S \in SUBSET Nat /\ \A i \in S : i <= N
  OBVIOUS
<1>2. PICK i \in S : \A j \in S : j <= i
  BY <1>1, GreatestNatural
<1>3. CASE i = N
  BY <1>3
<1>4. CASE i # N
  <2>1. i + 1 \in 2..N /\ i + 1 \in 1..N /\ (i + 1) - 1 = i /\ i + 1 > i
    BY <1>4
  <2>2. i + 1 \notin S
    BY <1>2, <2>1
  <2>3. b[i] = a[i + 1] /\ a[i + 1] > at /\ a[i] <= at
    BY <2>1, <2>2
  <2> QED  BY <2>3
<1> QED  BY <1>3, <1>4

LEMMA Division ==
  ASSUME NEW n \in Nat \ {0}, NEW r \in Nat \ {0}
  PROVE  LET m == (n + r - 1) \div r
         IN m \in Nat \ {0} /\ (m - 1) * r < n /\ n <= m * r
OBVIOUS

LEMMA IsSequence ==
  ASSUME NEW S, NEW N \in Nat, NEW f \in [1..N -> S]
  PROVE  f \in Seq(S) /\ Len(f) = N /\ DOMAIN f = 1..N
OBVIOUS

\* The cuts of a text: none empty or longer than the room, one after the other, over all of it.
AreCuts(cuts, N, from, to, room) ==
  /\ cuts \in Seq([from : Nat, to : Nat]) /\ Len(cuts) = N /\ DOMAIN cuts = 1..N
  /\ cuts[1].from = from /\ cuts[N].to = to
  /\ \A k \in 1..N : /\ cuts[k] \in [from : Nat, to : Nat]
                     /\ cuts[k].from < cuts[k].to /\ cuts[k].to <= cuts[k].from + room
                     /\ from <= cuts[k].from /\ cuts[k].to <= to
  /\ \A k \in 2..N : cuts[k].from = cuts[k - 1].to

LEMMA CutEveryIs ==
  ASSUME NEW from \in Nat, NEW to \in Nat, from < to, NEW room \in Nat \ {0}
  PROVE  \E N \in Nat \ {0} : AreCuts(CutEvery(from, to, room), N, from, to, room)
<1> DEFINE N == (to - from + room - 1) \div room
           C == CutEvery(from, to, room)
<1>1. /\ N \in Nat \ {0} /\ (N - 1) * room < to - from /\ to - from <= N * room
  <2>1. to - from \in Nat \ {0}
    OBVIOUS
  <2> QED  BY <2>1, Division
<1>2. C = [k \in 1..N |-> [from |-> from + (k - 1) * room,
                           to |-> IF from + k * room > to THEN to ELSE from + k * room]]
  BY DEF CutEvery
<1> HIDE DEF N, C
<1>3. \A k \in 1..N : /\ (k - 1) * room \in Nat /\ k * room \in Nat
                      /\ k * room = (k - 1) * room + room
                      /\ (k - 1) * room <= (N - 1) * room
                      /\ k # N => k * room <= (N - 1) * room
  <2> SUFFICES ASSUME NEW k \in 1..N
               PROVE  /\ (k - 1) * room \in Nat /\ k * room \in Nat
                      /\ k * room = (k - 1) * room + room
                      /\ (k - 1) * room <= (N - 1) * room
                      /\ k # N => k * room <= (N - 1) * room
    OBVIOUS
  <2>1. k \in Nat \ {0} /\ k - 1 \in Nat /\ N - k \in Nat /\ N - 1 \in Nat
    BY <1>1
  <2>2. (k - 1) * room \in Nat /\ k * room \in Nat /\ k * room = (k - 1) * room + room
    BY <2>1
  <2>3. (N - k) * room \in Nat /\ (N - 1) * room = (k - 1) * room + (N - k) * room
    BY <1>1, <2>1
  <2>4. (k - 1) * room <= (N - 1) * room
    BY <2>2, <2>3
  <2>5. ASSUME k # N
        PROVE  k * room <= (N - 1) * room
    <3>1. N - k - 1 \in Nat
      BY <1>1, <2>5
    <3>2. (N - k - 1) * room \in Nat /\ (N - 1) * room = k * room + (N - k - 1) * room
      BY <1>1, <2>1, <3>1
    <3> QED  BY <2>2, <3>2
  <2> QED  BY <2>2, <2>4, <2>5
<1> DEFINE M == [k \in 1..N |-> (k - 1) * room]
<1>4. \A k \in 1..N : /\ C[k].from = from + M[k]
                      /\ C[k].to = IF from + M[k] + room > to THEN to ELSE from + M[k] + room
                      /\ M[k] \in Nat /\ M[k] < to - from
                      /\ k # N => M[k] + room < to - from /\ M[k + 1] = M[k] + room
  <2> SUFFICES ASSUME NEW k \in 1..N
               PROVE  /\ C[k].from = from + M[k]
                      /\ C[k].to = IF from + M[k] + room > to THEN to ELSE from + M[k] + room
                      /\ M[k] \in Nat /\ M[k] < to - from
                      /\ k # N => M[k] + room < to - from /\ M[k + 1] = M[k] + room
    OBVIOUS
  <2>1. C[k].from = from + (k - 1) * room
        /\ C[k].to = IF from + k * room > to THEN to ELSE from + k * room
    BY <1>2
  <2>2. (N - 1) * room \in Nat
    BY <1>1
  <2>3. M[k] = (k - 1) * room /\ k * room = M[k] + room
    BY <1>3
  <2>4. M[k] \in Nat /\ M[k] < to - from
    BY <1>1, <1>3, <2>2
  <2>5. ASSUME k # N
        PROVE  M[k] + room < to - from /\ M[k + 1] = M[k] + room
    <3>1. k + 1 \in 1..N /\ (k + 1) - 1 = k
      BY <1>1, <2>5
    <3>2. M[k + 1] = k * room
      BY <3>1
    <3>3. (N - 1) * room < to - from /\ k * room <= (N - 1) * room /\ k * room \in Nat
      BY <1>1, <1>3, <2>5
    <3> DEFINE upto == k * room
               last == (N - 1) * room
    <3>4. upto < to - from
      <4>1. upto <= last /\ last < to - from /\ upto \in Nat /\ last \in Nat
        BY <2>2, <3>3
      <4> HIDE DEF upto, last
      <4> QED  BY <4>1
    <3> QED  BY <2>3, <3>2, <3>4
  <2>6. from + k * room = from + M[k] + room
    BY <2>3, <2>4
  <2> QED  BY <2>1, <2>3, <2>4, <2>5, <2>6
<1> HIDE DEF M
<1>5. M[1] = 0 /\ to - from <= M[N] + room
  <2>1. 1 \in 1..N /\ N \in 1..N
    BY <1>1
  <2>2. M[1] = 0 * room /\ M[N] = (N - 1) * room /\ N * room = (N - 1) * room + room
    BY <1>3, <2>1 DEF M
  <2> QED  BY <1>1, <2>2
<1>6. \A k \in 1..N : /\ C[k] \in [from : Nat, to : Nat]
                      /\ C[k].from < C[k].to /\ C[k].to <= C[k].from + room
                      /\ from <= C[k].from /\ C[k].to <= to
  <2> SUFFICES ASSUME NEW k \in 1..N
               PROVE  /\ C[k] \in [from : Nat, to : Nat]
                      /\ C[k].from < C[k].to /\ C[k].to <= C[k].from + room
                      /\ from <= C[k].from /\ C[k].to <= to
    OBVIOUS
  <2>1. C[k] = [from |-> C[k].from, to |-> C[k].to]
    BY <1>2
  <2>2. /\ C[k].from \in Nat /\ C[k].to \in Nat
        /\ C[k].from < C[k].to /\ C[k].to <= C[k].from + room
        /\ from <= C[k].from /\ C[k].to <= to
    BY <1>4
  <2> QED  BY <2>1, <2>2
<1>7. C[1].from = from /\ C[N].to = to
  <2>1. 1 \in 1..N /\ N \in 1..N
    BY <1>1
  <2>2. C[1].from = from + M[1] /\ M[N] \in Nat
        /\ C[N].to = IF from + M[N] + room > to THEN to ELSE from + M[N] + room
    BY <1>4, <2>1
  <2> QED  BY <1>5, <2>2
<1>8. \A k \in 2..N : C[k].from = C[k - 1].to
  <2> SUFFICES ASSUME NEW k \in 2..N
               PROVE  C[k].from = C[k - 1].to
    OBVIOUS
  <2>1. k \in 1..N /\ k - 1 \in 1..N /\ k - 1 # N /\ (k - 1) + 1 = k
    BY <1>1
  <2>2. /\ M[k] = M[k - 1] + room /\ M[k - 1] + room < to - from /\ M[k - 1] \in Nat
        /\ C[k].from = from + M[k]
        /\ C[k - 1].to = IF from + M[k - 1] + room > to THEN to ELSE from + M[k - 1] + room
    <3>1. M[(k - 1) + 1] = M[k - 1] + room /\ M[k - 1] + room < to - from /\ M[k - 1] \in Nat
      BY <1>4, <2>1
    <3> QED  BY <1>4, <2>1, <3>1
  <2> QED  BY <2>2
<1>9. DOMAIN C = 1..N /\ C \in Seq([from : Nat, to : Nat]) /\ Len(C) = N
  <2>1. C \in [1..N -> [from : Nat, to : Nat]]
    BY <1>2, <1>6
  <2> QED  BY <1>1, <2>1, IsSequence
<1>10. AreCuts(C, N, from, to, room)
  BY <1>6, <1>7, <1>8, <1>9 DEF AreCuts
<1> QED  BY <1>1, <1>10 DEF C

-----------------------------------------------------------------------------
(* Passages: the length of a passage, piece by piece.                       *)

Apart(chunk, i) == IF i = 1 THEN 0 ELSE Separator(chunk[i - 1], chunk[i])

Upto(u, chunk) ==
  /\ u \in [0..Len(chunk) -> Int] /\ u[0] = 0
  /\ \A i \in 1..Len(chunk) : u[i] = u[i - 1] + PieceLen(chunk[i]) + Apart(chunk, i)

IsUpto(u, chunk) ==
  u = [i \in 0..Len(chunk) |->
         IF i = 0 THEN 0 ELSE u[i - 1] + PieceLen(chunk[i]) + Apart(chunk, i)]

LEMMA PieceLenType ==
  ASSUME PassagesAssumption, NEW piece \in Piece
  PROVE  PieceLen(piece) \in Int
BY DEF PassagesAssumption, Piece, PieceLen

LEMMA ApartType ==
  ASSUME NEW chunk, NEW i
  PROVE  Apart(chunk, i) \in 0..2
BY DEF Apart, Separator

LEMMA ChunkLenIs ==
  ASSUME PassagesAssumption, NEW chunk \in Seq(Piece)
  PROVE  \E u : Upto(u, chunk) /\ ChunkLen(chunk) = u[Len(chunk)]
<1> DEFINE N == Len(chunk)
           F == [k \in (1..N) \X Int |-> k[2] + PieceLen(chunk[k[1]]) + Apart(chunk, k[1])]
           S == CHOOSE u : IsUpto(u, chunk)
<1>1. N \in Nat /\ \A i \in 1..N : PieceLen(chunk[i]) \in Int /\ Apart(chunk, i) \in Int
  <2>1. N \in Nat /\ \A i \in 1..N : chunk[i] \in Piece
    OBVIOUS
  <2>2. \A i \in 1..N : Apart(chunk, i) \in 0..2
    BY ApartType
  <2> QED  BY <2>1, <2>2, PieceLenType
<1> HIDE DEF N
<1>2. /\ F \in [(1..N) \X Int -> Int]
      /\ \A i \in 1..N, n \in Int : F[<<i, n>>] = n + PieceLen(chunk[i]) + Apart(chunk, i)
  <2>1. \A k \in (1..N) \X Int : k[1] \in 1..N /\ k[2] \in Int
    OBVIOUS
  <2>2. \A k \in (1..N) \X Int : k[2] + PieceLen(chunk[k[1]]) + Apart(chunk, k[1]) \in Int
    BY <1>1, <2>1
  <2>3. F \in [(1..N) \X Int -> Int]
    BY <2>2
  <2>4. \A i \in 1..N, n \in Int : F[<<i, n>>] = n + PieceLen(chunk[i]) + Apart(chunk, i)
    OBVIOUS
  <2> QED  BY <2>3, <2>4
<1> HIDE DEF F
<1>3. PICK g \in [0..N -> Int] : Walked(g, N, 0, F)
  <2>1. 0 \in Int
    OBVIOUS
  <2> HIDE DEF S
  <2> QED  BY <1>1, <1>2, <2>1, WalkExists
<1>4. IsUpto(g, chunk)
  <2>1. g[0] = 0 /\ \A i \in 1..N : g[i] = g[i - 1] + PieceLen(chunk[i]) + Apart(chunk, i)
    <3>1. \A i \in 1..N : g[i - 1] \in Int
      BY <1>1
    <3> QED  BY <1>2, <1>3, <3>1 DEF Walked
  <2>2. \A i \in 0..N : i = 0 \/ i \in 1..N
    BY <1>1
  <2>3. g = [i \in 0..N |-> g[i]]
    OBVIOUS
  <2>4. g = [i \in 0..N |-> IF i = 0 THEN 0 ELSE g[i - 1] + PieceLen(chunk[i]) + Apart(chunk, i)]
    BY <2>1, <2>2, <2>3
  <2> QED  BY <2>4 DEF IsUpto, N
<1>5. IsUpto(S, chunk)
  BY <1>4
<1>6. ChunkLen(chunk) = S[N]
  BY DEF ChunkLen, IsUpto, N, Apart
<1> HIDE DEF S
<1>7. S = [i \in 0..N |-> IF i = 0 THEN 0 ELSE S[i - 1] + PieceLen(chunk[i]) + Apart(chunk, i)]
  BY <1>5 DEF IsUpto, N
<1>8. /\ DOMAIN S = 0..N /\ S[0] = 0
      /\ \A i \in 1..N : S[i] = S[i - 1] + PieceLen(chunk[i]) + Apart(chunk, i)
  <2>1. 0 \in 0..N /\ \A i \in 1..N : i \in 0..N /\ i # 0
    BY <1>1
  <2> QED  BY <1>7, <2>1
<1> DEFINE In == {i \in Nat : i <= N => S[i] \in Int}
<1>9. 0 \in In
  BY <1>8
<1>10. ASSUME NEW i \in Nat, i \in In
       PROVE  i + 1 \in In
  <2> SUFFICES ASSUME i + 1 <= N
               PROVE  S[i + 1] \in Int
    OBVIOUS
  <2>1. i + 1 \in 1..N /\ i <= N /\ (i + 1) - 1 = i /\ S[i] \in Int
    BY <1>1, <1>10
  <2>2. S[i + 1] = S[i] + PieceLen(chunk[i + 1]) + Apart(chunk, i + 1)
    BY <1>8, <2>1
  <2> HIDE DEF In
  <2>3. PieceLen(chunk[i + 1]) \in Int /\ Apart(chunk, i + 1) \in Int
    BY <1>1, <2>1
  <2>4. S[i] + PieceLen(chunk[i + 1]) + Apart(chunk, i + 1) \in Int
    BY <2>1, <2>3
  <2> QED  BY <2>2, <2>4, Zenon
<1> HIDE DEF In
<1>11. \A i \in 0..N : S[i] \in Int
  <2>1. Nat \subseteq In
    BY <1>9, <1>10, SetInduction
  <2> QED  BY <2>1 DEF In
<1>12. S = [i \in 0..N |-> S[i]]
  BY <1>7
<1>13. S \in [0..N -> Int]
  BY <1>11, <1>12
<1>14. Upto(S, chunk)
  BY <1>8, <1>13 DEF Upto, N
<1> QED  BY <1>6, <1>14 DEF N

LEMMA ChunkLenType ==
  ASSUME PassagesAssumption, NEW chunk \in Seq(Piece)
  PROVE  ChunkLen(chunk) \in Int
<1>1. PICK u : Upto(u, chunk) /\ ChunkLen(chunk) = u[Len(chunk)]
  BY ChunkLenIs
<1>2. Len(chunk) \in 0..Len(chunk)
  OBVIOUS
<1> QED  BY <1>1, <1>2 DEF Upto

LEMMA ChunkLenOne ==
  ASSUME PassagesAssumption, NEW piece \in Piece
  PROVE  ChunkLen(<<piece>>) = PieceLen(piece)
<1>1. <<piece>> \in Seq(Piece) /\ Len(<<piece>>) = 1 /\ <<piece>>[1] = piece
  OBVIOUS
<1>2. PICK u : Upto(u, <<piece>>) /\ ChunkLen(<<piece>>) = u[1]
  BY <1>1, ChunkLenIs
<1>3. u[1] = u[1 - 1] + PieceLen(piece) + 0 /\ u[0] = 0
  <2>1. 1 \in 1..1
    OBVIOUS
  <2> QED  BY <1>1, <1>2, <2>1 DEF Upto, Apart
<1> QED  BY <1>2, <1>3, PieceLenType

LEMMA ChunkLenAppend ==
  ASSUME PassagesAssumption, NEW chunk \in Seq(Piece), chunk # <<>>, NEW piece \in Piece
  PROVE  ChunkLen(Append(chunk, piece))
           = ChunkLen(chunk) + PieceLen(piece) + Separator(chunk[Len(chunk)], piece)
<1> DEFINE N == Len(chunk)
           c == Append(chunk, piece)
<1>1. /\ N \in Nat \ {0} /\ c \in Seq(Piece) /\ Len(c) = N + 1 /\ c[N + 1] = piece
      /\ \A i \in 1..N : c[i] = chunk[i]
  OBVIOUS
<1> HIDE DEF N, c
<1>2. PICK u : Upto(u, chunk) /\ ChunkLen(chunk) = u[N]
  BY ChunkLenIs DEF N
<1>3. PICK w : Upto(w, c) /\ ChunkLen(c) = w[N + 1]
  BY <1>1, ChunkLenIs
<1>4. /\ u[0] = 0 /\ w[0] = 0
      /\ \A i \in 1..N : u[i] = u[i - 1] + PieceLen(chunk[i]) + Apart(chunk, i)
      /\ \A i \in 1..(N + 1) : w[i] = w[i - 1] + PieceLen(c[i]) + Apart(c, i)
  BY <1>1, <1>2, <1>3 DEF Upto, N
<1>5. \A i \in 1..N : Apart(chunk, i) = Apart(c, i)
  <2> SUFFICES ASSUME NEW i \in 1..N
               PROVE  Apart(chunk, i) = Apart(c, i)
    OBVIOUS
  <2>1. i = 1 \/ i - 1 \in 1..N
    BY <1>1
  <2> QED  BY <1>1, <2>1 DEF Apart
<1> DEFINE Same == {i \in Nat : i <= N => u[i] = w[i]}
<1>6. 0 \in Same
  BY <1>4
<1>7. ASSUME NEW i \in Nat, i \in Same
      PROVE  i + 1 \in Same
  <2> SUFFICES ASSUME i + 1 <= N
               PROVE  u[i + 1] = w[i + 1]
    OBVIOUS
  <2>1. i + 1 \in 1..N /\ i + 1 \in 1..(N + 1) /\ (i + 1) - 1 = i /\ u[i] = w[i]
    BY <1>1, <1>7
  <2>2. /\ u[i + 1] = u[i] + PieceLen(chunk[i + 1]) + Apart(chunk, i + 1)
        /\ w[i + 1] = w[i] + PieceLen(c[i + 1]) + Apart(c, i + 1)
    BY <1>4, <2>1
  <2>3. c[i + 1] = chunk[i + 1] /\ Apart(chunk, i + 1) = Apart(c, i + 1)
    BY <1>1, <1>5, <2>1
  <2> QED  BY <2>1, <2>2, <2>3
<1> HIDE DEF Same
<1>8. u[N] = w[N]
  <2>1. Nat \subseteq Same
    BY <1>6, <1>7, SetInduction
  <2> QED  BY <1>1, <2>1 DEF Same
<1>9. Apart(c, N + 1) = Separator(chunk[N], piece)
  <2>1. (N + 1) - 1 = N /\ N + 1 # 1 /\ N \in 1..N
    BY <1>1
  <2> QED  BY <1>1, <2>1 DEF Apart
<1>10. w[N + 1] = w[N] + PieceLen(piece) + Separator(chunk[N], piece)
  <2>1. N + 1 \in 1..(N + 1) /\ (N + 1) - 1 = N
    BY <1>1
  <2> QED  BY <1>1, <1>4, <1>9, <2>1
<1> QED  BY <1>2, <1>3, <1>8, <1>10 DEF N, c

-----------------------------------------------------------------------------
(* Passages: what a list of passages keeps of a stretch of text.            *)

Shows(chunks, at) ==
  \E k \in DOMAIN chunks : \E i \in DOMAIN chunks[k] :
    chunks[k][i].from <= at /\ at < chunks[k][i].to

\* Each within the cap, opening with one of the pieces G, between lo and hi; in order; the
\* positions pos shown.
IsCut(chunks, lo, hi, pos, G) ==
  /\ chunks \in Seq(Seq(Piece))
  /\ \A k \in DOMAIN chunks : /\ chunks[k] # <<>> /\ ChunkLen(chunks[k]) <= Cap
                              /\ chunks[k][1] \in G
                              /\ lo <= chunks[k][1].from /\ chunks[k][1].from <= hi
  /\ \A k \in 2..Len(chunks) : chunks[k - 1][1].from <= chunks[k][1].from
  /\ \A at \in pos : Shows(chunks, at)

LEMMA NoCut ==
  ASSUME NEW lo, NEW hi, NEW G
  PROVE  IsCut(<<>>, lo, hi, {}, G)
<1>1. <<>> \in Seq(Seq(Piece)) /\ DOMAIN <<>> = {} /\ Len(<<>>) = 0 /\ 2..0 = {}
  OBVIOUS
<1> QED  BY <1>1 DEF IsCut

LEMMA Opens ==
  ASSUME NEW chunk \in Seq(Piece), chunk # <<>>
  PROVE  /\ Len(chunk) \in Nat \ {0} /\ 1 \in DOMAIN chunk /\ chunk[1] \in Piece
         /\ chunk[1].from \in Nat /\ Len(chunk) \in DOMAIN chunk /\ chunk[Len(chunk)] \in Piece
<1>1. Len(chunk) \in Nat \ {0} /\ DOMAIN chunk = 1..Len(chunk)
  OBVIOUS
<1>2. 1 \in DOMAIN chunk /\ Len(chunk) \in DOMAIN chunk
  BY <1>1
<1>3. chunk[1] \in Piece /\ chunk[Len(chunk)] \in Piece
  BY <1>2
<1> QED  BY <1>1, <1>2, <1>3 DEF Piece

LEMMA CutWeaker ==
  ASSUME NEW chunks, NEW lo \in Nat, NEW hi \in Nat, NEW pos, NEW G, IsCut(chunks, lo, hi, pos, G),
         NEW lo2 \in Nat, lo2 <= lo, NEW hi2 \in Nat, hi <= hi2,
         NEW pos2, \A at \in pos2 : at \in pos
  PROVE  IsCut(chunks, lo2, hi2, pos2, G)
<1>1. ASSUME NEW k \in DOMAIN chunks
      PROVE  lo2 <= chunks[k][1].from /\ chunks[k][1].from <= hi2
  <2>1. chunks[k] \in Seq(Piece) /\ chunks[k] # <<>>
        /\ lo <= chunks[k][1].from /\ chunks[k][1].from <= hi
    BY DEF IsCut
  <2>2. chunks[k][1].from \in Nat
    BY <2>1, Opens
  <2> QED  BY <2>1, <2>2
<1> QED  BY <1>1 DEF IsCut

\* A passage more.
LEMMA CutAppend ==
  ASSUME NEW chunks, NEW lo \in Nat, NEW hi \in Nat, NEW pos, NEW G, IsCut(chunks, lo, hi, pos, G),
         NEW chunk \in Seq(Piece), chunk # <<>>, ChunkLen(chunk) <= Cap, chunk[1] \in G,
         \A k \in DOMAIN chunks : chunks[k][1].from <= chunk[1].from,
         lo <= chunk[1].from, NEW hi2 \in Nat, hi <= hi2, chunk[1].from <= hi2,
         NEW pos2, \A at \in pos2 : \/ at \in pos
                                    \/ \E i \in DOMAIN chunk : chunk[i].from <= at /\ at < chunk[i].to
  PROVE  IsCut(Append(chunks, chunk), lo, hi2, pos2, G)
<1> DEFINE M == Len(chunks)
           c == Append(chunks, chunk)
<1>1. chunks \in Seq(Seq(Piece))
  BY DEF IsCut
<1>2. /\ M \in Nat /\ DOMAIN chunks = 1..M /\ c \in Seq(Seq(Piece)) /\ Len(c) = M + 1
      /\ DOMAIN c = 1..(M + 1) /\ c[M + 1] = chunk /\ \A k \in 1..M : c[k] = chunks[k]
  BY <1>1
<1>3. IsCut(chunks, lo, hi2, pos, G)
  <2>1. \A at \in pos : at \in pos
    OBVIOUS
  <2> QED  BY <2>1, CutWeaker
<1> HIDE DEF M, c
<1>4. \A k \in 1..(M + 1) : k = M + 1 \/ k \in 1..M
  BY <1>2
<1>5. ASSUME NEW k \in 1..(M + 1)
      PROVE  /\ c[k] # <<>> /\ ChunkLen(c[k]) <= Cap /\ c[k][1] \in G
             /\ lo <= c[k][1].from /\ c[k][1].from <= hi2
  <2>1. CASE k = M + 1
    BY <1>2, <2>1
  <2>2. CASE k \in 1..M
    BY <1>2, <1>3, <2>2 DEF IsCut
  <2> QED  BY <1>4, <2>1, <2>2
<1>6. ASSUME NEW k \in 2..(M + 1)
      PROVE  c[k - 1][1].from <= c[k][1].from
  <2>1. k - 1 \in 1..M /\ k \in 1..(M + 1)
    BY <1>2
  <2>2. CASE k = M + 1
    BY <1>2, <2>1, <2>2
  <2>3. CASE k # M + 1
    <3>1. k \in 1..M /\ k \in 2..M
      BY <1>2, <2>1, <2>3
    <3>2. chunks[k - 1][1].from <= chunks[k][1].from
      BY <1>3, <3>1 DEF IsCut, M
    <3> QED  BY <1>2, <2>1, <3>1, <3>2
  <2> QED  BY <2>2, <2>3
<1>7. ASSUME NEW at \in pos2
      PROVE  Shows(c, at)
  <2>1. CASE at \in pos
    <3>1. PICK k \in 1..M : \E i \in DOMAIN chunks[k] : chunks[k][i].from <= at /\ at < chunks[k][i].to
      BY <1>2, <1>3, <2>1 DEF IsCut, Shows
    <3>2. k \in 1..(M + 1) /\ c[k] = chunks[k]
      BY <1>2
    <3> QED  BY <1>2, <3>1, <3>2 DEF Shows
  <2>2. CASE \E i \in DOMAIN chunk : chunk[i].from <= at /\ at < chunk[i].to
    <3>1. M + 1 \in DOMAIN c
      BY <1>2
    <3> QED  BY <1>2, <2>2, <3>1 DEF Shows
  <2> QED  BY <2>1, <2>2
<1> QED  BY <1>2, <1>5, <1>6, <1>7 DEF IsCut, c

\* A piece more in the last passage.
LEMMA CutGrow ==
  ASSUME NEW chunks \in Seq(Seq(Piece)), NEW chunk \in Seq(Piece), chunk # <<>>,
         NEW lo \in Nat, NEW hi \in Nat, NEW pos, NEW G, IsCut(Append(chunks, chunk), lo, hi, pos, G),
         NEW piece \in Piece, ChunkLen(Append(chunk, piece)) <= Cap,
         NEW hi2 \in Nat, hi <= hi2,
         NEW pos2, \A at \in pos2 : at \in pos \/ (piece.from <= at /\ at < piece.to)
  PROVE  IsCut(Append(chunks, Append(chunk, piece)), lo, hi2, pos2, G)
<1> DEFINE M == Len(chunks)
           c == Append(chunks, chunk)
           more == Append(chunk, piece)
           d == Append(chunks, more)
<1>1. /\ M \in Nat /\ DOMAIN c = 1..(M + 1) /\ c[M + 1] = chunk /\ Len(c) = M + 1
      /\ \A k \in 1..M : c[k] = chunks[k]
  OBVIOUS
<1>2. /\ more \in Seq(Piece) /\ more # <<>> /\ Len(more) = Len(chunk) + 1
      /\ more[Len(chunk) + 1] = piece /\ Len(chunk) \in Nat \ {0}
      /\ DOMAIN chunk = 1..Len(chunk) /\ DOMAIN more = 1..(Len(chunk) + 1)
      /\ \A i \in 1..Len(chunk) : more[i] = chunk[i]
  OBVIOUS
<1> HIDE DEF more
<1>3. /\ d \in Seq(Seq(Piece)) /\ DOMAIN d = 1..(M + 1) /\ d[M + 1] = more /\ Len(d) = M + 1
      /\ \A k \in 1..M : d[k] = chunks[k]
  BY <1>2
<1>4. IsCut(c, lo, hi2, pos, G)
  <2>1. \A at \in pos : at \in pos
    OBVIOUS
  <2>2. lo <= lo
    OBVIOUS
  <2> QED  BY <2>1, <2>2, CutWeaker
<1> HIDE DEF M, c, d
<1>5. more[1] = chunk[1] /\ ChunkLen(more) <= Cap
  <2>1. 1 \in 1..Len(chunk)
    BY <1>2
  <2> QED  BY <1>2, <2>1 DEF more
<1>6. \A k \in 1..(M + 1) : d[k][1] = c[k][1] /\ d[k] # <<>> /\ ChunkLen(d[k]) <= Cap
  <2> SUFFICES ASSUME NEW k \in 1..(M + 1)
               PROVE  d[k][1] = c[k][1] /\ d[k] # <<>> /\ ChunkLen(d[k]) <= Cap
    OBVIOUS
  <2>1. CASE k = M + 1
    BY <1>1, <1>2, <1>3, <1>5, <2>1
  <2>2. CASE k # M + 1
    <3>1. k \in 1..M
      BY <1>1, <2>2
    <3> QED  BY <1>1, <1>3, <1>4, <3>1 DEF IsCut
  <2> QED  BY <2>1, <2>2
<1>7. ASSUME NEW k \in 1..(M + 1)
      PROVE  d[k][1] \in G /\ lo <= d[k][1].from /\ d[k][1].from <= hi2
  BY <1>1, <1>4, <1>6 DEF IsCut
<1>8. ASSUME NEW k \in 2..(M + 1)
      PROVE  d[k - 1][1].from <= d[k][1].from
  <2>1. k - 1 \in 1..(M + 1) /\ k \in 1..(M + 1)
    BY <1>1
  <2>2. c[k - 1][1].from <= c[k][1].from
    BY <1>1, <1>4 DEF IsCut
  <2> QED  BY <1>6, <2>1, <2>2
<1>9. ASSUME NEW at \in pos2
      PROVE  Shows(d, at)
  <2>1. CASE at \in pos
    <3>1. PICK k \in 1..(M + 1) : \E i \in DOMAIN c[k] : c[k][i].from <= at /\ at < c[k][i].to
      BY <1>1, <1>4, <2>1 DEF IsCut, Shows
    <3>2. PICK i \in DOMAIN c[k] : c[k][i].from <= at /\ at < c[k][i].to
      BY <3>1
    <3>3. i \in DOMAIN d[k] /\ d[k][i] = c[k][i]
      <4>1. CASE k = M + 1
        <5>1. i \in 1..Len(chunk) /\ i \in 1..(Len(chunk) + 1)
          BY <1>1, <1>2, <4>1
        <5> QED  BY <1>1, <1>2, <1>3, <4>1, <5>1
      <4>2. CASE k # M + 1
        <5>1. k \in 1..M
          BY <1>1, <4>2
        <5> QED  BY <1>1, <1>3, <5>1
      <4> QED  BY <4>1, <4>2
    <3> QED  BY <1>3, <3>2, <3>3 DEF Shows
  <2>2. CASE piece.from <= at /\ at < piece.to
    <3>1. M + 1 \in DOMAIN d /\ Len(chunk) + 1 \in DOMAIN d[M + 1] /\ d[M + 1][Len(chunk) + 1] = piece
      BY <1>1, <1>2, <1>3
    <3> QED  BY <2>2, <3>1 DEF Shows
  <2> QED  BY <2>1, <2>2
<1> QED  BY <1>3, <1>6, <1>7, <1>8, <1>9 DEF IsCut, d, more

\* One list of passages after another.
LEMMA CutConcat ==
  ASSUME NEW a, NEW b, NEW lo \in Nat, NEW mid \in Nat, NEW mid2 \in Nat, NEW hi \in Nat,
         lo <= mid2, mid <= mid2, mid <= hi,
         NEW posA, NEW posB, NEW G, IsCut(a, lo, mid, posA, G), IsCut(b, mid2, hi, posB, G),
         NEW pos2, \A at \in pos2 : at \in posA \/ at \in posB
  PROVE  IsCut(a \o b, lo, hi, pos2, G)
<1> DEFINE M == Len(a)
           N == Len(b)
           c == a \o b
<1>1. a \in Seq(Seq(Piece)) /\ b \in Seq(Seq(Piece))
  BY DEF IsCut
<1>2. /\ M \in Nat /\ N \in Nat /\ DOMAIN a = 1..M /\ DOMAIN b = 1..N
  BY <1>1
<1>3. /\ c \in Seq(Seq(Piece)) /\ Len(c) = M + N
      /\ \A i \in 1..(M + N) : c[i] = IF i <= M THEN a[i] ELSE b[i - M]
  BY <1>1, ConcatProperties
<1>4. DOMAIN c = 1..(M + N)
  BY <1>3
<1> HIDE DEF M, N, c
<1>5. \A k \in 1..(M + N) : \/ k \in 1..M /\ c[k] = a[k]
                            \/ k - M \in 1..N /\ c[k] = b[k - M]
  BY <1>2, <1>3
<1>6. IsCut(a, lo, hi, posA, G) /\ IsCut(b, lo, hi, posB, G)
  <2>1. /\ \A at \in posA : at \in posA
        /\ \A at \in posB : at \in posB
    OBVIOUS
  <2>2. lo <= lo /\ hi <= hi
    OBVIOUS
  <2> QED  BY <2>1, <2>2, CutWeaker
<1>7. ASSUME NEW k \in 1..(M + N)
      PROVE  /\ c[k] # <<>> /\ ChunkLen(c[k]) <= Cap /\ c[k][1] \in G
             /\ lo <= c[k][1].from /\ c[k][1].from <= hi
  <2>1. CASE k \in 1..M /\ c[k] = a[k]
    BY <1>2, <1>6, <2>1 DEF IsCut
  <2>2. CASE k - M \in 1..N /\ c[k] = b[k - M]
    BY <1>2, <1>6, <2>2 DEF IsCut
  <2> QED  BY <1>5, <2>1, <2>2
<1>8. ASSUME NEW k \in 2..(M + N)
      PROVE  c[k - 1][1].from <= c[k][1].from
  <2>0. k \in 1..(M + N) /\ k - 1 \in 1..(M + N)
    BY <1>2
  <2>1. CASE k \in 1..M
    <3>1. k \in 2..M /\ k - 1 \in 1..M /\ c[k] = a[k] /\ c[k - 1] = a[k - 1]
      BY <1>2, <1>3, <2>0, <2>1
    <3> QED  BY <3>1 DEF IsCut, M
  <2>2. CASE k = M + 1
    <3>1. k - 1 \in 1..M /\ 1 \in 1..N /\ k - 1 <= M /\ ~(k <= M) /\ k - M = 1
      BY <1>2, <2>0, <2>2
    <3>2. c[k - 1] = a[k - 1] /\ c[k] = b[1]
      BY <1>3, <2>0, <3>1
    <3>3. /\ a[k - 1] \in Seq(Piece) /\ a[k - 1] # <<>> /\ a[k - 1][1].from <= mid
          /\ b[1] \in Seq(Piece) /\ b[1] # <<>> /\ mid2 <= b[1][1].from
      <4>1. a[k - 1] \in Seq(Piece) /\ a[k - 1] # <<>> /\ a[k - 1][1].from <= mid
        <5>1. k - 1 \in DOMAIN a
          BY <1>2, <3>1
        <5> QED  BY <1>1, <5>1 DEF IsCut
      <4>2. b[1] \in Seq(Piece) /\ b[1] # <<>> /\ mid2 <= b[1][1].from
        <5>1. 1 \in DOMAIN b
          BY <1>2, <3>1
        <5>2. \A i \in DOMAIN b : b[i] # <<>> /\ mid2 <= b[i][1].from
          BY <1>1 DEF IsCut
        <5>3. b \in Seq(Seq(Piece))
          BY <1>1 DEF IsCut
        <5>4. b[1] \in Seq(Piece)
          BY <5>1, <5>3
        <5>5. b[1] # <<>> /\ mid2 <= b[1][1].from
          BY <5>1, <5>2
        <5> QED  BY <5>4, <5>5, Zenon
      <4> QED  BY <4>1, <4>2
    <3>4. a[k - 1][1].from \in Nat /\ b[1][1].from \in Nat
      BY <3>3, Opens
    <3> DEFINE left == a[k - 1][1].from
               right == b[1][1].from
    <3>5. left \in Nat /\ right \in Nat /\ left <= mid /\ mid2 <= right
      BY <3>3, <3>4, Zenon
    <3>6. c[k - 1][1].from = left /\ c[k][1].from = right
      BY <3>2, Zenon
    <3> HIDE DEF left, right
    <3>7. left <= right
      BY <3>5
    <3> QED  BY <3>6, <3>7, Zenon
  <2>3. CASE k > M + 1
    <3>1. k - M \in 2..N /\ (k - 1) - M = (k - M) - 1 /\ ~(k <= M) /\ ~(k - 1 <= M)
      BY <1>2, <2>0, <2>3
    <3>2. c[k - 1] = b[(k - M) - 1] /\ c[k] = b[k - M]
      BY <1>3, <2>0, <3>1
    <3>3. b[(k - M) - 1][1].from <= b[k - M][1].from
      BY <3>1 DEF IsCut, N
    <3> QED  BY <3>2, <3>3
  <2>4. k \in 1..M \/ k = M + 1 \/ k > M + 1
    BY <1>2
  <2> QED  BY <2>1, <2>2, <2>3, <2>4
<1>9. ASSUME NEW at \in pos2
      PROVE  Shows(c, at)
  <2>1. CASE at \in posA
    <3>1. PICK k \in 1..M : \E i \in DOMAIN a[k] : a[k][i].from <= at /\ at < a[k][i].to
      BY <1>2, <2>1 DEF IsCut, Shows
    <3>2. k \in 1..(M + N) /\ c[k] = a[k]
      BY <1>2, <1>3
    <3> QED  BY <1>4, <3>1, <3>2 DEF Shows
  <2>2. CASE at \in posB
    <3>1. PICK k \in 1..N : \E i \in DOMAIN b[k] : b[k][i].from <= at /\ at < b[k][i].to
      BY <1>2, <2>2 DEF IsCut, Shows
    <3>2. M + k \in 1..(M + N) /\ ~(M + k <= M) /\ (M + k) - M = k
      BY <1>2
    <3>3. c[M + k] = b[k]
      BY <1>3, <3>2
    <3> QED  BY <1>4, <3>1, <3>2, <3>3 DEF Shows
  <2> QED  BY <2>1, <2>2
<1> QED  BY <1>3, <1>4, <1>7, <1>8, <1>9 DEF IsCut, c

-----------------------------------------------------------------------------
(* Passages: the passage being packed.  The invariant of every loop is of   *)
(* what flushing it would leave.                                            *)

IsPacked(st, lo, end, pos, G, separator) ==
  /\ st \in PackState /\ IsCut(Flushed(st).chunks, lo, end, pos, G)
  /\ st.buf = <<>> => st.size = 0
  /\ st.buf # <<>> =>
       /\ st.size = ChunkLen(st.buf) + separator
       /\ st.buf[Len(st.buf)].to = end /\ st.buf[Len(st.buf)].from <= end
       /\ \A k \in DOMAIN Flushed(st).chunks :
            Flushed(st).chunks[k][1].from <= st.buf[Len(st.buf)].from

LEMMA AppendIs ==
  ASSUME NEW S, NEW s \in Seq(S), NEW x \in S
  PROVE  /\ Append(s, x) \in Seq(S) /\ Append(s, x) # <<>> /\ Len(s) \in Nat
         /\ Len(Append(s, x)) = Len(s) + 1 /\ DOMAIN Append(s, x) = 1..(Len(s) + 1)
         /\ Append(s, x)[Len(s) + 1] = x /\ DOMAIN s = 1..Len(s)
         /\ \A i \in 1..Len(s) : Append(s, x)[i] = s[i]
OBVIOUS

LEMMA PackParts ==
  ASSUME NEW st \in PackState
  PROVE  /\ st.chunks \in Seq(Seq(Piece)) /\ st.buf \in Seq(Piece) /\ st.size \in Int
         /\ st = [chunks |-> st.chunks, buf |-> st.buf, size |-> st.size]
<1>1. \A A, B, C : \A r \in [chunks : A, buf : B, size : C] :
        /\ r.chunks \in A /\ r.buf \in B /\ r.size \in C
        /\ r = [chunks |-> r.chunks, buf |-> r.buf, size |-> r.size]
  OBVIOUS
<1> QED  BY Zenon, <1>1 DEF PackState

LEMMA PackMade ==
  ASSUME NEW c \in Seq(Seq(Piece)), NEW b \in Seq(Piece), NEW n \in Int
  PROVE  [chunks |-> c, buf |-> b, size |-> n] \in PackState
BY DEF PackState

LEMMA PackingIs ==
  ASSUME NEW lo, NEW end, NEW G, NEW separator
  PROVE  IsPacked(Packing, lo, end, {}, G, separator)
<1>1. Packing \in PackState /\ Packing.buf = <<>> /\ Packing.size = 0 /\ Flushed(Packing).chunks = <<>>
  BY DEF Packing, PackState, Flushed
<1> QED  BY <1>1, NoCut DEF IsPacked

LEMMA PackUpdated ==
  ASSUME NEW st \in PackState
  PROVE  /\ \A c \in Seq(Seq(Piece)) :
              [st EXCEPT !.chunks = c] = [chunks |-> c, buf |-> st.buf, size |-> st.size]
         /\ \A b \in Seq(Piece), n \in Int :
              [st EXCEPT !.buf = b, !.size = n] = [chunks |-> st.chunks, buf |-> b, size |-> n]
<1> DEFINE A == Seq(Seq(Piece))
           B == Seq(Piece)
<1>1. st \in [chunks : A, buf : B, size : Int]
  BY DEF PackState
<1> HIDE DEF A, B
<1>2. \A c \in A : [st EXCEPT !.chunks = c] = [chunks |-> c, buf |-> st.buf, size |-> st.size]
  BY <1>1
<1>3. ASSUME NEW b \in B, NEW n \in Int
      PROVE  [st EXCEPT !.buf = b, !.size = n] = [chunks |-> st.chunks, buf |-> b, size |-> n]
  <2> DEFINE w == [st EXCEPT !.buf = b, !.size = n]
  <2>1. w.chunks = st.chunks
    BY <1>1
  <2>2. w.buf = b /\ w.size = n
    BY <1>1
  <2>3. w \in [chunks : A, buf : B, size : Int]
    BY <1>1
  <2> HIDE DEF w
  <2>4. w = [chunks |-> w.chunks, buf |-> w.buf, size |-> w.size]
    BY <2>3
  <2>5. w = [chunks |-> st.chunks, buf |-> b, size |-> n]
    BY Zenon, <2>1, <2>2, <2>4
  <2> QED  BY Zenon, <2>5 DEF w
<1> QED  BY Zenon, <1>2, <1>3 DEF A, B

LEMMA FlushedIs ==
  ASSUME NEW st \in PackState
  PROVE  /\ Flushed(st) \in PackState /\ Flushed(st).buf = <<>> /\ Flushed(st).size = 0
         /\ Flushed(Flushed(st)) = Flushed(st)
         /\ st.buf = <<>> => Flushed(st).chunks = st.chunks
         /\ st.buf # <<>> => /\ Flushed(st).chunks = Append(st.chunks, st.buf)
                             /\ Flushed(st).chunks # <<>>
<1>1. st.chunks \in Seq(Seq(Piece)) /\ st.buf \in Seq(Piece)
  BY PackParts
<1>2. /\ Append(st.chunks, st.buf) \in Seq(Seq(Piece))
      /\ Append(st.chunks, st.buf) # <<>> /\ <<>> \in Seq(Piece)
  BY <1>1, AppendIs, EmptySeq
<1>3. /\ Flushed(st).buf = <<>> /\ Flushed(st).size = 0
      /\ Flushed(st).chunks = IF st.buf = <<>> THEN st.chunks ELSE Append(st.chunks, st.buf)
      /\ Flushed(st) = [chunks |-> Flushed(st).chunks, buf |-> <<>>, size |-> 0]
  BY DEF Flushed
<1>4. Flushed(st) \in PackState
  <2>1. Flushed(st).chunks \in Seq(Seq(Piece))
    BY <1>1, <1>2, <1>3
  <2>2. [chunks |-> Flushed(st).chunks, buf |-> <<>>, size |-> 0] \in PackState
    <3>1. 0 \in Int
      OBVIOUS
    <3> QED  BY <1>2, <2>1, <3>1, PackMade
  <2> QED  BY Zenon, <1>3, <2>2
<1>5. Flushed(Flushed(st)) = [chunks |-> Flushed(st).chunks, buf |-> <<>>, size |-> 0]
  <2>1. \A s : s.buf = <<>> => Flushed(s) = [chunks |-> s.chunks, buf |-> <<>>, size |-> 0]
    BY DEF Flushed
  <2> QED  BY <1>3, <2>1
<1> QED  BY <1>2, <1>3, <1>4, <1>5

LEMMA WithIs ==
  ASSUME PassagesAssumption, NEW st \in PackState, NEW piece \in Piece, NEW separator \in Int
  PROVE  /\ With(st, piece, separator) \in PackState
         /\ With(st, piece, separator).chunks = st.chunks
         /\ With(st, piece, separator).buf = Append(st.buf, piece)
         /\ With(st, piece, separator).size = st.size + PieceLen(piece) + separator
         /\ With(st, piece, separator).buf # <<>>
         /\ Flushed(With(st, piece, separator)).chunks = Append(st.chunks, Append(st.buf, piece))
<1>1. /\ st.chunks \in Seq(Seq(Piece)) /\ st.buf \in Seq(Piece) /\ st.size \in Int
      /\ PieceLen(piece) \in Int
  BY PackParts, PieceLenType
<1>2. /\ Append(st.buf, piece) \in Seq(Piece) /\ Append(st.buf, piece) # <<>>
      /\ st.size + PieceLen(piece) + separator \in Int
  <2>1. Append(st.buf, piece) \in Seq(Piece) /\ Append(st.buf, piece) # <<>>
    BY <1>1, AppendIs
  <2>2. st.size + PieceLen(piece) + separator \in Int
    BY <1>1
  <2> QED  BY <2>1, <2>2
<1>3. With(st, piece, separator) = [chunks |-> st.chunks, buf |-> Append(st.buf, piece),
                                    size |-> st.size + PieceLen(piece) + separator]
  <2>1. st = [chunks |-> st.chunks, buf |-> st.buf, size |-> st.size]
    BY PackParts
  <2> DEFINE b == Append(st.buf, piece)
             n == st.size + PieceLen(piece) + separator
  <2>2. With(st, piece, separator) = [st EXCEPT !.buf = b, !.size = n]
    BY DEF With
  <2> HIDE DEF b, n
  <2>3. b \in Seq(Piece) /\ n \in Int
    BY <1>2 DEF b, n
  <2>4. [st EXCEPT !.buf = b, !.size = n] = [chunks |-> st.chunks, buf |-> b, size |-> n]
    BY Zenon, <2>3, PackUpdated
  <2> QED  BY Zenon, <2>2, <2>4 DEF b, n
<1>5. With(st, piece, separator) \in PackState
  BY <1>1, <1>2, <1>3, PackMade
<1>6. /\ With(st, piece, separator).chunks = st.chunks
      /\ With(st, piece, separator).buf = Append(st.buf, piece)
      /\ With(st, piece, separator).size = st.size + PieceLen(piece) + separator
  BY <1>3
<1>7. Flushed(With(st, piece, separator)).chunks = Append(st.chunks, Append(st.buf, piece))
  BY <1>2, <1>5, <1>6, FlushedIs
<1> QED  BY <1>2, <1>5, <1>6, <1>7

LEMMA FlushedKeeps ==
  ASSUME NEW st, NEW lo, NEW end, NEW pos, NEW G, NEW separator,
         IsPacked(st, lo, end, pos, G, separator)
  PROVE  IsPacked(Flushed(st), lo, end, pos, G, separator)
<1>1. st \in PackState
  BY DEF IsPacked
<1>2. /\ Flushed(st) \in PackState /\ Flushed(st).buf = <<>> /\ Flushed(st).size = 0
      /\ Flushed(Flushed(st)) = Flushed(st)
  BY <1>1, FlushedIs
<1> QED  BY <1>2 DEF IsPacked

\* A piece more in the passage being packed.
LEMMA WithKeeps ==
  ASSUME PassagesAssumption, NEW st, NEW lo \in Nat, NEW end \in Nat, NEW pos, NEW G,
         NEW separator \in 1..2, IsPacked(st, lo, end, pos, G, separator),
         NEW piece \in Piece, piece.from <= piece.to, lo <= piece.from, end <= piece.to,
         \A k \in DOMAIN Flushed(st).chunks : Flushed(st).chunks[k][1].from <= piece.from,
         st.buf = <<>> => piece \in G /\ PieceLen(piece) <= Cap,
         st.buf # <<>> => /\ Separator(st.buf[Len(st.buf)], piece) = separator
                          /\ st.size + PieceLen(piece) <= Cap,
         NEW pos2, \A at \in pos2 : at \in pos \/ (piece.from <= at /\ at < piece.to)
  PROVE  IsPacked(With(st, piece, separator), lo, piece.to, pos2, G, separator)
<1> DEFINE w == With(st, piece, separator)
<1>1. st \in PackState
  BY DEF IsPacked
<1>2. /\ w \in PackState /\ w.chunks = st.chunks /\ w.buf = Append(st.buf, piece) /\ w.buf # <<>>
      /\ w.size = st.size + PieceLen(piece) + separator
      /\ Flushed(w).chunks = Append(st.chunks, Append(st.buf, piece))
  <2>1. separator \in Int
    OBVIOUS
  <2> QED  BY <1>1, <2>1, WithIs
<1> SUFFICES IsPacked(w, lo, piece.to, pos2, G, separator)
  OBVIOUS
<1> HIDE DEF w
<1>3. /\ st.chunks \in Seq(Seq(Piece)) /\ st.buf \in Seq(Piece) /\ st.size \in Int
      /\ PieceLen(piece) \in Int /\ piece.from \in Nat /\ piece.to \in Nat
  BY <1>1, PackParts, PieceLenType DEF Piece
<1>4. /\ Len(w.buf) = Len(st.buf) + 1 /\ w.buf[Len(w.buf)] = piece /\ w.buf \in Seq(Piece)
      /\ Len(st.buf) \in Nat
  <2>1. /\ Append(st.buf, piece) \in Seq(Piece) /\ Len(Append(st.buf, piece)) = Len(st.buf) + 1
        /\ Append(st.buf, piece)[Len(st.buf) + 1] = piece /\ Len(st.buf) \in Nat
    BY <1>3, AppendIs
  <2> QED  BY <1>2, <2>1
<1>5. CASE st.buf = <<>>
  <2>1. w.buf = <<piece>> /\ <<piece>> \in Seq(Piece) /\ <<piece>> # <<>> /\ <<piece>>[1] = piece
        /\ DOMAIN <<piece>> = {1}
    BY <1>2, <1>3, <1>5
  <2>2. ChunkLen(<<piece>>) = PieceLen(piece) /\ st.size = 0
    BY <1>5, ChunkLenOne DEF IsPacked
  <2>3. Flushed(st).chunks = st.chunks /\ Flushed(w).chunks = Append(st.chunks, <<piece>>)
    BY <1>1, <1>2, <1>5, <2>1, FlushedIs
  <2>4. IsCut(st.chunks, lo, end, pos, G)
        /\ \A k \in DOMAIN st.chunks : st.chunks[k][1].from <= <<piece>>[1].from
    BY <2>1, <2>3 DEF IsPacked
  <2>5. IsCut(Append(st.chunks, <<piece>>), lo, piece.to, pos2, G)
    <3>1. \A at \in pos2 :
            at \in pos \/ \E i \in DOMAIN <<piece>> : <<piece>>[i].from <= at /\ at < <<piece>>[i].to
      BY <2>1
    <3>2. ChunkLen(<<piece>>) <= Cap /\ <<piece>>[1] \in G
      BY <1>5, <2>1, <2>2
    <3>3. lo <= <<piece>>[1].from /\ <<piece>>[1].from <= piece.to
      BY <2>1
    <3> QED  BY <1>3, <2>1, <2>4, <3>1, <3>2, <3>3, CutAppend
  <2>6. \A k \in DOMAIN Flushed(w).chunks : Flushed(w).chunks[k][1].from <= piece.from
    <3>1. \A k \in DOMAIN Append(st.chunks, <<piece>>) :
            \/ k \in DOMAIN st.chunks /\ Append(st.chunks, <<piece>>)[k] = st.chunks[k]
            \/ Append(st.chunks, <<piece>>)[k] = <<piece>>
      <4>1. /\ DOMAIN Append(st.chunks, <<piece>>) = 1..(Len(st.chunks) + 1)
            /\ Append(st.chunks, <<piece>>)[Len(st.chunks) + 1] = <<piece>>
            /\ \A i \in 1..Len(st.chunks) : Append(st.chunks, <<piece>>)[i] = st.chunks[i]
            /\ Len(st.chunks) \in Nat /\ DOMAIN st.chunks = 1..Len(st.chunks)
        BY <1>3, <2>1, AppendIs
      <4>2. \A k \in 1..(Len(st.chunks) + 1) : k \in 1..Len(st.chunks) \/ k = Len(st.chunks) + 1
        BY <4>1
      <4> QED  BY <4>1, <4>2
    <3>2. piece.from <= piece.from
      BY <1>3
    <3> QED  BY <2>1, <2>3, <2>4, <3>1, <3>2
  <2>7. w.size = ChunkLen(w.buf) + separator
    BY <1>2, <1>3, <2>1, <2>2
  <2> QED  BY <1>2, <1>4, <2>3, <2>5, <2>6, <2>7 DEF IsPacked
<1>6. CASE st.buf # <<>>
  <2>1. /\ Flushed(st).chunks = Append(st.chunks, st.buf)
        /\ st.size = ChunkLen(st.buf) + separator /\ st.buf[Len(st.buf)].to = end
        /\ IsCut(Append(st.chunks, st.buf), lo, end, pos, G)
    BY <1>1, <1>6, FlushedIs DEF IsPacked
  <2>2. ChunkLen(w.buf) = ChunkLen(st.buf) + PieceLen(piece) + separator
        /\ ChunkLen(st.buf) \in Int
    BY <1>2, <1>3, <1>6, ChunkLenAppend, ChunkLenType
  <2>3. ChunkLen(w.buf) <= Cap /\ w.size = ChunkLen(w.buf) + separator
    BY <1>2, <1>3, <1>6, <2>1, <2>2
  <2>4. IsCut(Append(st.chunks, w.buf), lo, piece.to, pos2, G)
    BY <1>2, <1>3, <1>6, <2>1, <2>3, CutGrow
  <2>5. \A k \in DOMAIN Flushed(w).chunks : Flushed(w).chunks[k][1].from <= piece.from
    <3>1. /\ DOMAIN Append(st.chunks, w.buf) = DOMAIN Append(st.chunks, st.buf)
          /\ \A k \in DOMAIN Append(st.chunks, st.buf) :
               Append(st.chunks, w.buf)[k][1] = Append(st.chunks, st.buf)[k][1]
      <4>1. w.buf[1] = st.buf[1]
        BY <1>2, <1>3, <1>6
      <4> QED  BY <1>3, <1>4, <4>1
    <3> QED  BY <1>2, <2>1, <3>1
  <2> QED  BY <1>2, <1>4, <2>3, <2>4, <2>5 DEF IsPacked
<1> QED  BY <1>5, <1>6

LEMMA ApartIs ==
  ASSUME NEW piece \in Piece, NEW next \in Piece
  PROVE  /\ next.from = piece.to + 1 \/ next.from = piece.to => Separator(piece, next) = 1
         /\ next.from = piece.to + 2 => Separator(piece, next) = 2
BY DEF Piece, Separator

\* A piece after everything packed so far.
LEMMA NextKeeps ==
  ASSUME PassagesAssumption, NEW st, NEW lo \in Nat, NEW end \in Nat, NEW pos, NEW G,
         NEW separator \in 1..2, IsPacked(st, lo, end, pos, G, separator),
         NEW piece \in Piece, piece.from < piece.to, lo <= piece.from, end <= piece.from,
         st.buf = <<>> => piece \in G /\ PieceLen(piece) <= Cap,
         st.buf # <<>> => /\ \/ separator = 1 /\ (piece.from = end \/ piece.from = end + 1)
                             \/ separator = 2 /\ piece.from = end + 2
                          /\ st.size + PieceLen(piece) <= Cap,
         NEW pos2, \A at \in pos2 : at \in pos \/ (piece.from <= at /\ at < piece.to)
  PROVE  IsPacked(With(st, piece, separator), lo, piece.to, pos2, G, separator)
<1>1. piece.from \in Nat /\ piece.to \in Nat /\ piece.from <= piece.to /\ end <= piece.to
  BY DEF Piece
<1>2. \A k \in DOMAIN Flushed(st).chunks : Flushed(st).chunks[k][1].from <= piece.from
  <2> SUFFICES ASSUME NEW k \in DOMAIN Flushed(st).chunks
               PROVE  Flushed(st).chunks[k][1].from <= piece.from
    OBVIOUS
  <2>1. Flushed(st).chunks[k] \in Seq(Piece) /\ Flushed(st).chunks[k] # <<>>
        /\ Flushed(st).chunks[k][1].from <= end
    BY DEF IsPacked, IsCut
  <2>2. Flushed(st).chunks[k][1].from \in Nat
    BY <2>1, Opens
  <2> QED  BY <1>1, <2>1, <2>2
<1>3. st.buf # <<>> => Separator(st.buf[Len(st.buf)], piece) = separator
  <2> SUFFICES ASSUME st.buf # <<>>
               PROVE  Separator(st.buf[Len(st.buf)], piece) = separator
    OBVIOUS
  <2>1. st.buf[Len(st.buf)] \in Piece /\ st.buf[Len(st.buf)].to = end
    BY PackParts, Opens DEF IsPacked
  <2> QED  BY <2>1, ApartIs
<1> QED  BY <1>1, <1>2, <1>3, WithKeeps

\* Passages more, after a flush.
LEMMA MoreIs ==
  ASSUME NEW st \in PackState, NEW b \in Seq(Seq(Piece))
  PROVE  /\ [Flushed(st) EXCEPT !.chunks = @ \o b] \in PackState
         /\ [Flushed(st) EXCEPT !.chunks = @ \o b].chunks = Flushed(st).chunks \o b
         /\ [Flushed(st) EXCEPT !.chunks = @ \o b].buf = <<>>
         /\ [Flushed(st) EXCEPT !.chunks = @ \o b].size = 0
         /\ Flushed([Flushed(st) EXCEPT !.chunks = @ \o b]).chunks = Flushed(st).chunks \o b
<1> DEFINE f == Flushed(st)
           d == f.chunks \o b
           w == [f EXCEPT !.chunks = @ \o b]
<1>1. f \in PackState /\ f.buf = <<>> /\ f.size = 0
  BY FlushedIs
<1>2. d \in Seq(Seq(Piece)) /\ <<>> \in Seq(Piece) /\ 0 \in Int
  BY <1>1, PackParts, ConcatProperties, EmptySeq
<1>3. w = [f EXCEPT !.chunks = d]
  OBVIOUS
<1> HIDE DEF f, d
<1>4. [f EXCEPT !.chunks = d] = [chunks |-> d, buf |-> f.buf, size |-> f.size]
  BY Zenon, <1>1, <1>2, PackUpdated
<1>5. w = [chunks |-> d, buf |-> <<>>, size |-> 0]
  BY Zenon, <1>1, <1>3, <1>4
<1> HIDE DEF w
<1>6. w \in PackState /\ w.chunks = d /\ w.buf = <<>> /\ w.size = 0
  <2>1. w \in PackState
    BY <1>2, <1>5, PackMade
  <2> QED  BY <1>5, <2>1
<1>7. Flushed(w).chunks = d
  BY <1>6, FlushedIs
<1> QED  BY Zenon, <1>6, <1>7 DEF w, d, f

LEMMA MoreKeeps ==
  ASSUME NEW st, NEW lo \in Nat, NEW end \in Nat, NEW pos, NEW G, NEW separator,
         IsPacked(st, lo, end, pos, G, separator),
         NEW b, NEW mid \in Nat, NEW hi \in Nat, NEW posB, IsCut(b, mid, hi, posB, G),
         lo <= mid, end <= mid, end <= hi,
         NEW pos2, \A at \in pos2 : at \in pos \/ at \in posB
  PROVE  IsPacked([Flushed(st) EXCEPT !.chunks = @ \o b], lo, hi, pos2, G, separator)
<1> DEFINE w == [Flushed(st) EXCEPT !.chunks = @ \o b]
<1>1. st \in PackState /\ IsCut(Flushed(st).chunks, lo, end, pos, G) /\ b \in Seq(Seq(Piece))
  BY DEF IsPacked, IsCut
<1>2. IsCut(Flushed(st).chunks \o b, lo, hi, pos2, G)
  BY <1>1, CutConcat
<1>3. /\ w \in PackState /\ w.buf = <<>> /\ w.size = 0
      /\ Flushed(w).chunks = Flushed(st).chunks \o b
  BY <1>1, MoreIs
<1> SUFFICES IsPacked(w, lo, hi, pos2, G, separator)
  OBVIOUS
<1> HIDE DEF w
<1> QED  BY <1>2, <1>3 DEF IsPacked

\* Fewer positions may be asked of it.
LEMMA PackedWeaker ==
  ASSUME NEW st, NEW lo \in Nat, NEW end \in Nat, NEW pos, NEW G, NEW separator,
         IsPacked(st, lo, end, pos, G, separator), NEW pos2, \A at \in pos2 : at \in pos
  PROVE  IsPacked(st, lo, end, pos2, G, separator)
<1>1. IsCut(Flushed(st).chunks, lo, end, pos2, G)
  <2>1. IsCut(Flushed(st).chunks, lo, end, pos, G)
    BY DEF IsPacked
  <2> QED  BY <2>1 DEF IsCut
<1> QED  BY <1>1 DEF IsPacked

-----------------------------------------------------------------------------
(* Passages: line mode.                                                     *)

\* The positions of the first n lines.
Covered(lines, n) == {at \in Nat : \E i \in 1..n : lines[i].from <= at /\ at < lines[i].to}

LEMMA ShownIs ==
  ASSUME PassagesAssumption, NEW from \in Nat, NEW to \in Nat, NEW speaker \in Heads
  PROVE  /\ Shown(from, to, speaker) \in Piece
         /\ Shown(from, to, speaker).from = from /\ Shown(from, to, speaker).to = to
         /\ Shown(from, to, speaker).says = speaker
         /\ PieceLen(Shown(from, to, speaker))
              = to - from + (IF speaker = NoHead THEN 0 ELSE NameLen)
BY DEF Shown, Piece, PieceLen

\* The same of a unit, a record of its two ends.
LEMMA UnitShownIs ==
  ASSUME PassagesAssumption, NEW unit \in [from : Nat, to : Nat], NEW says \in Heads
  PROVE  /\ Shown(unit.from, unit.to, says) \in Piece
         /\ Shown(unit.from, unit.to, says).from = unit.from
         /\ Shown(unit.from, unit.to, says).to = unit.to
         /\ PieceLen(Shown(unit.from, unit.to, says))
              = unit.to - unit.from + (IF says = NoHead THEN 0 ELSE NameLen)
<1>1. unit.from \in Nat /\ unit.to \in Nat
  OBVIOUS
<1> QED  BY <1>1, ShownIs

LEMMA NoHeadIs == NoHead \in Heads
BY DEF Heads

\* A text cut at the cap, each cut a passage.
LEMMA AloneIs ==
  ASSUME PassagesAssumption, NEW from \in Nat, NEW to \in Nat, from < to
  PROVE  IsCut(Alone(CutEvery(from, to, Cap)), from, to, from..(to - 1), Piece)
<1> DEFINE C == CutEvery(from, to, Cap)
           A == Alone(C)
<1>0. Cap \in Nat \ {0} /\ NoHead \in Heads
  BY NoHeadIs DEF PassagesAssumption
<1>a. PICK N \in Nat \ {0} : AreCuts(C, N, from, to, Cap)
  BY <1>0, CutEveryIs
<1> HIDE DEF C
<1>1. /\ C \in Seq([from : Nat, to : Nat]) /\ Len(C) = N /\ DOMAIN C = 1..N
      /\ C[1].from = from /\ C[N].to = to
      /\ \A k \in 1..N : /\ C[k].from < C[k].to /\ C[k].to <= C[k].from + Cap
                         /\ from <= C[k].from /\ C[k].to <= to
      /\ \A k \in 2..N : C[k].from = C[k - 1].to
  BY <1>a DEF AreCuts
<1>2. \A k \in 1..N : C[k].from \in Nat /\ C[k].to \in Nat
  <2>1. \A k \in 1..N : C[k] \in [from : Nat, to : Nat]
    BY <1>a DEF AreCuts
  <2> QED  BY <2>1
<1>3. A = [k \in 1..N |-> <<Shown(C[k].from, C[k].to, NoHead)>>]
  BY <1>1 DEF Alone
<1> HIDE DEF A
<1>4. ASSUME NEW k \in 1..N
      PROVE  /\ A[k] \in Seq(Piece) /\ A[k] # <<>> /\ ChunkLen(A[k]) <= Cap /\ A[k][1] \in Piece
             /\ A[k][1].from = C[k].from /\ A[k][1].to = C[k].to /\ 1 \in DOMAIN A[k]
  <2> DEFINE piece == Shown(C[k].from, C[k].to, NoHead)
  <2>1. /\ piece \in Piece /\ piece.from = C[k].from /\ piece.to = C[k].to
        /\ PieceLen(piece) = C[k].to - C[k].from + 0
    BY <1>0, <1>2, ShownIs
  <2>2. A[k] = <<piece>>
    BY <1>3
  <2> HIDE DEF piece
  <2>3. ChunkLen(<<piece>>) = C[k].to - C[k].from + 0
    BY <2>1, ChunkLenOne
  <2>4. ChunkLen(<<piece>>) <= Cap
    BY <1>0, <1>1, <1>2, <2>3
  <2>5. <<piece>> \in Seq(Piece) /\ <<piece>> # <<>> /\ <<piece>>[1] = piece /\ 1 \in DOMAIN <<piece>>
    BY <2>1
  <2> QED  BY <2>1, <2>2, <2>4, <2>5
<1>5. A \in Seq(Seq(Piece)) /\ Len(A) = N /\ DOMAIN A = 1..N
  <2>1. A \in [1..N -> Seq(Piece)]
    BY <1>3, <1>4
  <2> QED  BY <1>1, <2>1, IsSequence
<1>6. ASSUME NEW k \in 1..N
      PROVE  from <= A[k][1].from /\ A[k][1].from <= to
  <2>1. /\ from <= C[k].from /\ C[k].from < C[k].to /\ C[k].to <= to
        /\ C[k].from \in Nat /\ C[k].to \in Nat
    BY <1>1, <1>2
  <2>2. A[k][1].from = C[k].from
    BY <1>4
  <2> QED  BY <2>1, <2>2
<1>7. ASSUME NEW k \in 2..N
      PROVE  A[k - 1][1].from <= A[k][1].from
  <2>1. k \in 1..N /\ k - 1 \in 1..N
    BY <1>1
  <2>2. C[k - 1].from < C[k - 1].to /\ C[k].from = C[k - 1].to
    BY <1>1, <2>1
  <2>3. A[k - 1][1].from = C[k - 1].from /\ A[k][1].from = C[k].from
    BY <1>4, <2>1
  <2>4. C[k - 1].from \in Nat /\ C[k].from \in Nat
    BY <1>2, <2>1
  <2> QED  BY <2>2, <2>3, <2>4
<1>8. ASSUME NEW at \in from..(to - 1)
      PROVE  Shows(A, at)
  <2> DEFINE a == [k \in 1..N |-> C[k].from]
             b == [k \in 1..N |-> C[k].to]
  <2>1. a \in [1..N -> Nat] /\ b \in [1..N -> Nat]
    BY <1>2
  <2>2. \A k \in 2..N : b[k - 1] = a[k]
    <3> SUFFICES ASSUME NEW k \in 2..N
                 PROVE  b[k - 1] = a[k]
      OBVIOUS
    <3>1. k \in 1..N /\ k - 1 \in 1..N
      BY <1>1
    <3> QED  BY <1>1, <3>1
  <2>3. a[1] = from /\ b[N] = to /\ \A k \in 1..N : a[k] = C[k].from /\ b[k] = C[k].to
    BY <1>1
  <2>4. at \in Nat /\ a[1] <= at /\ at < b[N]
    BY <2>3
  <2> HIDE DEF a, b
  <2>5. PICK k \in 1..N : a[k] <= at /\ at < b[k]
    BY <1>1, <2>1, <2>2, <2>4, Contiguous
  <2>6. A[k][1].from <= at /\ at < A[k][1].to /\ 1 \in DOMAIN A[k] /\ k \in DOMAIN A
    BY <1>4, <1>5, <2>3, <2>5
  <2> QED  BY <2>6 DEF Shows
<1>9. IsCut(A, from, to, from..(to - 1), Piece)
  BY <1>4, <1>5, <1>6, <1>7, <1>8 DEF IsCut
<1> QED  BY <1>9 DEF A, C

LEMMA WholeIs ==
  ASSUME PassagesAssumption, NEW line \in Interval
  PROVE  /\ Whole(line) \in Piece /\ Whole(line).from = line.from /\ Whole(line).to = line.to
         /\ line.from \in Nat /\ line.to \in Nat /\ Span(line) = line.to - line.from
         /\ Span(line) \in Int /\ PieceLen(Whole(line)) = Span(line)
<1>1. line.from \in Nat /\ line.to \in Nat /\ NoHead \in Heads
  BY NoHeadIs DEF Interval
<1>2. /\ Whole(line) \in Piece /\ Whole(line).from = line.from /\ Whole(line).to = line.to
      /\ PieceLen(Whole(line)) = line.to - line.from + 0
  BY <1>1, ShownIs DEF Whole
<1> QED  BY <1>1, <1>2 DEF Span

LEMMA ReopenedType ==
  ASSUME PassagesAssumption, NEW st \in PackState, st.buf # <<>>, NEW line
  PROVE  Reopened(st, line) \in PackState
<1>1. st.buf[Len(st.buf)] \in Piece /\ Flushed(st) \in PackState /\ 1 \in Int
  BY PackParts, Opens, FlushedIs
<1>2. With(Flushed(st), st.buf[Len(st.buf)], 1) \in PackState
  BY <1>1, WithIs
<1> QED  BY <1>1, <1>2 DEF Reopened

LEMMA PackLineType ==
  ASSUME PassagesAssumption, NEW st \in PackState, NEW line \in Interval, line.from < line.to
  PROVE  PackLine(st, line) \in PackState
<1>1. Whole(line) \in Piece /\ line.from \in Nat /\ line.to \in Nat /\ 1 \in Int
  BY WholeIs
<1>2. Alone(CutEvery(line.from, line.to, Cap)) \in Seq(Seq(Piece))
  BY <1>1, AloneIs DEF IsCut
<1>3. CASE Span(line) > Cap
  BY <1>2, <1>3, MoreIs DEF PackLine
<1>4. CASE ~(Span(line) > Cap) /\ st.buf # <<>> /\ st.size + Span(line) + 1 > Cap
  BY <1>1, <1>4, ReopenedType, WithIs DEF PackLine
<1>5. CASE ~(Span(line) > Cap) /\ ~(st.buf # <<>> /\ st.size + Span(line) + 1 > Cap)
  BY <1>1, <1>5, WithIs DEF PackLine
<1> QED  BY <1>3, <1>4, <1>5

\* The chunk after a full one shows nothing out of order.
LEMMA ReopenedKeeps ==
  ASSUME PassagesAssumption, NEW st, NEW lo \in Nat, NEW end \in Nat, NEW pos,
         IsPacked(st, lo, end, pos, Piece, 1), st.buf # <<>>, NEW line \in Interval,
         line.from <= line.to
  PROVE  /\ IsPacked(Reopened(st, line), lo, end, pos, Piece, 1)
         /\ Reopened(st, line).buf # <<>> => Reopened(st, line).size + Span(line) <= Cap
<1> DEFINE last == st.buf[Len(st.buf)]
           f == Flushed(st)
           r == With(f, last, 1)
<1>1. st \in PackState /\ st.buf \in Seq(Piece) /\ 1 \in Int /\ 1 \in 1..2 /\ Cap \in Nat
  BY PackParts DEF IsPacked, PassagesAssumption
<1>2. last \in Piece /\ last.from \in Nat /\ PieceLen(last) \in Int /\ Span(line) \in Nat
  <2>1. last \in Piece
    BY <1>1, Opens
  <2>2. Span(line) \in Nat
    <3>1. Span(line) = line.to - line.from /\ line.from \in Nat /\ line.to \in Nat
      BY WholeIs
    <3> QED  BY <3>1
  <2> QED  BY <2>1, <2>2, PieceLenType DEF Piece
<1>3. f \in PackState /\ f.buf = <<>> /\ f.size = 0 /\ Flushed(f) = f
      /\ f.chunks = Append(st.chunks, st.buf)
  BY <1>1, FlushedIs
<1>4. IsPacked(f, lo, end, pos, Piece, 1)
  BY FlushedKeeps
<1>5. last.to = end /\ last.from <= end
      /\ \A k \in DOMAIN f.chunks : f.chunks[k][1].from <= last.from
  BY DEF IsPacked
<1>6. lo <= last.from
  <2>1. /\ Len(st.chunks) + 1 \in DOMAIN f.chunks
        /\ f.chunks[Len(st.chunks) + 1] = st.buf
    <3>1. st.chunks \in Seq(Seq(Piece)) /\ st.buf \in Seq(Piece)
      BY <1>1, PackParts
    <3>2. /\ Len(st.chunks) \in Nat
          /\ DOMAIN Append(st.chunks, st.buf) = 1..(Len(st.chunks) + 1)
          /\ Append(st.chunks, st.buf)[Len(st.chunks) + 1] = st.buf
      BY <3>1, AppendIs
    <3>3. Len(st.chunks) + 1 \in 1..(Len(st.chunks) + 1)
      BY <3>2
    <3> HIDE DEF f
    <3> QED  BY <1>3, <3>2, <3>3
  <2>2. lo <= st.buf[1].from /\ st.buf[1].from <= last.from
    BY <1>3, <1>4, <1>5, <2>1 DEF IsPacked, IsCut
  <2>3. st.buf[1].from \in Nat
    BY <1>1, Opens
  <2> QED  BY <1>2, <2>2, <2>3
<1> HIDE DEF f, last
<1>7. r.buf = Append(<<>>, last) /\ r.size = f.size + PieceLen(last) + 1
  <2>1. f \in PackState /\ last \in Piece /\ 1 \in Int
    BY <1>2, <1>3
  <2>2. /\ With(f, last, 1).buf = Append(f.buf, last)
        /\ With(f, last, 1).size = f.size + PieceLen(last) + 1
    BY <2>1, WithIs
  <2> QED  BY <1>3, <2>2
<1>8. CASE Overlap = 1 /\ PieceLen(last) + Span(line) + 1 <= Cap
  <2>1. Reopened(st, line) = r
    BY <1>8 DEF Reopened, last, f
  <2>2. PieceLen(last) <= Cap
    BY <1>1, <1>2, <1>8
  <2>3. IsPacked(r, lo, last.to, pos, Piece, 1)
    <3>1. end <= last.to /\ last.from <= last.to
      BY <1>5
    <3>2. \A at \in pos : at \in pos \/ (last.from <= at /\ at < last.to)
      OBVIOUS
    <3>3. \A k \in DOMAIN Flushed(f).chunks : Flushed(f).chunks[k][1].from <= last.from
      BY <1>3, <1>5
    <3> HIDE DEF r
    <3> QED  BY <1>1, <1>2, <1>3, <1>4, <1>6, <2>2, <3>1, <3>2, <3>3, WithKeeps DEF r
  <2>4. r.size + Span(line) <= Cap
    BY <1>2, <1>3, <1>7, <1>8
  <2> QED  BY <1>5, <2>1, <2>3, <2>4
<1>9. CASE ~(Overlap = 1 /\ PieceLen(last) + Span(line) + 1 <= Cap)
  <2>1. Reopened(st, line) = f
    BY <1>9 DEF Reopened, last, f
  <2> QED  BY <1>3, <1>4, <2>1
<1> QED  BY <1>8, <1>9

\* A line more.
LEMMA PackLineKeeps ==
  ASSUME PassagesAssumption, NEW st, NEW lo \in Nat, NEW end \in Nat, NEW pos,
         IsPacked(st, lo, end, pos, Piece, 1), NEW line \in Interval, line.from < line.to,
         lo <= line.from, end <= line.from, st.buf # <<>> => line.from = end + 1,
         NEW pos2 \in SUBSET Nat,
         \A at \in pos2 : at \in pos \/ (line.from <= at /\ at < line.to)
  PROVE  IsPacked(PackLine(st, line), lo, line.to, pos2, Piece, 1)
<1>1. /\ Whole(line) \in Piece /\ Whole(line).from = line.from /\ Whole(line).to = line.to
      /\ line.from \in Nat /\ line.to \in Nat /\ Span(line) = line.to - line.from
      /\ Span(line) \in Nat /\ PieceLen(Whole(line)) = Span(line)
  <2>1. /\ line.from \in Nat /\ line.to \in Nat /\ Span(line) = line.to - line.from
    BY WholeIs
  <2> QED  BY <2>1, WholeIs
<1>2. Cap \in Nat /\ 1 \in 1..2 /\ st \in PackState /\ end <= line.to /\ line.from <= line.to
  BY <1>1 DEF PassagesAssumption, IsPacked
\* A piece with what was packed before it, whatever that is.
<1>3. ASSUME NEW s, IsPacked(s, lo, end, pos, Piece, 1), Span(line) <= Cap,
             s.buf # <<>> => line.from = end + 1 /\ s.size + Span(line) <= Cap
      PROVE  IsPacked(With(s, Whole(line), 1), lo, line.to, pos2, Piece, 1)
  <2>1. IsPacked(With(s, Whole(line), 1), lo, Whole(line).to, pos2, Piece, 1)
    BY <1>1, <1>2, <1>3, NextKeeps
  <2> QED  BY <1>1, <2>1
<1>4. CASE Span(line) > Cap
  <2> DEFINE cuts == Alone(CutEvery(line.from, line.to, Cap))
  <2>1. IsCut(cuts, line.from, line.to, line.from..(line.to - 1), Piece)
    BY <1>1, AloneIs
  <2>2. \A at \in pos2 : at \in pos \/ at \in line.from..(line.to - 1)
    BY <1>1
  <2>3. PackLine(st, line) = [Flushed(st) EXCEPT !.chunks = @ \o cuts]
    BY <1>4 DEF PackLine
  <2> HIDE DEF cuts
  <2>4. IsPacked([Flushed(st) EXCEPT !.chunks = @ \o cuts], lo, line.to, pos2, Piece, 1)
    BY <1>1, <1>2, <2>1, <2>2, MoreKeeps
  <2> QED  BY Zenon, <2>3, <2>4
<1>5. CASE ~(Span(line) > Cap) /\ st.buf # <<>> /\ st.size + Span(line) + 1 > Cap
  <2>1. PackLine(st, line) = With(Reopened(st, line), Whole(line), 1)
    BY <1>5 DEF PackLine
  <2>2. /\ IsPacked(Reopened(st, line), lo, end, pos, Piece, 1)
        /\ Reopened(st, line).buf # <<>> => Reopened(st, line).size + Span(line) <= Cap
    BY <1>2, <1>5, ReopenedKeeps
  <2>3. Span(line) <= Cap /\ line.from = end + 1
    BY <1>1, <1>2, <1>5
  <2> QED  BY <1>3, <2>1, <2>2, <2>3
<1>6. CASE ~(Span(line) > Cap) /\ ~(st.buf # <<>> /\ st.size + Span(line) + 1 > Cap)
  <2>1. PackLine(st, line) = With(st, Whole(line), 1)
    BY <1>6 DEF PackLine
  <2>2. Span(line) <= Cap
    BY <1>1, <1>2, <1>6
  <2>3. st.size \in Int /\ (st.buf # <<>> => st.size + Span(line) <= Cap)
    BY <1>1, <1>2, <1>6, PackParts
  <2> QED  BY <1>3, <2>1, <2>2, <2>3
<1> QED  BY <1>4, <1>5, <1>6

LEMMA Taken ==
  ASSUME NEW N \in Nat, NEW V, NEW g \in [SUBSET (1..N) -> V], NEW S \in SUBSET (1..N), S # {}
  PROVE  Max(S) \in 1..N /\ S \ {Max(S)} \in SUBSET (1..N) /\ g[S \ {Max(S)}] \in V
<1>1. Max(S) \in 1..N /\ S \ {Max(S)} \in SUBSET (1..N)
  BY MaxIsIn
<1> QED  BY <1>1

IsLineFold(g, lines) ==
  g = [S \in SUBSET DOMAIN lines |->
         IF S = {} THEN Packing ELSE PackLine(g[S \ {Max(S)}], lines[Max(S)])]

LEMMA LineFoldIs ==
  ASSUME NEW lines
  PROVE  FoldLeft(PackLine, Packing, lines) = (CHOOSE g : IsLineFold(g, lines))[DOMAIN lines]
BY Zenon DEF FoldLeft, MapThenFoldSet, IsLineFold

LineWalk(h, lines) ==
  /\ h \in [0..Len(lines) -> PackState] /\ h[0] = Packing
  /\ \A n \in 1..Len(lines) : h[n] = PackLine(h[n - 1], lines[n])

LEMMA PlacedParts ==
  ASSUME NEW lines, IsPlaced(lines)
  PROVE  /\ Len(lines) \in Nat \ {0} /\ DOMAIN lines = 1..Len(lines) /\ lines \in Seq(Interval)
         /\ \A n \in 1..Len(lines) : /\ lines[n] \in Interval /\ lines[n].from < lines[n].to
                                     /\ lines[n].from \in Nat /\ lines[n].to \in Nat
         /\ \A n \in 2..Len(lines) : lines[n].from = lines[n - 1].to + 1
<1>1. lines \in Seq(Interval) /\ lines # <<>>
  BY DEF IsPlaced
<1>2. /\ Len(lines) \in Nat \ {0} /\ DOMAIN lines = 1..Len(lines)
      /\ \A n \in 1..Len(lines) : lines[n] \in Interval
  BY <1>1
<1>3. \A n \in 1..Len(lines) : lines[n].from \in Nat /\ lines[n].to \in Nat
  BY <1>2 DEF Interval
<1> QED  BY <1>1, <1>2, <1>3 DEF IsPlaced

LEMMA PlacedOrder ==
  ASSUME NEW lines, IsPlaced(lines)
  PROVE  /\ \A i, j \in 1..Len(lines) : i < j => lines[i].to <= lines[j].from
         /\ \A n \in 1..Len(lines) : /\ lines[1].from <= lines[n].from
                                     /\ lines[n].to <= lines[Len(lines)].to
<1> DEFINE N == Len(lines)
           a == [n \in 1..N |-> lines[n].from]
           b == [n \in 1..N |-> lines[n].to]
<1>1. /\ N \in Nat \ {0}
      /\ \A n \in 1..N : /\ lines[n].from < lines[n].to
                         /\ lines[n].from \in Nat /\ lines[n].to \in Nat
      /\ \A n \in 2..N : lines[n].from = lines[n - 1].to + 1
  BY PlacedParts
<1> HIDE DEF N
<1>2. a \in [1..N -> Nat] /\ b \in [1..N -> Nat] /\ \A n \in 1..N : a[n] <= b[n]
  BY <1>1
<1>3. \A n \in 2..N : b[n - 1] <= a[n]
  <2> SUFFICES ASSUME NEW n \in 2..N
               PROVE  b[n - 1] <= a[n]
    OBVIOUS
  <2>1. n \in 1..N /\ n - 1 \in 1..N
    BY <1>1
  <2>2. a[n] = lines[n].from /\ b[n - 1] = lines[n - 1].to /\ lines[n - 1].to \in Nat
    BY <1>1, <2>1
  <2> QED  BY <1>1, <2>2
<1>4. \A n \in 1..N : a[n] = lines[n].from /\ b[n] = lines[n].to
  OBVIOUS
<1> HIDE DEF a, b
<1>5. \A i, j \in 1..N : i < j => b[i] <= a[j]
  BY <1>1, <1>2, <1>3, Ordered
<1>6. \A i, j \in 1..N : i < j => lines[i].to <= lines[j].from
  BY <1>4, <1>5
<1>7. \A n \in 1..N : lines[1].from <= lines[n].from /\ lines[n].to <= lines[N].to
  <2> SUFFICES ASSUME NEW n \in 1..N
               PROVE  lines[1].from <= lines[n].from /\ lines[n].to <= lines[N].to
    OBVIOUS
  <2>1. 1 \in 1..N /\ N \in 1..N
    BY <1>1
  <2>2. lines[1].from <= lines[n].from
    <3>1. CASE n = 1
      BY <1>1, <3>1
    <3>2. CASE n # 1
      <4>1. 1 < n
        BY <3>2
      <4>2. lines[1].to <= lines[n].from
        BY <1>6, <2>1, <4>1
      <4> QED  BY <1>1, <2>1, <4>2
    <3> QED  BY <3>1, <3>2
  <2>3. lines[n].to <= lines[N].to
    <3>1. CASE n = N
      BY <1>1, <3>1
    <3>2. CASE n # N
      <4>1. n < N
        BY <1>1, <3>2
      <4>2. lines[n].to <= lines[N].from
        BY <1>6, <2>1, <4>1
      <4> QED  BY <1>1, <2>1, <4>2
    <3> QED  BY <3>1, <3>2
  <2> QED  BY <2>2, <2>3
<1> QED  BY <1>6, <1>7 DEF N

LEMMA LinesWalked ==
  ASSUME PassagesAssumption, NEW lines, IsPlaced(lines)
  PROVE  \E h : LineWalk(h, lines) /\ FoldLeft(PackLine, Packing, lines) = h[Len(lines)]
<1> DEFINE N == Len(lines)
           F == [k \in (1..N) \X PackState |-> PackLine(k[2], lines[k[1]])]
<1>0. /\ N \in Nat /\ DOMAIN lines = 1..N /\ Packing \in PackState
      /\ \A n \in 1..N, s \in PackState : PackLine(s, lines[n]) \in PackState
  <2>1. Packing \in PackState
    BY EmptySeq DEF Packing, PackState
  <2> QED  BY <2>1, PlacedParts, PackLineType
<1> HIDE DEF N
<1>1. F \in [(1..N) \X PackState -> PackState]
  <2>1. \A k \in (1..N) \X PackState : k[1] \in 1..N /\ k[2] \in PackState
    OBVIOUS
  <2>2. \A k \in (1..N) \X PackState : PackLine(k[2], lines[k[1]]) \in PackState
    BY <1>0, <2>1
  <2> QED  BY <2>2
<1>2. \A n \in 1..N, s \in PackState : F[<<n, s>>] = PackLine(s, lines[n])
  OBVIOUS
<1> HIDE DEF F
<1>3. PICK g \in [SUBSET (1..N) -> PackState] : LastTaken(g, N, Packing, F)
  BY <1>0, <1>1, SequenceFoldExists
<1>4. IsLineFold(g, lines)
  <2>1. ASSUME NEW S \in SUBSET (1..N)
        PROVE  g[S] = IF S = {} THEN Packing ELSE PackLine(g[S \ {Max(S)}], lines[Max(S)])
    <3>1. CASE S = {}
      BY <1>3, <3>1 DEF LastTaken
    <3>2. CASE S # {}
      <4>1. Max(S) \in 1..N /\ g[S \ {Max(S)}] \in PackState
        BY <1>0, <3>2, Taken
      <4>2. g[S] = F[<<Max(S), g[S \ {Max(S)}]>>]
        BY <1>3, <3>2 DEF LastTaken
      <4> QED  BY <1>2, <3>2, <4>1, <4>2
    <3> QED  BY <3>1, <3>2
  <2>2. g = [S \in SUBSET (1..N) |-> g[S]]
    OBVIOUS
  <2> QED  BY <1>0, <2>1, <2>2 DEF IsLineFold
<1> DEFINE k == CHOOSE f : IsLineFold(f, lines)
<1>5. IsLineFold(k, lines) /\ FoldLeft(PackLine, Packing, lines) = k[1..N]
  BY <1>0, <1>4, LineFoldIs
<1> HIDE DEF k
<1>6. \A S \in SUBSET (1..N) :
        k[S] = IF S = {} THEN Packing ELSE PackLine(k[S \ {Max(S)}], lines[Max(S)])
  BY <1>0, <1>5 DEF IsLineFold
<1>7. PICK h \in [0..N -> PackState] : Walked(h, N, Packing, F) /\ k[1..N] = h[N]
  <2>1. TakenWithin(k, N, PackState, Packing, F)
    <3>1. k[{}] = Packing
      BY <1>6
    <3>2. ASSUME NEW S \in SUBSET (1..N), S # {}, k[S \ {Max(S)}] \in PackState
          PROVE  k[S] = F[<<Max(S), k[S \ {Max(S)}]>>]
      <4>1. Max(S) \in 1..N
        BY <1>0, <3>2, MaxIsIn
      <4>2. k[S] = PackLine(k[S \ {Max(S)}], lines[Max(S)])
        BY <1>6, <3>2
      <4> QED  BY <1>2, <3>2, <4>1, <4>2
    <3> QED  BY <3>1, <3>2, Zenon DEF TakenWithin
  <2>2. WalkFold(k, N, PackState, Packing, F)
    BY <1>0, <1>1, <2>1, Zenon DEF WalkFold
  <2>3. HasWalk(k, N, PackState, Packing, F)
    BY <2>2, FoldWalks
  <2> QED  BY <2>3 DEF HasWalk
<1>8. LineWalk(h, lines)
  <2> SUFFICES ASSUME NEW n \in 1..N
               PROVE  h[n] = PackLine(h[n - 1], lines[n])
    BY <1>7 DEF LineWalk, Walked, N
  <2>1. n - 1 \in 0..N
    BY <1>0
  <2> QED  BY <1>2, <1>7, <2>1 DEF Walked
<1> QED  BY <1>5, <1>7, <1>8 DEF N

LEMMA LineModeCut ==
  ASSUME PassagesAssumption, NEW lines, IsPlaced(lines)
  PROVE  IsCut(Flushed(FoldLeft(PackLine, Packing, lines)).chunks, lines[1].from,
               lines[Len(lines)].to, Covered(lines, Len(lines)), Piece)
<1> DEFINE N == Len(lines)
           lo == lines[1].from
           End(n) == IF n = 0 THEN lo ELSE lines[n].to
<1>1. /\ N \in Nat \ {0}
      /\ \A n \in 1..N : /\ lines[n] \in Interval /\ lines[n].from < lines[n].to
                         /\ lines[n].from \in Nat /\ lines[n].to \in Nat
      /\ \A n \in 2..N : lines[n].from = lines[n - 1].to + 1
  BY PlacedParts
<1>2. PICK h : LineWalk(h, lines) /\ FoldLeft(PackLine, Packing, lines) = h[N]
  BY LinesWalked
<1> HIDE DEF N
<1>3. h[0] = Packing /\ \A n \in 1..N : h[n] = PackLine(h[n - 1], lines[n])
  BY <1>2 DEF LineWalk, N
<1>4. lo \in Nat /\ \A n \in 1..N : lo <= lines[n].from
  <2>1. 1 \in 1..N
    BY <1>1
  <2> QED  BY <1>1, <2>1, PlacedOrder DEF N
<1> DEFINE In == {n \in Nat : n <= N => IsPacked(h[n], lo, End(n), Covered(lines, n), Piece, 1)}
<1>5. 0 \in In
  <2>1. Covered(lines, 0) = {}
    BY DEF Covered
  <2> QED  BY <1>3, <2>1, PackingIs
<1>6. ASSUME NEW n \in Nat, n \in In
      PROVE  n + 1 \in In
  <2> SUFFICES ASSUME n + 1 <= N
               PROVE  IsPacked(h[n + 1], lo, End(n + 1), Covered(lines, n + 1), Piece, 1)
    OBVIOUS
  <2> DEFINE line == lines[n + 1]
  <2>1. n + 1 \in 1..N /\ (n + 1) - 1 = n /\ n <= N /\ End(n + 1) = line.to /\ (n = 0 \/ n \in 1..N)
    BY <1>1
  <2>2. h[n + 1] = PackLine(h[n], line) /\ IsPacked(h[n], lo, End(n), Covered(lines, n), Piece, 1)
    BY <1>3, <1>6, <2>1
  <2>3. line \in Interval /\ line.from < line.to /\ lo <= line.from /\ line.from \in Nat
    BY <1>1, <1>4, <2>1
  <2>4. End(n) \in Nat /\ End(n) <= line.from /\ (h[n].buf # <<>> => line.from = End(n) + 1)
    <3>1. CASE n = 0
      BY <1>3, <1>4, <2>3, <3>1 DEF Packing
    <3>2. CASE n \in 1..N
      <4>1. n + 1 \in 2..N /\ n # 0
        BY <1>1, <2>1, <3>2
      <4>2. line.from = lines[n].to + 1 /\ lines[n].to \in Nat
        BY <1>1, <2>1, <3>2, <4>1
      <4> QED  BY <4>1, <4>2
    <3> QED  BY <2>1, <3>1, <3>2
  <2>5. /\ Covered(lines, n + 1) \in SUBSET Nat
        /\ \A at \in Covered(lines, n + 1) :
             at \in Covered(lines, n) \/ (line.from <= at /\ at < line.to)
    BY DEF Covered
  <2> HIDE DEF line, End
  <2>6. IsPacked(PackLine(h[n], line), lo, line.to, Covered(lines, n + 1), Piece, 1)
    BY <1>4, <2>2, <2>3, <2>4, <2>5, PackLineKeeps
  <2> QED  BY <2>1, <2>2, <2>6
<1> HIDE DEF In
<1>7. IsPacked(h[N], lo, lines[N].to, Covered(lines, N), Piece, 1)
  <2>1. Nat \subseteq In
    BY <1>5, <1>6, SetInduction
  <2>2. IsPacked(h[N], lo, End(N), Covered(lines, N), Piece, 1)
    BY <1>1, <2>1 DEF In
  <2> QED  BY <1>1, <2>2
<1> QED  BY <1>2, <1>7 DEF IsPacked, N

-----------------------------------------------------------------------------
(* Passages: the turns of a transcript.                                     *)

TurnRecord == [speaker : Heads, lines : Seq(Interval)]

\* The first n lines in turns: each one line after the other, one turn after the other.
InTurns(turns, lines, n) ==
  /\ turns \in Seq(TurnRecord)
  /\ n = 0 => turns = <<>>
  /\ n # 0 => /\ turns # <<>> /\ turns[1].lines[1].from = lines[1].from
              /\ turns[Len(turns)].lines[Len(turns[Len(turns)].lines)].to = lines[n].to
  /\ \A j \in 1..Len(turns) : IsPlaced(turns[j].lines)
  /\ \A j \in 2..Len(turns) :
       turns[j].lines[1].from = turns[j - 1].lines[Len(turns[j - 1].lines)].to + 1
  /\ \A m \in 1..n : \E j \in 1..Len(turns) : \E i \in DOMAIN turns[j].lines :
       turns[j].lines[i] = lines[m]

LEMMA PlacedOne ==
  ASSUME NEW line \in Interval, line.from < line.to
  PROVE  IsPlaced(<<line>>) /\ <<line>> \in Seq(Interval) /\ Len(<<line>>) = 1 /\ <<line>>[1] = line
<1>1. <<line>> \in Seq(Interval) /\ Len(<<line>>) = 1 /\ <<line>>[1] = line /\ <<line>> # <<>>
      /\ DOMAIN <<line>> = {1} /\ 2..1 = {}
  OBVIOUS
<1> QED  BY <1>1 DEF IsPlaced

LEMMA PlacedAppend ==
  ASSUME NEW lines, IsPlaced(lines), NEW line \in Interval, line.from < line.to,
         line.from = lines[Len(lines)].to + 1
  PROVE  IsPlaced(Append(lines, line))
<1> DEFINE N == Len(lines)
           c == Append(lines, line)
<1>1. /\ N \in Nat \ {0} /\ lines \in Seq(Interval)
      /\ \A n \in 1..N : lines[n].from < lines[n].to
      /\ \A n \in 2..N : lines[n].from = lines[n - 1].to + 1
  BY PlacedParts
<1>2. /\ c \in Seq(Interval) /\ c # <<>> /\ Len(c) = N + 1 /\ DOMAIN c = 1..(N + 1)
      /\ c[N + 1] = line /\ \A n \in 1..N : c[n] = lines[n]
  BY <1>1, AppendIs
<1> SUFFICES IsPlaced(c)
  OBVIOUS
<1>3. line.from = lines[N].to + 1
  OBVIOUS
<1> HIDE DEF N, c
<1>4. \A n \in 1..(N + 1) : c[n].from < c[n].to
  <2> SUFFICES ASSUME NEW n \in 1..(N + 1)
               PROVE  c[n].from < c[n].to
    OBVIOUS
  <2>1. n = N + 1 \/ n \in 1..N
    BY <1>1
  <2> QED  BY <1>1, <1>2, <2>1
<1>5. \A n \in 2..(N + 1) : c[n].from = c[n - 1].to + 1
  <2> SUFFICES ASSUME NEW n \in 2..(N + 1)
               PROVE  c[n].from = c[n - 1].to + 1
    OBVIOUS
  <2>1. CASE n = N + 1
    <3>1. N \in 1..N /\ (N + 1) - 1 = N
      BY <1>1
    <3>2. n - 1 = N
      BY <2>1, <3>1
    <3> QED  BY <1>2, <1>3, <2>1, <3>1, <3>2
  <2>2. CASE n # N + 1
    <3>1. n \in 2..N /\ n \in 1..N /\ n - 1 \in 1..N
      BY <1>1, <2>2
    <3> QED  BY <1>1, <1>2, <3>1
  <2> QED  BY <2>1, <2>2
<1> QED  BY <1>2, <1>4, <1>5 DEF IsPlaced

LEMMA TurnUpdated ==
  ASSUME NEW t \in TurnRecord, NEW ls \in Seq(Interval)
  PROVE  [t EXCEPT !.lines = ls] = [speaker |-> t.speaker, lines |-> ls]
         /\ [speaker |-> t.speaker, lines |-> ls] \in TurnRecord
<1> DEFINE A == Seq(Interval)
<1>1. t \in [speaker : Heads, lines : A] /\ ls \in A
  BY DEF TurnRecord
<1> HIDE DEF A
<1>2. [t EXCEPT !.lines = ls] = [speaker |-> t.speaker, lines |-> ls]
  BY <1>1
<1>3. [speaker |-> t.speaker, lines |-> ls] \in [speaker : Heads, lines : A]
  BY <1>1
<1> QED  BY <1>2, <1>3 DEF TurnRecord, A

LEMMA WithLineIs ==
  ASSUME NEW lines, IsPlaced(lines), NEW turns \in Seq(TurnRecord), NEW i \in 1..Len(lines)
  PROVE  /\ WithLine(lines, turns, i) \in Seq(TurnRecord)
         /\ \/ \E speaker \in Heads :
                 WithLine(lines, turns, i)
                   = Append(turns, [speaker |-> speaker, lines |-> <<lines[i]>>])
            \/ /\ turns # <<>>
               /\ WithLine(lines, turns, i)
                    = [turns EXCEPT ![Len(turns)] =
                         [speaker |-> turns[Len(turns)].speaker,
                          lines |-> Append(turns[Len(turns)].lines, lines[i])]]
<1> DEFINE N == Len(turns)
           line == lines[i]
<1>1. line \in Interval /\ line.from < line.to
  BY PlacedParts
<1>2. CASE i \in Starts(lines) \/ turns = <<>>
  <2> DEFINE speaker == IF i \in Starts(lines) THEN line.head ELSE NoHead
             t == [speaker |-> speaker, lines |-> <<line>>]
  <2>1. speaker \in Heads
    BY <1>1, NoHeadIs DEF Interval
  <2>2. WithLine(lines, turns, i) = Append(turns, t)
    BY <1>2 DEF WithLine
  <2> HIDE DEF speaker
  <2>3. t \in TurnRecord
    <3>1. <<line>> \in Seq(Interval)
      BY <1>1, PlacedOne
    <3> QED  BY <2>1, <3>1 DEF TurnRecord
  <2>4. Append(turns, t) \in Seq(TurnRecord)
    BY <2>3, AppendIs
  <2> QED  BY <2>1, <2>2, <2>4
<1>3. CASE ~(i \in Starts(lines) \/ turns = <<>>)
  <2>1. N \in 1..N /\ turns[N] \in TurnRecord
    BY <1>3
  <2>2. turns[N].lines \in Seq(Interval)
    BY <2>1 DEF TurnRecord
  <2> DEFINE ls == Append(turns[N].lines, line)
             t == [speaker |-> turns[N].speaker, lines |-> ls]
  <2>3. ls \in Seq(Interval)
    BY <1>1, <2>2, AppendIs
  <2>4. WithLine(lines, turns, i) = [turns EXCEPT ![N] = [turns[N] EXCEPT !.lines = ls]]
    BY <1>3 DEF WithLine
  <2> HIDE DEF ls
  <2>5. [turns[N] EXCEPT !.lines = ls] = t /\ t \in TurnRecord
    BY <2>1, <2>3, TurnUpdated
  <2>6. WithLine(lines, turns, i) = [turns EXCEPT ![N] = t]
    BY <2>4, <2>5
  <2>7. [turns EXCEPT ![N] = t] \in Seq(TurnRecord)
    BY <2>1, <2>5, ExceptSeq
  <2> QED  BY <1>3, <2>6, <2>7 DEF ls
<1> QED  BY <1>2, <1>3

LEMMA WithLineKeeps ==
  ASSUME NEW lines, IsPlaced(lines), NEW n \in Nat, n + 1 <= Len(lines),
         NEW turns, InTurns(turns, lines, n)
  PROVE  InTurns(WithLine(lines, turns, n + 1), lines, n + 1)
<1> DEFINE M == Len(turns)
           line == lines[n + 1]
           w == WithLine(lines, turns, n + 1)
<1>1. n + 1 \in 1..Len(lines) /\ (n # 0 => n \in 1..Len(lines) /\ n + 1 \in 2..Len(lines))
      /\ (n + 1) - 1 = n /\ n + 1 # 0
  BY PlacedParts
<1>2. /\ turns \in Seq(TurnRecord) /\ M \in Nat /\ (n # 0 => turns # <<>> /\ M # 0)
      /\ (n = 0 => turns = <<>> /\ M = 0) /\ (turns # <<>> => M \in 1..M)
  <2>1. turns \in Seq(TurnRecord) /\ (n # 0 => turns # <<>>) /\ (n = 0 => turns = <<>>)
    BY DEF InTurns
  <2> QED  BY <2>1
<1>3. line \in Interval /\ line.from < line.to /\ (n # 0 => line.from = lines[n].to + 1)
  BY <1>1, PlacedParts
<1>4. /\ \A j \in 1..M : IsPlaced(turns[j].lines)
      /\ \A j \in 2..M :
           turns[j].lines[1].from = turns[j - 1].lines[Len(turns[j - 1].lines)].to + 1
      /\ \A m \in 1..n : \E j \in 1..M : \E i \in DOMAIN turns[j].lines : turns[j].lines[i] = lines[m]
      /\ n # 0 => /\ turns[1].lines[1].from = lines[1].from
                  /\ turns[M].lines[Len(turns[M].lines)].to = lines[n].to
  BY DEF InTurns
<1>5. w \in Seq(TurnRecord)
  BY <1>1, <1>2, WithLineIs
<1> SUFFICES InTurns(w, lines, n + 1)
  OBVIOUS
<1>6. ASSUME NEW speaker \in Heads, w = Append(turns, [speaker |-> speaker, lines |-> <<line>>])
      PROVE  InTurns(w, lines, n + 1)
  <2> DEFINE t == [speaker |-> speaker, lines |-> <<line>>]
  <2>1. t \in TurnRecord /\ t.lines = <<line>> /\ Len(t.lines) = 1 /\ t.lines[1] = line
        /\ IsPlaced(t.lines) /\ 1 \in DOMAIN t.lines
    <3>1. <<line>> \in Seq(Interval) /\ IsPlaced(<<line>>) /\ Len(<<line>>) = 1 /\ <<line>>[1] = line
      BY <1>3, PlacedOne
    <3>2. 1 \in DOMAIN <<line>>
      OBVIOUS
    <3> QED  BY <3>1, <3>2 DEF TurnRecord
  <2>2. w = Append(turns, t)
    BY <1>6
  <2> HIDE DEF t, w, line
  <2>3. /\ w # <<>> /\ Len(w) = M + 1 /\ w[M + 1] = t /\ \A j \in 1..M : w[j] = turns[j]
    BY <1>2, <2>1, <2>2, AppendIs
  <2> HIDE DEF M
  <2>4. \A j \in 1..(M + 1) : IsPlaced(w[j].lines)
    <3> SUFFICES ASSUME NEW j \in 1..(M + 1)
                 PROVE  IsPlaced(w[j].lines)
      OBVIOUS
    <3>1. j = M + 1 \/ j \in 1..M
      BY <1>2
    <3> QED  BY <1>4, <2>1, <2>3, <3>1
  <2>5. w[M + 1].lines[Len(w[M + 1].lines)].to = lines[n + 1].to
    BY <2>1, <2>3 DEF line
  <2>6. w[1].lines[1].from = lines[1].from
    <3>1. CASE n = 0
      BY <1>2, <2>1, <2>3, <3>1 DEF line
    <3>2. CASE n # 0
      <4>1. 1 \in 1..M
        BY <1>2, <3>2
      <4> QED  BY <1>4, <2>3, <3>2, <4>1
    <3> QED  BY <3>1, <3>2
  <2>7. \A j \in 2..(M + 1) : w[j].lines[1].from = w[j - 1].lines[Len(w[j - 1].lines)].to + 1
    <3> SUFFICES ASSUME NEW j \in 2..(M + 1)
                 PROVE  w[j].lines[1].from = w[j - 1].lines[Len(w[j - 1].lines)].to + 1
      OBVIOUS
    <3>1. CASE j = M + 1
      <4>1. j - 1 = M /\ M \in 1..M /\ n # 0
        <5>1. (M + 1) - 1 = M /\ M # 0
          BY <1>2
        <5>2. j - 1 = M
          BY <3>1, <5>1
        <5> QED  BY <1>2, <5>1, <5>2
      <4>2. w[j] = t /\ w[j - 1] = turns[M]
        BY <2>3, <3>1, <4>1
      <4> QED  BY <1>3, <1>4, <2>1, <4>1, <4>2
    <3>2. CASE j # M + 1
      <4>1. j \in 2..M /\ j \in 1..M /\ j - 1 \in 1..M
        BY <1>2, <3>2
      <4> QED  BY <1>4, <2>3, <4>1
    <3> QED  BY <3>1, <3>2
  <2>8. \A m \in 1..(n + 1) : \E j \in 1..(M + 1) : \E i \in DOMAIN w[j].lines : w[j].lines[i] = lines[m]
    <3> SUFFICES ASSUME NEW m \in 1..(n + 1)
                 PROVE  \E j \in 1..(M + 1) : \E i \in DOMAIN w[j].lines : w[j].lines[i] = lines[m]
      OBVIOUS
    <3>1. CASE m = n + 1
      <4>1. M + 1 \in 1..(M + 1)
        BY <1>2
      <4> QED  BY <2>1, <2>3, <3>1, <4>1 DEF line
    <3>2. CASE m # n + 1
      <4>1. m \in 1..n
        BY <3>2
      <4>2. PICK j \in 1..M : \E i \in DOMAIN turns[j].lines : turns[j].lines[i] = lines[m]
        BY <1>4, <4>1
      <4>3. j \in 1..(M + 1) /\ w[j] = turns[j]
        BY <1>2, <2>3
      <4> QED  BY <4>2, <4>3
    <3> QED  BY <3>1, <3>2
  <2> QED  BY <1>1, <1>5, <2>3, <2>4, <2>5, <2>6, <2>7, <2>8 DEF InTurns
<1>7. ASSUME turns # <<>>,
             w = [turns EXCEPT ![M] = [speaker |-> turns[M].speaker,
                                       lines |-> Append(turns[M].lines, line)]]
      PROVE  InTurns(w, lines, n + 1)
  <2> DEFINE ls == turns[M].lines
             more == Append(ls, line)
             t == [speaker |-> turns[M].speaker, lines |-> more]
  <2>1. n # 0 /\ M \in 1..M /\ IsPlaced(ls) /\ turns[M] \in TurnRecord
    BY <1>2, <1>4, <1>7
  <2>2. ls[Len(ls)].to = lines[n].to
    BY <1>4, <2>1
  <2>3. ls \in Seq(Interval) /\ Len(ls) \in Nat \ {0}
    BY <2>1, PlacedParts
  <2>4. IsPlaced(more)
    BY <1>3, <2>1, <2>2, PlacedAppend
  <2>5. /\ more \in Seq(Interval) /\ Len(more) = Len(ls) + 1 /\ more[Len(more)] = line
        /\ Len(more) \in DOMAIN more /\ DOMAIN ls = 1..Len(ls)
        /\ \A i \in DOMAIN ls : i \in DOMAIN more /\ more[i] = ls[i]
        /\ more[1] = ls[1]
    <3>1. /\ more \in Seq(Interval) /\ Len(more) = Len(ls) + 1 /\ DOMAIN ls = 1..Len(ls)
          /\ DOMAIN more = 1..(Len(ls) + 1) /\ more[Len(ls) + 1] = line
          /\ \A i \in 1..Len(ls) : more[i] = ls[i]
      BY <1>3, <2>3, AppendIs
    <3>2. 1 \in 1..Len(ls) /\ Len(ls) + 1 \in 1..(Len(ls) + 1)
          /\ \A i \in 1..Len(ls) : i \in 1..(Len(ls) + 1)
      BY <2>3
    <3> HIDE DEF more, ls
    <3> QED  BY <3>1, <3>2
  <2> HIDE DEF more
  <2>6. t.lines = more /\ t \in TurnRecord
    BY <2>1, <2>5 DEF TurnRecord
  <2>7. w = [turns EXCEPT ![M] = t]
    BY <1>7 DEF more
  <2> HIDE DEF t, w
  <2>8. /\ Len(w) = M /\ w # <<>> /\ w[M] = t
        /\ \A j \in 1..M : j # M => w[j] = turns[j]
    <3>1. Len(w) = M /\ \A j \in 1..M : w[j] = IF j = M THEN t ELSE turns[j]
      BY <1>2, <2>1, <2>6, <2>7, ExceptSeq
    <3>2. w # <<>>
      BY <1>5, <2>1, <3>1
    <3> QED  BY <2>1, <3>1, <3>2
  <2> HIDE DEF M, line
  <2>9. \A j \in 1..M : /\ IsPlaced(w[j].lines) /\ w[j].lines[1].from = turns[j].lines[1].from
                       /\ \A i \in DOMAIN turns[j].lines :
                            i \in DOMAIN w[j].lines /\ w[j].lines[i] = turns[j].lines[i]
    <3> SUFFICES ASSUME NEW j \in 1..M
                 PROVE  /\ IsPlaced(w[j].lines) /\ w[j].lines[1].from = turns[j].lines[1].from
                        /\ \A i \in DOMAIN turns[j].lines :
                             i \in DOMAIN w[j].lines /\ w[j].lines[i] = turns[j].lines[i]
      OBVIOUS
    <3>1. CASE j = M
      BY <2>4, <2>5, <2>6, <2>8, <3>1
    <3>2. CASE j # M
      BY <1>4, <2>8, <3>2
    <3> QED  BY <3>1, <3>2
  <2>10. w[M].lines[Len(w[M].lines)].to = lines[n + 1].to
    BY <2>5, <2>6, <2>8 DEF line
  <2>11. w[1].lines[1].from = lines[1].from
    <3>1. 1 \in 1..M
      BY <1>2, <2>1
    <3> QED  BY <1>4, <2>1, <2>9, <3>1
  <2>12. \A j \in 2..M : w[j].lines[1].from = w[j - 1].lines[Len(w[j - 1].lines)].to + 1
    <3> SUFFICES ASSUME NEW j \in 2..M
                 PROVE  w[j].lines[1].from = w[j - 1].lines[Len(w[j - 1].lines)].to + 1
      OBVIOUS
    <3>1. j \in 1..M /\ j - 1 \in 1..M /\ j - 1 # M
      BY <1>2
    <3>2. w[j - 1] = turns[j - 1] /\ w[j].lines[1].from = turns[j].lines[1].from
      BY <2>8, <2>9, <3>1
    <3> QED  BY <1>4, <3>2
  <2>13. \A m \in 1..(n + 1) : \E j \in 1..M : \E i \in DOMAIN w[j].lines : w[j].lines[i] = lines[m]
    <3> SUFFICES ASSUME NEW m \in 1..(n + 1)
                 PROVE  \E j \in 1..M : \E i \in DOMAIN w[j].lines : w[j].lines[i] = lines[m]
      OBVIOUS
    <3>1. CASE m = n + 1
      BY <2>1, <2>5, <2>6, <2>8, <3>1 DEF line
    <3>2. CASE m # n + 1
      <4>1. m \in 1..n
        BY <3>2
      <4>2. PICK j \in 1..M : \E i \in DOMAIN turns[j].lines : turns[j].lines[i] = lines[m]
        BY <1>4, <4>1
      <4> QED  BY <2>9, <4>2
    <3> QED  BY <3>1, <3>2
  <2> QED  BY <1>1, <1>5, <2>8, <2>9, <2>10, <2>11, <2>12, <2>13 DEF InTurns
<1>8. \/ \E speaker \in Heads : w = Append(turns, [speaker |-> speaker, lines |-> <<line>>])
      \/ turns # <<>> /\ w = [turns EXCEPT ![M] = [speaker |-> turns[M].speaker,
                                                 lines |-> Append(turns[M].lines, line)]]
  <2>1. n + 1 \in 1..Len(lines) /\ IsPlaced(lines) /\ turns \in Seq(TurnRecord)
    BY <1>1, <1>2
  <2> QED  BY <2>1, WithLineIs, Zenon
<1> QED  BY <1>6, <1>7, <1>8

IsTurnFold(g, lines) ==
  g = [S \in SUBSET DOMAIN [i \in DOMAIN lines |-> i] |->
         IF S = {} THEN <<>>
         ELSE WithLine(lines, g[S \ {Max(S)}], [i \in DOMAIN lines |-> i][Max(S)])]

LEMMA TurnFoldIs ==
  ASSUME NEW lines
  PROVE  Turns(lines) = (CHOOSE g : IsTurnFold(g, lines))[DOMAIN [i \in DOMAIN lines |-> i]]
BY Zenon DEF Turns, FoldLeft, MapThenFoldSet, IsTurnFold

TurnWalk(h, lines) ==
  /\ h \in [0..Len(lines) -> Seq(TurnRecord)] /\ h[0] = <<>>
  /\ \A n \in 1..Len(lines) : h[n] = WithLine(lines, h[n - 1], n)

LEMMA TurnsWalked ==
  ASSUME NEW lines, IsPlaced(lines)
  PROVE  \E h : TurnWalk(h, lines) /\ Turns(lines) = h[Len(lines)]
<1> DEFINE N == Len(lines)
           V == Seq(TurnRecord)
           F == [k \in (1..N) \X V |-> WithLine(lines, k[2], k[1])]
           idx == [i \in DOMAIN lines |-> i]
           none == <<>>
<1>0. /\ N \in Nat /\ DOMAIN lines = 1..N /\ none \in V
      /\ \A n \in 1..N, s \in V : WithLine(lines, s, n) \in V
  BY PlacedParts, WithLineIs, EmptySeq
<1>a. DOMAIN idx = 1..N /\ \A i \in 1..N : idx[i] = i
  BY <1>0
<1> HIDE DEF N, V, idx, none
<1>1. F \in [(1..N) \X V -> V]
  <2>1. \A k \in (1..N) \X V : k[1] \in 1..N /\ k[2] \in V
    OBVIOUS
  <2>2. \A k \in (1..N) \X V : WithLine(lines, k[2], k[1]) \in V
    BY <1>0, <2>1
  <2> QED  BY <2>2
<1>2. \A n \in 1..N, s \in V : F[<<n, s>>] = WithLine(lines, s, n)
  OBVIOUS
<1> HIDE DEF F
<1>3. PICK g \in [SUBSET (1..N) -> V] : LastTaken(g, N, none, F)
  BY <1>0, <1>1, SequenceFoldExists
<1>4. IsTurnFold(g, lines)
  <2>1. ASSUME NEW S \in SUBSET (1..N)
        PROVE  g[S] = IF S = {} THEN none ELSE WithLine(lines, g[S \ {Max(S)}], idx[Max(S)])
    <3>1. CASE S = {}
      BY <1>3, <3>1 DEF LastTaken
    <3>2. CASE S # {}
      <4>1. Max(S) \in 1..N /\ g[S \ {Max(S)}] \in V
        BY <1>0, <3>2, Taken
      <4>2. g[S] = F[<<Max(S), g[S \ {Max(S)}]>>]
        BY <1>3, <3>2 DEF LastTaken
      <4> QED  BY <1>2, <1>a, <3>2, <4>1, <4>2
    <3> QED  BY <3>1, <3>2
  <2>2. g = [S \in SUBSET (1..N) |-> g[S]]
    OBVIOUS
  <2>3. g = [S \in SUBSET DOMAIN idx |->
               IF S = {} THEN none ELSE WithLine(lines, g[S \ {Max(S)}], idx[Max(S)])]
    BY <1>a, <2>1, <2>2
  <2> QED  BY Zenon, <2>3 DEF IsTurnFold, idx, none
<1> DEFINE k == CHOOSE f : IsTurnFold(f, lines)
<1>5. IsTurnFold(k, lines) /\ Turns(lines) = k[1..N]
  BY <1>4, <1>a, TurnFoldIs DEF idx
<1> HIDE DEF k
<1>6. \A S \in SUBSET (1..N) :
        k[S] = IF S = {} THEN none ELSE WithLine(lines, k[S \ {Max(S)}], idx[Max(S)])
  <2>1. k = [S \in SUBSET DOMAIN idx |->
               IF S = {} THEN none ELSE WithLine(lines, k[S \ {Max(S)}], idx[Max(S)])]
    BY Zenon, <1>5 DEF IsTurnFold, idx, none
  <2> QED  BY <1>a, <2>1
<1>7. PICK h \in [0..N -> V] : Walked(h, N, none, F) /\ k[1..N] = h[N]
  <2>1. TakenWithin(k, N, V, none, F)
    <3>1. k[{}] = none
      BY <1>6
    <3>2. ASSUME NEW T \in SUBSET (1..N), T # {}, k[T \ {Max(T)}] \in V
          PROVE  k[T] = F[<<Max(T), k[T \ {Max(T)}]>>]
      <4>1. Max(T) \in 1..N
        BY <1>0, <3>2, MaxIsIn
      <4>2. idx[Max(T)] = Max(T)
        BY <1>a, <4>1
      <4>3. k[T] = WithLine(lines, k[T \ {Max(T)}], Max(T))
        BY <1>6, <3>2, <4>2
      <4> QED  BY <1>2, <3>2, <4>1, <4>3
    <3> QED  BY <3>1, <3>2 DEF TakenWithin
  <2>2. WalkFold(k, N, V, none, F)
    BY <1>0, <1>1, <2>1, Zenon DEF WalkFold
  <2>3. HasWalk(k, N, V, none, F)
    BY <2>2, FoldWalks
  <2> QED  BY <2>3 DEF HasWalk
<1>8. TurnWalk(h, lines)
  <2> SUFFICES ASSUME NEW n \in 1..N
               PROVE  h[n] = WithLine(lines, h[n - 1], n)
    BY <1>7 DEF TurnWalk, Walked, N, V, none
  <2>1. n - 1 \in 0..N
    BY <1>0
  <2> QED  BY <1>2, <1>7, <2>1 DEF Walked
<1> QED  BY <1>5, <1>7, <1>8 DEF N

\* The turns of a paragraph are its lines, in order and none left out.
LEMMA TurnsAre ==
  ASSUME NEW lines, IsPlaced(lines)
  PROVE  InTurns(Turns(lines), lines, Len(lines))
<1> DEFINE N == Len(lines)
<1>1. N \in Nat \ {0}
  BY PlacedParts
<1>2. PICK h : TurnWalk(h, lines) /\ Turns(lines) = h[N]
  BY TurnsWalked
<1>3. h[0] = <<>> /\ \A n \in 1..N : h[n] = WithLine(lines, h[n - 1], n)
  BY <1>2 DEF TurnWalk
<1> DEFINE In == {n \in Nat : n <= N => InTurns(h[n], lines, n)}
<1>4. 0 \in In
  <2>1. <<>> \in Seq(TurnRecord) /\ Len(<<>>) = 0 /\ 1..0 = {} /\ 2..0 = {}
    BY EmptySeq
  <2>2. InTurns(<<>>, lines, 0)
    BY <2>1 DEF InTurns
  <2> QED  BY <1>3, <2>2
<1>5. ASSUME NEW n \in Nat, n \in In
      PROVE  n + 1 \in In
  <2> SUFFICES ASSUME n + 1 <= N
               PROVE  InTurns(h[n + 1], lines, n + 1)
    OBVIOUS
  <2>1. n + 1 \in 1..N /\ (n + 1) - 1 = n /\ n <= N
    BY <1>1
  <2>2. h[n + 1] = WithLine(lines, h[n], n + 1) /\ InTurns(h[n], lines, n)
    BY <1>3, <1>5, <2>1
  <2> QED  BY <2>2, WithLineKeeps
<1> HIDE DEF In
<1>6. Nat \subseteq In
  BY <1>4, <1>5, SetInduction
<1> QED  BY <1>1, <1>2, <1>6 DEF In

-----------------------------------------------------------------------------
(* Passages: a long turn, in units.                                         *)

LEMMA RoomIs ==
  ASSUME PassagesAssumption, NEW speaker \in Heads
  PROVE  /\ Room(speaker) \in Nat \ {0} /\ Cap \in Nat
         /\ Room(speaker) + (IF speaker = NoHead THEN 0 ELSE NameLen) = Cap
BY DEF PassagesAssumption, Room

LEMMA UnitsAre ==
  ASSUME PassagesAssumption, NEW speaker \in Heads, NEW line \in Interval, line.from < line.to
  PROVE  \E N \in Nat \ {0} : AreCuts(Units(speaker, line), N, line.from, line.to, Room(speaker))
<1>1. line.from \in Nat /\ line.to \in Nat /\ Span(line) = line.to - line.from
  BY WholeIs
<1>2. Room(speaker) \in Nat \ {0}
  BY RoomIs
<1>3. CASE Span(line) <= Room(speaker)
  <2> DEFINE unit == [from |-> line.from, to |-> line.to]
  <2>1. Units(speaker, line) = <<unit>>
    BY <1>3 DEF Units
  <2>2. unit \in [from : Nat, to : Nat] /\ unit.from = line.from /\ unit.to = line.to
    BY <1>1
  <2> HIDE DEF unit
  <2>3. /\ <<unit>> \in Seq([from : Nat, to : Nat]) /\ Len(<<unit>>) = 1 /\ DOMAIN <<unit>> = 1..1
        /\ <<unit>>[1] = unit /\ 1..1 = {1} /\ 2..1 = {}
    BY <2>2
  <2>4. unit.from <= unit.from /\ unit.to <= unit.to /\ unit.to <= unit.from + Room(speaker)
    BY <1>1, <1>2, <1>3, <2>2
  <2>5. AreCuts(<<unit>>, 1, line.from, line.to, Room(speaker))
    BY <2>2, <2>3, <2>4 DEF AreCuts
  <2> QED  BY <2>1, <2>5
<1>4. CASE ~(Span(line) <= Room(speaker))
  <2>1. Units(speaker, line) = CutEvery(line.from, line.to, Room(speaker))
    BY <1>4 DEF Units
  <2>2. PICK N \in Nat \ {0} :
          AreCuts(CutEvery(line.from, line.to, Room(speaker)), N, line.from, line.to, Room(speaker))
    BY <1>1, <1>2, CutEveryIs
  <2>3. AreCuts(Units(speaker, line), N, line.from, line.to, Room(speaker))
    BY <2>1, <2>2
  <2> QED  BY <2>3
<1> QED  BY <1>3, <1>4

LEMMA PackUnitIs ==
  ASSUME PassagesAssumption, NEW speaker \in Heads, NEW st \in PackState,
         NEW unit \in [from : Nat, to : Nat]
  PROVE  /\ PackUnit(speaker, st, unit) \in PackState /\ PackUnit(speaker, st, unit).buf # <<>>
         /\ \E base \in {st, Flushed(st)}, says \in {speaker, NoHead} :
              /\ PackUnit(speaker, st, unit) = With(base, Shown(unit.from, unit.to, says), 1)
              /\ base.buf = <<>> /\ base.chunks # <<>> => says = speaker
              /\ ~(base.buf = <<>> /\ base.chunks # <<>>) => says = NoHead
              /\ base = st \/ (base = Flushed(st) /\ st.buf # <<>>)
              /\ base = st /\ st.buf # <<>> => ~(st.size + unit.to - unit.from + 1 > Cap)
<1> DEFINE full == st.buf # <<>> /\ st.size + unit.to - unit.from + 1 > Cap
           base == IF full THEN Flushed(st) ELSE st
           says == IF base.buf = <<>> /\ base.chunks # <<>> THEN speaker ELSE NoHead
<1>1. PackUnit(speaker, st, unit) = With(base, Shown(unit.from, unit.to, says), 1)
  BY DEF PackUnit
<1>2. base \in PackState /\ base \in {st, Flushed(st)} /\ says \in {speaker, NoHead} /\ says \in Heads
  BY FlushedIs, NoHeadIs
<1>3. Shown(unit.from, unit.to, says) \in Piece /\ 1 \in Int
  <2>1. unit.from \in Nat /\ unit.to \in Nat
    OBVIOUS
  <2> QED  BY <1>2, <2>1, ShownIs
<1>4. PackUnit(speaker, st, unit) \in PackState /\ PackUnit(speaker, st, unit).buf # <<>>
  <2> DEFINE piece == Shown(unit.from, unit.to, says)
  <2>1. PackUnit(speaker, st, unit) = With(base, piece, 1) /\ piece \in Piece /\ base \in PackState
    BY <1>1, <1>2, <1>3
  <2> HIDE DEF piece, base, says, full
  <2>2. 1 \in Int
    OBVIOUS
  <2>3. With(base, piece, 1) \in PackState /\ With(base, piece, 1).buf # <<>>
    BY Zenon, <2>1, <2>2, WithIs
  <2> QED  BY <2>1, <2>3
<1>5. /\ base.buf = <<>> /\ base.chunks # <<>> => says = speaker
      /\ ~(base.buf = <<>> /\ base.chunks # <<>>) => says = NoHead
      /\ base = st \/ (base = Flushed(st) /\ st.buf # <<>>)
  OBVIOUS
<1>6. base = st /\ st.buf # <<>> => ~(st.size + unit.to - unit.from + 1 > Cap)
  <2>1. CASE full
    <3>1. base.buf = <<>>
      BY <2>1, FlushedIs
    <3> QED  BY <3>1
  <2>2. CASE ~full
    BY <2>2
  <2> QED  BY <2>1, <2>2
<1> HIDE DEF base, says
<1> QED  BY <1>1, <1>2, <1>4, <1>5, <1>6

LEMMA PackUnitKeeps ==
  ASSUME PassagesAssumption, NEW speaker \in Heads, NEW st, NEW lo \in Nat, NEW end \in Nat, NEW pos,
         NEW G, IsPacked(st, lo, end, pos, G, 1), NEW unit \in [from : Nat, to : Nat],
         unit.from < unit.to, unit.to <= unit.from + Room(speaker), lo <= unit.from, end <= unit.from,
         st.buf # <<>> => unit.from = end \/ unit.from = end + 1,
         Shown(unit.from, unit.to, speaker) \in G,
         st.buf # <<>> \/ Shown(unit.from, unit.to, NoHead) \in G,
         NEW pos2 \in SUBSET Nat,
         \A at \in pos2 : at \in pos \/ (unit.from <= at /\ at < unit.to)
  PROVE  IsPacked(PackUnit(speaker, st, unit), lo, unit.to, pos2, G, 1)
<1>1. /\ st \in PackState /\ unit.from \in Nat /\ unit.to \in Nat /\ Cap \in Nat
      /\ st.size \in Int /\ 1 \in 1..2
  BY PackParts DEF IsPacked, PassagesAssumption
<1>2. PICK base \in {st, Flushed(st)}, says \in {speaker, NoHead} :
        /\ PackUnit(speaker, st, unit) = With(base, Shown(unit.from, unit.to, says), 1)
        /\ base.buf = <<>> /\ base.chunks # <<>> => says = speaker
        /\ ~(base.buf = <<>> /\ base.chunks # <<>>) => says = NoHead
        /\ base = st \/ (base = Flushed(st) /\ st.buf # <<>>)
        /\ base = st /\ st.buf # <<>> => ~(st.size + unit.to - unit.from + 1 > Cap)
  BY <1>1, PackUnitIs
<1> DEFINE piece == Shown(unit.from, unit.to, says)
<1>3. /\ piece \in Piece /\ piece.from = unit.from /\ piece.to = unit.to
      /\ PieceLen(piece) = unit.to - unit.from + (IF says = NoHead THEN 0 ELSE NameLen)
  <2>1. says \in Heads
    BY NoHeadIs
  <2> HIDE DEF piece
  <2>2. piece = Shown(unit.from, unit.to, says)
    BY DEF piece
  <2>3. /\ Shown(unit.from, unit.to, says) \in Piece
        /\ Shown(unit.from, unit.to, says).from = unit.from
        /\ Shown(unit.from, unit.to, says).to = unit.to
        /\ PieceLen(Shown(unit.from, unit.to, says))
             = unit.to - unit.from + (IF says = NoHead THEN 0 ELSE NameLen)
    BY <2>1, UnitShownIs
  <2> QED  BY <2>2, <2>3
<1>4. PackUnit(speaker, st, unit) = With(base, piece, 1)
  BY <1>2
<1>5. IsPacked(base, lo, end, pos, G, 1) /\ base \in PackState
  <2> HIDE DEF piece
  <2>1. IsPacked(Flushed(st), lo, end, pos, G, 1)
    BY FlushedKeeps
  <2>2. CASE base = st
    BY <2>2 DEF IsPacked
  <2>3. CASE base = Flushed(st)
    <3>1. Flushed(st) \in PackState
      BY <1>1, FlushedIs
    <3> QED  BY <2>1, <2>3, <3>1
  <2> QED  BY <2>2, <2>3
<1>6. base.buf # <<>> => base = st /\ st.buf # <<>>
  BY <1>1, <1>2, FlushedIs
<1>7. base.buf = <<>> => piece \in G
  <2> SUFFICES ASSUME base.buf = <<>>
               PROVE  piece \in G
    OBVIOUS
  <2>1. CASE says = speaker
    BY <2>1
  <2>2. CASE says # speaker
    <3>1. says = NoHead /\ base.chunks = <<>>
      BY <1>2, <2>2
    <3>2. st.buf = <<>>
      BY <1>1, <1>2, <3>1, FlushedIs
    <3> QED  BY <3>1, <3>2
  <2> QED  BY <2>1, <2>2
<1>8. PieceLen(piece) <= Cap
  <2>1. Room(speaker) \in Nat /\ Room(speaker) + (IF speaker = NoHead THEN 0 ELSE NameLen) = Cap
        /\ NameLen \in Nat
    BY RoomIs DEF PassagesAssumption
  <2> QED  BY <1>1, <1>3, <2>1
<1>9. base.buf # <<>> => base.size + PieceLen(piece) <= Cap
  <2> SUFFICES ASSUME base.buf # <<>>
               PROVE  base.size + PieceLen(piece) <= Cap
    OBVIOUS
  <2>1. base = st /\ says = NoHead /\ ~(st.size + unit.to - unit.from + 1 > Cap)
    BY <1>2, <1>6
  <2> QED  BY <1>1, <1>3, <2>1
<1>10. base.buf # <<>> => piece.from = end \/ piece.from = end + 1
  BY <1>3, <1>6
<1> HIDE DEF piece
<1>11. IsPacked(With(base, piece, 1), lo, piece.to, pos2, G, 1)
  BY <1>1, <1>3, <1>5, <1>7, <1>8, <1>9, <1>10, NextKeeps
<1> QED  BY <1>3, <1>4, <1>11

\* Pieces that may open a chunk: those that say who is talking, and any that starts there.
SaidIn(G, speaker, lo, hi) ==
  \A from \in Nat, to \in Nat : lo <= from /\ from < hi => Shown(from, to, speaker) \in G

StartsAt(G, from) == \A to \in Nat, says \in Heads : Shown(from, to, says) \in G

IsUnitFold(g, speaker, st, units) ==
  g = [S \in SUBSET DOMAIN units |->
         IF S = {} THEN st ELSE PackUnit(speaker, g[S \ {Max(S)}], units[Max(S)])]

LEMMA UnitFoldIs ==
  ASSUME NEW speaker, NEW st, NEW line
  PROVE  PackUnits(speaker, st, line)
           = (CHOOSE g : IsUnitFold(g, speaker, st, Units(speaker, line)))[DOMAIN Units(speaker, line)]
BY Zenon DEF PackUnits, FoldLeft, MapThenFoldSet, IsUnitFold

UnitWalk(h, N, speaker, st, units) ==
  /\ h \in [0..N -> PackState] /\ h[0] = st
  /\ \A n \in 1..N : h[n] = PackUnit(speaker, h[n - 1], units[n])

LEMMA UnitsWalked ==
  ASSUME PassagesAssumption, NEW speaker \in Heads, NEW st \in PackState,
         NEW line \in Interval, line.from < line.to,
         NEW N \in Nat, AreCuts(Units(speaker, line), N, line.from, line.to, Room(speaker))
  PROVE  \E h : UnitWalk(h, N, speaker, st, Units(speaker, line)) /\ PackUnits(speaker, st, line) = h[N]
<1> DEFINE units == Units(speaker, line)
           F == [k \in (1..N) \X PackState |-> PackUnit(speaker, k[2], units[k[1]])]
<1>0. /\ DOMAIN units = 1..N
      /\ \A n \in 1..N, s \in PackState : PackUnit(speaker, s, units[n]) \in PackState
  <2>1. DOMAIN units = 1..N /\ \A n \in 1..N : units[n] \in [from : Nat, to : Nat]
    BY DEF AreCuts
  <2> QED  BY <2>1, PackUnitIs
<1>a. PackUnits(speaker, st, line) = (CHOOSE f : IsUnitFold(f, speaker, st, units))[1..N]
  BY <1>0, UnitFoldIs
<1> HIDE DEF units
<1>1. F \in [(1..N) \X PackState -> PackState]
  <2>1. \A k \in (1..N) \X PackState : k[1] \in 1..N /\ k[2] \in PackState
    OBVIOUS
  <2>2. \A k \in (1..N) \X PackState : PackUnit(speaker, k[2], units[k[1]]) \in PackState
    BY <1>0, <2>1
  <2> QED  BY <2>2
<1>2. \A n \in 1..N, s \in PackState : F[<<n, s>>] = PackUnit(speaker, s, units[n])
  OBVIOUS
<1> HIDE DEF F
<1>3. PICK g \in [SUBSET (1..N) -> PackState] : LastTaken(g, N, st, F)
  BY <1>0, <1>1, SequenceFoldExists
<1>4. IsUnitFold(g, speaker, st, units)
  <2>1. ASSUME NEW S \in SUBSET (1..N)
        PROVE  g[S] = IF S = {} THEN st ELSE PackUnit(speaker, g[S \ {Max(S)}], units[Max(S)])
    <3>1. CASE S = {}
      BY <1>3, <3>1 DEF LastTaken
    <3>2. CASE S # {}
      <4>1. Max(S) \in 1..N /\ g[S \ {Max(S)}] \in PackState
        BY <3>2, Taken
      <4>2. g[S] = F[<<Max(S), g[S \ {Max(S)}]>>]
        BY <1>3, <3>2 DEF LastTaken
      <4> QED  BY <1>2, <3>2, <4>1, <4>2
    <3> QED  BY <3>1, <3>2
  <2>2. g = [S \in SUBSET (1..N) |-> g[S]]
    OBVIOUS
  <2> QED  BY <1>0, <2>1, <2>2 DEF IsUnitFold
<1> DEFINE k == CHOOSE f : IsUnitFold(f, speaker, st, units)
<1>5. IsUnitFold(k, speaker, st, units) /\ PackUnits(speaker, st, line) = k[1..N]
  BY <1>a, <1>4
<1> HIDE DEF k
<1>6. \A S \in SUBSET (1..N) :
        k[S] = IF S = {} THEN st ELSE PackUnit(speaker, k[S \ {Max(S)}], units[Max(S)])
  BY <1>0, <1>5 DEF IsUnitFold
<1>7. PICK h \in [0..N -> PackState] : Walked(h, N, st, F) /\ k[1..N] = h[N]
  <2>1. TakenWithin(k, N, PackState, st, F)
    <3>1. k[{}] = st
      BY <1>6
    <3>2. ASSUME NEW S \in SUBSET (1..N), S # {}, k[S \ {Max(S)}] \in PackState
          PROVE  k[S] = F[<<Max(S), k[S \ {Max(S)}]>>]
      <4>1. Max(S) \in 1..N
        BY <3>2, MaxIsIn
      <4>2. k[S] = PackUnit(speaker, k[S \ {Max(S)}], units[Max(S)])
        BY <1>6, <3>2
      <4> QED  BY <1>2, <3>2, <4>1, <4>2
    <3> QED  BY <3>1, <3>2, Zenon DEF TakenWithin
  <2>2. WalkFold(k, N, PackState, st, F)
    BY <1>1, <2>1, Zenon DEF WalkFold
  <2>3. HasWalk(k, N, PackState, st, F)
    BY <2>2, FoldWalks
  <2> QED  BY <2>3 DEF HasWalk
<1>8. UnitWalk(h, N, speaker, st, units)
  <2> SUFFICES ASSUME NEW n \in 1..N
               PROVE  h[n] = PackUnit(speaker, h[n - 1], units[n])
    BY <1>7 DEF UnitWalk, Walked
  <2>1. n - 1 \in 0..N
    OBVIOUS
  <2> QED  BY <1>2, <1>7, <2>1 DEF Walked
<1> QED  BY <1>5, <1>7, <1>8 DEF units

LEMMA PackUnitsKeep ==
  ASSUME PassagesAssumption, NEW speaker \in Heads, NEW st, NEW lo \in Nat, NEW end \in Nat,
         NEW pos \in SUBSET Nat, NEW G, IsPacked(st, lo, end, pos, G, 1),
         NEW line \in Interval, line.from < line.to, lo <= line.from, end <= line.from,
         st.buf # <<>> => line.from = end + 1,
         SaidIn(G, speaker, line.from, line.to), st.buf # <<>> \/ StartsAt(G, line.from)
  PROVE  /\ PackUnits(speaker, st, line) \in PackState /\ PackUnits(speaker, st, line).buf # <<>>
         /\ \A pos2 \in SUBSET Nat :
              (\A at \in pos2 : at \in pos \/ (line.from <= at /\ at < line.to)) =>
                IsPacked(PackUnits(speaker, st, line), lo, line.to, pos2, G, 1)
<1>1. PICK N \in Nat \ {0} :
        AreCuts(Units(speaker, line), N, line.from, line.to, Room(speaker))
  BY UnitsAre
<1> DEFINE units == Units(speaker, line)
           End(n) == IF n = 0 THEN end ELSE units[n].to
           Pos(n) == {at \in Nat : at \in pos \/ (n # 0 /\ line.from <= at /\ at < units[n].to)}
<1>2. st \in PackState /\ line.from \in Nat /\ line.to \in Nat
  BY WholeIs DEF IsPacked
<1>3. PICK h : UnitWalk(h, N, speaker, st, units) /\ PackUnits(speaker, st, line) = h[N]
  BY <1>1, <1>2, UnitsWalked
<1>4. /\ units[1].from = line.from /\ units[N].to = line.to
      /\ \A n \in 1..N : /\ units[n] \in [from : Nat, to : Nat]
                         /\ units[n].from \in Nat /\ units[n].to \in Nat
                         /\ units[n].from < units[n].to /\ units[n].to <= units[n].from + Room(speaker)
                         /\ line.from <= units[n].from /\ units[n].to <= line.to
      /\ \A n \in 2..N : units[n].from = units[n - 1].to
  BY <1>1 DEF AreCuts
<1> HIDE DEF units
<1>5. /\ h[0] = st /\ h[N] \in PackState
      /\ \A n \in 1..N : h[n] = PackUnit(speaker, h[n - 1], units[n])
  BY <1>3 DEF UnitWalk
<1> DEFINE In == {n \in Nat : n <= N => /\ IsPacked(h[n], lo, End(n), Pos(n), G, 1)
                                        /\ n # 0 => h[n].buf # <<>>}
<1>6. 0 \in In
  <2>1. Pos(0) = pos /\ End(0) = end
    OBVIOUS
  <2> QED  BY <1>5, <2>1
<1>7. ASSUME NEW n \in Nat, n \in In
      PROVE  n + 1 \in In
  <2> SUFFICES ASSUME n + 1 <= N
               PROVE  /\ IsPacked(h[n + 1], lo, End(n + 1), Pos(n + 1), G, 1)
                      /\ h[n + 1].buf # <<>>
    OBVIOUS
  <2> DEFINE unit == units[n + 1]
  <2>1. n + 1 \in 1..N /\ (n + 1) - 1 = n /\ n <= N /\ End(n + 1) = unit.to /\ (n = 0 \/ n \in 1..N)
    BY <1>1
  <2>2. /\ h[n + 1] = PackUnit(speaker, h[n], unit) /\ IsPacked(h[n], lo, End(n), Pos(n), G, 1)
        /\ n # 0 => h[n].buf # <<>>
    BY <1>5, <1>7, <2>1
  <2>3. /\ unit \in [from : Nat, to : Nat] /\ unit.from \in Nat /\ unit.to \in Nat
        /\ unit.from < unit.to /\ unit.to <= unit.from + Room(speaker)
        /\ line.from <= unit.from /\ unit.to <= line.to /\ lo <= unit.from
    BY <1>2, <1>4, <2>1
  <2>4. /\ n = 0 => unit.from = line.from
        /\ n # 0 => unit.from = units[n].to /\ units[n].to \in Nat
    <3>1. CASE n = 0
      BY <1>4, <3>1
    <3>2. CASE n # 0
      <4>1. n + 1 \in 2..N /\ n \in 1..N
        BY <2>1, <3>2
      <4> QED  BY <1>4, <2>1, <3>2, <4>1
    <3> QED  BY <3>1, <3>2
  <2>5. /\ End(n) \in Nat /\ End(n) <= unit.from
        /\ h[n].buf # <<>> => unit.from = End(n) \/ unit.from = End(n) + 1
    BY <1>5, <2>4
  <2>6. Shown(unit.from, unit.to, speaker) \in G
    <3>1. unit.from < line.to
      BY <1>2, <2>3
    <3> QED  BY <2>3, <3>1 DEF SaidIn
  <2>7. h[n].buf # <<>> \/ Shown(unit.from, unit.to, NoHead) \in G
    <3>1. CASE n = 0
      <4>1. unit.from = line.from /\ (st.buf # <<>> \/ StartsAt(G, unit.from))
        BY <2>4, <3>1
      <4> QED  BY <1>5, <2>3, <3>1, <4>1, NoHeadIs DEF StartsAt
    <3>2. CASE n # 0
      BY <2>2, <3>2
    <3> QED  BY <3>1, <3>2
  <2>8. Pos(n + 1) \in SUBSET Nat
        /\ \A at \in Pos(n + 1) : at \in Pos(n) \/ (unit.from <= at /\ at < unit.to)
    BY <1>2, <2>3, <2>4
  <2> HIDE DEF unit, End, Pos
  <2>9. IsPacked(PackUnit(speaker, h[n], unit), lo, unit.to, Pos(n + 1), G, 1)
    BY <2>2, <2>3, <2>5, <2>6, <2>7, <2>8, PackUnitKeeps
  <2>10. PackUnit(speaker, h[n], unit).buf # <<>>
    BY <2>2, <2>3, PackUnitIs DEF IsPacked
  <2> QED  BY <2>1, <2>2, <2>9, <2>10
<1> HIDE DEF In
<1>8. /\ IsPacked(h[N], lo, line.to, Pos(N), G, 1) /\ h[N].buf # <<>>
  <2>1. Nat \subseteq In
    BY <1>6, <1>7, SetInduction
  <2>2. N # 0 /\ IsPacked(h[N], lo, End(N), Pos(N), G, 1) /\ h[N].buf # <<>>
    <3>1. N \in In /\ N <= N /\ N # 0
      BY <1>1, <2>1
    <3> HIDE DEF End, Pos
    <3> QED  BY <3>1 DEF In
  <2>3. End(N) = line.to
    BY <1>4, <2>2
  <2> QED  BY <2>2, <2>3
<1>9. ASSUME NEW pos2 \in SUBSET Nat, \A at \in pos2 : at \in pos \/ (line.from <= at /\ at < line.to)
      PROVE  IsPacked(h[N], lo, line.to, pos2, G, 1)
  <2>1. \A at \in pos2 : at \in Pos(N)
    BY <1>1, <1>4, <1>9
  <2> QED  BY <1>2, <1>8, <2>1, PackedWeaker
<1> QED  BY <1>3, <1>5, <1>8, <1>9

-----------------------------------------------------------------------------
(* Passages: a long turn, line by line.                                     *)

Spoken(speaker, lines) ==
  FoldLeft(LAMBDA s, line : PackUnits(speaker, s, line), Packing, lines)

IsSpokenFold(g, speaker, lines) ==
  g = [S \in SUBSET DOMAIN lines |->
         IF S = {} THEN Packing ELSE PackUnits(speaker, g[S \ {Max(S)}], lines[Max(S)])]

LEMMA SpokenFoldIs ==
  ASSUME NEW speaker, NEW lines
  PROVE  Spoken(speaker, lines) = (CHOOSE g : IsSpokenFold(g, speaker, lines))[DOMAIN lines]
BY Zenon DEF Spoken, FoldLeft, MapThenFoldSet, IsSpokenFold

SpokenWalk(h, speaker, lines) ==
  /\ h \in [0..Len(lines) -> PackState] /\ h[0] = Packing
  /\ \A n \in 1..Len(lines) : h[n] = PackUnits(speaker, h[n - 1], lines[n])

LEMMA PackUnitsType ==
  ASSUME PassagesAssumption, NEW speaker \in Heads, NEW st \in PackState,
         NEW line \in Interval, line.from < line.to
  PROVE  PackUnits(speaker, st, line) \in PackState
<1>1. PICK N \in Nat \ {0} :
        AreCuts(Units(speaker, line), N, line.from, line.to, Room(speaker))
  BY UnitsAre
<1>2. PICK h : UnitWalk(h, N, speaker, st, Units(speaker, line))
               /\ PackUnits(speaker, st, line) = h[N]
  BY <1>1, UnitsWalked
<1>3. N \in 0..N
  BY <1>1
<1> QED  BY <1>2, <1>3 DEF UnitWalk

LEMMA PackingType == Packing \in PackState
BY EmptySeq DEF Packing, PackState

LEMMA SpokenWalked ==
  ASSUME PassagesAssumption, NEW speaker \in Heads, NEW lines, IsPlaced(lines)
  PROVE  \E h : SpokenWalk(h, speaker, lines) /\ Spoken(speaker, lines) = h[Len(lines)]
<1> DEFINE N == Len(lines)
           F == [k \in (1..N) \X PackState |-> PackUnits(speaker, k[2], lines[k[1]])]
<1>0. /\ N \in Nat /\ DOMAIN lines = 1..N /\ Packing \in PackState
      /\ \A n \in 1..N, s \in PackState : PackUnits(speaker, s, lines[n]) \in PackState
  <2>1. /\ N \in Nat /\ DOMAIN lines = 1..N
        /\ \A n \in 1..N : lines[n] \in Interval /\ lines[n].from < lines[n].to
    BY PlacedParts
  <2>2. ASSUME NEW n \in 1..N, NEW s \in PackState
        PROVE  PackUnits(speaker, s, lines[n]) \in PackState
    <3>1. lines[n] \in Interval /\ lines[n].from < lines[n].to
      BY <2>1
    <3> QED  BY <3>1, PackUnitsType
  <2> QED  BY <2>1, <2>2, PackingType
<1> HIDE DEF N
<1>1. F \in [(1..N) \X PackState -> PackState]
  <2>1. \A k \in (1..N) \X PackState : k[1] \in 1..N /\ k[2] \in PackState
    OBVIOUS
  <2>2. \A k \in (1..N) \X PackState : PackUnits(speaker, k[2], lines[k[1]]) \in PackState
    BY <1>0, <2>1
  <2> QED  BY <2>2
<1>2. \A n \in 1..N, s \in PackState : F[<<n, s>>] = PackUnits(speaker, s, lines[n])
  OBVIOUS
<1> HIDE DEF F
<1>3. PICK g \in [SUBSET (1..N) -> PackState] : LastTaken(g, N, Packing, F)
  BY <1>0, <1>1, SequenceFoldExists
<1>4. IsSpokenFold(g, speaker, lines)
  <2>1. ASSUME NEW S \in SUBSET (1..N)
        PROVE  g[S] = IF S = {} THEN Packing
                      ELSE PackUnits(speaker, g[S \ {Max(S)}], lines[Max(S)])
    <3>1. CASE S = {}
      BY <1>3, <3>1 DEF LastTaken
    <3>2. CASE S # {}
      <4>1. Max(S) \in 1..N /\ g[S \ {Max(S)}] \in PackState
        BY <1>0, <3>2, Taken
      <4>2. g[S] = F[<<Max(S), g[S \ {Max(S)}]>>]
        BY <1>3, <3>2 DEF LastTaken
      <4> QED  BY <1>2, <3>2, <4>1, <4>2
    <3> QED  BY <3>1, <3>2
  <2>2. g = [S \in SUBSET (1..N) |-> g[S]]
    OBVIOUS
  <2> QED  BY <1>0, <2>1, <2>2 DEF IsSpokenFold
<1> DEFINE k == CHOOSE f : IsSpokenFold(f, speaker, lines)
<1>5. IsSpokenFold(k, speaker, lines) /\ Spoken(speaker, lines) = k[1..N]
  BY <1>0, <1>4, SpokenFoldIs
<1> HIDE DEF k
<1>6. \A S \in SUBSET (1..N) :
        k[S] = IF S = {} THEN Packing ELSE PackUnits(speaker, k[S \ {Max(S)}], lines[Max(S)])
  BY <1>0, <1>5 DEF IsSpokenFold
<1>7. PICK h \in [0..N -> PackState] : Walked(h, N, Packing, F) /\ k[1..N] = h[N]
  <2>1. TakenWithin(k, N, PackState, Packing, F)
    <3>1. k[{}] = Packing
      BY <1>6
    <3>2. ASSUME NEW S \in SUBSET (1..N), S # {}, k[S \ {Max(S)}] \in PackState
          PROVE  k[S] = F[<<Max(S), k[S \ {Max(S)}]>>]
      <4>1. Max(S) \in 1..N
        BY <1>0, <3>2, MaxIsIn
      <4>2. k[S] = PackUnits(speaker, k[S \ {Max(S)}], lines[Max(S)])
        BY <1>6, <3>2
      <4> QED  BY <1>2, <3>2, <4>1, <4>2
    <3> QED  BY <3>1, <3>2, Zenon DEF TakenWithin
  <2>2. WalkFold(k, N, PackState, Packing, F)
    BY <1>0, <1>1, <2>1, Zenon DEF WalkFold
  <2>3. HasWalk(k, N, PackState, Packing, F)
    BY <2>2, FoldWalks
  <2> QED  BY <2>3 DEF HasWalk
<1>8. SpokenWalk(h, speaker, lines)
  <2> SUFFICES ASSUME NEW n \in 1..N
               PROVE  h[n] = PackUnits(speaker, h[n - 1], lines[n])
    BY <1>7 DEF SpokenWalk, Walked, N
  <2>1. n - 1 \in 0..N
    BY <1>0
  <2> QED  BY <1>2, <1>7, <2>1 DEF Walked
<1> QED  BY <1>5, <1>7, <1>8 DEF N

\* A turn may open a chunk where it starts, and inside where its speaker is named.
FitsTurn(G, turn) ==
  /\ StartsAt(G, turn.lines[1].from)
  /\ SaidIn(G, turn.speaker, turn.lines[1].from, turn.lines[Len(turn.lines)].to)

LEMMA CutTurnIs ==
  ASSUME PassagesAssumption, NEW turn \in TurnRecord, IsPlaced(turn.lines), NEW G, FitsTurn(G, turn)
  PROVE  IsCut(CutTurn(turn), turn.lines[1].from, turn.lines[Len(turn.lines)].to,
               Covered(turn.lines, Len(turn.lines)), G)
<1> DEFINE lines == turn.lines
           speaker == turn.speaker
           N == Len(lines)
           lo == lines[1].from
           End(n) == IF n = 0 THEN lo ELSE lines[n].to
<1>0. /\ CutTurn(turn) = Flushed(Spoken(speaker, lines)).chunks /\ speaker \in Heads
      /\ IsPlaced(lines) /\ StartsAt(G, lo) /\ SaidIn(G, speaker, lo, lines[N].to)
  <2>1. CutTurn(turn) = Flushed(Spoken(turn.speaker, turn.lines)).chunks
    BY Zenon DEF CutTurn, Spoken
  <2>2. turn.speaker \in Heads
    BY DEF TurnRecord
  <2> QED  BY <2>1, <2>2 DEF FitsTurn
<1> SUFFICES IsCut(Flushed(Spoken(speaker, lines)).chunks, lo, lines[N].to, Covered(lines, N), G)
  BY <1>0
<1> HIDE DEF lines, speaker
<1>1. /\ N \in Nat \ {0}
      /\ \A n \in 1..N : /\ lines[n] \in Interval /\ lines[n].from < lines[n].to
                         /\ lines[n].from \in Nat /\ lines[n].to \in Nat
                         /\ lo <= lines[n].from /\ lines[n].to <= lines[N].to
      /\ \A n \in 2..N : lines[n].from = lines[n - 1].to + 1
  <2>1. /\ N \in Nat \ {0}
        /\ \A n \in 1..N : /\ lines[n] \in Interval /\ lines[n].from < lines[n].to
                           /\ lines[n].from \in Nat /\ lines[n].to \in Nat
        /\ \A n \in 2..N : lines[n].from = lines[n - 1].to + 1
    BY <1>0, PlacedParts
  <2>2. \A n \in 1..N : lo <= lines[n].from /\ lines[n].to <= lines[N].to
    BY <1>0, PlacedOrder
  <2> QED  BY <2>1, <2>2
<1>2. PICK h : SpokenWalk(h, speaker, lines) /\ Spoken(speaker, lines) = h[N]
  BY <1>0, SpokenWalked
<1>3. h[0] = Packing /\ \A n \in 1..N : h[n] = PackUnits(speaker, h[n - 1], lines[n])
  BY <1>2 DEF SpokenWalk
<1>4. lo \in Nat /\ lines[N].to \in Nat
  <2>1. 1 \in 1..N /\ N \in 1..N
    BY <1>1
  <2> QED  BY <1>1, <2>1
<1> HIDE DEF N
<1> DEFINE In == {n \in Nat : n <= N => /\ IsPacked(h[n], lo, End(n), Covered(lines, n), G, 1)
                                        /\ n # 0 => h[n].buf # <<>>}
<1>5. 0 \in In
  <2>1. Covered(lines, 0) = {}
    BY DEF Covered
  <2> QED  BY <1>3, <2>1, PackingIs
<1>6. ASSUME NEW n \in Nat, n \in In
      PROVE  n + 1 \in In
  <2> SUFFICES ASSUME n + 1 <= N
               PROVE  /\ IsPacked(h[n + 1], lo, End(n + 1), Covered(lines, n + 1), G, 1)
                      /\ h[n + 1].buf # <<>>
    OBVIOUS
  <2> DEFINE line == lines[n + 1]
  <2>1. n + 1 \in 1..N /\ (n + 1) - 1 = n /\ n <= N /\ End(n + 1) = line.to /\ (n = 0 \/ n \in 1..N)
    BY <1>1
  <2>2. /\ h[n + 1] = PackUnits(speaker, h[n], line)
        /\ IsPacked(h[n], lo, End(n), Covered(lines, n), G, 1)
        /\ n # 0 => h[n].buf # <<>>
    BY <1>3, <1>6, <2>1
  <2>3. /\ line \in Interval /\ line.from < line.to /\ lo <= line.from /\ line.to <= lines[N].to
        /\ line.from \in Nat /\ line.to \in Nat
    BY <1>1, <2>1
  <2>4. End(n) \in Nat /\ End(n) <= line.from /\ (h[n].buf # <<>> => line.from = End(n) + 1)
    <3>1. CASE n = 0
      BY <1>3, <1>4, <2>3, <3>1 DEF Packing
    <3>2. CASE n \in 1..N
      <4>1. n + 1 \in 2..N /\ n # 0
        BY <1>1, <2>1, <3>2
      <4>2. line.from = lines[n].to + 1 /\ lines[n].to \in Nat
        BY <1>1, <2>1, <3>2, <4>1
      <4> QED  BY <4>1, <4>2
    <3> QED  BY <2>1, <3>1, <3>2
  <2>5. /\ Covered(lines, n + 1) \in SUBSET Nat /\ Covered(lines, n) \in SUBSET Nat
        /\ \A at \in Covered(lines, n + 1) :
             at \in Covered(lines, n) \/ (line.from <= at /\ at < line.to)
    BY DEF Covered
  <2>6. SaidIn(G, speaker, line.from, line.to)
    <3>1. \A from \in Nat : line.from <= from /\ from < line.to => lo <= from /\ from < lines[N].to
      BY <1>4, <2>3
    <3> QED  BY <1>0, <3>1 DEF SaidIn, N
  <2>7. h[n].buf # <<>> \/ StartsAt(G, line.from)
    <3>1. CASE n = 0
      BY <1>0, <3>1
    <3>2. CASE n # 0
      BY <2>2, <3>2
    <3> QED  BY <3>1, <3>2
  <2> HIDE DEF line, End
  <2>8. /\ PackUnits(speaker, h[n], line).buf # <<>>
        /\ IsPacked(PackUnits(speaker, h[n], line), lo, line.to, Covered(lines, n + 1), G, 1)
    BY <1>0, <1>4, <2>2, <2>3, <2>4, <2>5, <2>6, <2>7, PackUnitsKeep
  <2> QED  BY <2>1, <2>2, <2>8
<1> HIDE DEF In
<1>7. IsPacked(h[N], lo, lines[N].to, Covered(lines, N), G, 1)
  <2>1. Nat \subseteq In
    BY <1>5, <1>6, SetInduction
  <2>2. IsPacked(h[N], lo, End(N), Covered(lines, N), G, 1)
    BY <1>1, <2>1 DEF In
  <2> QED  BY <1>1, <2>2
<1> QED  BY <1>2, <1>7 DEF IsPacked

-----------------------------------------------------------------------------
(* Passages: a paragraph, turn by turn.                                     *)

From(turn) == turn.lines[1].from
To(turn) == turn.lines[Len(turn.lines)].to
Within(turn) == Covered(turn.lines, Len(turn.lines))

LEMMA TurnText ==
  ASSUME PassagesAssumption, NEW turn \in TurnRecord, IsPlaced(turn.lines)
  PROVE  /\ From(turn) \in Nat /\ To(turn) \in Nat /\ From(turn) < To(turn)
         /\ \A at \in Within(turn) : at \in Nat /\ From(turn) <= at /\ at < To(turn)
         /\ Shown(From(turn), To(turn), NoHead) \in Piece
         /\ Shown(From(turn), To(turn), NoHead).from = From(turn)
         /\ Shown(From(turn), To(turn), NoHead).to = To(turn)
         /\ PieceLen(Shown(From(turn), To(turn), NoHead)) = To(turn) - From(turn)
<1> DEFINE lines == turn.lines
           N == Len(lines)
<1>1. /\ N \in Nat \ {0}
      /\ \A n \in 1..N : /\ lines[n].from < lines[n].to
                         /\ lines[n].from \in Nat /\ lines[n].to \in Nat
                         /\ lines[1].from <= lines[n].from /\ lines[n].to <= lines[N].to
  <2>1. /\ N \in Nat \ {0}
        /\ \A n \in 1..N : /\ lines[n].from < lines[n].to
                           /\ lines[n].from \in Nat /\ lines[n].to \in Nat
    BY PlacedParts
  <2>2. \A n \in 1..N : lines[1].from <= lines[n].from /\ lines[n].to <= lines[N].to
    BY PlacedOrder
  <2> QED  BY <2>1, <2>2
<1> HIDE DEF lines, N
<1>2. 1 \in 1..N /\ N \in 1..N
  BY <1>1
<1>3. lines[1].from \in Nat /\ lines[N].to \in Nat /\ lines[1].from < lines[N].to
  BY <1>1, <1>2
<1>4. \A at \in Covered(lines, N) : at \in Nat /\ lines[1].from <= at /\ at < lines[N].to
  BY <1>1, <1>3 DEF Covered
<1>5. /\ From(turn) \in Nat /\ To(turn) \in Nat /\ From(turn) < To(turn)
      /\ \A at \in Within(turn) : at \in Nat /\ From(turn) <= at /\ at < To(turn)
  BY <1>3, <1>4 DEF From, To, Within, lines, N
<1> DEFINE from == From(turn)
           to == To(turn)
<1>6. from \in Nat /\ to \in Nat
  BY <1>5
<1> HIDE DEF from, to
<1>7. /\ Shown(from, to, NoHead) \in Piece
      /\ Shown(from, to, NoHead).from = from /\ Shown(from, to, NoHead).to = to
      /\ PieceLen(Shown(from, to, NoHead)) = to - from + (IF NoHead = NoHead THEN 0 ELSE NameLen)
  BY <1>6, NoHeadIs, ShownIs
<1>8. PieceLen(Shown(from, to, NoHead)) = to - from
  BY <1>6, <1>7
<1> QED  BY <1>5, <1>7, <1>8 DEF from, to

LEMMA AnyTurnFits ==
  ASSUME PassagesAssumption, NEW turn \in TurnRecord, IsPlaced(turn.lines)
  PROVE  FitsTurn(Piece, turn)
<1>1. From(turn) \in Nat /\ turn.speaker \in Heads
  BY TurnText DEF TurnRecord
<1>2. \A from \in Nat, to \in Nat, says \in Heads : Shown(from, to, says) \in Piece
  BY ShownIs
<1> QED  BY <1>1, <1>2 DEF FitsTurn, StartsAt, SaidIn, From

\* PackTurn with the turn's interval named.
LEMMA PackTurnIs ==
  ASSUME PassagesAssumption, NEW st, NEW turn
  PROVE  LET text == Shown(From(turn), To(turn), NoHead) IN
         /\ PieceLen(text) <= Cap =>
              PackTurn(st, turn)
                = With(IF st.buf # <<>> /\ st.size + PieceLen(text) + 1 > Cap THEN Flushed(st) ELSE st,
                       text, 1)
         /\ ~(PieceLen(text) <= Cap) =>
              PackTurn(st, turn) = [Flushed(st) EXCEPT !.chunks = @ \o CutTurn(turn)]
BY DEF PackTurn, From, To

LEMMA PackTurnType ==
  ASSUME PassagesAssumption, NEW st \in PackState, NEW turn \in TurnRecord, IsPlaced(turn.lines)
  PROVE  PackTurn(st, turn) \in PackState
<1> DEFINE text == Shown(From(turn), To(turn), NoHead)
           base == IF st.buf # <<>> /\ st.size + PieceLen(text) + 1 > Cap THEN Flushed(st) ELSE st
<1>1. CASE PieceLen(text) <= Cap
  <2>1. PackTurn(st, turn) = With(base, text, 1)
    BY <1>1, PackTurnIs
  <2>2. text \in Piece /\ base \in PackState /\ 1 \in Int
    BY FlushedIs, TurnText
  <2> HIDE DEF text, base
  <2> QED  BY <2>1, <2>2, WithIs
<1>2. CASE ~(PieceLen(text) <= Cap)
  <2>1. PackTurn(st, turn) = [Flushed(st) EXCEPT !.chunks = @ \o CutTurn(turn)]
    BY <1>2, PackTurnIs
  <2>2. CutTurn(turn) \in Seq(Seq(Piece))
    BY AnyTurnFits, CutTurnIs DEF IsCut
  <2> QED  BY <2>1, <2>2, MoreIs
<1> QED  BY <1>1, <1>2

LEMMA PackTurnKeeps ==
  ASSUME PassagesAssumption, NEW st, NEW lo \in Nat, NEW end \in Nat, NEW pos, NEW G,
         IsPacked(st, lo, end, pos, G, 1), NEW turn \in TurnRecord, IsPlaced(turn.lines),
         FitsTurn(G, turn), lo <= From(turn), end <= From(turn),
         st.buf # <<>> => From(turn) = end + 1,
         NEW pos2 \in SUBSET Nat, \A at \in pos2 : at \in pos \/ at \in Within(turn)
  PROVE  IsPacked(PackTurn(st, turn), lo, To(turn), pos2, G, 1)
<1> DEFINE text == Shown(From(turn), To(turn), NoHead)
           base == IF st.buf # <<>> /\ st.size + PieceLen(text) + 1 > Cap THEN Flushed(st) ELSE st
<1>1. /\ From(turn) \in Nat /\ To(turn) \in Nat /\ From(turn) < To(turn)
      /\ \A at \in Within(turn) : at \in Nat /\ From(turn) <= at /\ at < To(turn)
      /\ text \in Piece /\ text.from = From(turn) /\ text.to = To(turn)
      /\ PieceLen(text) = To(turn) - From(turn)
  BY TurnText
<1>2. text \in G
  BY <1>1, NoHeadIs DEF FitsTurn, StartsAt, From
<1>3. st \in PackState /\ st.size \in Int /\ Cap \in Nat
  BY PackParts DEF IsPacked, PassagesAssumption
<1>4. CASE PieceLen(text) <= Cap
  <2>1. PackTurn(st, turn) = With(base, text, 1)
    BY <1>4, PackTurnIs
  <2>2. /\ IsPacked(base, lo, end, pos, G, 1)
        /\ base.buf # <<>> => base = st /\ ~(st.size + PieceLen(text) + 1 > Cap)
    BY <1>3, FlushedIs, FlushedKeeps
  <2> HIDE DEF text, base
  <2>3. base.buf # <<>> => /\ text.from = end + 1
                           /\ base.size + PieceLen(text) <= Cap
    BY <1>1, <1>3, <2>2
  <2>4. \A at \in pos2 : at \in pos \/ (text.from <= at /\ at < text.to)
    BY <1>1
  <2>5. IsPacked(With(base, text, 1), lo, text.to, pos2, G, 1)
    <3>1. 1 \in 1..2 /\ text.from < text.to /\ lo <= text.from /\ end <= text.from
      BY <1>1
    <3> QED  BY <1>1, <1>2, <1>4, <2>2, <2>3, <2>4, <3>1, NextKeeps
  <2> QED  BY <1>1, <2>1, <2>5
<1>5. CASE ~(PieceLen(text) <= Cap)
  <2>1. PackTurn(st, turn) = [Flushed(st) EXCEPT !.chunks = @ \o CutTurn(turn)]
    BY <1>5, PackTurnIs
  <2>2. IsCut(CutTurn(turn), From(turn), To(turn), Within(turn), G)
    BY CutTurnIs DEF From, To, Within
  <2>3. end <= To(turn)
    BY <1>1
  <2> HIDE DEF text, base
  <2>4. IsPacked([Flushed(st) EXCEPT !.chunks = @ \o CutTurn(turn)], lo, To(turn), pos2, G, 1)
    BY <1>1, <2>2, <2>3, MoreKeeps
  <2> QED  BY <2>1, <2>4
<1> QED  BY <1>4, <1>5

\* Turns one after the other, a separator of one between.
AreTurns(turns) ==
  /\ turns \in Seq(TurnRecord) /\ turns # <<>>
  /\ \A j \in 1..Len(turns) : IsPlaced(turns[j].lines)
  /\ \A j \in 2..Len(turns) : From(turns[j]) = To(turns[j - 1]) + 1

LEMMA TurnParts ==
  ASSUME PassagesAssumption, NEW turns, AreTurns(turns)
  PROVE  /\ Len(turns) \in Nat \ {0} /\ DOMAIN turns = 1..Len(turns)
         /\ \A j \in 1..Len(turns) : /\ turns[j] \in TurnRecord /\ IsPlaced(turns[j].lines)
                                     /\ From(turns[j]) \in Nat /\ To(turns[j]) \in Nat
                                     /\ From(turns[j]) < To(turns[j])
         /\ \A j \in 2..Len(turns) : From(turns[j]) = To(turns[j - 1]) + 1
<1>1. /\ Len(turns) \in Nat \ {0} /\ DOMAIN turns = 1..Len(turns)
      /\ \A j \in 1..Len(turns) : turns[j] \in TurnRecord /\ IsPlaced(turns[j].lines)
      /\ \A j \in 2..Len(turns) : From(turns[j]) = To(turns[j - 1]) + 1
  BY DEF AreTurns
<1>2. ASSUME NEW j \in 1..Len(turns)
      PROVE  From(turns[j]) \in Nat /\ To(turns[j]) \in Nat /\ From(turns[j]) < To(turns[j])
  <2>1. turns[j] \in TurnRecord /\ IsPlaced(turns[j].lines)
    BY <1>1
  <2> QED  BY <2>1, TurnText
<1> QED  BY <1>1, <1>2

LEMMA TurnOrder ==
  ASSUME PassagesAssumption, NEW turns, AreTurns(turns)
  PROVE  /\ \A i, j \in 1..Len(turns) : i < j => To(turns[i]) <= From(turns[j])
         /\ \A n \in 1..Len(turns) : /\ From(turns[1]) <= From(turns[n])
                                     /\ To(turns[n]) <= To(turns[Len(turns)])
<1> DEFINE N == Len(turns)
           a == [n \in 1..N |-> From(turns[n])]
           b == [n \in 1..N |-> To(turns[n])]
<1>1. /\ N \in Nat \ {0}
      /\ \A n \in 1..N : /\ From(turns[n]) < To(turns[n])
                         /\ From(turns[n]) \in Nat /\ To(turns[n]) \in Nat
      /\ \A n \in 2..N : From(turns[n]) = To(turns[n - 1]) + 1
  BY TurnParts
<1> HIDE DEF N
<1>2. a \in [1..N -> Nat] /\ b \in [1..N -> Nat] /\ \A n \in 1..N : a[n] <= b[n]
  BY <1>1
<1>3. \A n \in 2..N : b[n - 1] <= a[n]
  <2> SUFFICES ASSUME NEW n \in 2..N
               PROVE  b[n - 1] <= a[n]
    OBVIOUS
  <2>1. n \in 1..N /\ n - 1 \in 1..N
    BY <1>1
  <2>2. a[n] = From(turns[n]) /\ b[n - 1] = To(turns[n - 1]) /\ To(turns[n - 1]) \in Nat
    BY <1>1, <2>1
  <2> QED  BY <1>1, <2>2
<1>4. \A n \in 1..N : a[n] = From(turns[n]) /\ b[n] = To(turns[n])
  OBVIOUS
<1> HIDE DEF a, b
<1>5. \A i, j \in 1..N : i < j => b[i] <= a[j]
  BY <1>1, <1>2, <1>3, Ordered
<1>6. \A i, j \in 1..N : i < j => To(turns[i]) <= From(turns[j])
  BY <1>4, <1>5
<1>7. \A n \in 1..N : From(turns[1]) <= From(turns[n]) /\ To(turns[n]) <= To(turns[N])
  <2> SUFFICES ASSUME NEW n \in 1..N
               PROVE  From(turns[1]) <= From(turns[n]) /\ To(turns[n]) <= To(turns[N])
    OBVIOUS
  <2>1. 1 \in 1..N /\ N \in 1..N
    BY <1>1
  <2>2. From(turns[1]) <= From(turns[n])
    <3>1. CASE n = 1
      BY <1>1, <3>1
    <3>2. CASE n # 1
      <4>1. 1 < n
        BY <3>2
      <4>2. To(turns[1]) <= From(turns[n])
        BY <1>6, <2>1, <4>1
      <4> QED  BY <1>1, <2>1, <4>2
    <3> QED  BY <3>1, <3>2
  <2>3. To(turns[n]) <= To(turns[N])
    <3>1. CASE n = N
      BY <1>1, <3>1
    <3>2. CASE n # N
      <4>1. n < N
        BY <1>1, <3>2
      <4>2. To(turns[n]) <= From(turns[N])
        BY <1>6, <2>1, <4>1
      <4> QED  BY <1>1, <2>1, <4>2
    <3> QED  BY <3>1, <3>2
  <2> QED  BY <2>2, <2>3
<1> QED  BY <1>6, <1>7 DEF N

IsTurnsFold(g, turns) ==
  g = [S \in SUBSET DOMAIN turns |->
         IF S = {} THEN Packing ELSE PackTurn(g[S \ {Max(S)}], turns[Max(S)])]

LEMMA TurnsFoldIs ==
  ASSUME NEW turns
  PROVE  FoldLeft(PackTurn, Packing, turns) = (CHOOSE g : IsTurnsFold(g, turns))[DOMAIN turns]
BY Zenon DEF FoldLeft, MapThenFoldSet, IsTurnsFold

TurnsWalk(h, turns) ==
  /\ h \in [0..Len(turns) -> PackState] /\ h[0] = Packing
  /\ \A n \in 1..Len(turns) : h[n] = PackTurn(h[n - 1], turns[n])

LEMMA TurnsPacked ==
  ASSUME PassagesAssumption, NEW turns, AreTurns(turns)
  PROVE  \E h : TurnsWalk(h, turns) /\ FoldLeft(PackTurn, Packing, turns) = h[Len(turns)]
<1> DEFINE N == Len(turns)
           F == [k \in (1..N) \X PackState |-> PackTurn(k[2], turns[k[1]])]
<1>0. /\ N \in Nat /\ DOMAIN turns = 1..N /\ Packing \in PackState
      /\ \A n \in 1..N, s \in PackState : PackTurn(s, turns[n]) \in PackState
  <2>1. /\ N \in Nat /\ DOMAIN turns = 1..N
        /\ \A n \in 1..N : turns[n] \in TurnRecord /\ IsPlaced(turns[n].lines)
    BY TurnParts
  <2>2. ASSUME NEW n \in 1..N, NEW s \in PackState
        PROVE  PackTurn(s, turns[n]) \in PackState
    <3>1. turns[n] \in TurnRecord /\ IsPlaced(turns[n].lines)
      BY <2>1
    <3> QED  BY <3>1, PackTurnType
  <2> QED  BY <2>1, <2>2, PackingType
<1> HIDE DEF N
<1>1. F \in [(1..N) \X PackState -> PackState]
  <2>1. \A k \in (1..N) \X PackState : k[1] \in 1..N /\ k[2] \in PackState
    OBVIOUS
  <2>2. \A k \in (1..N) \X PackState : PackTurn(k[2], turns[k[1]]) \in PackState
    BY <1>0, <2>1
  <2> QED  BY <2>2
<1>2. \A n \in 1..N, s \in PackState : F[<<n, s>>] = PackTurn(s, turns[n])
  OBVIOUS
<1> HIDE DEF F
<1>3. PICK g \in [SUBSET (1..N) -> PackState] : LastTaken(g, N, Packing, F)
  BY <1>0, <1>1, SequenceFoldExists
<1>4. IsTurnsFold(g, turns)
  <2>1. ASSUME NEW S \in SUBSET (1..N)
        PROVE  g[S] = IF S = {} THEN Packing ELSE PackTurn(g[S \ {Max(S)}], turns[Max(S)])
    <3>1. CASE S = {}
      BY <1>3, <3>1 DEF LastTaken
    <3>2. CASE S # {}
      <4>1. Max(S) \in 1..N /\ g[S \ {Max(S)}] \in PackState
        BY <1>0, <3>2, Taken
      <4>2. g[S] = F[<<Max(S), g[S \ {Max(S)}]>>]
        BY <1>3, <3>2 DEF LastTaken
      <4> QED  BY <1>2, <3>2, <4>1, <4>2
    <3> QED  BY <3>1, <3>2
  <2>2. g = [S \in SUBSET (1..N) |-> g[S]]
    OBVIOUS
  <2> QED  BY <1>0, <2>1, <2>2 DEF IsTurnsFold
<1> DEFINE k == CHOOSE f : IsTurnsFold(f, turns)
<1>5. IsTurnsFold(k, turns) /\ FoldLeft(PackTurn, Packing, turns) = k[1..N]
  BY <1>0, <1>4, TurnsFoldIs
<1> HIDE DEF k
<1>6. \A S \in SUBSET (1..N) :
        k[S] = IF S = {} THEN Packing ELSE PackTurn(k[S \ {Max(S)}], turns[Max(S)])
  BY <1>0, <1>5 DEF IsTurnsFold
<1>7. PICK h \in [0..N -> PackState] : Walked(h, N, Packing, F) /\ k[1..N] = h[N]
  <2>1. TakenWithin(k, N, PackState, Packing, F)
    <3>1. k[{}] = Packing
      BY <1>6
    <3>2. ASSUME NEW S \in SUBSET (1..N), S # {}, k[S \ {Max(S)}] \in PackState
          PROVE  k[S] = F[<<Max(S), k[S \ {Max(S)}]>>]
      <4>1. Max(S) \in 1..N
        BY <1>0, <3>2, MaxIsIn
      <4>2. k[S] = PackTurn(k[S \ {Max(S)}], turns[Max(S)])
        BY <1>6, <3>2
      <4> QED  BY <1>2, <3>2, <4>1, <4>2
    <3> QED  BY <3>1, <3>2, Zenon DEF TakenWithin
  <2>2. WalkFold(k, N, PackState, Packing, F)
    BY <1>0, <1>1, <2>1, Zenon DEF WalkFold
  <2>3. HasWalk(k, N, PackState, Packing, F)
    BY <2>2, FoldWalks
  <2> QED  BY <2>3 DEF HasWalk
<1>8. TurnsWalk(h, turns)
  <2> SUFFICES ASSUME NEW n \in 1..N
               PROVE  h[n] = PackTurn(h[n - 1], turns[n])
    BY <1>7 DEF TurnsWalk, Walked, N
  <2>1. n - 1 \in 0..N
    BY <1>0
  <2> QED  BY <1>2, <1>7, <2>1 DEF Walked
<1> QED  BY <1>5, <1>7, <1>8 DEF N

\* What the first n turns cover.
Told(turns, n) == {at \in Nat : \E j \in 1..n : at \in Within(turns[j])}

LEMMA TurnsCut ==
  ASSUME PassagesAssumption, NEW turns, AreTurns(turns), NEW G,
         \A j \in 1..Len(turns) : FitsTurn(G, turns[j])
  PROVE  IsCut(Flushed(FoldLeft(PackTurn, Packing, turns)).chunks, From(turns[1]),
               To(turns[Len(turns)]), Told(turns, Len(turns)), G)
<1> DEFINE N == Len(turns)
           lo == From(turns[1])
           End(n) == IF n = 0 THEN lo ELSE To(turns[n])
<1>1. /\ N \in Nat \ {0}
      /\ \A n \in 1..N : /\ turns[n] \in TurnRecord /\ IsPlaced(turns[n].lines)
                         /\ From(turns[n]) \in Nat /\ To(turns[n]) \in Nat
                         /\ From(turns[n]) < To(turns[n])
      /\ \A n \in 2..N : From(turns[n]) = To(turns[n - 1]) + 1
  BY TurnParts
<1>2. PICK h : TurnsWalk(h, turns) /\ FoldLeft(PackTurn, Packing, turns) = h[N]
  BY TurnsPacked
<1> HIDE DEF N
<1>3. h[0] = Packing /\ \A n \in 1..N : h[n] = PackTurn(h[n - 1], turns[n])
  BY <1>2 DEF TurnsWalk, N
<1>4. lo \in Nat /\ \A n \in 1..N : lo <= From(turns[n])
  <2>1. 1 \in 1..N
    BY <1>1
  <2> QED  BY <1>1, <2>1, TurnOrder DEF N
<1> DEFINE In == {n \in Nat : n <= N => IsPacked(h[n], lo, End(n), Told(turns, n), G, 1)}
<1>5. 0 \in In
  <2>1. Told(turns, 0) = {}
    BY DEF Told
  <2> QED  BY <1>3, <2>1, PackingIs
<1>6. ASSUME NEW n \in Nat, n \in In
      PROVE  n + 1 \in In
  <2> SUFFICES ASSUME n + 1 <= N
               PROVE  IsPacked(h[n + 1], lo, End(n + 1), Told(turns, n + 1), G, 1)
    OBVIOUS
  <2> DEFINE turn == turns[n + 1]
  <2>1. n + 1 \in 1..N /\ (n + 1) - 1 = n /\ n <= N /\ End(n + 1) = To(turn) /\ (n = 0 \/ n \in 1..N)
    BY <1>1
  <2>2. h[n + 1] = PackTurn(h[n], turn) /\ IsPacked(h[n], lo, End(n), Told(turns, n), G, 1)
    BY <1>3, <1>6, <2>1
  <2>3. /\ turn \in TurnRecord /\ IsPlaced(turn.lines) /\ From(turn) < To(turn)
        /\ From(turn) \in Nat /\ To(turn) \in Nat /\ lo <= From(turn) /\ FitsTurn(G, turn)
    BY <1>1, <1>4, <2>1 DEF N
  <2>4. End(n) \in Nat /\ End(n) <= From(turn) /\ (h[n].buf # <<>> => From(turn) = End(n) + 1)
    <3>1. CASE n = 0
      BY <1>3, <1>4, <2>3, <3>1 DEF Packing
    <3>2. CASE n \in 1..N
      <4>1. n + 1 \in 2..N /\ n # 0
        BY <1>1, <2>1, <3>2
      <4>2. From(turn) = To(turns[n]) + 1 /\ To(turns[n]) \in Nat
        BY <1>1, <2>1, <3>2, <4>1
      <4> QED  BY <4>1, <4>2
    <3> QED  BY <2>1, <3>1, <3>2
  <2>5. /\ Told(turns, n + 1) \in SUBSET Nat
        /\ \A at \in Told(turns, n + 1) : at \in Told(turns, n) \/ at \in Within(turn)
    BY DEF Told
  <2> HIDE DEF turn, End
  <2>6. IsPacked(PackTurn(h[n], turn), lo, To(turn), Told(turns, n + 1), G, 1)
    BY <1>4, <2>2, <2>3, <2>4, <2>5, PackTurnKeeps
  <2> QED  BY <2>1, <2>2, <2>6
<1> HIDE DEF In
<1>7. IsPacked(h[N], lo, To(turns[N]), Told(turns, N), G, 1)
  <2>1. Nat \subseteq In
    BY <1>5, <1>6, SetInduction
  <2>2. IsPacked(h[N], lo, End(N), Told(turns, N), G, 1)
    BY <1>1, <2>1 DEF In
  <2> QED  BY <1>1, <2>2
<1> QED  BY <1>2, <1>7 DEF IsPacked, N

LEMMA TurnsOfLines ==
  ASSUME PassagesAssumption, NEW lines, IsPlaced(lines)
  PROVE  LET turns == Turns(lines) IN
         /\ AreTurns(turns) /\ From(turns[1]) = lines[1].from
         /\ To(turns[Len(turns)]) = lines[Len(lines)].to
         /\ \A at \in Covered(lines, Len(lines)) : at \in Told(turns, Len(turns))
<1> DEFINE turns == Turns(lines)
           N == Len(lines)
<1>1. InTurns(turns, lines, N) /\ N # 0 /\ N \in Nat
  BY TurnsAre, PlacedParts
<1> HIDE DEF turns, N
<1>2. AreTurns(turns) /\ From(turns[1]) = lines[1].from /\ To(turns[Len(turns)]) = lines[N].to
  BY <1>1 DEF InTurns, AreTurns, From, To
<1>3. ASSUME NEW at \in Covered(lines, N)
      PROVE  at \in Told(turns, Len(turns))
  <2>1. PICK m \in 1..N : at \in Nat /\ lines[m].from <= at /\ at < lines[m].to
    BY <1>3 DEF Covered
  <2>2. PICK j \in 1..Len(turns) : \E i \in DOMAIN turns[j].lines : turns[j].lines[i] = lines[m]
    BY <1>1 DEF InTurns
  <2>3. PICK i \in DOMAIN turns[j].lines : turns[j].lines[i] = lines[m]
    BY <2>2
  <2>4. DOMAIN turns[j].lines = 1..Len(turns[j].lines)
    <3>1. IsPlaced(turns[j].lines)
      BY <1>1 DEF InTurns
    <3> QED  BY <3>1, PlacedParts
  <2>5. at \in Within(turns[j])
    BY <2>1, <2>3, <2>4 DEF Within, Covered
  <2> QED  BY <2>1, <2>5 DEF Told
<1> QED  BY <1>2, <1>3 DEF turns, N

LEMMA TurnModeCut ==
  ASSUME PassagesAssumption, NEW lines, IsPlaced(lines), NEW G,
         \A j \in 1..Len(Turns(lines)) : FitsTurn(G, Turns(lines)[j])
  PROVE  IsCut(Flushed(FoldLeft(PackTurn, Packing, Turns(lines))).chunks, lines[1].from,
               lines[Len(lines)].to, Covered(lines, Len(lines)), G)
<1> DEFINE turns == Turns(lines)
           chunks == Flushed(FoldLeft(PackTurn, Packing, turns)).chunks
           lo == lines[1].from
           hi == lines[Len(lines)].to
<1>1. /\ AreTurns(turns) /\ From(turns[1]) = lo /\ To(turns[Len(turns)]) = hi
      /\ \A at \in Covered(lines, Len(lines)) : at \in Told(turns, Len(turns))
  BY TurnsOfLines
<1>2. IsCut(chunks, From(turns[1]), To(turns[Len(turns)]), Told(turns, Len(turns)), G)
  BY <1>1, TurnsCut
<1> HIDE DEF turns, chunks
<1>3. lo \in Nat /\ hi \in Nat
  <2>1. /\ Len(lines) \in Nat \ {0}
        /\ \A n \in 1..Len(lines) : lines[n].from \in Nat /\ lines[n].to \in Nat
    BY PlacedParts
  <2> QED  BY <2>1
<1>4. IsCut(chunks, lo, hi, Told(turns, Len(turns)), G)
  BY <1>1, <1>2
<1> HIDE DEF lo, hi
<1>5. IsCut(chunks, lo, hi, Covered(lines, Len(lines)), G)
  BY <1>1, <1>4 DEF IsCut
<1> QED  BY <1>5 DEF turns, chunks, lo, hi

-----------------------------------------------------------------------------
(* Passages: a text, paragraph by paragraph.                                *)

Begins(lines) == lines[1].from
Ends(lines) == lines[Len(lines)].to
Inside(lines) == Covered(lines, Len(lines))

\* A paragraph's turns may open chunks as turns may; without turns, any piece may.
FitsParagraph(how, G, lines) ==
  /\ StartsAt(G, Begins(lines))
  /\ IF how = "turn" THEN \A j \in 1..Len(Turns(lines)) : FitsTurn(G, Turns(lines)[j])
     ELSE G = Piece

LEMMA ParagraphText ==
  ASSUME PassagesAssumption, NEW lines, IsPlaced(lines)
  PROVE  /\ Begins(lines) \in Nat /\ Ends(lines) \in Nat /\ Begins(lines) < Ends(lines)
         /\ \A at \in Inside(lines) : at \in Nat /\ Begins(lines) <= at /\ at < Ends(lines)
         /\ Shown(Begins(lines), Ends(lines), NoHead) \in Piece
         /\ Shown(Begins(lines), Ends(lines), NoHead).from = Begins(lines)
         /\ Shown(Begins(lines), Ends(lines), NoHead).to = Ends(lines)
         /\ PieceLen(Shown(Begins(lines), Ends(lines), NoHead)) = Ends(lines) - Begins(lines)
<1> DEFINE turn == [speaker |-> NoHead, lines |-> lines]
<1>1. /\ turn \in TurnRecord /\ turn.lines = lines
  BY NoHeadIs DEF TurnRecord, IsPlaced
<1>2. From(turn) = Begins(lines) /\ To(turn) = Ends(lines) /\ Within(turn) = Inside(lines)
  BY <1>1 DEF From, To, Within, Begins, Ends, Inside
<1> HIDE DEF turn
<1>3. IsPlaced(turn.lines)
  BY <1>1
<1> QED  BY <1>1, <1>2, <1>3, TurnText

LEMMA CutParagraphIs ==
  ASSUME PassagesAssumption, NEW how \in Modes, NEW lines, IsPlaced(lines), NEW G,
         FitsParagraph(how, G, lines)
  PROVE  IsCut(CutParagraph(how, lines), Begins(lines), Ends(lines), Inside(lines), G)
<1>1. CASE how = "line"
  <2>1. G = Piece
    BY <1>1 DEF FitsParagraph
  <2>2. CutParagraph(how, lines) = Flushed(FoldLeft(PackLine, Packing, lines)).chunks
    BY Zenon, <1>1 DEF CutParagraph
  <2> QED  BY <2>1, <2>2, LineModeCut DEF Begins, Ends, Inside
<1>2. CASE how = "turn"
  <2>1. \A j \in 1..Len(Turns(lines)) : FitsTurn(G, Turns(lines)[j])
    BY <1>2 DEF FitsParagraph
  <2>2. CutParagraph(how, lines) = Flushed(FoldLeft(PackTurn, Packing, Turns(lines))).chunks
    <3>1. how # "line"
      BY <1>2
    <3> QED  BY Zenon, <1>2, <3>1 DEF CutParagraph
  <2> QED  BY <2>1, <2>2, TurnModeCut DEF Begins, Ends, Inside
<1>3. CASE how = "paragraph"
  <2>1. how # "line" /\ how # "turn"
    BY <1>3
  <2>2. G = Piece
    BY <2>1 DEF FitsParagraph
  <2>3. CutParagraph(how, lines) = Alone(CutEvery(Begins(lines), Ends(lines), Cap))
    BY Zenon, <2>1 DEF CutParagraph, Begins, Ends
  <2>4. /\ Begins(lines) \in Nat /\ Ends(lines) \in Nat /\ Begins(lines) < Ends(lines)
        /\ \A at \in Inside(lines) : at \in Nat /\ Begins(lines) <= at /\ at < Ends(lines)
    BY ParagraphText
  <2> DEFINE from == Begins(lines)
             to == Ends(lines)
             all == from..(to - 1)
  <2>5. from \in Nat /\ to \in Nat /\ from < to
    BY <2>4
  <2>6. \A at \in Inside(lines) : at \in all
    BY <2>4
  <2> HIDE DEF from, to
  <2>7. IsCut(Alone(CutEvery(from, to, Cap)), from, to, all, Piece)
    BY <2>5, AloneIs
  <2> HIDE DEF all
  <2>8. IsCut(Alone(CutEvery(from, to, Cap)), from, to, Inside(lines), Piece)
    BY <2>6, <2>7 DEF IsCut
  <2> QED  BY <2>2, <2>3, <2>8 DEF from, to
<1> QED  BY <1>1, <1>2, <1>3 DEF Modes

LEMMA AddParagraphIs ==
  ASSUME PassagesAssumption, NEW how, NEW st, NEW lines
  PROVE  LET text == Shown(Begins(lines), Ends(lines), NoHead) IN
         /\ PieceLen(text) > Cap =>
              AddParagraph(how, st, lines)
                = [Flushed(st) EXCEPT !.chunks = @ \o CutParagraph(how, lines)]
         /\ ~(PieceLen(text) > Cap) =>
              AddParagraph(how, st, lines)
                = With(IF st.buf # <<>> /\ st.size + PieceLen(text) > Cap THEN Flushed(st) ELSE st,
                       text, 2)
BY DEF AddParagraph, Begins, Ends

LEMMA AddParagraphType ==
  ASSUME PassagesAssumption, NEW how \in Modes, NEW G, NEW st \in PackState, NEW lines,
         IsPlaced(lines), FitsParagraph(how, G, lines)
  PROVE  AddParagraph(how, st, lines) \in PackState
<1> DEFINE text == Shown(Begins(lines), Ends(lines), NoHead)
           base == IF st.buf # <<>> /\ st.size + PieceLen(text) > Cap THEN Flushed(st) ELSE st
<1>1. CASE ~(PieceLen(text) > Cap)
  <2>1. AddParagraph(how, st, lines) = With(base, text, 2)
    BY <1>1, AddParagraphIs
  <2>2. text \in Piece /\ base \in PackState /\ 2 \in Int
    BY FlushedIs, ParagraphText
  <2> HIDE DEF text, base
  <2> QED  BY <2>1, <2>2, WithIs
<1>2. CASE PieceLen(text) > Cap
  <2>1. AddParagraph(how, st, lines) = [Flushed(st) EXCEPT !.chunks = @ \o CutParagraph(how, lines)]
    BY <1>2, AddParagraphIs
  <2>2. CutParagraph(how, lines) \in Seq(Seq(Piece))
    BY CutParagraphIs DEF IsCut
  <2> QED  BY <2>1, <2>2, MoreIs
<1> QED  BY <1>1, <1>2

LEMMA AddParagraphKeeps ==
  ASSUME PassagesAssumption, NEW how \in Modes, NEW st, NEW end \in Nat, NEW pos, NEW G,
         IsPacked(st, 0, end, pos, G, 2), NEW lines, IsPlaced(lines),
         FitsParagraph(how, G, lines), end <= Begins(lines),
         st.buf # <<>> => Begins(lines) = end + 2,
         NEW pos2 \in SUBSET Nat, \A at \in pos2 : at \in pos \/ at \in Inside(lines)
  PROVE  IsPacked(AddParagraph(how, st, lines), 0, Ends(lines), pos2, G, 2)
<1> DEFINE text == Shown(Begins(lines), Ends(lines), NoHead)
           base == IF st.buf # <<>> /\ st.size + PieceLen(text) > Cap THEN Flushed(st) ELSE st
<1>1. /\ Begins(lines) \in Nat /\ Ends(lines) \in Nat /\ Begins(lines) < Ends(lines)
      /\ \A at \in Inside(lines) : at \in Nat /\ Begins(lines) <= at /\ at < Ends(lines)
      /\ text \in Piece /\ text.from = Begins(lines) /\ text.to = Ends(lines)
      /\ PieceLen(text) = Ends(lines) - Begins(lines)
  BY ParagraphText
<1>2. text \in G
  BY <1>1, NoHeadIs DEF FitsParagraph, StartsAt
<1>3. st \in PackState /\ st.size \in Int /\ Cap \in Nat /\ 0 \in Nat /\ 0 <= Begins(lines)
  BY <1>1, PackParts DEF IsPacked, PassagesAssumption
<1>4. CASE ~(PieceLen(text) > Cap)
  <2>1. AddParagraph(how, st, lines) = With(base, text, 2)
    BY <1>4, AddParagraphIs
  <2>2. /\ IsPacked(base, 0, end, pos, G, 2)
        /\ base.buf # <<>> => base = st /\ ~(st.size + PieceLen(text) > Cap)
    BY <1>3, FlushedIs, FlushedKeeps
  <2> HIDE DEF text, base
  <2>3. base.buf # <<>> => /\ text.from = end + 2
                           /\ base.size + PieceLen(text) <= Cap
    BY <1>1, <1>3, <2>2
  <2>4. \A at \in pos2 : at \in pos \/ (text.from <= at /\ at < text.to)
    BY <1>1
  <2>5. IsPacked(With(base, text, 2), 0, text.to, pos2, G, 2)
    <3>1. 2 \in 1..2 /\ text.from < text.to /\ 0 <= text.from /\ end <= text.from
          /\ PieceLen(text) <= Cap
      BY <1>1, <1>3, <1>4
    <3> QED  BY <1>1, <1>2, <1>3, <2>2, <2>3, <2>4, <3>1, NextKeeps
  <2> QED  BY <1>1, <2>1, <2>5
<1>5. CASE PieceLen(text) > Cap
  <2>1. AddParagraph(how, st, lines) = [Flushed(st) EXCEPT !.chunks = @ \o CutParagraph(how, lines)]
    BY <1>5, AddParagraphIs
  <2>2. IsCut(CutParagraph(how, lines), Begins(lines), Ends(lines), Inside(lines), G)
    BY CutParagraphIs
  <2>3. end <= Ends(lines)
    BY <1>1
  <2> HIDE DEF text, base
  <2>4. IsPacked([Flushed(st) EXCEPT !.chunks = @ \o CutParagraph(how, lines)],
                 0, Ends(lines), pos2, G, 2)
    BY <1>1, <1>3, <2>2, <2>3, MoreKeeps
  <2> QED  BY <2>1, <2>4
<1> QED  BY <1>4, <1>5

\* Paragraphs one after the other, two apart.
AreParagraphs(paragraphs) ==
  /\ Len(paragraphs) \in Nat /\ DOMAIN paragraphs = 1..Len(paragraphs)
  /\ \A p \in 1..Len(paragraphs) : IsPlaced(paragraphs[p])
  /\ \A p \in 2..Len(paragraphs) : Begins(paragraphs[p]) = Ends(paragraphs[p - 1]) + 2

LEMMA ParagraphOrder ==
  ASSUME PassagesAssumption, NEW paragraphs, AreParagraphs(paragraphs)
  PROVE  \A p, q \in 1..Len(paragraphs) : p < q => Ends(paragraphs[p]) <= Begins(paragraphs[q])
<1> DEFINE N == Len(paragraphs)
           a == [n \in 1..N |-> Begins(paragraphs[n])]
           b == [n \in 1..N |-> Ends(paragraphs[n])]
<1>1. N \in Nat /\ \A n \in 2..N : Begins(paragraphs[n]) = Ends(paragraphs[n - 1]) + 2
  BY DEF AreParagraphs
<1>2. \A n \in 1..N : /\ Begins(paragraphs[n]) < Ends(paragraphs[n])
                      /\ Begins(paragraphs[n]) \in Nat /\ Ends(paragraphs[n]) \in Nat
  <2> SUFFICES ASSUME NEW n \in 1..N
               PROVE  /\ Begins(paragraphs[n]) < Ends(paragraphs[n])
                      /\ Begins(paragraphs[n]) \in Nat /\ Ends(paragraphs[n]) \in Nat
    OBVIOUS
  <2>1. IsPlaced(paragraphs[n])
    BY DEF AreParagraphs
  <2> QED  BY <2>1, ParagraphText
<1> HIDE DEF N
<1>3. a \in [1..N -> Nat] /\ b \in [1..N -> Nat] /\ \A n \in 1..N : a[n] <= b[n]
  BY <1>1, <1>2
<1>4. \A n \in 2..N : b[n - 1] <= a[n]
  <2> SUFFICES ASSUME NEW n \in 2..N
               PROVE  b[n - 1] <= a[n]
    OBVIOUS
  <2>1. n \in 1..N /\ n - 1 \in 1..N
    BY <1>1
  <2>2. a[n] = Begins(paragraphs[n]) /\ b[n - 1] = Ends(paragraphs[n - 1])
        /\ Ends(paragraphs[n - 1]) \in Nat
    BY <1>2, <2>1
  <2> QED  BY <1>1, <2>2
<1>5. \A n \in 1..N : a[n] = Begins(paragraphs[n]) /\ b[n] = Ends(paragraphs[n])
  OBVIOUS
<1> HIDE DEF a, b
<1>6. \A i, j \in 1..N : i < j => b[i] <= a[j]
  BY <1>1, <1>3, <1>4, Ordered
<1> QED  BY <1>5, <1>6 DEF N

Joined(how, paragraphs) ==
  FoldLeft(LAMBDA st, lines : AddParagraph(how, st, lines), Packing, paragraphs)

IsJoinedFold(g, how, paragraphs) ==
  g = [S \in SUBSET DOMAIN paragraphs |->
         IF S = {} THEN Packing ELSE AddParagraph(how, g[S \ {Max(S)}], paragraphs[Max(S)])]

LEMMA JoinedFoldIs ==
  ASSUME NEW how, NEW paragraphs
  PROVE  Joined(how, paragraphs) = (CHOOSE g : IsJoinedFold(g, how, paragraphs))[DOMAIN paragraphs]
BY Zenon DEF Joined, FoldLeft, MapThenFoldSet, IsJoinedFold

JoinedWalk(h, how, paragraphs) ==
  /\ h \in [0..Len(paragraphs) -> PackState] /\ h[0] = Packing
  /\ \A n \in 1..Len(paragraphs) : h[n] = AddParagraph(how, h[n - 1], paragraphs[n])

LEMMA JoinedWalked ==
  ASSUME PassagesAssumption, NEW how \in Modes, NEW paragraphs, AreParagraphs(paragraphs), NEW G,
         \A p \in 1..Len(paragraphs) : FitsParagraph(how, G, paragraphs[p])
  PROVE  \E h : JoinedWalk(h, how, paragraphs) /\ Joined(how, paragraphs) = h[Len(paragraphs)]
<1> DEFINE N == Len(paragraphs)
           F == [k \in (1..N) \X PackState |-> AddParagraph(how, k[2], paragraphs[k[1]])]
<1>0. /\ N \in Nat /\ DOMAIN paragraphs = 1..N /\ Packing \in PackState
      /\ \A n \in 1..N, s \in PackState : AddParagraph(how, s, paragraphs[n]) \in PackState
  <2>1. N \in Nat /\ DOMAIN paragraphs = 1..N /\ \A n \in 1..N : IsPlaced(paragraphs[n])
    BY DEF AreParagraphs
  <2>2. ASSUME NEW n \in 1..N, NEW s \in PackState
        PROVE  AddParagraph(how, s, paragraphs[n]) \in PackState
    <3>1. IsPlaced(paragraphs[n]) /\ FitsParagraph(how, G, paragraphs[n])
      BY <2>1
    <3> QED  BY <3>1, AddParagraphType
  <2> QED  BY <2>1, <2>2, PackingType
<1> HIDE DEF N
<1>1. F \in [(1..N) \X PackState -> PackState]
  <2>1. \A k \in (1..N) \X PackState : k[1] \in 1..N /\ k[2] \in PackState
    OBVIOUS
  <2>2. \A k \in (1..N) \X PackState : AddParagraph(how, k[2], paragraphs[k[1]]) \in PackState
    BY <1>0, <2>1
  <2> QED  BY <2>2
<1>2. \A n \in 1..N, s \in PackState : F[<<n, s>>] = AddParagraph(how, s, paragraphs[n])
  OBVIOUS
<1> HIDE DEF F
<1>3. PICK g \in [SUBSET (1..N) -> PackState] : LastTaken(g, N, Packing, F)
  BY <1>0, <1>1, SequenceFoldExists
<1>4. IsJoinedFold(g, how, paragraphs)
  <2>1. ASSUME NEW S \in SUBSET (1..N)
        PROVE  g[S] = IF S = {} THEN Packing
                      ELSE AddParagraph(how, g[S \ {Max(S)}], paragraphs[Max(S)])
    <3>1. CASE S = {}
      BY <1>3, <3>1 DEF LastTaken
    <3>2. CASE S # {}
      <4>1. Max(S) \in 1..N /\ g[S \ {Max(S)}] \in PackState
        BY <1>0, <3>2, Taken
      <4>2. g[S] = F[<<Max(S), g[S \ {Max(S)}]>>]
        BY <1>3, <3>2 DEF LastTaken
      <4> QED  BY <1>2, <3>2, <4>1, <4>2
    <3> QED  BY <3>1, <3>2
  <2>2. g = [S \in SUBSET (1..N) |-> g[S]]
    OBVIOUS
  <2> QED  BY <1>0, <2>1, <2>2 DEF IsJoinedFold
<1> DEFINE k == CHOOSE f : IsJoinedFold(f, how, paragraphs)
<1>5. IsJoinedFold(k, how, paragraphs) /\ Joined(how, paragraphs) = k[1..N]
  BY <1>0, <1>4, JoinedFoldIs
<1> HIDE DEF k
<1>6. \A S \in SUBSET (1..N) :
        k[S] = IF S = {} THEN Packing ELSE AddParagraph(how, k[S \ {Max(S)}], paragraphs[Max(S)])
  BY <1>0, <1>5 DEF IsJoinedFold
<1>7. PICK h \in [0..N -> PackState] : Walked(h, N, Packing, F) /\ k[1..N] = h[N]
  <2>1. TakenWithin(k, N, PackState, Packing, F)
    <3>1. k[{}] = Packing
      BY <1>6
    <3>2. ASSUME NEW S \in SUBSET (1..N), S # {}, k[S \ {Max(S)}] \in PackState
          PROVE  k[S] = F[<<Max(S), k[S \ {Max(S)}]>>]
      <4>1. Max(S) \in 1..N
        BY <1>0, <3>2, MaxIsIn
      <4>2. k[S] = AddParagraph(how, k[S \ {Max(S)}], paragraphs[Max(S)])
        BY <1>6, <3>2
      <4> QED  BY <1>2, <3>2, <4>1, <4>2
    <3> QED  BY <3>1, <3>2, Zenon DEF TakenWithin
  <2>2. WalkFold(k, N, PackState, Packing, F)
    BY <1>0, <1>1, <2>1, Zenon DEF WalkFold
  <2>3. HasWalk(k, N, PackState, Packing, F)
    BY <2>2, FoldWalks
  <2> QED  BY <2>3 DEF HasWalk
<1>8. JoinedWalk(h, how, paragraphs)
  <2> SUFFICES ASSUME NEW n \in 1..N
               PROVE  h[n] = AddParagraph(how, h[n - 1], paragraphs[n])
    BY <1>7 DEF JoinedWalk, Walked, N
  <2>1. n - 1 \in 0..N
    BY <1>0
  <2> QED  BY <1>2, <1>7, <2>1 DEF Walked
<1> QED  BY <1>5, <1>7, <1>8 DEF N

\* What the first n paragraphs cover.
Written(paragraphs, n) == {at \in Nat : \E p \in 1..n : at \in Inside(paragraphs[p])}

LEMMA JoinedCut ==
  ASSUME PassagesAssumption, NEW how \in Modes, NEW paragraphs, AreParagraphs(paragraphs), NEW G,
         \A p \in 1..Len(paragraphs) : FitsParagraph(how, G, paragraphs[p])
  PROVE  \E hi : IsCut(Flushed(Joined(how, paragraphs)).chunks, 0, hi,
                       Written(paragraphs, Len(paragraphs)), G)
<1> DEFINE N == Len(paragraphs)
           End(n) == IF n = 0 THEN 0 ELSE Ends(paragraphs[n])
<1>1. /\ N \in Nat
      /\ \A n \in 1..N : /\ IsPlaced(paragraphs[n]) /\ FitsParagraph(how, G, paragraphs[n])
                         /\ Begins(paragraphs[n]) \in Nat /\ Ends(paragraphs[n]) \in Nat
      /\ \A n \in 2..N : Begins(paragraphs[n]) = Ends(paragraphs[n - 1]) + 2
  <2>1. /\ N \in Nat /\ \A n \in 1..N : IsPlaced(paragraphs[n])
        /\ \A n \in 2..N : Begins(paragraphs[n]) = Ends(paragraphs[n - 1]) + 2
    BY DEF AreParagraphs
  <2>2. ASSUME NEW n \in 1..N
        PROVE  Begins(paragraphs[n]) \in Nat /\ Ends(paragraphs[n]) \in Nat
    <3>1. IsPlaced(paragraphs[n])
      BY <2>1
    <3> QED  BY <3>1, ParagraphText
  <2> QED  BY <2>1, <2>2
<1>2. PICK h : JoinedWalk(h, how, paragraphs) /\ Joined(how, paragraphs) = h[N]
  BY JoinedWalked
<1> HIDE DEF N
<1>3. h[0] = Packing /\ \A n \in 1..N : h[n] = AddParagraph(how, h[n - 1], paragraphs[n])
  BY <1>2 DEF JoinedWalk, N
<1> DEFINE In == {n \in Nat : n <= N => IsPacked(h[n], 0, End(n), Written(paragraphs, n), G, 2)}
<1>4. 0 \in In
  <2>1. Written(paragraphs, 0) = {}
    BY DEF Written
  <2> QED  BY <1>3, <2>1, PackingIs
<1>5. ASSUME NEW n \in Nat, n \in In
      PROVE  n + 1 \in In
  <2> SUFFICES ASSUME n + 1 <= N
               PROVE  IsPacked(h[n + 1], 0, End(n + 1), Written(paragraphs, n + 1), G, 2)
    OBVIOUS
  <2> DEFINE lines == paragraphs[n + 1]
  <2>1. /\ n + 1 \in 1..N /\ (n + 1) - 1 = n /\ n <= N /\ End(n + 1) = Ends(lines)
        /\ (n = 0 \/ n \in 1..N)
    BY <1>1
  <2>2. /\ h[n + 1] = AddParagraph(how, h[n], lines)
        /\ IsPacked(h[n], 0, End(n), Written(paragraphs, n), G, 2)
    BY <1>3, <1>5, <2>1
  <2>3. /\ IsPlaced(lines) /\ FitsParagraph(how, G, lines)
        /\ Begins(lines) \in Nat /\ Ends(lines) \in Nat
    BY <1>1, <2>1
  <2>4. End(n) \in Nat /\ End(n) <= Begins(lines) /\ (h[n].buf # <<>> => Begins(lines) = End(n) + 2)
    <3>1. CASE n = 0
      BY <1>3, <2>3, <3>1 DEF Packing
    <3>2. CASE n \in 1..N
      <4>1. n + 1 \in 2..N /\ n # 0
        BY <1>1, <2>1, <3>2
      <4>2. Begins(lines) = Ends(paragraphs[n]) + 2 /\ Ends(paragraphs[n]) \in Nat
        BY <1>1, <2>1, <3>2, <4>1
      <4> QED  BY <4>1, <4>2
    <3> QED  BY <2>1, <3>1, <3>2
  <2>5. /\ Written(paragraphs, n + 1) \in SUBSET Nat
        /\ \A at \in Written(paragraphs, n + 1) : at \in Written(paragraphs, n) \/ at \in Inside(lines)
    BY DEF Written
  <2> HIDE DEF lines, End
  <2>6. IsPacked(AddParagraph(how, h[n], lines), 0, Ends(lines), Written(paragraphs, n + 1), G, 2)
    BY <2>2, <2>3, <2>4, <2>5, AddParagraphKeeps
  <2> QED  BY <2>1, <2>2, <2>6
<1> HIDE DEF In
<1>6. IsPacked(h[N], 0, End(N), Written(paragraphs, N), G, 2)
  <2>1. Nat \subseteq In
    BY <1>4, <1>5, SetInduction
  <2> HIDE DEF End
  <2> QED  BY <1>1, <2>1 DEF In
<1> HIDE DEF End
<1>7. IsCut(Flushed(h[N]).chunks, 0, End(N), Written(paragraphs, N), G)
  BY <1>6 DEF IsPacked
<1> QED  BY <1>2, <1>7 DEF N

-----------------------------------------------------------------------------
(* Passages: what chunk_text keeps of every text.                           *)

TurnAt(paragraphs, p, j) == Turns(paragraphs[p])[j]

\* A position is inside one turn of one paragraph.
LEMMA TurnPlace ==
  ASSUME PassagesAssumption, NEW paragraphs, AreParagraphs(paragraphs),
         NEW p \in 1..Len(paragraphs), NEW j \in 1..Len(Turns(paragraphs[p]))
  PROVE  LET turn == TurnAt(paragraphs, p, j) IN
         /\ turn \in TurnRecord /\ IsPlaced(turn.lines)
         /\ From(turn) \in Nat /\ To(turn) \in Nat /\ From(turn) < To(turn)
         /\ Begins(paragraphs[p]) \in Nat /\ Ends(paragraphs[p]) \in Nat
         /\ Begins(paragraphs[p]) <= From(turn) /\ To(turn) <= Ends(paragraphs[p])
         /\ \A i \in 1..Len(Turns(paragraphs[p])) :
              i < j => To(TurnAt(paragraphs, p, i)) <= From(turn)
<1> DEFINE lines == paragraphs[p]
           turns == Turns(lines)
<1>1. IsPlaced(lines)
  BY DEF AreParagraphs
<1>2. Begins(lines) \in Nat /\ Ends(lines) \in Nat
  BY <1>1, ParagraphText
<1>3. AreTurns(turns) /\ From(turns[1]) = Begins(lines) /\ To(turns[Len(turns)]) = Ends(lines)
  BY <1>1, TurnsOfLines DEF Begins, Ends
<1>4. j \in 1..Len(turns)
  OBVIOUS
<1> HIDE DEF turns
<1>5. /\ turns[j] \in TurnRecord /\ IsPlaced(turns[j].lines)
      /\ From(turns[j]) \in Nat /\ To(turns[j]) \in Nat /\ From(turns[j]) < To(turns[j])
  BY <1>3, <1>4, TurnParts
<1>6. /\ \A i \in 1..Len(turns) : i < j => To(turns[i]) <= From(turns[j])
      /\ From(turns[1]) <= From(turns[j]) /\ To(turns[j]) <= To(turns[Len(turns)])
  BY <1>3, <1>4, TurnOrder
<1> QED  BY <1>2, <1>3, <1>5, <1>6 DEF turns, TurnAt

LEMMA OneTurn ==
  ASSUME PassagesAssumption, NEW paragraphs, AreParagraphs(paragraphs),
         NEW p \in 1..Len(paragraphs), NEW j \in 1..Len(Turns(paragraphs[p])),
         NEW q \in 1..Len(paragraphs), NEW i \in 1..Len(Turns(paragraphs[q])), NEW at \in Nat,
         From(TurnAt(paragraphs, p, j)) <= at, at < To(TurnAt(paragraphs, p, j)),
         From(TurnAt(paragraphs, q, i)) <= at, at < To(TurnAt(paragraphs, q, i))
  PROVE  p = q /\ j = i
<1>0. Len(paragraphs) \in Nat /\ p \in Nat /\ q \in Nat /\ i \in Int /\ j \in Int
  BY DEF AreParagraphs
<1> DEFINE a == From(TurnAt(paragraphs, p, j))
           b == To(TurnAt(paragraphs, p, j))
           c == From(TurnAt(paragraphs, q, i))
           d == To(TurnAt(paragraphs, q, i))
<1>1. /\ a \in Nat /\ b \in Nat /\ Begins(paragraphs[p]) \in Nat /\ Ends(paragraphs[p]) \in Nat
      /\ Begins(paragraphs[p]) <= a /\ b <= Ends(paragraphs[p])
  BY TurnPlace
<1>2. /\ c \in Nat /\ d \in Nat /\ Begins(paragraphs[q]) \in Nat /\ Ends(paragraphs[q]) \in Nat
      /\ Begins(paragraphs[q]) <= c /\ d <= Ends(paragraphs[q])
  BY TurnPlace
<1>3. a <= at /\ at < b /\ c <= at /\ at < d
  OBVIOUS
<1>4. p = q
  <2>1. p < q => Ends(paragraphs[p]) <= Begins(paragraphs[q])
    BY ParagraphOrder
  <2>2. q < p => Ends(paragraphs[q]) <= Begins(paragraphs[p])
    BY ParagraphOrder
  <2> HIDE DEF a, b, c, d
  <2>3. ~(p < q)
    BY <1>1, <1>2, <1>3, <2>1
  <2>4. ~(q < p)
    BY <1>1, <1>2, <1>3, <2>2
  <2> QED  BY <1>0, <2>3, <2>4
<1>5. j = i
  <2>1. i \in 1..Len(Turns(paragraphs[p]))
    BY <1>4
  <2>2. i < j => d <= a
    BY <1>4, <2>1, TurnPlace
  <2>3. j < i => b <= c
    BY <1>4, <2>1, TurnPlace
  <2> HIDE DEF a, b, c, d
  <2>4. ~(i < j) /\ ~(j < i)
    BY <1>1, <1>2, <1>3, <2>2, <2>3
  <2> QED  BY <1>0, <2>4
<1> QED  BY <1>4, <1>5

\* In turn mode a piece that may open a chunk names the speaker it continues.
Names(piece, turn) ==
  turn.speaker # NoHead /\ From(turn) < piece.from /\ piece.from < To(turn)
    => piece.says = turn.speaker

Openers(how, paragraphs) ==
  {piece \in Piece : how = "turn" =>
     \A q \in 1..Len(paragraphs) : \A i \in 1..Len(Turns(paragraphs[q])) :
       Names(piece, TurnAt(paragraphs, q, i))}

LEMMA TurnOpens ==
  ASSUME PassagesAssumption, NEW how, NEW paragraphs, AreParagraphs(paragraphs),
         NEW p \in 1..Len(paragraphs), NEW j \in 1..Len(Turns(paragraphs[p]))
  PROVE  FitsTurn(Openers(how, paragraphs), TurnAt(paragraphs, p, j))
<1> DEFINE turn == TurnAt(paragraphs, p, j)
           G == Openers(how, paragraphs)
<1>1. /\ turn \in TurnRecord /\ From(turn) \in Nat /\ To(turn) \in Nat /\ From(turn) < To(turn)
      /\ turn.speaker \in Heads
  <2>1. turn \in TurnRecord /\ From(turn) \in Nat /\ To(turn) \in Nat /\ From(turn) < To(turn)
    BY TurnPlace
  <2> HIDE DEF turn
  <2> QED  BY <2>1 DEF TurnRecord
<1>2. ASSUME NEW from \in Nat, NEW to \in Nat, NEW says \in Heads,
             From(turn) <= from, from < To(turn), from # From(turn) => says = turn.speaker
      PROVE  Shown(from, to, says) \in G
  <2> DEFINE piece == Shown(from, to, says)
  <2>1. piece \in Piece /\ piece.from = from /\ piece.says = says
    BY DEF Shown, Piece
  <2>2. ASSUME NEW q \in 1..Len(paragraphs), NEW i \in 1..Len(Turns(paragraphs[q])),
               From(TurnAt(paragraphs, q, i)) < from, from < To(TurnAt(paragraphs, q, i))
        PROVE  says = TurnAt(paragraphs, q, i).speaker
    <3>1. From(TurnAt(paragraphs, q, i)) <= from /\ From(TurnAt(paragraphs, q, i)) \in Nat
      BY <2>2, TurnPlace
    <3>2. p = q /\ j = i
      BY <1>2, <2>2, <3>1, OneTurn
    <3>3. from # From(turn)
      BY <2>2, <3>1, <3>2
    <3> QED  BY <1>2, <3>2, <3>3
  <2> HIDE DEF piece, turn
  <2> QED  BY <2>1, <2>2 DEF Openers, Names, piece
<1> HIDE DEF G
<1>3. StartsAt(G, From(turn))
  <2> HIDE DEF turn
  <2>1. From(turn) <= From(turn)
    BY <1>1
  <2> QED  BY <1>1, <1>2, <2>1 DEF StartsAt
<1>4. SaidIn(G, turn.speaker, From(turn), To(turn))
  <2> HIDE DEF turn
  <2> QED  BY <1>1, <1>2 DEF SaidIn
<1> QED  BY <1>3, <1>4 DEF FitsTurn, From, To, G

LEMMA ParagraphOpens ==
  ASSUME PassagesAssumption, NEW how \in Modes, NEW paragraphs, AreParagraphs(paragraphs),
         NEW p \in 1..Len(paragraphs)
  PROVE  FitsParagraph(how, Openers(how, paragraphs), paragraphs[p])
<1> DEFINE G == Openers(how, paragraphs)
           lines == paragraphs[p]
<1>1. IsPlaced(lines) /\ Begins(lines) \in Nat
  <2>1. IsPlaced(lines)
    BY DEF AreParagraphs
  <2> QED  BY <2>1, ParagraphText
<1>2. CASE how = "turn"
  <2>1. \A j \in 1..Len(Turns(lines)) : FitsTurn(G, Turns(lines)[j])
    BY TurnOpens DEF TurnAt
  <2>2. /\ Len(Turns(lines)) \in Nat \ {0} /\ From(Turns(lines)[1]) = Begins(lines)
    BY <1>1, TurnsOfLines, TurnParts DEF Begins
  <2>3. 1 \in 1..Len(Turns(lines))
    BY <2>2
  <2>4. StartsAt(G, Begins(lines))
    BY <2>1, <2>2, <2>3 DEF FitsTurn, From
  <2> HIDE DEF G, lines
  <2>5. FitsParagraph(how, G, lines)
    BY <1>2, <2>1, <2>4 DEF FitsParagraph
  <2> QED  BY <2>5 DEF G, lines
<1>3. CASE how # "turn"
  <2>1. G = Piece
    BY <1>3 DEF Openers
  <2> HIDE DEF G, lines
  <2>2. StartsAt(G, Begins(lines))
    <3>1. \A to \in Nat, says \in Heads : Shown(Begins(lines), to, says) \in Piece
      BY <1>1, ShownIs
    <3> QED  BY <2>1, <3>1 DEF StartsAt
  <2>3. FitsParagraph(how, G, lines)
    BY <1>3, <2>1, <2>2 DEF FitsParagraph
  <2> QED  BY <2>3 DEF G, lines
<1> QED  BY <1>2, <1>3

Kept(how, chunks, content) ==
  /\ \A k \in DOMAIN chunks : ChunkLen(chunks[k]) <= Cap
  /\ ShowsAll(chunks, content)
  /\ how = "turn" => SaysWho(chunks, content)

LEMMA ParagraphsOf ==
  ASSUME NEW content \in Text
  PROVE  /\ AreParagraphs(Placement(content)) /\ Len(Placement(content)) = Len(content)
         /\ DOMAIN content = 1..Len(content)
         /\ \A p \in DOMAIN content :
              DOMAIN content[p] = 1..Len(Placement(content)[p])
<1> DEFINE P == Placement(content)
<1>1. /\ Len(P) = Len(content) /\ DOMAIN P = DOMAIN content
      /\ \A p \in DOMAIN content : /\ IsPlaced(P[p]) /\ DOMAIN P[p] = DOMAIN content[p]
      /\ \A p \in 2..Len(content) : P[p][1].from = P[p - 1][Len(P[p - 1])].to + 2
  BY PlacementIs
<1>2. Len(content) \in Nat /\ DOMAIN content = 1..Len(content)
  BY DEF Text
<1>3. \A p \in DOMAIN content : DOMAIN content[p] = 1..Len(P[p])
  BY <1>1, PlacedParts
<1> HIDE DEF P
<1>4. AreParagraphs(P)
  BY <1>1, <1>2 DEF AreParagraphs, Begins, Ends
<1> QED  BY <1>1, <1>2, <1>3, <1>4 DEF P

\* chunk_text leaves nothing of a text out, in order, within the cap and with its speakers.
LEMMA ChunkTextKeeps ==
  ASSUME PassagesAssumption, NEW how \in Modes, NEW content \in Text
  PROVE  Kept(how, ChunkText(how, content), content)
<1> DEFINE P == Placement(content)
           chunks == ChunkText(how, content)
           G == Openers(how, P)
<1>1. /\ AreParagraphs(P) /\ Len(P) = Len(content) /\ DOMAIN content = 1..Len(content)
      /\ \A p \in DOMAIN content : DOMAIN content[p] = 1..Len(P[p])
  BY ParagraphsOf
<1>2. chunks = Flushed(Joined(how, P)).chunks
  BY Zenon DEF ChunkText, Joined
<1> HIDE DEF P, chunks
<1>3. \A p \in 1..Len(P) : FitsParagraph(how, G, P[p])
  BY <1>1, ParagraphOpens
<1> HIDE DEF G
<1>4. PICK hi : IsCut(chunks, 0, hi, Written(P, Len(P)), G)
  BY <1>1, <1>2, <1>3, JoinedCut
<1>5. /\ chunks \in Seq(Seq(Piece))
      /\ \A k \in DOMAIN chunks : chunks[k] # <<>> /\ ChunkLen(chunks[k]) <= Cap /\ chunks[k][1] \in G
      /\ \A k \in 2..Len(chunks) : chunks[k - 1][1].from <= chunks[k][1].from
      /\ \A at \in Written(P, Len(P)) : Shows(chunks, at)
  BY <1>4 DEF IsCut
<1>6. ShowsAll(chunks, content)
  <2>1. ASSUME NEW p \in DOMAIN content, NEW i \in DOMAIN content[p],
               NEW at \in (P[p][i].from)..(P[p][i].to - 1)
        PROVE  \E k \in DOMAIN chunks : \E piece \in Range(chunks[k]) : piece.from <= at /\ at < piece.to
    <3>1. p \in 1..Len(P) /\ i \in 1..Len(P[p])
      BY <1>1
    <3>2. IsPlaced(P[p])
      BY <1>1, <3>1 DEF AreParagraphs
    <3>3. P[p][i].from \in Nat /\ P[p][i].to \in Nat
      BY <3>1, <3>2, PlacedParts
    <3>4. at \in Nat /\ P[p][i].from <= at /\ at < P[p][i].to
      BY <3>3
    <3>5. at \in Inside(P[p])
      BY <3>1, <3>4 DEF Inside, Covered
    <3>6. Shows(chunks, at)
      BY <1>5, <3>1, <3>4, <3>5 DEF Written
    <3>7. PICK k \in DOMAIN chunks :
            \E m \in DOMAIN chunks[k] : chunks[k][m].from <= at /\ at < chunks[k][m].to
      BY <3>6 DEF Shows
    <3>8. PICK m \in DOMAIN chunks[k] : chunks[k][m].from <= at /\ at < chunks[k][m].to
      BY <3>7
    <3>9. chunks[k][m] \in Range(chunks[k])
      BY DEF Range
    <3> QED  BY <3>8, <3>9
  <2> QED  BY <1>5, <2>1 DEF ShowsAll, P
<1>7. ASSUME how = "turn"
      PROVE  SaysWho(chunks, content)
  <2>1. ASSUME NEW p \in DOMAIN content, NEW turn \in Range(Turns(P[p])), turn.speaker # NoHead,
               NEW k \in DOMAIN chunks, From(turn) < chunks[k][1].from, chunks[k][1].from < To(turn)
        PROVE  chunks[k][1].says = turn.speaker
    <3>1. p \in 1..Len(P) /\ chunks[k][1] \in G
      BY <1>1, <1>5
    <3>2. PICK j \in DOMAIN Turns(P[p]) : turn = Turns(P[p])[j]
      BY DEF Range
    <3>3. IsPlaced(P[p])
      BY <1>1, <3>1 DEF AreParagraphs
    <3>4. j \in 1..Len(Turns(P[p]))
      BY <3>2, <3>3, TurnsOfLines, TurnParts
    <3>5. Names(chunks[k][1], TurnAt(P, p, j))
      BY <1>7, <3>1, <3>4 DEF G, Openers
    <3> QED  BY <2>1, <3>2, <3>5 DEF Names, TurnAt
  <2> QED  BY <2>1 DEF SaysWho, From, To, P
<1> QED  BY <1>5, <1>6, <1>7 DEF Kept, chunks

-----------------------------------------------------------------------------
(* Passages: the store.                                                     *)

\* While an owner is purged, its documents were seen or came too late to be.
StoreInv ==
  /\ PassagesTypeOK
  /\ shelf \subseteq DOMAIN chunksOf /\ DOMAIN chunksOf \ shelf \subseteq late
  /\ \A d \in purging.seen : d.owner \in purging.of
  /\ \A d \in DOMAIN chunksOf : d.owner \in purging.of => d \in purging.seen \/ d \in late
  /\ \A d \in shelf : Kept(mode, chunksOf[d], d.content)

LEMMA StoreInit ==
  ASSUME PassagesAssumption, PassagesInit
  PROVE  StoreInv
<1>1. /\ mode \in Modes /\ shelf = {} /\ ingested = 0 /\ chunksOf = <<>>
      /\ purging = NoPurge /\ preview = {} /\ late = {}
  BY DEF PassagesInit
<1>2. DOMAIN chunksOf = {}
  <2>1. <<>> \in Seq(Doc) /\ Len(<<>>) = 0 /\ 1..0 = {}
    BY EmptySeq
  <2> QED  BY <1>1, <2>1
<1>3. NoPurge \in [of : SUBSET Owners, seen : SUBSET Doc] /\ NoPurge.of = {} /\ NoPurge.seen = {}
  BY DEF NoPurge
<1>4. 0 \in 0..MaxStored
  BY DEF PassagesAssumption
<1>5. PassagesTypeOK
  BY <1>1, <1>2, <1>3, <1>4 DEF PassagesTypeOK
<1> QED  BY <1>1, <1>2, <1>3, <1>5 DEF StoreInv

LEMMA DocText ==
  ASSUME PassagesAssumption, NEW d \in Doc
  PROVE  d.content \in Text /\ d.owner \in Owners /\ d.id \in 1..MaxStored
BY DEF Doc, PassagesAssumption, Text

LEMMA AddDocumentKeeps ==
  ASSUME PassagesAssumption, StoreInv, NEW doc \in Doc, AddDocument(doc)
  PROVE  StoreInv'
<1>1. /\ ingested < MaxStored /\ ingested' = ingested + 1
      /\ shelf' = shelf \cup {doc}
      /\ chunksOf' = [d \in DOMAIN chunksOf \cup {doc} |->
                      IF d = doc THEN ChunkText(mode, doc.content) ELSE chunksOf[d]]
      /\ late' = IF doc.owner \in purging.of THEN late \cup {doc} ELSE late
      /\ mode' = mode /\ purging' = purging /\ preview' = preview
  BY DEF AddDocument
<1>2. /\ DOMAIN chunksOf' = DOMAIN chunksOf \cup {doc}
      /\ \A d \in DOMAIN chunksOf' :
           chunksOf'[d] = IF d = doc THEN ChunkText(mode, doc.content) ELSE chunksOf[d]
  BY <1>1
<1>3. PassagesTypeOK'
  <2>1. ingested' \in 0..MaxStored
    <3>1. ingested \in 0..MaxStored /\ MaxStored \in Nat
      BY DEF StoreInv, PassagesTypeOK, PassagesAssumption
    <3> QED  BY <1>1, <3>1
  <2>2. late' \subseteq late \cup {doc}
    BY <1>1
  <2> QED  BY <1>1, <1>2, <2>1, <2>2 DEF StoreInv, PassagesTypeOK
<1>4. \A d \in shelf' : Kept(mode', chunksOf'[d], d.content)
  <2> SUFFICES ASSUME NEW d \in shelf'
               PROVE  Kept(mode, chunksOf'[d], d.content)
    BY <1>1
  <2>1. CASE d = doc
    <3>1. mode \in Modes /\ doc.content \in Text
      BY DocText DEF StoreInv, PassagesTypeOK
    <3>2. Kept(mode, ChunkText(mode, doc.content), doc.content)
      BY <3>1, ChunkTextKeeps
    <3>3. chunksOf'[d] = ChunkText(mode, doc.content)
      BY <1>2, <2>1
    <3> QED  BY <2>1, <3>2, <3>3
  <2>2. CASE d # doc
    <3>1. d \in shelf /\ d \in DOMAIN chunksOf'
      BY <1>1, <1>2, <2>2 DEF StoreInv
    <3>2. chunksOf'[d] = chunksOf[d]
      BY <1>2, <2>2, <3>1
    <3> QED  BY <3>1, <3>2 DEF StoreInv
  <2> QED  BY <2>1, <2>2
<1>5. shelf' \subseteq DOMAIN chunksOf' /\ DOMAIN chunksOf' \ shelf' \subseteq late'
  BY <1>1, <1>2 DEF StoreInv
<1>6. /\ \A d \in purging'.seen : d.owner \in purging'.of
      /\ \A d \in DOMAIN chunksOf' : d.owner \in purging'.of => d \in purging'.seen \/ d \in late'
  BY <1>1, <1>2 DEF StoreInv
<1> QED  BY <1>3, <1>4, <1>5, <1>6 DEF StoreInv

LEMMA ForgottenKeeps ==
  ASSUME PassagesAssumption, StoreInv, NEW docs, Forgotten(docs), preview' \in SUBSET Doc
  PROVE  StoreInv'
<1>1. /\ shelf' = shelf \ docs /\ chunksOf' = Restrict(chunksOf, DOMAIN chunksOf \ docs)
      /\ mode' = mode /\ purging' = purging /\ late' = late /\ ingested' = ingested
  BY DEF Forgotten
<1>2. /\ DOMAIN chunksOf' = DOMAIN chunksOf \ docs
      /\ \A d \in DOMAIN chunksOf' : chunksOf'[d] = chunksOf[d]
  BY <1>1 DEF Restrict
<1>3. PassagesTypeOK'
  BY <1>1, <1>2 DEF StoreInv, PassagesTypeOK
<1>4. shelf' \subseteq DOMAIN chunksOf' /\ DOMAIN chunksOf' \ shelf' \subseteq late'
  BY <1>1, <1>2 DEF StoreInv
<1>5. \A d \in shelf' : Kept(mode', chunksOf'[d], d.content)
  <2> SUFFICES ASSUME NEW d \in shelf'
               PROVE  Kept(mode', chunksOf'[d], d.content)
    OBVIOUS
  <2>1. d \in shelf /\ chunksOf'[d] = chunksOf[d] /\ mode' = mode
    BY <1>1, <1>2, <1>4
  <2> QED  BY <2>1 DEF StoreInv
<1>6. /\ \A d \in purging'.seen : d.owner \in purging'.of
      /\ \A d \in DOMAIN chunksOf' : d.owner \in purging'.of => d \in purging'.seen \/ d \in late'
  BY <1>1, <1>2 DEF StoreInv
<1> QED  BY <1>3, <1>4, <1>5, <1>6 DEF StoreInv

LEMMA PurgeChunksKeeps ==
  ASSUME PassagesAssumption, StoreInv, NEW owners \in SUBSET Owners, PurgeChunks(owners)
  PROVE  StoreInv'
<1>1. /\ purging' = [of |-> owners, seen |-> {d \in DOMAIN chunksOf : d.owner \in owners}]
      /\ mode' = mode /\ shelf' = shelf /\ chunksOf' = chunksOf /\ preview' = preview
      /\ late' = late /\ ingested' = ingested
  BY DEF PurgeChunks
<1>2. purging'.of = owners /\ purging'.seen = {d \in DOMAIN chunksOf : d.owner \in owners}
  BY <1>1
<1>3. PassagesTypeOK'
  <2>1. {d \in DOMAIN chunksOf : d.owner \in owners} \subseteq Doc
    BY DEF StoreInv, PassagesTypeOK
  <2>2. purging' \in [of : SUBSET Owners, seen : SUBSET Doc]
    BY <1>1, <2>1
  <2> QED  BY <1>1, <2>2 DEF StoreInv, PassagesTypeOK
<1>4. \A d \in shelf' : Kept(mode', chunksOf'[d], d.content)
  BY <1>1 DEF StoreInv
<1> QED  BY <1>1, <1>2, <1>3, <1>4 DEF StoreInv

LEMMA PurgeDocumentsKeeps ==
  ASSUME PassagesAssumption, StoreInv, PurgeDocuments
  PROVE  StoreInv'
<1>1. /\ purging' = NoPurge
      /\ chunksOf' = Restrict(chunksOf, DOMAIN chunksOf \ purging.seen)
      /\ shelf' = {d \in shelf : d.owner \notin purging.of}
      /\ mode' = mode /\ preview' = preview /\ late' = late /\ ingested' = ingested
  BY DEF PurgeDocuments
<1>2. /\ DOMAIN chunksOf' = DOMAIN chunksOf \ purging.seen
      /\ \A d \in DOMAIN chunksOf' : chunksOf'[d] = chunksOf[d]
  BY <1>1 DEF Restrict
<1>3. purging'.of = {} /\ purging'.seen = {} /\ purging' \in [of : SUBSET Owners, seen : SUBSET Doc]
  BY <1>1 DEF NoPurge
<1>4. PassagesTypeOK'
  BY <1>1, <1>2, <1>3 DEF StoreInv, PassagesTypeOK
<1>5. shelf' \subseteq DOMAIN chunksOf' /\ DOMAIN chunksOf' \ shelf' \subseteq late'
  BY <1>1, <1>2 DEF StoreInv
<1>6. \A d \in shelf' : Kept(mode', chunksOf'[d], d.content)
  <2> SUFFICES ASSUME NEW d \in shelf'
               PROVE  Kept(mode', chunksOf'[d], d.content)
    OBVIOUS
  <2>1. d \in shelf /\ chunksOf'[d] = chunksOf[d] /\ mode' = mode
    BY <1>1, <1>2, <1>5
  <2> QED  BY <2>1 DEF StoreInv
<1> QED  BY <1>3, <1>4, <1>5, <1>6 DEF StoreInv

LEMMA StoreKeeps ==
  ASSUME PassagesAssumption, StoreInv, [PassagesNext]_passagesVars
  PROVE  StoreInv'
<1>1. ASSUME NEW d \in Doc, AddDocument(d)
      PROVE  StoreInv'
  BY <1>1, AddDocumentKeeps
<1>2. ASSUME NEW d \in shelf, ForgetDocument(d)
      PROVE  StoreInv'
  <2>1. Forgotten({d}) /\ preview' = preview
    BY <1>2 DEF ForgetDocument
  <2>2. preview' \in SUBSET Doc
    BY <2>1 DEF StoreInv, PassagesTypeOK
  <2> QED  BY <2>1, <2>2, ForgottenKeeps
<1>3. ASSUME NEW docs \in SUBSET shelf, CuratePreview(docs)
      PROVE  StoreInv'
  <2>1. /\ preview' = docs /\ mode' = mode /\ shelf' = shelf /\ chunksOf' = chunksOf
        /\ purging' = purging /\ late' = late /\ ingested' = ingested
    BY <1>3 DEF CuratePreview
  <2>2. PassagesTypeOK'
    BY <2>1 DEF StoreInv, PassagesTypeOK
  <2> QED  BY <2>1, <2>2 DEF StoreInv
<1>4. CASE CurateConfirm
  <2>1. Forgotten(preview) /\ preview' = {}
    BY <1>4 DEF CurateConfirm
  <2>2. preview' \in SUBSET Doc
    BY <2>1
  <2> QED  BY <2>1, <2>2, ForgottenKeeps
<1>5. ASSUME NEW o \in Owners, PurgeScope(o[1]) \/ PurgeWorkspace(o[2])
      PROVE  StoreInv'
  <2>1. PICK owners \in SUBSET Owners : PurgeChunks(owners)
    <3>1. {p \in Owners : p[1] = o[1]} \in SUBSET Owners
      OBVIOUS
    <3>2. {<<OwnScope, o[2]>>} \cap Owners \in SUBSET Owners
      OBVIOUS
    <3> QED  BY <1>5, <3>1, <3>2 DEF PurgeScope, PurgeWorkspace
  <2> QED  BY <2>1, PurgeChunksKeeps
<1>6. CASE PurgeDocuments
  BY <1>6, PurgeDocumentsKeeps
<1>7. CASE UNCHANGED passagesVars
  <2>1. /\ preview' = preview /\ mode' = mode /\ shelf' = shelf /\ chunksOf' = chunksOf
        /\ purging' = purging /\ late' = late /\ ingested' = ingested
    BY <1>7 DEF passagesVars
  <2>2. PassagesTypeOK'
    BY <2>1 DEF StoreInv, PassagesTypeOK
  <2> QED  BY <2>1, <2>2 DEF StoreInv
<1> QED  BY <1>1, <1>2, <1>3, <1>4, <1>5, <1>6, <1>7 DEF PassagesNext

(* A stored document is whole in its passages, in order, each within the    *)
(* cap and with its speakers named; what was forgotten or purged leaves no  *)
(* passage unless it came while its owner was purged (services/direct.py:   *)
(* 101-200, 266-312, 588-599; api/v1/memory.py:893-950).                    *)
THEOREM PassagesKeepTheTextHolds ==
  ASSUME PassagesAssumption
  PROVE  PassagesSpec => []PassagesKeepTheText
<1>1. PassagesInit => StoreInv
  BY StoreInit
<1>2. StoreInv /\ [PassagesNext]_passagesVars => StoreInv'
  BY StoreKeeps
<1>3. StoreInv => PassagesKeepTheText
  BY DEF StoreInv, PassagesKeepTheText, Kept
<1> QED  BY <1>1, <1>2, <1>3, PTL DEF PassagesSpec
=============================================================================
