-------------------------- MODULE PooledLockProofs --------------------------
(***************************************************************************)
(* Theorem of PooledLock for any replicas, pool size, requests and         *)
(* crashes: with a pool that does not overflow, one replica ticks at a     *)
(* time.  A returned connection then always finds room, so nothing but its *)
(* own replica ever takes the lock off a tick.                             *)
(***************************************************************************)
EXTENDS PooledLock, FiniteSetTheorems, SequenceTheorems, TLAPS

\* The connections of a replica are in one place each.
Apart(r) ==
  /\ \A i, j \in 1..Len(idle[r]) : idle[r][i] = idle[r][j] => i = j
  /\ \A i \in 1..Len(idle[r]) : idle[r][i] # mine[r] /\ idle[r][i] \notin busy[r]
  /\ mine[r] \notin busy[r]

Placed == \A r \in Replicas : Apart(r)

\* s0 has a connection exactly where the tick is inside a transaction.
PhaseOfConn ==
  \A r \in Replicas : mine[r] = NoConn <=> phase[r] \in {"idle", "between"}

\* At most one connection of all pools holds the lock.
OneHolder ==
  \A x, y \in Replicas \X Conn : holds[x] > 0 /\ holds[y] > 0 => x = y

\* It is a connection of the replica that ticks.
TickerHolds ==
  \A r \in Replicas : phase[r] \in Ticking => \E c \in Conn : holds[<<r, c>>] > 0

Pools == Placed /\ PhaseOfConn
Lock == OneHolder /\ TickerHolds

IInv == TypeOK /\ Pools /\ Lock

-----------------------------------------------------------------------------
(* The pool. *)

LEMMA ConnFacts ==
  /\ Conn \subseteq Nat /\ NoConn \notin Conn
  /\ MaxOverflow = 0 => IsFiniteSet(Conn) /\ Cardinality(Conn) = PoolSize
<1>1. PoolSize \in Nat \ {0} /\ MaxOverflow \in Nat
  BY PoolAssumption DEF PoolAssumption
<1>2. IsFiniteSet(1..PoolSize) /\ Cardinality(1..PoolSize) = PoolSize
  BY <1>1, FS_Interval, SMT
<1>3. MaxOverflow = 0 => Conn = 1..PoolSize
  BY <1>1, SMT DEF Conn
<1>4. Conn \subseteq Nat /\ NoConn \notin Conn
  BY <1>1, SMT DEF Conn, NoConn
<1> QED  BY <1>2, <1>3, <1>4

\* A queue of distinct connections that lacks one of them has room for it.
LEMMA Room ==
  ASSUME MaxOverflow = 0, NEW q \in Seq(Conn), NEW c \in Conn,
         \A i, j \in 1..Len(q) : q[i] = q[j] => i = j,
         \A i \in 1..Len(q) : q[i] # c
  PROVE  Len(q) < PoolSize
<1> DEFINE S == 1..Len(q)
           T == Conn \ {c}
<1>1. Len(q) \in Nat /\ q \in [S -> T]
  BY LenProperties, SMT
<1>2. q \in Injection(S, T)
  BY <1>1 DEF Injection, IsInjective
<1>3. IsFiniteSet(Conn) /\ Cardinality(Conn) = PoolSize
  BY ConnFacts
<1>4. IsFiniteSet(T) /\ Cardinality(T) = PoolSize - 1
  BY <1>3, FS_RemoveElement
<1> HIDE DEF S, T
<1>5. Cardinality(S) <= Cardinality(T)
  BY <1>2, <1>4, FS_Injection
<1>6. Cardinality(S) = Len(q)
  <2>1. Cardinality(1..Len(q)) = IF 1 > Len(q) THEN 0 ELSE Len(q) - 1 + 1
    BY <1>1, FS_Interval, SMT
  <2> QED  BY <1>1, <2>1, SMT DEF S
<1> QED  BY <1>1, <1>4, <1>5, <1>6, PoolAssumption, SMT DEF PoolAssumption

\* With no overflow a returned connection goes to the end of the queue.
LEMMA ReturnFits ==
  ASSUME MaxOverflow = 0, TypeOK, NEW r \in Replicas, NEW c \in Conn, NEW held,
         \A i, j \in 1..Len(idle[r]) : idle[r][i] = idle[r][j] => i = j,
         \A i \in 1..Len(idle[r]) : idle[r][i] # c,
         GiveBack(r, c, held)
  PROVE  idle' = [idle EXCEPT ![r] = Append(@, c)] /\ holds' = held
<1>1. idle[r] \in Seq(Conn)
  BY DEF TypeOK
<1>2. Len(idle[r]) < PoolSize
  BY <1>1, Room
<1> QED  BY <1>2 DEF GiveBack

\* What a checkout takes is nowhere else.
LEMMA CheckoutTakes ==
  ASSUME TypeOK, NEW r \in Replicas, Apart(r), NEW k \in Checkouts(r)
  PROVE  /\ k.conn \in Conn /\ k.rest \in Seq(Conn)
         /\ k.conn \notin busy[r] /\ k.conn # mine[r]
         /\ \A i, j \in 1..Len(k.rest) : k.rest[i] = k.rest[j] => i = j
         /\ \A i \in 1..Len(k.rest) :
              k.rest[i] # k.conn /\ k.rest[i] # mine[r] /\ k.rest[i] \notin busy[r]
<1>1. idle[r] \in Seq(Conn) /\ busy[r] \subseteq Conn /\ mine[r] \in Conn \union {NoConn}
  BY DEF TypeOK
<1>2. CASE idle[r] # <<>>
  <2> DEFINE q == idle[r]
  <2>1. k.conn = Head(q) /\ k.rest = Tail(q)
    BY <1>2 DEF Checkouts
  <2>2. /\ Head(q) = q[1] /\ Head(q) \in Conn /\ Tail(q) \in Seq(Conn)
        /\ Len(q) \in Nat \ {0} /\ Len(Tail(q)) = Len(q) - 1
        /\ \A i \in 1..Len(Tail(q)) : Tail(q)[i] = q[i + 1]
    BY <1>1, <1>2, HeadTailProperties, EmptySeq, SMT
  <2>3. \A i \in 1..Len(Tail(q)) : i + 1 \in 1..Len(q) /\ i + 1 # 1
    BY <2>2, SMT
  <2>4. 1 \in 1..Len(q)
    BY <2>2, SMT
  <2>5. \A i, j \in 1..Len(Tail(q)) : i + 1 = j + 1 => i = j
    BY <2>2, SMT
  <2> HIDE DEF q
  <2>6. /\ \A i, j \in 1..Len(q) : q[i] = q[j] => i = j
        /\ \A i \in 1..Len(q) : q[i] # mine[r] /\ q[i] \notin busy[r]
    BY DEF Apart, q
  <2> QED  BY <2>1, <2>2, <2>3, <2>4, <2>5, <2>6
<1>3. CASE idle[r] = <<>>
  <2>1. k.conn \in Conn \ Live(r) /\ k.rest = <<>>
    BY <1>3 DEF Checkouts
  <2>2. k.conn \notin busy[r] /\ k.conn # mine[r]
    BY <2>1, ConnFacts DEF Live
  <2>3. k.rest \in Seq(Conn) /\ 1..Len(k.rest) = {}
    BY <2>1, SMT
  <2> QED  BY <2>1, <2>2, <2>3
<1> QED  BY <1>2, <1>3

\* s0 takes a connection.
LEMMA TakeMine ==
  ASSUME TypeOK, Pools, NEW r \in Replicas, mine[r] = NoConn,
         NEW k \in Checkouts(r),
         mine' = [mine EXCEPT ![r] = k.conn], idle' = [idle EXCEPT ![r] = k.rest],
         UNCHANGED busy
  PROVE  /\ mine' \in [Replicas -> Conn \union {NoConn}] /\ mine'[r] # NoConn
         /\ idle' \in [Replicas -> Seq(Conn)]
         /\ Placed'
<1>1. Apart(r)
  BY DEF Pools, Placed
<1>2. /\ k.conn \in Conn /\ k.rest \in Seq(Conn) /\ k.conn \notin busy[r]
      /\ \A i, j \in 1..Len(k.rest) : k.rest[i] = k.rest[j] => i = j
      /\ \A i \in 1..Len(k.rest) : k.rest[i] # k.conn /\ k.rest[i] \notin busy[r]
  BY <1>1, CheckoutTakes
<1>3. mine'[r] = k.conn /\ idle'[r] = k.rest /\ busy'[r] = busy[r]
  BY DEF TypeOK
<1>4. Apart(r)'
  BY <1>2, <1>3 DEF Apart
<1>5. ASSUME NEW s \in Replicas, s # r PROVE Apart(s)'
  <2>1. mine'[s] = mine[s] /\ idle'[s] = idle[s] /\ busy'[s] = busy[s] /\ Apart(s)
    BY <1>5 DEF TypeOK, Pools, Placed
  <2> QED  BY <2>1 DEF Apart
<1>6. mine' \in [Replicas -> Conn \union {NoConn}] /\ idle' \in [Replicas -> Seq(Conn)]
  BY <1>2 DEF TypeOK
<1> QED  BY <1>2, <1>3, <1>4, <1>5, <1>6, ConnFacts DEF Placed

\* Appending keeps a queue's elements and adds the one.
LEMMA Appended ==
  ASSUME NEW q \in Seq(Conn), NEW c \in Conn
  PROVE  /\ Append(q, c) \in Seq(Conn) /\ Len(q) \in Nat
         /\ \A i \in 1..Len(Append(q, c)) :
              IF i = Len(q) + 1 THEN Append(q, c)[i] = c
              ELSE i \in 1..Len(q) /\ Append(q, c)[i] = q[i]
  BY SMT

\* s0 gives its connection back.
LEMMA ReturnMine ==
  ASSUME MaxOverflow = 0, TypeOK, Pools, NEW r \in Replicas, mine[r] # NoConn,
         NEW held, GiveBack(r, mine[r], held),
         mine' = [mine EXCEPT ![r] = NoConn], UNCHANGED busy
  PROVE  /\ mine' \in [Replicas -> Conn \union {NoConn}] /\ mine'[r] = NoConn
         /\ idle' \in [Replicas -> Seq(Conn)]
         /\ Placed' /\ holds' = held
<1> DEFINE q == idle[r]
           c == mine[r]
<1>1. q \in Seq(Conn) /\ c \in Conn /\ busy[r] \subseteq Conn
  BY DEF TypeOK
<1>2. /\ \A i, j \in 1..Len(q) : q[i] = q[j] => i = j
      /\ \A i \in 1..Len(q) : q[i] # c /\ q[i] \notin busy[r]
      /\ c \notin busy[r]
  BY DEF Pools, Placed, Apart
<1>3. idle' = [idle EXCEPT ![r] = Append(q, c)] /\ holds' = held
  BY <1>1, <1>2, ReturnFits
<1>4. mine'[r] = NoConn /\ idle'[r] = Append(q, c) /\ busy'[r] = busy[r]
  BY <1>3 DEF TypeOK
<1>5. idle' \in [Replicas -> Seq(Conn)] /\ mine' \in [Replicas -> Conn \union {NoConn}]
  BY <1>1, <1>3, Appended DEF TypeOK
<1> HIDE DEF q, c
<1>6. Apart(r)'
  <2>1. /\ Append(q, c) \in Seq(Conn)
        /\ \A i \in 1..Len(Append(q, c)) :
              IF i = Len(q) + 1 THEN Append(q, c)[i] = c
              ELSE i \in 1..Len(q) /\ Append(q, c)[i] = q[i]
    BY <1>1, Appended
  <2>2. \A i \in 1..Len(Append(q, c)) : Append(q, c)[i] \in Conn
    BY <2>1, ElementOfSeq
  <2> QED  BY <1>1, <1>2, <1>4, <2>1, <2>2, ConnFacts DEF Apart
<1>7. ASSUME NEW s \in Replicas, s # r PROVE Apart(s)'
  <2>1. mine'[s] = mine[s] /\ idle'[s] = idle[s] /\ busy'[s] = busy[s] /\ Apart(s)
    BY <1>3, <1>7 DEF TypeOK, Pools, Placed
  <2> QED  BY <2>1 DEF Apart
<1> QED  BY <1>3, <1>4, <1>5, <1>6, <1>7 DEF Placed

-----------------------------------------------------------------------------
(* The lock. *)

\* A step that keeps the holds, after which only a ticking replica may tick.
LEMMA LockStays ==
  ASSUME TypeOK, Lock, holds' = holds, NEW r \in Replicas, NEW p,
         phase' = [phase EXCEPT ![r] = p],
         p \in Ticking => phase[r] \in Ticking
  PROVE  Lock'
<1>1. OneHolder'
  BY DEF Lock, OneHolder
<1>2. ASSUME NEW s \in Replicas, phase'[s] \in Ticking
      PROVE  \E c \in Conn : holds'[<<s, c>>] > 0
  <2>1. phase[s] \in Ticking
    BY <1>2 DEF TypeOK
  <2> QED  BY <2>1 DEF Lock, TickerHolds
<1> QED  BY <1>1, <1>2 DEF Lock, TickerHolds

\* A step in which a replica stops ticking may free its own holds.
LEMMA LockShrinks ==
  ASSUME TypeOK, Lock, NEW r \in Replicas,
         phase' = [phase EXCEPT ![r] = "idle"],
         \A x \in Replicas \X Conn : holds'[x] > 0 => holds[x] > 0,
         \A s \in Replicas : s # r => \A c \in Conn : holds'[<<s, c>>] = holds[<<s, c>>]
  PROVE  Lock'
<1>1. OneHolder'
  BY DEF Lock, OneHolder
<1>2. ASSUME NEW s \in Replicas, phase'[s] \in Ticking
      PROVE  \E c \in Conn : holds'[<<s, c>>] > 0
  <2>1. s # r /\ phase[s] \in Ticking
    BY <1>2 DEF TypeOK, Ticking
  <2> QED  BY <2>1 DEF Lock, TickerHolds
<1> QED  BY <1>1, <1>2 DEF Lock, TickerHolds

\* A granted try leaves the caller's connection as the only holder.
LEMMA LockTaken ==
  ASSUME TypeOK, Lock, NEW r \in Replicas, NEW c \in Conn, Granted(r, c),
         holds' = Deeper(r, c), phase' = [phase EXCEPT ![r] = "locked"]
  PROVE  Lock' /\ holds' \in [Replicas \X Conn -> 0..MaxDepth]
<1>1. MaxDepth \in Nat \ {0}
  BY PoolAssumption DEF PoolAssumption
<1>2. /\ holds' \in [Replicas \X Conn -> 0..MaxDepth]
      /\ holds'[<<r, c>>] > 0
      /\ \A x \in Replicas \X Conn : x # <<r, c>> => holds'[x] = holds[x]
  BY <1>1, SMT DEF TypeOK, Deeper
<1>3. \A x \in Replicas \X Conn : holds'[x] > 0 => x = <<r, c>>
  BY <1>2 DEF Granted, Holders
<1>4. OneHolder'
  BY <1>3 DEF OneHolder
<1>5. ASSUME NEW s \in Replicas, phase'[s] \in Ticking
      PROVE  \E d \in Conn : holds'[<<s, d>>] > 0
  <2>1. CASE s = r
    BY <1>2, <2>1
  <2>2. CASE s # r
    <3>1. phase[s] \in Ticking
      BY <1>5, <2>2 DEF TypeOK
    <3>2. PICK d \in Conn : holds[<<s, d>>] > 0
      BY <3>1 DEF Lock, TickerHolds
    <3> QED  BY <2>2, <3>2, <1>2
  <2> QED  BY <2>1, <2>2
<1> QED  BY <1>2, <1>4, <1>5 DEF Lock, TickerHolds

-----------------------------------------------------------------------------
LEMMA InitIInv == Init => IInv
<1> SUFFICES ASSUME Init PROVE IInv
  OBVIOUS
<1>1. MaxDepth \in Nat \ {0} /\ MaxCrashes \in Nat
  BY PoolAssumption DEF PoolAssumption
<1>2. TypeOK
  BY <1>1, SMT DEF Init, TypeOK, NoConn
<1>3. Pools
  BY SMT DEF Init, Pools, Placed, Apart, PhaseOfConn, NoConn
<1>4. Lock
  BY SMT DEF Init, Lock, OneHolder, TickerHolds, Ticking
<1> QED  BY <1>2, <1>3, <1>4 DEF IInv

LEMMA NextIInv ==
  ASSUME MaxOverflow = 0
  PROVE  IInv /\ [Next]_vars => IInv'
<1> SUFFICES ASSUME IInv, [Next]_vars PROVE IInv'
  OBVIOUS
<1> USE DEF IInv
<1>a. NoConn \notin Conn
  BY ConnFacts
<1>b. MaxDepth \in Nat \ {0} /\ MaxCrashes \in Nat
  BY PoolAssumption DEF PoolAssumption
<1>1. ASSUME NEW r \in Replicas, Begin(r) PROVE IInv'
  <2>1. PICK k \in Checkouts(r) : /\ mine' = [mine EXCEPT ![r] = k.conn]
                                  /\ idle' = [idle EXCEPT ![r] = k.rest]
    BY <1>1 DEF Begin
  <2>2. mine[r] = NoConn
    BY <1>1 DEF Begin, Pools, PhaseOfConn
  <2>3. /\ mine' \in [Replicas -> Conn \union {NoConn}] /\ mine'[r] # NoConn
        /\ idle' \in [Replicas -> Seq(Conn)] /\ Placed'
    BY <1>1, <2>1, <2>2, TakeMine DEF Begin
  <2>4. TypeOK'
    BY <1>1, <2>3 DEF TypeOK, Begin
  <2>5. PhaseOfConn'
    BY <1>1, <2>1, <2>3 DEF TypeOK, Begin, Pools, PhaseOfConn
  <2>6. Lock'
    BY <1>1, LockStays DEF Begin, Ticking
  <2> QED  BY <2>3, <2>4, <2>5, <2>6 DEF Pools
<1>2. ASSUME NEW r \in Replicas, TryLock(r), Granted(r, mine[r]) PROVE IInv'
  <2>1. mine[r] \in Conn
    BY <1>2 DEF TryLock, TypeOK, Pools, PhaseOfConn
  <2>2. holds' = Deeper(r, mine[r]) /\ phase' = [phase EXCEPT ![r] = "locked"]
        /\ UNCHANGED <<idle, mine, busy, crashes>>
    BY <1>2 DEF TryLock
  <2>3. Lock' /\ holds' \in [Replicas \X Conn -> 0..MaxDepth]
    BY <1>2, <2>1, <2>2, LockTaken
  <2>4. TypeOK'
    BY <2>2, <2>3 DEF TypeOK, Ticking
  <2>5. Pools'
    BY <1>2, <2>2 DEF TypeOK, TryLock, Pools, Placed, Apart, PhaseOfConn
  <2> QED  BY <2>3, <2>4, <2>5
<1>3. ASSUME NEW r \in Replicas, TryLock(r), ~Granted(r, mine[r]) PROVE IInv'
  <2>1. mine[r] # NoConn
    BY <1>3 DEF TryLock, Pools, PhaseOfConn
  <2>2. GiveBack(r, mine[r], holds) /\ phase' = [phase EXCEPT ![r] = "idle"]
        /\ mine' = [mine EXCEPT ![r] = NoConn] /\ UNCHANGED <<busy, crashes>>
    BY <1>3 DEF TryLock
  <2>3. /\ mine' \in [Replicas -> Conn \union {NoConn}] /\ mine'[r] = NoConn
        /\ idle' \in [Replicas -> Seq(Conn)] /\ Placed' /\ holds' = holds
    BY <2>1, <2>2, ReturnMine
  <2>4. TypeOK'
    BY <2>2, <2>3 DEF TypeOK
  <2>5. PhaseOfConn'
    BY <2>2, <2>3 DEF TypeOK, Pools, PhaseOfConn
  <2>6. Lock'
    BY <2>2, <2>3, LockStays DEF Ticking
  <2> QED  BY <2>3, <2>4, <2>5, <2>6 DEF Pools
<1>4. ASSUME NEW r \in Replicas, Commit(r) PROVE IInv'
  <2>1. mine[r] # NoConn
    BY <1>4 DEF Commit, Pools, PhaseOfConn
  <2>2. /\ mine' \in [Replicas -> Conn \union {NoConn}] /\ mine'[r] = NoConn
        /\ idle' \in [Replicas -> Seq(Conn)] /\ Placed' /\ holds' = holds
    BY <1>4, <2>1, ReturnMine DEF Commit
  <2>3. TypeOK'
    BY <1>4, <2>2 DEF TypeOK, Commit, Ticking
  <2>4. PhaseOfConn'
    BY <1>4, <2>2 DEF TypeOK, Commit, Pools, PhaseOfConn
  <2>5. Lock'
    BY <1>4, <2>2, LockStays DEF Commit, Ticking
  <2> QED  BY <2>2, <2>3, <2>4, <2>5 DEF Pools
<1>5. ASSUME NEW r \in Replicas, Use(r) PROVE IInv'
  <2>1. PICK k \in Checkouts(r) : /\ mine' = [mine EXCEPT ![r] = k.conn]
                                  /\ idle' = [idle EXCEPT ![r] = k.rest]
    BY <1>5 DEF Use
  <2>2. mine[r] = NoConn
    BY <1>5 DEF Use, Pools, PhaseOfConn
  <2>3. /\ mine' \in [Replicas -> Conn \union {NoConn}] /\ mine'[r] # NoConn
        /\ idle' \in [Replicas -> Seq(Conn)] /\ Placed'
    BY <1>5, <2>1, <2>2, TakeMine DEF Use
  <2>4. TypeOK'
    BY <1>5, <2>3 DEF TypeOK, Use, Ticking
  <2>5. PhaseOfConn'
    BY <1>5, <2>1, <2>3 DEF TypeOK, Use, Pools, PhaseOfConn
  <2>6. Lock'
    BY <1>5, LockStays DEF Use, Ticking
  <2> QED  BY <2>3, <2>4, <2>5, <2>6 DEF Pools
<1>6. ASSUME NEW r \in Replicas, BeginUnlock(r), phase[r] = "between" PROVE IInv'
  <2>1. PICK k \in Checkouts(r) : /\ mine' = [mine EXCEPT ![r] = k.conn]
                                  /\ idle' = [idle EXCEPT ![r] = k.rest]
    BY <1>6 DEF BeginUnlock
  <2>2. mine[r] = NoConn
    BY <1>6 DEF Pools, PhaseOfConn
  <2>3. /\ mine' \in [Replicas -> Conn \union {NoConn}] /\ mine'[r] # NoConn
        /\ idle' \in [Replicas -> Seq(Conn)] /\ Placed'
    BY <1>6, <2>1, <2>2, TakeMine DEF BeginUnlock
  <2>4. TypeOK'
    BY <1>6, <2>3 DEF TypeOK, BeginUnlock, Ticking
  <2>5. PhaseOfConn'
    BY <1>6, <2>1, <2>3 DEF TypeOK, BeginUnlock, Pools, PhaseOfConn
  <2>6. Lock'
    BY <1>6, LockStays DEF BeginUnlock, Ticking
  <2> QED  BY <2>3, <2>4, <2>5, <2>6 DEF Pools
<1>7. ASSUME NEW r \in Replicas, BeginUnlock(r), phase[r] # "between" PROVE IInv'
  <2>1. /\ phase[r] \in {"locked", "using"} /\ phase' = [phase EXCEPT ![r] = "unlocking"]
        /\ UNCHANGED <<mine, idle, busy, holds, crashes>>
    BY <1>7 DEF BeginUnlock
  <2>2. TypeOK'
    BY <2>1 DEF TypeOK, Ticking
  <2>3. Pools'
    BY <2>1 DEF TypeOK, Pools, Placed, Apart, PhaseOfConn
  <2>4. Lock'
    BY <2>1, LockStays DEF Ticking
  <2> QED  BY <2>2, <2>3, <2>4
<1>8. ASSUME NEW r \in Replicas, Unlock(r) PROVE IInv'
  <2>1. PICK held \in Unlocked(r, mine[r]) : GiveBack(r, mine[r], held)
    BY <1>8 DEF Unlock
  <2>2. mine[r] # NoConn /\ mine[r] \in Conn
    BY <1>8 DEF Unlock, TypeOK, Pools, PhaseOfConn
  <2>3. /\ mine' \in [Replicas -> Conn \union {NoConn}] /\ mine'[r] = NoConn
        /\ idle' \in [Replicas -> Seq(Conn)] /\ Placed' /\ holds' = held
    BY <1>8, <2>1, <2>2, ReturnMine DEF Unlock
  <2>4. /\ held \in [Replicas \X Conn -> 0..MaxDepth]
        /\ \A x \in Replicas \X Conn : held[x] > 0 => holds[x] > 0
        /\ \A x \in Replicas \X Conn : x # <<r, mine[r]>> => held[x] = holds[x]
    <3> DEFINE x == <<r, mine[r]>>
               n == holds[x]
               M == IF n = 0 THEN {0} ELSE {n - 1} \union (IF n = MaxDepth THEN {n} ELSE {})
    <3>1. x \in Replicas \X Conn /\ n \in 0..MaxDepth
      BY <2>2 DEF TypeOK
    <3>2. PICK m \in M : held = [holds EXCEPT ![x] = m]
      BY <2>1 DEF Unlocked
    <3>3. m \in 0..MaxDepth /\ (n = 0 => m = 0)
      <4> HIDE DEF n
      <4> QED  BY <1>b, <3>1, SMT
    <3> HIDE DEF x
    <3>4. \A y \in Replicas \X Conn : held[y] = IF y = x THEN m ELSE holds[y]
      BY <3>1, <3>2 DEF TypeOK
    <3>5. held \in [Replicas \X Conn -> 0..MaxDepth]
      BY <3>2, <3>3 DEF TypeOK
    <3>6. \A y \in Replicas \X Conn : held[y] > 0 => holds[y] > 0
      <4> SUFFICES ASSUME NEW y \in Replicas \X Conn, held[y] > 0 PROVE holds[y] > 0
        OBVIOUS
      <4>1. holds[y] \in 0..MaxDepth
        BY DEF TypeOK
      <4> QED  BY <1>b, <3>3, <3>4, <4>1, SMT
    <3> QED  BY <3>4, <3>5, <3>6 DEF x
  <2>5. TypeOK'
    BY <1>8, <2>3, <2>4 DEF TypeOK, Unlock
  <2>6. PhaseOfConn'
    BY <1>8, <2>3 DEF TypeOK, Unlock, Pools, PhaseOfConn
  <2>7. Lock'
    BY <1>8, <2>2, <2>3, <2>4, LockShrinks DEF Unlock
  <2> QED  BY <2>3, <2>5, <2>6, <2>7 DEF Pools
<1>9. ASSUME NEW r \in Replicas, UnlockRaises(r) PROVE IInv'
  <2>1. /\ holds' \in [Replicas \X Conn -> 0..MaxDepth]
        /\ \A x \in Replicas \X Conn : holds'[x] > 0 => holds[x] > 0
        /\ \A x \in Replicas \X Conn : x # <<r, mine[r]>> => holds'[x] = holds[x]
    BY <1>9, <1>b, SMT DEF UnlockRaises, Dropped, TypeOK
  <2>2. TypeOK'
    BY <1>9, <2>1 DEF TypeOK, UnlockRaises
  <2>3. Pools'
    <3>1. Placed'
      BY <1>9, <1>a DEF TypeOK, UnlockRaises, Pools, Placed, Apart
    <3>2. PhaseOfConn'
      BY <1>9 DEF TypeOK, UnlockRaises, Pools, PhaseOfConn
    <3> QED  BY <3>1, <3>2 DEF Pools
  <2>4. Lock'
    BY <1>9, <2>1, LockShrinks DEF UnlockRaises
  <2> QED  BY <2>2, <2>3, <2>4
<1>10. ASSUME NEW r \in Replicas, UnlockTimesOut(r) PROVE IInv'
  <2>1. TypeOK'
    BY <1>10 DEF TypeOK, UnlockTimesOut
  <2>2. Pools'
    BY <1>10 DEF TypeOK, UnlockTimesOut, Pools, Placed, Apart, PhaseOfConn
  <2>3. Lock'
    BY <1>10, LockStays DEF UnlockTimesOut, Ticking
  <2> QED  BY <2>1, <2>2, <2>3
<1>11. ASSUME NEW r \in Replicas, Request(r) PROVE IInv'
  <2>1. PICK k \in Checkouts(r) : /\ busy' = [busy EXCEPT ![r] = @ \union {k.conn}]
                                  /\ idle' = [idle EXCEPT ![r] = k.rest]
    BY <1>11 DEF Request
  <2>2. UNCHANGED <<mine, phase, holds, crashes>>
    BY <1>11 DEF Request
  <2>3. Apart(r)
    BY DEF Pools, Placed
  <2>4. /\ k.conn \in Conn /\ k.rest \in Seq(Conn) /\ k.conn # mine[r]
        /\ \A i, j \in 1..Len(k.rest) : k.rest[i] = k.rest[j] => i = j
        /\ \A i \in 1..Len(k.rest) :
             k.rest[i] # k.conn /\ k.rest[i] # mine[r] /\ k.rest[i] \notin busy[r]
    BY <2>3, CheckoutTakes
  <2>5. TypeOK'
    BY <2>1, <2>2, <2>4 DEF TypeOK
  <2>6. Apart(r)'
    <3>1. idle'[r] = k.rest /\ busy'[r] = busy[r] \union {k.conn} /\ mine'[r] = mine[r]
      BY <2>1, <2>2 DEF TypeOK
    <3> QED  BY <2>3, <2>4, <3>1 DEF Apart
  <2>7. ASSUME NEW s \in Replicas, s # r PROVE Apart(s)'
    <3>1. idle'[s] = idle[s] /\ busy'[s] = busy[s] /\ mine'[s] = mine[s] /\ Apart(s)
      BY <2>1, <2>2, <2>7 DEF TypeOK, Pools, Placed
    <3> QED  BY <3>1 DEF Apart
  <2>8. PhaseOfConn' /\ Lock'
    BY <2>2 DEF Pools, PhaseOfConn, Lock, OneHolder, TickerHolds
  <2> QED  BY <2>5, <2>6, <2>7, <2>8 DEF Pools, Placed
<1>12. ASSUME NEW r \in Replicas, NEW c \in Conn, EndRequest(r, c) PROVE IInv'
  <2>1. /\ c \in busy[r] /\ busy' = [busy EXCEPT ![r] = @ \ {c}]
        /\ GiveBack(r, c, holds) /\ UNCHANGED <<mine, phase, crashes>>
    BY <1>12 DEF EndRequest
  <2>2. Apart(r) /\ idle[r] \in Seq(Conn)
    BY DEF TypeOK, Pools, Placed
  <2>3. idle' = [idle EXCEPT ![r] = Append(@, c)] /\ holds' = holds
    BY <2>1, <2>2, ReturnFits DEF Apart
  <2>4. /\ Append(idle[r], c) \in Seq(Conn)
        /\ \A i \in 1..Len(Append(idle[r], c)) :
              IF i = Len(idle[r]) + 1 THEN Append(idle[r], c)[i] = c
              ELSE i \in 1..Len(idle[r]) /\ Append(idle[r], c)[i] = idle[r][i]
    BY <2>2, Appended
  <2>5. TypeOK'
    BY <2>1, <2>3, <2>4 DEF TypeOK
  <2>6. Apart(r)'
    <3>1. idle'[r] = Append(idle[r], c) /\ busy'[r] = busy[r] \ {c} /\ mine'[r] = mine[r]
      BY <2>1, <2>3 DEF TypeOK
    <3> QED  BY <2>1, <2>2, <2>4, <3>1 DEF Apart
  <2>7. ASSUME NEW s \in Replicas, s # r PROVE Apart(s)'
    <3>1. idle'[s] = idle[s] /\ busy'[s] = busy[s] /\ mine'[s] = mine[s] /\ Apart(s)
      BY <2>1, <2>3, <2>7 DEF TypeOK, Pools, Placed
    <3> QED  BY <3>1 DEF Apart
  <2>8. PhaseOfConn' /\ Lock'
    BY <2>1, <2>3 DEF Pools, PhaseOfConn, Lock, OneHolder, TickerHolds
  <2> QED  BY <2>5, <2>6, <2>7, <2>8 DEF Pools, Placed
<1>13. ASSUME NEW r \in Replicas, Crash(r) PROVE IInv'
  <2>1. /\ holds' \in [Replicas \X Conn -> 0..MaxDepth]
        /\ \A x \in Replicas \X Conn : holds'[x] > 0 => holds[x] > 0
        /\ \A s \in Replicas : s # r => \A c \in Conn : holds'[<<s, c>>] = holds[<<s, c>>]
    BY <1>13, <1>b, SMT DEF Crash, Dropped, TypeOK
  <2>2. TypeOK'
    <3>1. <<>> \in Seq(Conn)
      BY EmptySeq
    <3>2. crashes' \in 0..MaxCrashes
      BY <1>13, <1>b, SMT DEF TypeOK, Crash
    <3>3. mine' \in [Replicas -> Conn \union {NoConn}]
      BY <1>13 DEF TypeOK, Crash
    <3> QED  BY <1>13, <2>1, <3>1, <3>2, <3>3 DEF TypeOK, Crash
  <2>3. Placed'
    <3>1. ASSUME NEW s \in Replicas PROVE Apart(s)'
      <4>1. CASE s = r
        <5>1. idle'[s] = <<>> /\ busy'[s] = {}
          BY <1>13, <4>1 DEF TypeOK, Crash
        <5>2. 1..Len(idle'[s]) = {}
          BY <5>1, SMT
        <5> QED  BY <5>1, <5>2 DEF Apart
      <4>2. CASE s # r
        <5>1. idle'[s] = idle[s] /\ busy'[s] = busy[s] /\ mine'[s] = mine[s] /\ Apart(s)
          BY <1>13, <4>2 DEF TypeOK, Crash, Pools, Placed
        <5> QED  BY <5>1 DEF Apart
      <4> QED  BY <4>1, <4>2
    <3> QED  BY <3>1 DEF Placed
  <2>4. PhaseOfConn'
    BY <1>13 DEF TypeOK, Crash, Pools, PhaseOfConn
  <2>5. Lock'
    BY <1>13, <2>1, LockShrinks DEF Crash
  <2> QED  BY <2>2, <2>3, <2>4, <2>5 DEF Pools
<1>14. CASE UNCHANGED vars
  BY <1>14 DEF vars, TypeOK, Pools, Placed, Apart, PhaseOfConn, Lock, OneHolder, TickerHolds
<1> QED
  BY <1>1, <1>2, <1>3, <1>4, <1>5, <1>6, <1>7, <1>8, <1>9, <1>10, <1>11, <1>12, <1>13, <1>14
  DEF Next, Tick

-----------------------------------------------------------------------------
\* Only one replica processes at a time (services/worker.py), for any number of
\* replicas, requests and crashes, if the pool does not overflow.
THEOREM OneReplicaTicksHolds ==
  ASSUME MaxOverflow = 0
  PROVE  Spec => []OneReplicaTicks
<1>1. IInv => OneReplicaTicks
  <2> SUFFICES ASSUME IInv, NEW r \in Replicas, NEW s \in Replicas,
                      phase[r] \in Ticking, phase[s] \in Ticking
               PROVE  r = s
    BY DEF OneReplicaTicks
  <2>1. PICK c \in Conn : holds[<<r, c>>] > 0
    BY DEF IInv, Lock, TickerHolds
  <2>2. PICK d \in Conn : holds[<<s, d>>] > 0
    BY DEF IInv, Lock, TickerHolds
  <2>3. <<r, c>> = <<s, d>>
    BY <2>1, <2>2 DEF IInv, Lock, OneHolder
  <2> QED  BY <2>3
<1>2. Init => IInv
  BY InitIInv
<1>3. IInv /\ [Next]_vars => IInv'
  BY NextIInv
<1> QED  BY <1>1, <1>2, <1>3, PTL DEF Spec
=============================================================================
