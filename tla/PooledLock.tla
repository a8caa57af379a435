----------------------------- MODULE PooledLock -----------------------------
(***************************************************************************)
(* How a worker's tick holds the advisory lock that makes it the only one. *)
(* The lock belongs to a server session, that is to one pooled connection; *)
(* the tick's session s0 gives its connection back to the engine's pool at *)
(* every commit and takes another at its next statement.  The pool is the  *)
(* one the API's requests use, in the same process.                        *)
(***************************************************************************)
EXTENDS Integers, Sequences, FiniteSets, SequencesExt

CONSTANTS
  Replicas,
  PoolSize,     \* settings.db_pool_size
  MaxOverflow,  \* settings.db_max_overflow
  MaxRequests,  \* bound: sessions at once beside s0, in one replica
  MaxDepth,     \* bound: nested holds of the lock told apart
  MaxCrashes    \* bound: process restarts

ASSUME PoolAssumption ==
  /\ PoolSize \in Nat \ {0} /\ MaxOverflow \in Nat
  /\ MaxRequests \in Nat /\ MaxDepth \in Nat \ {0} /\ MaxCrashes \in Nat

VARIABLES
  idle,    \* replica -> the pool's queue of idle connections
  busy,    \* replica -> connections of requests
  mine,    \* replica -> the connection s0 has checked out, or NoConn
  phase,   \* replica -> where the tick is
  holds,   \* <<replica, connection>> -> how many times it holds the lock
  crashes

vars == <<idle, busy, mine, phase, holds, crashes>>

NoConn == 0
Conn == 1..(PoolSize + MaxOverflow)

\* Phases of a replica that takes itself for the one that got the lock.
Ticking == {"locked", "between", "using", "unlocking"}

TypeOK ==
  /\ idle \in [Replicas -> Seq(Conn)]
  /\ busy \in [Replicas -> SUBSET Conn]
  /\ mine \in [Replicas -> Conn \union {NoConn}]
  /\ phase \in [Replicas -> Ticking \union {"idle", "try"}]
  /\ holds \in [Replicas \X Conn -> 0..MaxDepth]
  /\ crashes \in 0..MaxCrashes

Holders == {rc \in Replicas \X Conn : holds[rc] > 0}

Live(r) == ToSet(idle[r]) \union busy[r] \union ({mine[r]} \ {NoConn})

-----------------------------------------------------------------------------
(* External: the connection pool of SQLAlchemy, a queue of idle connections *)
(* that grows on demand, and the session-level locks of the server.         *)

\* mutant: the pool gives out the connection returned last
CheckoutsLifo(r) ==
  IF idle[r] # <<>>
  THEN {[conn |-> Last(idle[r]), rest |-> Front(idle[r])]}
  ELSE {[conn |-> c, rest |-> <<>>] : c \in Conn \ Live(r)}

\* The oldest idle connection, or a new one while the pool may grow.
Checkouts(r) ==
  IF idle[r] # <<>>
  THEN {[conn |-> Head(idle[r]), rest |-> Tail(idle[r])]}
  ELSE {[conn |-> c, rest |-> <<>>] :
          c \in {d \in Conn \ Live(r) : \A e \in Conn \ Live(r) : d <= e}}

\* A closed connection holds no lock.
Dropped(C) == [rc \in Replicas \X Conn |-> IF rc \in C THEN 0 ELSE holds[rc]]

\* A returned connection goes to the end of the queue, its session's locks with
\* it; one too many is closed.
GiveBack(r, c, held) ==
  IF Len(idle[r]) < PoolSize
  THEN /\ idle' = [idle EXCEPT ![r] = Append(@, c)]
       /\ holds' = held
  ELSE /\ UNCHANGED idle
       /\ holds' = [held EXCEPT ![<<r, c>>] = 0]

\* pg_try_advisory_lock: another connection must not hold it; the same may again.
Granted(r, c) == Holders \subseteq {<<r, c>>}

Deeper(r, c) ==
  [holds EXCEPT ![<<r, c>>] = IF @ < MaxDepth THEN @ + 1 ELSE MaxDepth]

\* pg_advisory_unlock undoes one hold of this connection and only warns when it
\* has none.  At MaxDepth the count stands for itself and all larger ones.
Unlocked(r, c) ==
  LET n == holds[<<r, c>>]
  IN  {[holds EXCEPT ![<<r, c>>] = m] :
         m \in IF n = 0 THEN {0} ELSE {n - 1} \union (IF n = MaxDepth THEN {n} ELSE {})}

-----------------------------------------------------------------------------
(* The tick. *)

Begin(r) ==
  /\ phase[r] = "idle"
  /\ \E k \in Checkouts(r) :
       /\ mine' = [mine EXCEPT ![r] = k.conn]
       /\ idle' = [idle EXCEPT ![r] = k.rest]
  /\ phase' = [phase EXCEPT ![r] = "try"]
  /\ UNCHANGED <<busy, holds, crashes>>

\* mutant: the result of pg_try_advisory_lock is not looked at
TryLockUnread(r) ==
  /\ phase[r] = "try"
  /\ holds' = IF Granted(r, mine[r]) THEN Deeper(r, mine[r]) ELSE holds
  /\ phase' = [phase EXCEPT ![r] = "locked"]
  /\ UNCHANGED <<idle, busy, mine, crashes>>

\* _try_advisory_lock: the tick goes on with the lock, or closes s0 and ends.
TryLock(r) ==
  /\ phase[r] = "try"
  /\ \/ /\ Granted(r, mine[r])
        /\ holds' = Deeper(r, mine[r])
        /\ phase' = [phase EXCEPT ![r] = "locked"]
        /\ UNCHANGED <<idle, mine>>
     \/ /\ ~Granted(r, mine[r])
        /\ GiveBack(r, mine[r], holds)
        /\ phase' = [phase EXCEPT ![r] = "idle"]
        /\ mine' = [mine EXCEPT ![r] = NoConn]
  /\ UNCHANGED <<busy, crashes>>

\* s0.commit() after the cursor read, or the end of an episode's transaction or
\* of a maintenance pass.
Commit(r) ==
  /\ phase[r] \in {"locked", "using"}
  /\ GiveBack(r, mine[r], holds)
  /\ mine' = [mine EXCEPT ![r] = NoConn]
  /\ phase' = [phase EXCEPT ![r] = "between"]
  /\ UNCHANGED <<busy, crashes>>

\* The next transaction of the tick takes a connection from the pool.
Use(r) ==
  /\ phase[r] = "between"
  /\ \E k \in Checkouts(r) :
       /\ mine' = [mine EXCEPT ![r] = k.conn]
       /\ idle' = [idle EXCEPT ![r] = k.rest]
  /\ phase' = [phase EXCEPT ![r] = "using"]
  /\ UNCHANGED <<busy, holds, crashes>>

\* finally: _advisory_unlock, on whatever connection s0 has or gets.
BeginUnlock(r) ==
  /\ \/ /\ phase[r] = "between"
        /\ \E k \in Checkouts(r) :
             /\ mine' = [mine EXCEPT ![r] = k.conn]
             /\ idle' = [idle EXCEPT ![r] = k.rest]
     \/ /\ phase[r] \in {"locked", "using"}   \* a statement of s0 raised
        /\ UNCHANGED <<mine, idle>>
  /\ phase' = [phase EXCEPT ![r] = "unlocking"]
  /\ UNCHANGED <<busy, holds, crashes>>

\* The unlock returns, true or false, and s0 commits.
Unlock(r) ==
  /\ phase[r] = "unlocking"
  /\ \E held \in Unlocked(r, mine[r]) : GiveBack(r, mine[r], held)
  /\ mine' = [mine EXCEPT ![r] = NoConn]
  /\ phase' = [phase EXCEPT ![r] = "idle"]
  /\ UNCHANGED <<busy, crashes>>

\* The unlock raises, and s0.invalidate() closes the connection it is on.
UnlockRaises(r) ==
  /\ phase[r] = "unlocking"
  /\ holds' = Dropped({<<r, mine[r]>>})
  /\ mine' = [mine EXCEPT ![r] = NoConn]
  /\ phase' = [phase EXCEPT ![r] = "idle"]
  /\ UNCHANGED <<idle, busy, crashes>>

\* The pool is exhausted and the wait for a connection times out: the unlock
\* raises with no connection to invalidate.
UnlockTimesOut(r) ==
  /\ phase[r] = "between" /\ Checkouts(r) = {}
  /\ phase' = [phase EXCEPT ![r] = "idle"]
  /\ UNCHANGED <<idle, busy, mine, holds, crashes>>

\* A session beside s0: an API request, or one the trust join opens inside the
\* tick while s0 is in a transaction.
Request(r) ==
  /\ Cardinality(busy[r]) < MaxRequests
  /\ \E k \in Checkouts(r) :
       /\ busy' = [busy EXCEPT ![r] = @ \union {k.conn}]
       /\ idle' = [idle EXCEPT ![r] = k.rest]
  /\ UNCHANGED <<mine, phase, holds, crashes>>

EndRequest(r, c) ==
  /\ c \in busy[r]
  /\ busy' = [busy EXCEPT ![r] = @ \ {c}]
  /\ GiveBack(r, c, holds)
  /\ UNCHANGED <<mine, phase, crashes>>

\* The process dies and restarts with an empty pool.
Crash(r) ==
  /\ crashes < MaxCrashes
  /\ crashes' = crashes + 1
  /\ idle' = [idle EXCEPT ![r] = <<>>]
  /\ busy' = [busy EXCEPT ![r] = {}]
  /\ mine' = [mine EXCEPT ![r] = NoConn]
  /\ phase' = [phase EXCEPT ![r] = "idle"]
  /\ holds' = Dropped({r} \X Conn)

-----------------------------------------------------------------------------
Init ==
  /\ idle = [r \in Replicas |-> <<>>]
  /\ busy = [r \in Replicas |-> {}]
  /\ mine = [r \in Replicas |-> NoConn]
  /\ phase = [r \in Replicas |-> "idle"]
  /\ holds = [rc \in Replicas \X Conn |-> 0]
  /\ crashes = 0

Tick(r) ==
  \/ Begin(r)
  \/ TryLock(r)
  \/ Commit(r)
  \/ BeginUnlock(r)
  \/ Unlock(r)
  \/ UnlockRaises(r)
  \/ UnlockTimesOut(r)

Next ==
  \E r \in Replicas :
    \/ Tick(r)
    \/ Use(r)
    \/ Request(r)
    \/ \E c \in Conn : EndRequest(r, c)
    \/ Crash(r)

\* Each replica's poll loop keeps ticking; a tick has a bounded batch and a fixed
\* list of passes, so it comes to its unlock.
TicksGoOn ==
  \A r \in Replicas :
    WF_vars(Tick(r)) /\ SF_vars(phase[r] = "between" /\ BeginUnlock(r))

Spec == Init /\ [][Next]_vars /\ TicksGoOn

-----------------------------------------------------------------------------
(* Properties. *)

\* Only one replica processes at a time.  True while the pool never closes a
\* connection for want of room, that is when MaxOverflow = 0.
OneReplicaTicks ==
  \A r, s \in Replicas : phase[r] \in Ticking /\ phase[s] \in Ticking => r = s

\* Between ticks nobody has the lock: it does not stay behind on a pooled
\* connection, where it would turn the ticks of the others into no-ops.
LockFreedAfterTick ==
  (\A r \in Replicas : phase[r] = "idle") => Holders = {}

\* When no other session is using the pools any more, some replica gets the lock
\* again and again, even if a tick has left it behind on a connection.
TicksResume ==
  <>[](\A r \in Replicas : busy[r] = {}) => []<>(\E r \in Replicas : phase[r] = "locked")
=============================================================================
