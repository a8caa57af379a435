------------------------- MODULE EpisodeQueueProofs -------------------------
(***************************************************************************)
(* Proofs about the episodes table for any events, clients and replicas,   *)
(* any batch size and any bounds: what one tick at a time and one insert   *)
(* of a key at a time make of a row, and that the table keeps the promise  *)
(* of EpisodeLedger.  The order of the queue plays no part: whatever a     *)
(* tick fetches, it folds only what it finds pending.                      *)
(***************************************************************************)
EXTENDS EpisodeQueue, TLAPS

Places == {"idle", "fetch", "work", "folding", "recording", "maintain", "unlock"}

Typed ==
  /\ episode \in [Events -> Row]
  /\ posting \in [Clients -> Request]
  /\ pc \in [Replicas -> Places]
  /\ batch = [r \in Replicas |-> batch[r]]
  /\ budget \in [faults : 0..MaxFaults, outages : 0..MaxOutages, forgets : 0..MaxForgets]
  /\ folds \in [Events -> Nat] /\ failed \in [Events -> Nat]

\* What an open request has inserted is in no committed row and in no other's.
InsertsApart ==
  \A c \in Clients : posting[c].kind \in Inserting =>
    /\ posting[c].events \subseteq Absent
    /\ \A d \in Clients \ {c} : posting[d].kind \in Inserting =>
         posting[c].events \intersect posting[d].events = {}

\* The advisory lock: a replica in its tick has it.
OneTicker == \A r \in Replicas : pc[r] # "idle" => lock = r

\* The row a tick has loaded stays pending until that tick settles it, and its
\* failure is counted only after it happened.
InHand ==
  \A r \in Replicas : \A e \in Events :
    pc[r] \in {"folding", "recording"} /\ e = Head(batch[r]) =>
      /\ episode[e].status = "pending"
      /\ pc[r] = "recording" => episode[e].error_count < failed[e]

Rows ==
  \A e \in Events : /\ episode[e].status = "absent" => episode[e].error_count = 0
                    /\ episode[e].status = "pending" => episode[e].error_count < MaxRetries

\* FoldedOnce, and what it needs of the rows retention has deleted.
Counted ==
  /\ FoldedOnce
  /\ \A e \in Events : episode[e].status = "absent" => folds[e] <= MaxForgets - budget.forgets

IInv ==
  /\ Typed /\ InsertsApart /\ OneTicker /\ InHand /\ Rows /\ Counted
  /\ OutageBurnsNoRetry /\ AcceptedIsKept /\ accepted \subseteq Events

\* InFlight, event by event.
LEMMA InFlightIs ==
  ASSUME NEW e
  PROVE  e \in InFlight <=>
           \E c \in Clients : posting[c].kind \in Inserting /\ e \in posting[c].events
BY DEF InFlight

\* An empty table has no request, no tick and no row to speak of.
LEMMA InitHolds == Init => IInv
<1> SUFFICES ASSUME Init PROVE IInv
  OBVIOUS
<1> USE QueueAssumption
<1>1. Typed
  BY DEF Init, Typed, NoRow, Row, Status, Done, NoRequest, Request, Places
<1>2. InsertsApart /\ OneTicker /\ InHand
  BY DEF Init, InsertsApart, OneTicker, InHand, NoRequest, Inserting
<1>3. Rows /\ Counted /\ OutageBurnsNoRetry
  BY DEF Init, Rows, Counted, FoldedOnce, OutageBurnsNoRetry, NoRow
<1> QED BY <1>1, <1>2, <1>3 DEF IInv, Init, AcceptedIsKept

-----------------------------------------------------------------------------
(* The ingest endpoints. *)

\* What is stored for the worker is new to the table and to every open request.
LEMMA StorePreserves ==
  ASSUME IInv, NEW E \in SUBSET Events, Store(E)
  PROVE  IInv'
<1> USE QueueAssumption DEF IInv
<1>1. /\ E \subseteq Absent /\ E \intersect InFlight = {}
      /\ episode' = SetStatus(E, "pending")
      /\ accepted' = accepted \union E
      /\ UNCHANGED <<posting, lock, pc, batch, model, budget, folds, failed>>
  BY DEF Store
<1>2. \A e \in Events : e \in E => episode[e].status = "absent" /\ episode[e].error_count = 0
  BY <1>1 DEF Absent, StatusIs, Rows
<1>3. /\ episode' \in [Events -> Row]
      /\ \A e \in Events : /\ episode'[e].error_count = episode[e].error_count
                           /\ episode'[e].status = IF e \in E THEN "pending" ELSE episode[e].status
  BY <1>1 DEF SetStatus, Typed, Row, Status
<1>4. Typed'
  BY <1>1, <1>3 DEF Typed
<1>5. InsertsApart'
  <2>1. \A c \in Clients : posting[c].kind \in Inserting => posting[c].events \intersect E = {}
    BY <1>1, InFlightIs
  <2> QED BY <1>1, <1>3, <2>1 DEF InsertsApart, Absent, StatusIs
<1>6. OneTicker' /\ InHand'
  BY <1>1, <1>2, <1>3 DEF OneTicker, InHand
<1>7. Rows' /\ Counted' /\ OutageBurnsNoRetry'
  BY <1>1, <1>2, <1>3 DEF Rows, Counted, FoldedOnce, OutageBurnsNoRetry
<1>8. AcceptedIsKept' /\ (accepted \subseteq Events)'
  BY <1>1, <1>3 DEF AcceptedIsKept
<1> QED BY <1>4, <1>5, <1>6, <1>7, <1>8

\* A step that touches only the requests.
LEMMA RequestsOnly ==
  ASSUME IInv,
         UNCHANGED <<episode, queue, lock, pc, batch, model, budget, folds, failed, accepted>>,
         posting' \in [Clients -> Request], InsertsApart'
  PROVE  IInv'
BY DEF IInv, Typed, OneTicker, InHand, Rows, Counted, FoldedOnce, OutageBurnsNoRetry,
       AcceptedIsKept

\* A request begins with events that are in no other request and in no row.
LEMMA BeginInlinePreserves ==
  ASSUME IInv, NEW c \in Clients, NEW kind \in Inserting, NEW E \in SUBSET Events,
         BeginInline(c, kind, E)
  PROVE  IInv'
<1>1. /\ E \subseteq Absent /\ E \intersect InFlight = {}
      /\ posting' = [posting EXCEPT ![c] = [kind |-> kind, events |-> E]]
      /\ UNCHANGED <<episode, queue, lock, pc, batch, model, budget, folds, failed, accepted>>
  BY DEF BeginInline
<1>2. posting' \in [Clients -> Request]
  BY <1>1 DEF IInv, Typed, Request, Inserting
<1>3. \A d \in Clients : posting[d].kind \in Inserting => posting[d].events \intersect E = {}
  BY <1>1, InFlightIs
<1>4. InsertsApart'
  BY <1>1, <1>3 DEF InsertsApart, IInv, Typed, Absent, StatusIs
<1> QED BY <1>1, <1>2, <1>4, RequestsOnly

\* A request that rolls back, or puts its document off, inserts no longer.
LEMMA LeavingPreserves ==
  ASSUME IInv, NEW c \in Clients, AbortInline(c) \/ DeferInline(c)
  PROVE  IInv'
<1>1. /\ \/ posting' = [posting EXCEPT ![c] = NoRequest]
         \/ posting' = [posting EXCEPT ![c].kind = "requeue"]
      /\ UNCHANGED <<episode, queue, lock, pc, batch, model, budget, folds, failed, accepted>>
  BY DEF AbortInline, DeferInline
<1>2. posting' \in [Clients -> Request] /\ posting'[c].kind \notin Inserting
  <2>1. posting \in [Clients -> Request]
    BY DEF IInv, Typed
  <2>2. CASE posting' = [posting EXCEPT ![c] = NoRequest]
    BY <2>1, <2>2 DEF NoRequest, Request, Inserting
  <2>3. CASE posting' = [posting EXCEPT ![c].kind = "requeue"]
    BY <2>1, <2>3 DEF Request, Inserting
  <2> QED BY <1>1, <2>2, <2>3
<1>3. InsertsApart'
  BY <1>1, <1>2 DEF InsertsApart, IInv, Typed, Absent, StatusIs
<1> QED BY <1>1, <1>2, <1>3, RequestsOnly

\* The rows of a request appear settled, each folded at most once.
LEMMA CommitInlinePreserves ==
  ASSUME IInv, NEW c \in Clients, CommitInline(c)
  PROVE  IInv'
<1> USE QueueAssumption DEF IInv
<1> DEFINE E == posting[c].events
<1>1. PICK declined \in SUBSET E :
        /\ episode' = [e \in Events |->
                         IF e \in declined THEN [NoRow EXCEPT !.status = "dropped"]
                         ELSE IF e \in E THEN [NoRow EXCEPT !.status = "processed"]
                         ELSE episode[e]]
        /\ folds' = [e \in Events |-> IF e \in E \ declined THEN folds[e] + 1 ELSE folds[e]]
  BY DEF CommitInline
<1>2. /\ posting[c].kind \in Inserting
      /\ accepted' = accepted \union E
      /\ posting' = [posting EXCEPT ![c] = NoRequest]
      /\ UNCHANGED <<queue, lock, pc, batch, model, budget, failed>>
  BY DEF CommitInline
<1>3. E \subseteq Events /\ \A e \in E : episode[e].status = "absent"
  BY <1>2 DEF InsertsApart, Absent, StatusIs
<1>4. /\ episode' \in [Events -> Row] /\ folds' \in [Events -> Nat]
      /\ \A e \in E : /\ episode'[e].status \in Done /\ episode'[e].error_count = 0
                      /\ folds'[e] <= folds[e] + 1
      /\ \A e \in Events \ E : episode'[e] = episode[e] /\ folds'[e] = folds[e]
  BY <1>1, <1>3 DEF Typed, NoRow, Row, Status, Done
<1>5. Typed'
  BY <1>2, <1>4 DEF Typed, NoRequest, Request
<1>6. InsertsApart'
  BY <1>2, <1>4 DEF InsertsApart, Typed, NoRequest, Inserting, Absent, StatusIs
<1>7. OneTicker' /\ InHand'
  BY <1>2, <1>3, <1>4 DEF OneTicker, InHand
<1>8. Rows' /\ Counted' /\ OutageBurnsNoRetry'
  BY <1>2, <1>3, <1>4
  DEF Rows, Counted, FoldedOnce, OutageBurnsNoRetry, Typed, Done
<1>9. AcceptedIsKept' /\ (accepted \subseteq Events)'
  BY <1>2, <1>3, <1>4 DEF AcceptedIsKept, Done
<1> QED BY <1>5, <1>6, <1>7, <1>8, <1>9

\* The document put off is stored anew, unless someone stored it meanwhile.
LEMMA RequeuePreserves ==
  ASSUME IInv, NEW c \in Clients, Requeue(c)
  PROVE  IInv'
<1> USE QueueAssumption DEF IInv
<1> DEFINE E == posting[c].events \intersect Absent
<1>1. /\ posting[c].kind = "requeue" /\ posting[c].events \intersect InFlight = {}
      /\ episode' = SetStatus(E, "pending")
      /\ accepted' = accepted \union posting[c].events
      /\ posting' = [posting EXCEPT ![c] = NoRequest]
      /\ UNCHANGED <<lock, pc, batch, model, budget, folds, failed>>
  BY DEF Requeue
<1>2. posting[c].events \subseteq Events
  BY DEF Typed, Request
<1>3. \A e \in Events : e \in E => episode[e].status = "absent" /\ episode[e].error_count = 0
  BY DEF Absent, StatusIs, Rows
<1>4. /\ episode' \in [Events -> Row]
      /\ \A e \in Events : /\ episode'[e].error_count = episode[e].error_count
                           /\ episode'[e].status = IF e \in E THEN "pending" ELSE episode[e].status
  BY <1>1 DEF SetStatus, Typed, Row, Status
<1>5. Typed'
  BY <1>1, <1>4 DEF Typed, NoRequest, Request
<1>6. InsertsApart'
  <2>1. \A d \in Clients : posting[d].kind \in Inserting => posting[d].events \intersect E = {}
    BY <1>1, InFlightIs
  <2> QED BY <1>1, <1>4, <2>1
          DEF InsertsApart, Typed, NoRequest, Inserting, Absent, StatusIs
<1>7. OneTicker' /\ InHand'
  <2> HIDE DEF E
  <2>1. OneTicker'
    BY <1>1 DEF OneTicker
  <2>2. \A e \in Events : episode[e].status = "pending" => episode'[e].status = "pending"
    BY <1>3, <1>4
  <2>3. InHand'
    BY <1>1, <1>4, <2>2 DEF InHand
  <2> QED BY <2>1, <2>3
<1>8. Rows' /\ Counted' /\ OutageBurnsNoRetry'
  <2> HIDE DEF E
  <2>1. Rows'
    BY <1>3, <1>4 DEF Rows
  <2>2. Counted'
    <3>1. \A f \in Events : episode'[f].status \in {"absent", "pending", "dead"} =>
             episode[f].status \in {"absent", "pending", "dead"}
      BY <1>3, <1>4
    <3>2. \A f \in Events : episode'[f].status = "absent" => episode[f].status = "absent"
      BY <1>4
    <3> QED BY <1>1, <3>1, <3>2 DEF Counted, FoldedOnce
  <2>3. OutageBurnsNoRetry'
    BY <1>1, <1>4 DEF OutageBurnsNoRetry
  <2> QED BY <2>1, <2>2, <2>3
<1>9. AcceptedIsKept' /\ (accepted \subseteq Events)'
  <2>1. \A e \in posting[c].events : episode'[e].status # "absent"
    BY <1>2, <1>4 DEF Absent, StatusIs
  <2> QED BY <1>1, <1>2, <1>4, <2>1 DEF AcceptedIsKept
<1> QED BY <1>5, <1>6, <1>7, <1>8, <1>9

-----------------------------------------------------------------------------
(* The worker's tick. *)

\* A step of the workers or of their surroundings that changes no row.
LEMMA WorkersOnly ==
  ASSUME IInv, UNCHANGED <<episode, posting, folds, accepted>>,
         pc' \in [Replicas -> Places], batch' = [r \in Replicas |-> batch'[r]],
         budget' \in [faults : 0..MaxFaults, outages : 0..MaxOutages, forgets : 0..MaxForgets],
         budget'.forgets = budget.forgets,
         failed' \in [Events -> Nat], \A e \in Events : failed[e] <= failed'[e],
         OneTicker', InHand'
  PROVE  IInv'
<1> USE QueueAssumption DEF IInv
<1>1. Typed' /\ InsertsApart'
  BY DEF Typed, InsertsApart, Absent, StatusIs
<1>2. Rows' /\ Counted' /\ AcceptedIsKept'
  BY DEF Rows, Counted, FoldedOnce, AcceptedIsKept
<1>3. OutageBurnsNoRetry'
  BY DEF OutageBurnsNoRetry, Typed, Row
<1> QED BY <1>1, <1>2, <1>3

\* The steps of a tick that settle nothing: the lock goes with the tick, and only a
\* pending row is taken in hand.
LEMMA TickGoesOn ==
  ASSUME IInv, NEW r \in Replicas,
         Acquire(r) \/ Fetch(r) \/ Load(r) \/ FoldDeferred(r) \/ FoldRaises(r)
           \/ BatchDone(r) \/ Release(r) \/ TickFails(r) \/ Crash(r)
  PROVE  IInv'
<1> USE QueueAssumption DEF IInv
<1>1. /\ UNCHANGED <<episode, posting, folds, accepted>>
      /\ pc' \in [Replicas -> Places] /\ \A s \in Replicas \ {r} : pc'[s] = pc[s]
      /\ batch' = [s \in Replicas |-> batch'[s]] /\ \A s \in Replicas \ {r} : batch'[s] = batch[s]
  BY DEF Acquire, Fetch, Load, FoldDeferred, FoldRaises, BatchDone, Release, TickFails, Crash,
         Step, Typed, Places
<1>2. /\ budget' \in [faults : 0..MaxFaults, outages : 0..MaxOutages, forgets : 0..MaxForgets]
      /\ budget'.forgets = budget.forgets
  <2>1. CASE TickFails(r) \/ Crash(r)
    <3>1. budget.faults > 0 /\ budget' = [budget EXCEPT !.faults = @ - 1]
      BY <2>1 DEF TickFails, Crash
    <3> QED BY <3>1 DEF Typed
  <2>2. CASE ~(TickFails(r) \/ Crash(r))
    <3>1. budget' = budget
      BY <2>2 DEF Acquire, Fetch, Load, FoldDeferred, FoldRaises, BatchDone, Release
    <3> QED BY <3>1 DEF Typed
  <2> QED BY <2>1, <2>2
<1>3. failed' \in [Events -> Nat] /\ \A e \in Events : failed[e] <= failed'[e]
  <2>1. CASE FoldRaises(r)
    <3> DEFINE x == Head(batch[r])
    <3>1. failed' = [failed EXCEPT ![x] = @ + 1] /\ failed \in [Events -> Nat]
      BY <2>1 DEF FoldRaises, Typed
    <3> HIDE DEF x
    <3>2. failed' \in [Events -> Nat]
      <4>1. x \in Events => failed[x] \in Nat /\ failed[x] + 1 \in Nat
        BY <3>1
      <4>2. \A e \in Events : failed'[e] \in Nat
        BY <3>1, <4>1
      <4>3. failed' = [e \in Events |-> failed'[e]]
        BY <3>1
      <4> QED BY <4>2, <4>3
    <3>3. \A e \in Events : failed'[e] = failed[e] \/ failed'[e] = failed[e] + 1
      BY <3>1
    <3>4. \A e \in Events : failed[e] \in Nat
      BY <3>1
    <3> QED BY <3>2, <3>3, <3>4
  <2>2. CASE ~FoldRaises(r)
    <3>1. failed' = failed
      BY <2>2 DEF Acquire, Fetch, Load, FoldDeferred, BatchDone, Release, TickFails, Crash
    <3> QED BY <3>1 DEF Typed
  <2> QED BY <2>1, <2>2
<1>4. OneTicker'
  <2>1. CASE Acquire(r)
    BY <1>1, <2>1 DEF Acquire, OneTicker
  <2>2. CASE Release(r) \/ Crash(r)
    BY <1>1, <2>2 DEF Release, Crash, Step, OneTicker, Typed
  <2>3. CASE ~(Acquire(r) \/ Release(r) \/ Crash(r))
    <3>1. lock' = lock /\ pc[r] # "idle"
      BY <2>3 DEF Fetch, Load, FoldDeferred, FoldRaises, BatchDone, TickFails, Step
    <3> QED BY <1>1, <3>1 DEF OneTicker
  <2> QED BY <2>1, <2>2, <2>3
<1>5. InHand'
  <2>1. ASSUME NEW e \in Events, pc'[r] \in {"folding", "recording"}, e = Head(batch'[r])
        PROVE  /\ episode[e].status = "pending"
               /\ pc'[r] = "recording" => episode[e].error_count < failed'[e]
    <3>1. CASE Load(r)
      BY <1>1, <2>1, <3>1 DEF Load, Step, Typed
    <3>2. CASE FoldRaises(r)
      <4>1. /\ pc[r] = "folding" /\ pc'[r] = "recording" /\ e = Head(batch[r])
            /\ failed' = [failed EXCEPT ![e] = @ + 1]
        BY <2>1, <3>2 DEF FoldRaises, Step, Typed
      <4>2. episode[e].status = "pending" /\ episode[e].error_count <= failed[e]
        BY <4>1 DEF InHand, OutageBurnsNoRetry
      <4> QED BY <4>1, <4>2 DEF Typed, Row
    <3>3. CASE ~(Load(r) \/ FoldRaises(r))
      <4>1. pc'[r] \notin {"folding", "recording"}
        BY <1>1, <3>3 DEF Acquire, Fetch, FoldDeferred, BatchDone, Release, TickFails, Crash,
                          Step, Typed
      <4> QED BY <2>1, <4>1
    <3> QED BY <3>1, <3>2, <3>3
  <2>2. ASSUME NEW s \in Replicas \ {r}, NEW e \in Events,
               pc'[s] \in {"folding", "recording"}, e = Head(batch'[s])
        PROVE  /\ episode[e].status = "pending"
               /\ pc'[s] = "recording" => episode[e].error_count < failed'[e]
    BY <1>1, <1>3, <2>2 DEF InHand, Typed, Row
  <2> QED BY <1>1, <2>1, <2>2 DEF InHand
<1> QED BY <1>1, <1>2, <1>3, <1>4, <1>5, WorkersOnly

\* The gateway's outages touch no row.
LEMMA ModelPreserves ==
  ASSUME IInv, ModelGoesOut \/ ModelComesBack
  PROVE  IInv'
<1>1. /\ UNCHANGED <<episode, posting, lock, pc, batch, folds, failed, accepted>>
      /\ budget' \in [faults : 0..MaxFaults, outages : 0..MaxOutages, forgets : 0..MaxForgets]
      /\ budget'.forgets = budget.forgets
  BY QueueAssumption DEF ModelGoesOut, ModelComesBack, IInv, Typed
<1>2. OneTicker' /\ InHand'
  BY <1>1 DEF IInv, OneTicker, InHand
<1> QED BY <1>1, <1>2, WorkersOnly DEF IInv, Typed

\* While replica r folds or records, no other replica has a row in hand.
LEMMA OthersIdle ==
  ASSUME IInv, NEW r \in Replicas, pc[r] # "idle"
  PROVE  \A s \in Replicas \ {r} : pc[s] = "idle"
BY DEF IInv, OneTicker

\* A fold settles a row that was pending, so it is the first since the row was stored.
LEMMA FoldCommitsPreserves ==
  ASSUME IInv, NEW r \in Replicas, FoldCommits(r)
  PROVE  IInv'
<1> USE QueueAssumption DEF IInv
<1> DEFINE e == Head(batch[r])
<1>1. /\ pc[r] = "folding" /\ pc' = [pc EXCEPT ![r] = "work"]
      /\ batch' = [batch EXCEPT ![r] = Tail(@)]
      /\ UNCHANGED <<posting, lock, budget, failed, accepted>>
      /\ \/ episode' = [episode EXCEPT ![e].status = "processed"]
            /\ folds' = [folds EXCEPT ![e] = @ + 1]
         \/ episode' = [episode EXCEPT ![e].status = "dropped"]
            /\ folds' = folds
  BY DEF FoldCommits, Step
<1>2. e \in Events => episode[e].status = "pending"
  BY <1>1 DEF InHand
<1> HIDE DEF e
<1>3. /\ episode' \in [Events -> Row] /\ folds' \in [Events -> Nat]
      /\ e \in Events => /\ episode'[e].status \in Done
                         /\ episode'[e].error_count = episode[e].error_count
                         /\ folds'[e] \in {folds[e], folds[e] + 1}
      /\ \A f \in Events \ {e} : episode'[f] = episode[f] /\ folds'[f] = folds[f]
  <2>1. PICK s \in Done : episode' = [episode EXCEPT ![e].status = s]
    BY <1>1 DEF Done
  <2>2. episode \in [Events -> Row] /\ folds \in [Events -> Nat] /\ s \in Status
    BY DEF Typed, Status
  <2>3. e \in Events => [episode[e] EXCEPT !.status = s] \in Row
    BY <2>2 DEF Row
  <2>4. episode' \in [Events -> Row]
    BY <2>1, <2>2, <2>3
  <2>5. folds' \in [Events -> Nat]
    BY <1>1, <2>2
  <2>6. e \in Events => episode'[e] = [episode[e] EXCEPT !.status = s]
    BY <2>1, <2>2
  <2>7. e \in Events => folds'[e] \in {folds[e], folds[e] + 1}
    BY <1>1, <2>2
  <2>8. \A f \in Events \ {e} : episode'[f] = episode[f] /\ folds'[f] = folds[f]
    BY <1>1, <2>1, <2>2
  <2> QED BY <2>2, <2>4, <2>5, <2>6, <2>7, <2>8 DEF Row
<1>4. Typed' /\ OneTicker'
  BY <1>1, <1>3 DEF Typed, OneTicker, Places
<1>5. InsertsApart'
  BY <1>1, <1>2, <1>3 DEF InsertsApart, Absent, StatusIs, Done
<1>6. InHand'
  <2>1. \A s \in Replicas : pc'[s] \notin {"folding", "recording"}
    BY <1>1, OthersIdle DEF Typed
  <2> QED BY <2>1 DEF InHand
<1>7. Rows'
  BY <1>1, <1>3 DEF Rows, Done
<1>8. Counted'
  <2>1. budget.forgets \in 0..MaxForgets /\ \A f \in Events : folds[f] \in Nat
    BY DEF Typed
  <2>2. e \in Events => folds[e] <= MaxForgets - budget.forgets
    BY <1>2 DEF Counted, FoldedOnce
  <2> SUFFICES ASSUME NEW f \in Events
               PROVE  /\ folds'[f] <= 1 + (MaxForgets - budget.forgets)
                      /\ episode'[f].status \in {"absent", "pending", "dead"} =>
                           folds'[f] <= MaxForgets - budget.forgets
    BY <1>1 DEF Counted, FoldedOnce
  <2>3. CASE f = e
    BY <1>3, <2>1, <2>2, <2>3 DEF Done
  <2>4. CASE f # e
    BY <1>3, <2>4 DEF Counted, FoldedOnce
  <2> QED BY <2>3, <2>4
<1>9. OutageBurnsNoRetry' /\ AcceptedIsKept' /\ (accepted \subseteq Events)'
  BY <1>1, <1>2, <1>3 DEF OutageBurnsNoRetry, AcceptedIsKept, Done
<1> QED BY <1>4, <1>5, <1>6, <1>7, <1>8, <1>9

\* A failure is counted once for a fold that raised, and the last one kills the row.
LEMMA RecordFailurePreserves ==
  ASSUME IInv, NEW r \in Replicas, RecordFailure(r)
  PROVE  IInv'
<1> USE QueueAssumption DEF IInv
<1> DEFINE e == Head(batch[r])
<1>1. /\ pc[r] = "recording" /\ pc' = [pc EXCEPT ![r] = "work"]
      /\ batch' = [batch EXCEPT ![r] = Tail(@)]
      /\ UNCHANGED <<posting, lock, budget, folds, failed, accepted>>
      /\ episode' = [episode EXCEPT ![e] = IF @.status = "absent" THEN @ ELSE Failed(@)]
  BY DEF RecordFailure, Step
<1>2. e \in Events => /\ episode[e].status = "pending" /\ episode[e].error_count < failed[e]
                      /\ episode[e].error_count + 1 \in 0..MaxRetries
                      /\ episode[e].error_count \in Nat
  BY <1>1 DEF InHand, Rows, Typed, Row
<1> HIDE DEF e
<1>3. /\ e \in Events =>
           /\ episode'[e] = Failed(episode[e])
           /\ episode'[e].error_count = episode[e].error_count + 1
           /\ \/ episode'[e].status = "dead"
              \/ episode'[e].status = "pending" /\ episode'[e].error_count < MaxRetries
      /\ \A f \in Events \ {e} : episode'[f] = episode[f]
  <2>1. e \in Events => episode'[e] = Failed(episode[e])
    BY <1>1, <1>2 DEF Typed
  <2>2. \A f \in Events \ {e} : episode'[f] = episode[f]
    BY <1>1 DEF Typed
  <2>3. e \in Events =>
          /\ Failed(episode[e]).error_count = episode[e].error_count + 1
          /\ \/ Failed(episode[e]).status = "dead"
             \/ /\ Failed(episode[e]).status = "pending"
                /\ Failed(episode[e]).error_count < MaxRetries
    BY <1>2 DEF Failed
  <2> QED BY <2>1, <2>2, <2>3
<1>4. episode' \in [Events -> Row]
  <2>1. ASSUME NEW f \in Events
        PROVE  episode'[f] \in Row
    <3>1. CASE f = e
      <4>1. Failed(episode[e]).status \in Status /\ Failed(episode[e]).error_count \in 0..MaxRetries
        BY <1>2, <3>1 DEF Failed, Status
      <4>2. Failed(episode[e]) = [status |-> Failed(episode[e]).status,
                                  error_count |-> Failed(episode[e]).error_count]
        BY DEF Failed
      <4> QED BY <1>3, <3>1, <4>1, <4>2 DEF Row
    <3>2. CASE f # e
      BY <1>3, <3>2 DEF Typed
    <3> QED BY <3>1, <3>2
  <2>2. episode' = [f \in Events |-> episode'[f]]
    BY <1>1 DEF Typed
  <2> QED BY <2>1, <2>2
<1>5. Typed' /\ OneTicker'
  <2>1. pc' \in [Replicas -> Places] /\ \A q \in Replicas : pc'[q] # "idle" => pc[q] # "idle"
    BY <1>1 DEF Typed, Places
  <2>2. batch' = [q \in Replicas |-> batch'[q]]
    BY <1>1 DEF Typed
  <2> QED BY <1>1, <1>4, <2>1, <2>2 DEF Typed, OneTicker
<1>6. InsertsApart'
  BY <1>1, <1>2, <1>3 DEF InsertsApart, Absent, StatusIs
<1>7. InHand'
  <2>1. \A s \in Replicas : pc'[s] \notin {"folding", "recording"}
    BY <1>1, OthersIdle DEF Typed
  <2> QED BY <2>1 DEF InHand
<1>8. Rows' /\ Counted'
  BY <1>1, <1>2, <1>3 DEF Rows, Counted, FoldedOnce
<1>9. OutageBurnsNoRetry' /\ AcceptedIsKept' /\ (accepted \subseteq Events)'
  BY <1>1, <1>2, <1>3 DEF OutageBurnsNoRetry, AcceptedIsKept, Typed
<1> QED BY <1>5, <1>6, <1>7, <1>8, <1>9

\* Retention takes only processed rows, and uses up one of its runs when it takes any.
LEMMA RetentionPreserves ==
  ASSUME IInv, NEW r \in Replicas, Retention(r)
  PROVE  IInv'
<1> USE QueueAssumption DEF IInv
<1>1. PICK old \in SUBSET Purgeable :
        /\ old # {} => budget.forgets > 0
        /\ episode' = [e \in Events |-> IF e \in old THEN NoRow ELSE episode[e]]
        /\ accepted' = accepted \ old
        /\ budget' = IF old = {} THEN budget ELSE [budget EXCEPT !.forgets = @ - 1]
  BY DEF Retention
<1>2. /\ pc[r] = "maintain" /\ pc' = [pc EXCEPT ![r] = "unlock"]
      /\ UNCHANGED <<posting, lock, batch, folds, failed>>
  BY DEF Retention, Step
<1>3. old \subseteq Events /\ \A e \in old : episode[e].status \in Done
  BY DEF Purgeable, StatusIs
<1>4. /\ episode' \in [Events -> Row]
      /\ \A e \in old : episode'[e].status = "absent" /\ episode'[e].error_count = 0
      /\ \A e \in Events \ old : episode'[e] = episode[e]
  BY <1>1, <1>3 DEF Typed, NoRow, Row, Status
<1>5. /\ budget' \in [faults : 0..MaxFaults, outages : 0..MaxOutages, forgets : 0..MaxForgets]
      /\ budget.forgets \in Nat
      /\ budget'.forgets = IF old = {} THEN budget.forgets ELSE budget.forgets - 1
  BY <1>1 DEF Typed
<1>6. Typed' /\ OneTicker'
  BY <1>2, <1>4, <1>5 DEF Typed, OneTicker, Places
<1>7. InsertsApart'
  BY <1>2, <1>3, <1>4 DEF InsertsApart, Absent, StatusIs, Done
<1>8. InHand'
  <2>1. \A s \in Replicas : pc'[s] \notin {"folding", "recording"}
    BY <1>2, OthersIdle DEF Typed
  <2> QED BY <2>1 DEF InHand
<1>9. Rows' /\ OutageBurnsNoRetry'
  BY <1>2, <1>4 DEF Rows, OutageBurnsNoRetry, Typed
<1>10. Counted'
  BY <1>2, <1>4, <1>5 DEF Counted, FoldedOnce, Typed
<1>11. AcceptedIsKept' /\ (accepted \subseteq Events)'
  BY <1>1, <1>4 DEF AcceptedIsKept
<1> QED BY <1>6, <1>7, <1>8, <1>9, <1>10, <1>11

\* Every step, whoever takes it, preserves the invariant.
LEMMA NextPreserves == IInv /\ [Next]_vars => IInv'
<1> SUFFICES ASSUME IInv, [Next]_vars PROVE IInv'
  OBVIOUS
<1>1. CASE Ingest
  BY <1>1, StorePreserves, BeginInlinePreserves, CommitInlinePreserves, LeavingPreserves,
     RequeuePreserves DEF Ingest
<1>2. ASSUME NEW r \in Replicas, Tick(r) PROVE IInv'
  BY <1>2, TickGoesOn, FoldCommitsPreserves, RecordFailurePreserves, RetentionPreserves DEF Tick
<1>3. CASE Environment
  BY <1>3, TickGoesOn, ModelPreserves DEF Environment
<1>4. CASE UNCHANGED vars
  BY <1>4 DEF vars, IInv, Typed, InsertsApart, OneTicker, InHand, Rows, Counted, FoldedOnce,
              OutageBurnsNoRetry, AcceptedIsKept, Absent, StatusIs
<1> QED BY <1>1, <1>2, <1>3, <1>4 DEF Next

\* The invariant holds throughout.
LEMMA Invariance == Spec => []IInv
BY InitHolds, NextPreserves, PTL DEF Spec

\* For any events and any number of clients and replicas, an episode changes memory
\* at most once for each time it was stored.
THEOREM FoldedOnceHolds == Spec => []FoldedOnce
BY Invariance, PTL DEF IInv, Counted

\* Whatever the bounds, the retries an episode has used up are folds of it that
\* raised, and none of them an outage.
THEOREM OutageBurnsNoRetryHolds == Spec => []OutageBurnsNoRetry
BY Invariance, PTL DEF IInv

\* What any caller was told is stored is in the table, until retention forgets it.
THEOREM AcceptedIsKeptHolds == Spec => []AcceptedIsKept
BY Invariance, PTL DEF IInv

-----------------------------------------------------------------------------
(* The table keeps the promise of EpisodeLedger. *)

\* What the mapping shows of a row.
Shown(row) ==
  CASE row.status = "processed" -> "folded"
    [] row.status = "dropped" -> "declined"
    [] OTHER -> row.status

\* An empty table is an empty ledger.
LEMMA LedgerInit == Init => Ledger!Init
BY DEF Init, Ledger!Init, NoRow

\* What a step that keeps the rows and the folds does to the ledger.
LEMMA LedgerStutters ==
  ASSUME UNCHANGED <<episode, folds>>
  PROVE  UNCHANGED Ledger!ledger
BY DEF Ledger!ledger

\* A step of the table that moves the events of E as the ledger says moves the ledger.
LEMMA MovesLedger ==
  ASSUME NEW E \in SUBSET Events, NEW From, NEW to,
         \A e \in E : Shown(episode[e]) \in From,
         \A e \in Events : Shown(episode'[e]) = IF e \in E THEN to[e] ELSE Shown(episode[e]),
         folds' = [e \in Events |->
                     IF e \in E /\ to[e] = "folded" THEN folds[e] + 1 ELSE folds[e]]
  PROVE  Ledger!Move(E, From, to)
BY DEF Ledger!Move, Shown

\* Rows stored for the worker.
LEMMA StoreAccepts ==
  ASSUME IInv, NEW E \in SUBSET Events, UNCHANGED folds, episode' = SetStatus(E, "pending"),
         \A e \in E : episode[e].status = "absent"
  PROVE  Ledger!Accept
<1> DEFINE to == [e \in E |-> "pending"]
<1>1. \A e \in E : Shown(episode[e]) \in {"absent"}
  BY DEF Shown
<1>2. \A e \in Events : Shown(episode'[e]) = IF e \in E THEN to[e] ELSE Shown(episode[e])
  BY DEF SetStatus, Shown, IInv, Typed, Row
<1>3. folds' = [e \in Events |->
                  IF e \in E /\ to[e] = "folded" THEN folds[e] + 1 ELSE folds[e]]
  BY DEF IInv, Typed
<1>4. Ledger!Move(E, {"absent"}, to)
  BY <1>1, <1>2, <1>3, MovesLedger
<1> QED BY <1>4 DEF Ledger!Accept

\* Every event of an inline request is folded or declined as it is stored.
LEMMA CommitSettlesAtOnce ==
  ASSUME IInv, NEW c \in Clients, CommitInline(c)
  PROVE  Ledger!SettleAtOnce
<1>1. PICK E \in SUBSET Events :
        E = posting[c].events /\ \A e \in E : episode[e].status = "absent"
  <2>1. \A e \in posting[c].events : e \in Events /\ episode[e].status = "absent"
    BY DEF CommitInline, IInv, InsertsApart, Absent, StatusIs
  <2> QED BY <2>1
<1>2. PICK declined \in SUBSET E :
        /\ episode' = [e \in Events |->
                         IF e \in declined THEN [NoRow EXCEPT !.status = "dropped"]
                         ELSE IF e \in E THEN [NoRow EXCEPT !.status = "processed"]
                         ELSE episode[e]]
        /\ folds' = [e \in Events |-> IF e \in E \ declined THEN folds[e] + 1 ELSE folds[e]]
  BY <1>1 DEF CommitInline
<1> DEFINE to == [e \in E |-> IF e \in declined THEN "declined" ELSE "folded"]
<1>3. \A e \in E : Shown(episode[e]) \in {"absent"}
  BY <1>1 DEF Shown
<1>4. \A e \in Events : Shown(episode'[e]) = IF e \in E THEN to[e] ELSE Shown(episode[e])
  BY <1>2 DEF Shown, NoRow
<1>5. folds' = [e \in Events |->
                  IF e \in E /\ to[e] = "folded" THEN folds[e] + 1 ELSE folds[e]]
  BY <1>2
<1>6. to \in [E -> Ledger!Processed]
  BY DEF Ledger!Processed
<1> HIDE DEF to
<1>7. Ledger!Move(E, {"absent"}, to)
  BY <1>3, <1>4, <1>5, MovesLedger
<1> QED BY <1>6, <1>7 DEF Ledger!SettleAtOnce

\* One pending row folded, declined or dead.
LEMMA OneSettles ==
  ASSUME IInv, NEW e \in Events, NEW end \in {"folded", "declined", "dead"},
         episode[e].status = "pending", Shown(episode'[e]) = end,
         \A f \in Events \ {e} : episode'[f] = episode[f],
         folds' = IF end = "folded" THEN [folds EXCEPT ![e] = @ + 1] ELSE folds
  PROVE  Ledger!Settle
<1> DEFINE to == [x \in {e} |-> end]
<1>1. \A x \in {e} : Shown(episode[x]) \in {"pending"}
  BY DEF Shown
<1>2. \A x \in Events : Shown(episode'[x]) = IF x \in {e} THEN to[x] ELSE Shown(episode[x])
  OBVIOUS
<1>3. folds' = [x \in Events |->
                  IF x \in {e} /\ to[x] = "folded" THEN folds[x] + 1 ELSE folds[x]]
  BY DEF IInv, Typed
<1>4. Ledger!Move({e}, {"pending"}, to)
  BY <1>1, <1>2, <1>3, MovesLedger
<1> QED BY <1>4 DEF Ledger!Settle, Ledger!Processed

\* A committed fold settles its row's event.
LEMMA FoldSettles ==
  ASSUME IInv, NEW r \in Replicas, FoldCommits(r)
  PROVE  Ledger!Settle \/ UNCHANGED Ledger!ledger
<1> DEFINE e == Head(batch[r])
<1>1. /\ \/ episode' = [episode EXCEPT ![e].status = "processed"]
            /\ folds' = [folds EXCEPT ![e] = @ + 1]
         \/ episode' = [episode EXCEPT ![e].status = "dropped"]
            /\ folds' = folds
      /\ pc[r] = "folding"
      /\ episode \in [Events -> Row] /\ folds \in [Events -> Nat]
  BY DEF FoldCommits, Step, IInv, Typed
<1>2. e \in Events => episode[e].status = "pending" /\ episode[e] \in Row
  BY <1>1 DEF IInv, InHand
<1> HIDE DEF e
<1>3. CASE e \in Events
  <2>1. Shown(episode'[e]) \in {"folded", "declined"}
    BY <1>1, <1>2, <1>3 DEF Shown, Row
  <2>2. folds' = IF Shown(episode'[e]) = "folded" THEN [folds EXCEPT ![e] = @ + 1] ELSE folds
    BY <1>1, <1>2, <1>3 DEF Shown, Row
  <2>3. \A f \in Events \ {e} : episode'[f] = episode[f]
    BY <1>1
  <2> QED BY <1>2, <1>3, <2>1, <2>2, <2>3, OneSettles
<1>4. CASE e \notin Events
  <2>1. episode' = episode /\ folds' = folds
    BY <1>1, <1>4
  <2> QED BY <2>1, LedgerStutters
<1> QED BY <1>3, <1>4

\* A recorded failure settles the event when it was the last, and shows nothing before.
LEMMA FailureSettles ==
  ASSUME IInv, NEW r \in Replicas, RecordFailure(r)
  PROVE  Ledger!Settle \/ UNCHANGED Ledger!ledger
<1> DEFINE e == Head(batch[r])
<1>1. /\ episode' = [episode EXCEPT ![e] = IF @.status = "absent" THEN @ ELSE Failed(@)]
      /\ pc[r] = "recording" /\ folds' = folds
      /\ episode \in [Events -> Row]
  BY DEF RecordFailure, Step, IInv, Typed
<1>2. e \in Events => episode[e].status = "pending" /\ episode[e] \in Row
  BY <1>1 DEF IInv, InHand
<1> HIDE DEF e
<1>3. \A f \in Events \ {e} : episode'[f] = episode[f]
  BY <1>1
<1>4. CASE e \in Events /\ episode'[e].status = "dead"
  <2>1. Shown(episode'[e]) = "dead"
    BY <1>4 DEF Shown
  <2> QED BY <1>1, <1>2, <1>3, <1>4, <2>1, OneSettles
<1>5. CASE ~(e \in Events /\ episode'[e].status = "dead")
  <2>1. \A f \in Events : Shown(episode'[f]) = Shown(episode[f])
    BY <1>1, <1>2, <1>3, <1>5 DEF Shown, Failed
  <2> QED BY <1>1, <2>1 DEF Ledger!ledger, Shown
<1> QED BY <1>4, <1>5

\* Retention forgets what it deletes, all of it processed.
LEMMA RetentionForgets ==
  ASSUME IInv, NEW r \in Replicas, Retention(r)
  PROVE  Ledger!Forget
<1>1. PICK old \in SUBSET Purgeable :
        episode' = [e \in Events |-> IF e \in old THEN NoRow ELSE episode[e]]
  BY DEF Retention
<1>2. old \subseteq Events /\ \A e \in old : episode[e].status \in Done
  BY DEF Purgeable, StatusIs
<1> DEFINE to == [e \in old |-> "absent"]
<1>3. \A e \in old : Shown(episode[e]) \in Ledger!Processed
  BY <1>2 DEF Shown, Done, Ledger!Processed
<1>4. \A e \in Events : Shown(episode'[e]) = IF e \in old THEN to[e] ELSE Shown(episode[e])
  BY <1>1 DEF Shown, NoRow
<1>5. folds' = [e \in Events |->
                  IF e \in old /\ to[e] = "folded" THEN folds[e] + 1 ELSE folds[e]]
  BY DEF Retention, IInv, Typed
<1>6. Ledger!Move(old, Ledger!Processed, to)
  BY <1>2, <1>3, <1>4, <1>5, MovesLedger
<1> QED BY <1>2, <1>6 DEF Ledger!Forget

\* Every step of the table is a step of the ledger or leaves it as it is.
LEMMA LedgerSteps ==
  ASSUME IInv, [Next]_vars
  PROVE  [Ledger!Next]_(Ledger!ledger)
<1> USE DEF Ledger!Next
<1>1. ASSUME NEW E \in SUBSET Events, Store(E) PROVE Ledger!Accept
  BY <1>1, StoreAccepts DEF Store, Absent, StatusIs
<1>2. ASSUME NEW c \in Clients, Requeue(c) PROVE Ledger!Accept
  <2> DEFINE E == posting[c].events \intersect Absent
  <2>1. E \in SUBSET Events /\ \A e \in E : episode[e].status = "absent"
    BY DEF Absent, StatusIs
  <2>2. episode' = SetStatus(E, "pending") /\ UNCHANGED folds
    BY <1>2 DEF Requeue
  <2> QED BY <2>1, <2>2, StoreAccepts
<1>3. CASE Ingest
  <2>1. ASSUME NEW c \in Clients, NEW kind \in Inserting, NEW E \in SUBSET Events,
               BeginInline(c, kind, E)
        PROVE  UNCHANGED Ledger!ledger
    BY <2>1, LedgerStutters DEF BeginInline
  <2>2. ASSUME NEW c \in Clients, AbortInline(c) \/ DeferInline(c)
        PROVE  UNCHANGED Ledger!ledger
    BY <2>2, LedgerStutters DEF AbortInline, DeferInline
  <2> QED BY <1>1, <1>2, <1>3, <2>1, <2>2, CommitSettlesAtOnce DEF Ingest
<1>4. ASSUME NEW r \in Replicas, Tick(r) \/ TickFails(r) \/ Crash(r)
      PROVE  [Ledger!Next]_(Ledger!ledger)
  <2>1. CASE FoldCommits(r)
    BY <2>1, FoldSettles
  <2>2. CASE RecordFailure(r)
    BY <2>2, FailureSettles
  <2>3. CASE Retention(r)
    BY <2>3, RetentionForgets
  <2>4. CASE ~(FoldCommits(r) \/ RecordFailure(r) \/ Retention(r))
    <3>1. UNCHANGED <<episode, folds>>
      BY <1>4, <2>4 DEF Tick, Acquire, Fetch, Load, FoldDeferred, FoldRaises, BatchDone,
                        Release, TickFails, Crash
    <3> QED BY <3>1, LedgerStutters
  <2> QED BY <2>1, <2>2, <2>3, <2>4
<1>5. CASE ModelGoesOut \/ ModelComesBack \/ UNCHANGED vars
  BY <1>5, LedgerStutters DEF ModelGoesOut, ModelComesBack, vars
<1> QED BY <1>3, <1>4, <1>5 DEF Next, Environment

\* The table, its requests and its workers keep the promise of EpisodeLedger, for any
\* number of each: an episode is settled once, with its effect, and only a processed one
\* is forgotten.
THEOREM KeepsLedgerHolds == Spec => KeepsLedger
BY Invariance, LedgerInit, LedgerSteps, PTL DEF Spec, KeepsLedger, Ledger!Spec
=============================================================================
