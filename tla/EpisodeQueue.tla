---------------------------- MODULE EpisodeQueue ----------------------------
(***************************************************************************)
(* The episodes table between its writers and its folder: the ingest       *)
(* endpoints store an episode or fold it inline, and the replicas' workers *)
(* take turns, under one advisory lock, folding what is pending, counting  *)
(* what fails, deferring while the model is out and applying retention.    *)
(*                                                                         *)
(* A step is a committed transaction or a point where one is in flight.    *)
(* The lock is the ideal one here; PooledLock models how it is held.       *)
(***************************************************************************)
EXTENDS Integers, Sequences, FiniteSets, SequencesExt

CONSTANTS
  Events, Clients, Replicas,
  None,         \* no replica
  NeedsModel,   \* events whose fold calls a model client
  Refused,      \* those the model answers with a non-retryable error, up or not
  BatchSize,    \* settings.updater_batch_size
  MaxRetries,   \* settings.updater_max_retries
  MaxFaults,    \* bound: crashed or failed ticks
  MaxOutages,   \* bound: model outages
  MaxForgets    \* bound: retention runs that delete something

ASSUME QueueAssumption ==
  /\ NeedsModel \subseteq Events /\ Refused \subseteq NeedsModel
  /\ None \notin Replicas
  /\ BatchSize \in Nat \ {0} /\ MaxRetries \in Nat \ {0}
  /\ MaxFaults \in Nat /\ MaxOutages \in Nat /\ MaxForgets \in Nat

VARIABLES
  episode,   \* event -> its row
  queue,     \* the pending events, in ingested_at order
  posting,   \* client -> the folding request it has in flight
  lock,      \* the replica in its tick
  pc,        \* replica -> where its tick is
  batch,     \* replica -> events still to process in this tick
  model,     \* "up" or "down"
  budget,    \* what is left of each bound
  folds,     \* history: event -> committed folds
  failed,    \* history: event -> folds that raised, outages apart
  accepted   \* history: events a caller was told are stored, not forgotten since

vars == <<episode, queue, posting, lock, pc, batch, model, budget, folds, failed, accepted>>

Done == {"processed", "dropped"}     \* episodes.processed is true
Status == {"absent", "pending", "dead"} \union Done

Row == [status : Status, error_count : 0..MaxRetries]
NoRow == [status |-> "absent", error_count |-> 0]

Request == [kind : {"none", "batch", "document", "requeue"}, events : SUBSET Events]
NoRequest == [kind |-> "none", events |-> {}]

\* Requests whose transaction has inserted their rows and not ended.
Inserting == {"batch", "document"}

TypeOK ==
  /\ episode \in [Events -> Row]
  /\ queue \in Seq(Events)
  /\ posting \in [Clients -> Request]
  /\ lock \in Replicas \union {None}
  /\ pc \in [Replicas -> {"idle", "fetch", "work", "folding", "recording",
                          "maintain", "unlock"}]
  /\ batch \in [Replicas -> Seq(Events)]
  /\ model \in {"up", "down"}
  /\ budget \in [faults : 0..MaxFaults, outages : 0..MaxOutages, forgets : 0..MaxForgets]
  /\ folds \in [Events -> Nat]
  /\ failed \in [Events -> Nat]
  /\ accepted \subseteq Events

StatusIs(S) == {e \in Events : episode[e].status \in S}
Absent == StatusIs({"absent"})

\* Events in an uncommitted insert; another insert of one waits on the key.
InFlight == UNION {posting[c].events : c \in {d \in Clients : posting[d].kind \in Inserting}}

SetStatus(E, s) ==
  [e \in Events |-> IF e \in E THEN [episode[e] EXCEPT !.status = s] ELSE episode[e]]

\* The fold of e meets ModelUnavailable: with_retries raises it for an outage and
\* for a non-retryable error alike.  Any other fold may end in each way: the gate
\* declines the episode, it is folded, or something else raises.
Outage(e) == e \in NeedsModel /\ (model = "down" \/ e \in Refused)

-----------------------------------------------------------------------------
(* The ingest endpoints.  An event already stored is a duplicate and        *)
(* changes nothing, so only the new events of a request appear.             *)

\* POST /episodes, a saturated POST /documents, a connector's or a source's
\* batch: rows stored for the worker.
Store(E) ==
  /\ E # {} /\ E \subseteq Absent \ InFlight
  /\ episode' = SetStatus(E, "pending")
  /\ \E order \in SetToSeqs(E) : queue' = queue \o order
  /\ accepted' = accepted \union E
  /\ UNCHANGED <<posting, lock, pc, batch, model, budget, folds, failed>>

\* POST /episodes?process=true or POST /documents: the insert and the fold
\* share one transaction.
BeginInline(c, kind, E) ==
  /\ posting[c] = NoRequest
  /\ E # {} /\ E \subseteq Absent \ InFlight
  /\ kind = "document" => Cardinality(E) = 1
  /\ posting' = [posting EXCEPT ![c] = [kind |-> kind, events |-> E]]
  /\ UNCHANGED <<episode, queue, lock, pc, batch, model, budget, folds, failed, accepted>>

\* Every event of the request is folded or declined, and the request commits.
CommitInline(c) ==
  LET E == posting[c].events
  IN  /\ posting[c].kind \in Inserting
      /\ \E declined \in SUBSET E :
           /\ \A e \in E \ declined : ~Outage(e)
           /\ episode' = [e \in Events |->
                            IF e \in declined THEN [NoRow EXCEPT !.status = "dropped"]
                            ELSE IF e \in E THEN [NoRow EXCEPT !.status = "processed"]
                            ELSE episode[e]]
           /\ folds' = [e \in Events |->
                          IF e \in E \ declined THEN folds[e] + 1 ELSE folds[e]]
      /\ accepted' = accepted \union E
      /\ posting' = [posting EXCEPT ![c] = NoRequest]
      /\ UNCHANGED <<queue, lock, pc, batch, model, budget, failed>>

\* The fold of one of them raises, or the server dies: everything rolls back.
AbortInline(c) ==
  /\ posting[c].kind # "none"
  /\ posting' = [posting EXCEPT ![c] = NoRequest]
  /\ UNCHANGED <<episode, queue, lock, pc, batch, model, budget, folds, failed, accepted>>

\* A document meets ModelUnavailable: the transaction rolls back, and another
\* stores the episode for the worker.
DeferInline(c) ==
  /\ posting[c].kind = "document"
  /\ \E e \in posting[c].events : Outage(e)
  /\ posting' = [posting EXCEPT ![c].kind = "requeue"]
  /\ UNCHANGED <<episode, queue, lock, pc, batch, model, budget, folds, failed, accepted>>

\* mutant: the episode of a queued document is not inserted again
RequeueNothing(c) ==
  /\ posting[c].kind = "requeue"
  /\ posting' = [posting EXCEPT ![c] = NoRequest]
  /\ accepted' = accepted \union posting[c].events
  /\ UNCHANGED <<episode, queue, lock, pc, batch, model, budget, folds, failed>>

Requeue(c) ==
  LET E == posting[c].events \intersect Absent
  IN  /\ posting[c].kind = "requeue"
      /\ posting[c].events \intersect InFlight = {}
      /\ episode' = SetStatus(E, "pending")
      /\ \E order \in SetToSeqs(E) : queue' = queue \o order
      /\ accepted' = accepted \union posting[c].events
      /\ posting' = [posting EXCEPT ![c] = NoRequest]
      /\ UNCHANGED <<lock, pc, batch, model, budget, folds, failed>>

-----------------------------------------------------------------------------
(* The worker's tick of replica r. *)

Step(r, from, to) == pc[r] = from /\ pc' = [pc EXCEPT ![r] = to]

\* mutant: the replica does not look at the outcome of the try
AcquireAnyway(r) ==
  /\ Step(r, "idle", "fetch")
  /\ lock' = r
  /\ UNCHANGED <<episode, queue, posting, batch, model, budget, folds, failed, accepted>>

Acquire(r) ==
  /\ Step(r, "idle", "fetch")
  /\ lock = None
  /\ lock' = r
  /\ UNCHANGED <<episode, queue, posting, batch, model, budget, folds, failed, accepted>>

\* Fresh work before retries, and then the oldest.
Position(e) == CHOOSE i \in DOMAIN queue : queue[i] = e
Before(e, f) ==
  \/ episode[e].error_count < episode[f].error_count
  \/ episode[e].error_count = episode[f].error_count /\ Position(e) < Position(f)

fetch_unprocessed_ids ==
  LET pending == SetToSortSeq(ToSet(queue), Before)
  IN  SubSeq(pending, 1, IF Len(pending) < BatchSize THEN Len(pending) ELSE BatchSize)

Fetch(r) ==
  /\ Step(r, "fetch", "work")
  /\ batch' = [batch EXCEPT ![r] = fetch_unprocessed_ids]
  /\ UNCHANGED <<episode, queue, posting, lock, model, budget, folds, failed, accepted>>

\* _process_one loads the row; what is gone, processed or dead is skipped.
Load(r) ==
  /\ batch[r] # <<>>
  /\ IF episode[Head(batch[r])].status = "pending"
     THEN Step(r, "work", "folding") /\ UNCHANGED batch
     ELSE /\ pc[r] = "work" /\ UNCHANGED pc
          /\ batch' = [batch EXCEPT ![r] = Tail(@)]
  /\ UNCHANGED <<episode, queue, posting, lock, model, budget, folds, failed, accepted>>

FoldCommits(r) ==
  LET e == Head(batch[r])
  IN  /\ Step(r, "folding", "work")
      /\ \/ /\ ~Outage(e)
            /\ episode' = [episode EXCEPT ![e].status = "processed"]
            /\ folds' = [folds EXCEPT ![e] = @ + 1]
         \/ /\ episode' = [episode EXCEPT ![e].status = "dropped"]
            /\ UNCHANGED folds
      /\ queue' = Remove(queue, e)
      /\ batch' = [batch EXCEPT ![r] = Tail(@)]
      /\ UNCHANGED <<posting, lock, model, budget, failed, accepted>>

\* mutant: an outage is recorded like any other failure
OutageCounted(r) ==
  LET e == Head(batch[r])
  IN  /\ Step(r, "folding", "maintain")
      /\ Outage(e)
      /\ episode' = [episode EXCEPT ![e].error_count = @ + 1]
      /\ batch' = [batch EXCEPT ![r] = <<>>]
      /\ UNCHANGED <<queue, posting, lock, model, budget, folds, failed, accepted>>

\* ModelUnavailable leaves the episode as it was and ends the batch.
FoldDeferred(r) ==
  /\ Step(r, "folding", "maintain")
  /\ Outage(Head(batch[r]))
  /\ batch' = [batch EXCEPT ![r] = <<>>]
  /\ UNCHANGED <<episode, queue, posting, lock, model, budget, folds, failed, accepted>>

FoldRaises(r) ==
  /\ Step(r, "folding", "recording")
  /\ failed' = [failed EXCEPT ![Head(batch[r])] = @ + 1]
  /\ UNCHANGED <<episode, queue, posting, lock, batch, model, budget, folds, accepted>>

Failed(row) ==
  LET n == row.error_count + 1
  IN  [status |-> IF n >= MaxRetries THEN "dead" ELSE row.status, error_count |-> n]

\* _record_failure, in a transaction of its own.
RecordFailure(r) ==
  LET e == Head(batch[r])
  IN  /\ Step(r, "recording", "work")
      /\ episode' = [episode EXCEPT ![e] = IF @.status = "absent" THEN @ ELSE Failed(@)]
      /\ queue' = IF episode'[e].status = "pending" THEN queue ELSE Remove(queue, e)
      /\ batch' = [batch EXCEPT ![r] = Tail(@)]
      /\ UNCHANGED <<posting, lock, model, budget, folds, failed, accepted>>

BatchDone(r) ==
  /\ batch[r] = <<>>
  /\ Step(r, "work", "maintain")
  /\ UNCHANGED <<episode, queue, posting, lock, batch, model, budget, folds, failed, accepted>>

\* mutant: retention does not ask whether the episode was processed
AnyStored == StatusIs(Status \ {"absent"})

\* Retention deletes only episodes that were processed.
Purgeable == StatusIs(Done)

\* Retention, when due, deletes the processed episodes that occurred before its
\* cutoff: occurred_at is the caller's, so any of them can be that old.
Retention(r) ==
  /\ Step(r, "maintain", "unlock")
  /\ \E old \in SUBSET Purgeable :
       /\ old # {} => budget.forgets > 0
       /\ episode' = [e \in Events |-> IF e \in old THEN NoRow ELSE episode[e]]
       /\ queue' = SelectSeq(queue, LAMBDA e : e \notin old)
       /\ accepted' = accepted \ old
       /\ budget' = IF old = {} THEN budget ELSE [budget EXCEPT !.forgets = @ - 1]
  /\ UNCHANGED <<posting, lock, batch, model, folds, failed>>

\* mutant: the unlock has no effect
ReleaseNothing(r) ==
  /\ Step(r, "unlock", "idle")
  /\ UNCHANGED <<episode, queue, posting, lock, batch, model, budget, folds, failed, accepted>>

Release(r) ==
  /\ Step(r, "unlock", "idle")
  /\ lock' = IF lock = r THEN None ELSE lock
  /\ UNCHANGED <<episode, queue, posting, batch, model, budget, folds, failed, accepted>>

\* A step of the tick raises out of it, or the task is cancelled: what is in
\* flight rolls back and the finally clause unlocks.
TickFails(r) ==
  /\ budget.faults > 0
  /\ pc[r] \notin {"idle", "unlock"}
  /\ pc' = [pc EXCEPT ![r] = "unlock"]
  /\ batch' = [batch EXCEPT ![r] = <<>>]
  /\ budget' = [budget EXCEPT !.faults = @ - 1]
  /\ UNCHANGED <<episode, queue, posting, lock, model, folds, failed, accepted>>

\* The process dies and restarts: the server frees the lock of its connection.
Crash(r) ==
  /\ budget.faults > 0
  /\ pc[r] # "idle"
  /\ pc' = [pc EXCEPT ![r] = "idle"]
  /\ batch' = [batch EXCEPT ![r] = <<>>]
  /\ lock' = IF lock = r THEN None ELSE lock
  /\ budget' = [budget EXCEPT !.faults = @ - 1]
  /\ UNCHANGED <<episode, queue, posting, model, folds, failed, accepted>>

\* External: the model gateway goes out and comes back.
ModelGoesOut ==
  /\ model = "up" /\ budget.outages > 0
  /\ model' = "down"
  /\ budget' = [budget EXCEPT !.outages = @ - 1]
  /\ UNCHANGED <<episode, queue, posting, lock, pc, batch, folds, failed, accepted>>

ModelComesBack ==
  /\ model = "down"
  /\ model' = "up"
  /\ UNCHANGED <<episode, queue, posting, lock, pc, batch, budget, folds, failed, accepted>>

-----------------------------------------------------------------------------
Init ==
  /\ episode = [e \in Events |-> NoRow]
  /\ queue = <<>>
  /\ posting = [c \in Clients |-> NoRequest]
  /\ lock = None
  /\ pc = [r \in Replicas |-> "idle"]
  /\ batch = [r \in Replicas |-> <<>>]
  /\ model = "up"
  /\ budget = [faults |-> MaxFaults, outages |-> MaxOutages, forgets |-> MaxForgets]
  /\ folds = [e \in Events |-> 0]
  /\ failed = [e \in Events |-> 0]
  /\ accepted = {}

Ingest ==
  \/ \E E \in SUBSET Events : Store(E)
  \/ \E c \in Clients :
       \/ \E kind \in Inserting, E \in SUBSET Events : BeginInline(c, kind, E)
       \/ CommitInline(c)
       \/ AbortInline(c)
       \/ DeferInline(c)
       \/ Requeue(c)

Tick(r) ==
  \/ Acquire(r)
  \/ Fetch(r)
  \/ Load(r)
  \/ FoldCommits(r)
  \/ FoldDeferred(r)
  \/ FoldRaises(r)
  \/ RecordFailure(r)
  \/ BatchDone(r)
  \/ Retention(r)
  \/ Release(r)

Environment ==
  \/ \E r \in Replicas : TickFails(r) \/ Crash(r)
  \/ ModelGoesOut
  \/ ModelComesBack

Next == Ingest \/ (\E r \in Replicas : Tick(r)) \/ Environment

\* Every replica's poll loop ticks again after its sleep, whatever the last tick
\* did, so some replica's tick always goes on.
TicksGoOn == WF_vars(\E r \in Replicas : Tick(r))

Spec == Init /\ [][Next]_vars /\ TicksGoOn

-----------------------------------------------------------------------------
(* Properties. *)

\* An episode changes memory at most once for each time it was stored: retries,
\* crashes, re-posts and the other replica never fold it again.
FoldedOnce ==
  \A e \in Events :
    /\ folds[e] <= 1 + (MaxForgets - budget.forgets)
    /\ episode[e].status \in {"pending", "dead"} => folds[e] <= MaxForgets - budget.forgets

\* An outage of the model never uses up the retries of an episode.
OutageBurnsNoRetry == \A e \in Events : episode[e].error_count <= failed[e]

\* What a caller was told is stored, queued or accepted stays in the table until
\* retention forgets it, through rollbacks and crashes.
AcceptedIsKept == \A e \in accepted : episode[e].status # "absent"

\* The mapping to the promise: a row's processed, dropped and dead marks.
Ledger ==
  INSTANCE EpisodeLedger WITH
    status <- [e \in Events |->
                 CASE episode[e].status = "processed" -> "folded"
                   [] episode[e].status = "dropped" -> "declined"
                   [] OTHER -> episode[e].status],
    effects <- folds

\* The table and its workers keep the promise: an episode is settled once, with
\* its effect, and only processed episodes are forgotten.
KeepsLedger == Ledger!Spec

\* Once the model stays up, everything pending that it does not refuse is settled:
\* folded, declined or dead-lettered, however often its fold raises or a tick
\* fails.  "A batch of failing episodes cannot starve newer arrivals" - true while
\* none is refused, for a refused one is deferred at the head of every batch.
EverythingSettles ==
  <>[](model = "up") =>
    \A e \in Events \ Refused :
      (episode[e].status = "pending") ~> (episode[e].status # "pending")
=============================================================================
