------------------------------- MODULE Sources -------------------------------
(***************************************************************************)
(* Registered sources.  A repository's files are catalogued as cold items  *)
(* and admitted as documents by syncs: the worker's, and a registration's  *)
(* that may run beside it.  A sync is one transaction: it lists the tree,  *)
(* reads the items, writes what is new or changed and fetches and admits   *)
(* up to a cap of cold ones, while people push.  A directory's files are   *)
(* catalogued by registration and admitted when a question needs them.     *)
(***************************************************************************)
EXTENDS Naturals, Sequences, FiniteSets, FiniteSetsExt

CONSTANTS
  RepoPaths,   \* numbers: the order in which the tree lists them
  DiskPaths,
  Blobs,       \* contents of a file, told apart by their sha
  NoBlob,      \* no file at the path
  Short,       \* the blobs of less than 50 characters
  Low,         \* the blobs below the salience floor
  Syncers,     \* the worker's pass and a registration
  EagerCap,    \* EAGER_ADMIT_PER_SYNC
  MaxPushes,   \* bound: changes of files
  MaxFailures  \* bound: outages of the repository's host, and days over budget

SourcesAssumption ==
  /\ RepoPaths \subseteq Nat /\ RepoPaths \cap DiskPaths = {}
  /\ NoBlob \notin Blobs /\ Short \subseteq Blobs /\ Low \subseteq Blobs
  /\ EagerCap \in Nat \ {0} /\ MaxPushes \in Nat /\ MaxFailures \in Nat

VARIABLES
  world,     \* path -> its blob now
  item,      \* path -> its catalogue row, or NoItem
  stored,    \* the ids of the stored document episodes
  documents, \* the documents folded, in order
  sync,      \* syncer -> its transaction
  pushes, failures

sourcesVars == <<world, item, stored, documents, sync, pushes, failures>>

AllPaths == RepoPaths \cup DiskPaths
NoItem == [admitted |-> FALSE, doc |-> <<>>, declined |-> TRUE, absent |-> TRUE]
ColdItem == [admitted |-> FALSE, doc |-> <<>>, declined |-> FALSE]

\* item_event_id has the blob in it, the id of a directory's file has not.
EventOf(p, b) == IF p \in RepoPaths THEN <<p, b>> ELSE <<p>>
Events == {EventOf(p, b) : p \in AllPaths, b \in Blobs}

\* items, fresh and docs are what the transaction has written; queue is what it has
\* still to admit.
NoSync == [phase |-> "idle"]

-----------------------------------------------------------------------------
(* admit: one cold item through the governed fold. *)

\* What admitting item i of path p with text b ends in: the item, and whether the
\* fold made a document.  An episode that is stored already is not folded again.
Admissions(p, i, b, event, known) ==
  LET declined == [i EXCEPT !.declined = TRUE]
      admitted == [i EXCEPT !.admitted = TRUE, !.doc = event]
  IN CASE b \in Short -> {[item |-> declined, stores |-> FALSE, folds |-> FALSE]}
       [] b \notin Short /\ event \in known ->
            {[item |-> admitted, stores |-> FALSE, folds |-> FALSE]}
       [] b \notin Short /\ event \notin known ->
            (IF b \in Low THEN {} ELSE {[item |-> admitted, stores |-> TRUE, folds |-> TRUE]})
              \cup (IF b \in Low \/ failures > 0
                    THEN {[item |-> declined, stores |-> TRUE, folds |-> FALSE]} ELSE {})

OverBudget(b, a) == a.item.declined /\ b \notin Short \cup Low

-----------------------------------------------------------------------------
(* sync_source. *)

ListTree(s) ==
  /\ sync[s] = NoSync
  /\ sync' = [sync EXCEPT ![s] = [phase |-> "listed",
                tree |-> [p \in {q \in RepoPaths : world[q] # NoBlob} |-> world[p]]]]
  /\ UNCHANGED <<world, item, stored, documents, pushes, failures>>

\* The rows that are new, and the admitted rows whose blob is another: cold again.
ChangedItems(tree, rows) ==
  {p \in DOMAIN tree : \/ rows[p] = NoItem
                       \/ rows[p].admitted /\ rows[p].doc # EventOf(p, tree[p])}

ReadItems(s) ==
  /\ sync[s].phase = "listed"
  /\ LET tree == sync[s].tree IN
     sync' = [sync EXCEPT ![s] = [phase |-> "read", tree |-> tree, rows |-> item]]
  /\ UNCHANGED <<world, item, stored, documents, pushes, failures>>

Touched(s) == IF sync[s].phase \in {"writing"} THEN DOMAIN sync[s].items ELSE {}

\* A row another transaction has written stays locked until that one ends.
FreeFor(s, ps) == \A o \in Syncers \ {s} : Touched(o) \cap ps = {}

\* The first n of the tree's order.
FirstOf(n, ps) == {p \in ps : Cardinality({q \in ps : q < p}) < n}

\* mutant: the cap is applied to the tree and not to what is cold
CapOfTree(tree, rows) ==
  {p \in FirstOf(EagerCap, DOMAIN tree) : ~rows[p].admitted /\ ~rows[p].declined}

ColdToAdmit(tree, rows) ==
  FirstOf(EagerCap, {p \in DOMAIN tree : ~rows[p].admitted /\ ~rows[p].declined})

Differing(old, new) == {c \in DOMAIN new : old[c] # new[c]}

\* The flush of the new and the changed rows: a row that another sync has inserted
\* since they were read fails the transaction.
FlushItems(s) ==
  /\ sync[s].phase = "read"
  /\ LET tree == sync[s].tree
         rows == sync[s].rows
         changed == ChangedItems(tree, rows)
         reset(p) == [rows[p] EXCEPT !.admitted = FALSE, !.declined = FALSE]
         after == [p \in AllPaths |-> IF p \notin changed THEN rows[p]
                                       ELSE IF rows[p] = NoItem THEN ColdItem ELSE reset(p)]
         clash == \E p \in changed : rows[p] = NoItem /\ item[p] # NoItem
     IN /\ FreeFor(s, changed)
        /\ sync' = [sync EXCEPT ![s] =
             IF clash THEN NoSync
             ELSE [phase |-> "writing", tree |-> tree,
                   items |-> [p \in changed |-> [row |-> after[p], columns |-> Differing(rows[p], after[p])]],
                   rows |-> after,
                   queue |-> ColdToAdmit(tree, after), fresh |-> {}, docs |-> <<>>]]
  /\ UNCHANGED <<world, item, stored, documents, pushes, failures>>

\* Path p's row, changed once more: with what the transaction wrote of it before.
Wrote(items, p, old, new) ==
  LET before == IF p \in DOMAIN items THEN items[p].columns ELSE {}
  IN [q \in DOMAIN items \cup {p} |->
        IF q = p THEN [row |-> new, columns |-> before \cup Differing(old, new)] ELSE items[q]]

\* The text is fetched now, from the branch's head; its id has the listed blob. A path
\* that is gone fails the sync.
AdmitNext(s) ==
  /\ sync[s].phase = "writing" /\ sync[s].queue # {}
  /\ LET t == sync[s]
         p == Min(t.queue)
         b == world[p]
         event == EventOf(p, t.tree[p])
     IN /\ FreeFor(s, {p})
        /\ IF b = NoBlob
           THEN sync' = [sync EXCEPT ![s] = NoSync] /\ UNCHANGED failures
           ELSE \E a \in Admissions(p, t.rows[p], b, event, stored \cup t.fresh) :
             /\ sync' = [sync EXCEPT ![s] =
                  [t EXCEPT !.queue = @ \ {p},
                            !.items = Wrote(@, p, t.rows[p], a.item),
                            !.fresh = IF a.stores THEN @ \cup {event} ELSE @,
                            !.docs = IF a.folds THEN Append(@, [event |-> event, text |-> b]) ELSE @]]
             /\ failures' = IF OverBudget(b, a) THEN failures - 1 ELSE failures
  /\ UNCHANGED <<world, item, stored, documents, pushes>>

\* An update writes the columns whose values the transaction changed.
WithWrites(items) ==
  [p \in AllPaths |->
     IF p \notin DOMAIN items THEN item[p]
     ELSE IF item[p] = NoItem THEN items[p].row
     ELSE [c \in DOMAIN ColdItem |-> IF c \in items[p].columns THEN items[p].row[c] ELSE item[p][c]]]

CommitSync(s) ==
  /\ sync[s].phase = "writing" /\ sync[s].queue = {}
  /\ item' = WithWrites(sync[s].items)
  /\ stored' = stored \cup sync[s].fresh
  /\ documents' = documents \o sync[s].docs
  /\ sync' = [sync EXCEPT ![s] = NoSync]
  /\ UNCHANGED <<world, pushes, failures>>

\* mutant: what the sync has written of the items is kept
SyncFailsHalfway(s) ==
  /\ sync[s] # NoSync /\ failures > 0
  /\ item' = IF sync[s].phase = "writing"
             THEN WithWrites(sync[s].items) ELSE item
  /\ sync' = [sync EXCEPT ![s] = NoSync]
  /\ failures' = failures - 1
  /\ UNCHANGED <<world, stored, documents, pushes>>

\* The host is out, or refuses: the transaction is rolled back.
SyncFails(s) ==
  /\ sync[s] # NoSync /\ failures > 0
  /\ sync' = [sync EXCEPT ![s] = NoSync]
  /\ failures' = failures - 1
  /\ UNCHANGED <<world, item, stored, documents, pushes>>

-----------------------------------------------------------------------------
(* register_files, promote and promote_for_question. *)

\* A row that is known is left as it is.
RegisterFiles ==
  /\ \E p \in DiskPaths : item[p] = NoItem /\ world[p] # NoBlob
  /\ item' = [p \in AllPaths |->
                IF p \in DiskPaths /\ item[p] = NoItem /\ world[p] # NoBlob THEN ColdItem ELSE item[p]]
  /\ UNCHANGED <<world, stored, documents, sync, pushes, failures>>

\* candidates, then admit with the text on disk now; a file that is gone fails the request.
Promote(p) ==
  /\ p \in DiskPaths /\ item[p] # NoItem /\ ~item[p].admitted /\ ~item[p].declined
  /\ world[p] # NoBlob
  /\ LET b == world[p]
         event == EventOf(p, b)
     IN \E a \in Admissions(p, item[p], b, event, stored) :
          /\ item' = [item EXCEPT ![p] = a.item]
          /\ stored' = IF a.stores THEN stored \cup {event} ELSE stored
          /\ documents' = IF a.folds THEN Append(documents, [event |-> event, text |-> b]) ELSE documents
          /\ failures' = IF OverBudget(b, a) THEN failures - 1 ELSE failures
  /\ UNCHANGED <<world, sync, pushes>>

\* A person pushes to the repository, or saves a file.
Push ==
  /\ pushes > 0 /\ pushes' = pushes - 1
  /\ \E p \in AllPaths, b \in Blobs \cup {NoBlob} :
       b # world[p] /\ world' = [world EXCEPT ![p] = b]
  /\ UNCHANGED <<item, stored, documents, sync, failures>>

-----------------------------------------------------------------------------
SourcesInit ==
  /\ world \in [AllPaths -> Blobs \cup {NoBlob}]
  /\ item = [p \in AllPaths |-> NoItem]
  /\ stored = {} /\ documents = <<>>
  /\ sync = [s \in Syncers |-> NoSync]
  /\ pushes = MaxPushes /\ failures = MaxFailures

SyncSteps(s) == ListTree(s) \/ ReadItems(s) \/ FlushItems(s) \/ AdmitNext(s) \/ CommitSync(s)

SourcesNext ==
  \/ \E s \in Syncers : SyncSteps(s) \/ SyncFails(s)
  \/ RegisterFiles
  \/ \E p \in DiskPaths : Promote(p)
  \/ Push

\* The worker syncs a source each time its interval has passed, and a transaction ends.
SyncsGoOn == \A s \in Syncers : WF_sourcesVars(SyncSteps(s))

SourcesSpec == SourcesInit /\ [][SourcesNext]_sourcesVars /\ SyncsGoOn

SourcesTypeOK ==
  /\ world \in [AllPaths -> Blobs \cup {NoBlob}]
  /\ \A p \in AllPaths : item[p] # NoItem =>
       item[p] \in [admitted : BOOLEAN, doc : Events \cup {<<>>}, declined : BOOLEAN]
  /\ stored \subseteq Events
  /\ documents \in Seq([event : Events, text : Blobs])
  /\ \A s \in Syncers : sync[s].phase \in {"idle", "listed", "read", "writing"}
  /\ pushes \in 0..MaxPushes /\ failures \in 0..MaxFailures

-----------------------------------------------------------------------------
(* Properties. *)

\* admit, sync_source: with syncs that fail halfway and begin again, an admitted item has
\* its document, and no version of a file was folded twice.
AdmittedOnce ==
  /\ \A p \in AllPaths : item[p].admitted /\ ~item[p].declined =>
       \E d \in 1..Len(documents) : documents[d].event = item[p].doc
  /\ \A d, e \in 1..Len(documents) : documents[d].event = documents[e].event => d = e

Decided(p) ==
  /\ item[p] # NoItem
  /\ item[p].declined \/ (item[p].admitted /\ item[p].doc = EventOf(p, world[p]))

\* sync_source: when the pushes stop and the host answers, the syncs bring every file
\* of the repository to a decision about the version it has, though each of them
\* admits no more than the cap.
CatalogueSettles ==
  <>[](\A p \in RepoPaths : world[p] # NoBlob => Decided(p))
=============================================================================
