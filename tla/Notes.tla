-------------------------------- MODULE Notes --------------------------------
(***************************************************************************)
(* One org workspace note: people put and patch it, each in a transaction  *)
(* that reads the row first and writes a version last, and the nightly     *)
(* curation rewrites the parts of it that follow from the graph.           *)
(***************************************************************************)
EXTENDS Naturals, Sequences

CONSTANTS
  Writers,
  Texts,      \* what a person writes into a section
  NoText,     \* an empty section
  Threads,    \* bullets of Open threads that cite the graph
  Blocks,     \* what the current-state block can say
  MaxWrites,  \* bound: requests of people
  MaxMoves    \* bound: changes of the graph

NotesAssumption ==
  /\ NoText \in Texts /\ "none" \notin Blocks
  /\ MaxWrites \in Nat /\ MaxMoves \in Nat

VARIABLES
  versions,  \* the note's versions, oldest first; the row holds the last one's body
  seen,      \* writer -> the version it last fetched
  txn,       \* writer or the curation -> its transaction
  graph,     \* the live state, and the bullets whose citations are all stale
  writes, moves

notesVars == <<versions, seen, txn, graph, writes, moves>>

\* Now is the person's own lines and the block; the other sections are texts.
Body == [now : Texts, block : Blocks \cup {"none"}, threads : SUBSET Threads, decisions : Texts]
EmptyBody == [now |-> NoText, block |-> "none", threads |-> {}, decisions |-> NoText]

Curation == "curation"
NoTxn == [phase |-> "idle"]

VersionNow == Len(versions)
BodyAt(v) == IF v = 0 THEN EmptyBody ELSE versions[v].body
BodyNow == BodyAt(VersionNow)

-----------------------------------------------------------------------------
(* Requests of people. *)

\* GET, or the note a context bundle carried.
Fetch(w) ==
  /\ seen[w] # VersionNow /\ txn[w] = NoTxn
  /\ seen' = [seen EXCEPT ![w] = VersionNow]
  /\ UNCHANGED <<versions, txn, graph, writes, moves>>

Open(w, base, read, body) ==
  /\ writes > 0 /\ txn[w] = NoTxn
  /\ txn' = [txn EXCEPT ![w] = [phase |-> "open", row |-> VersionNow, read |-> read,
                                guarded |-> base, body |-> body]]
  /\ writes' = writes - 1
  /\ UNCHANGED <<versions, seen, graph, moves>>

\* put_note with base_version: refused unless it is the row's version.
PutOnBase(w) ==
  /\ seen[w] = VersionNow
  /\ \E t \in Texts, ts \in SUBSET Threads :
       Open(w, TRUE, seen[w], [BodyAt(seen[w]) EXCEPT !.now = t, !.threads = ts])

\* put_note without one: the last writer wins.
PutBlind(w) ==
  \E t \in Texts :
    Open(w, FALSE, seen[w], [BodyAt(seen[w]) EXCEPT !.now = t])

\* patch_section: the section is changed in the body of the row just read.
PatchNote(w) ==
  \/ \E t \in Texts : Open(w, TRUE, VersionNow, [BodyNow EXCEPT !.decisions = t])
  \/ \E th \in Threads :
       Open(w, TRUE, VersionNow, [BodyNow EXCEPT !.threads = @ \cup {th}])

-----------------------------------------------------------------------------
(* curate_workspace_notes. *)

CuratedBody(b) ==
  [b EXCEPT !.threads = @ \ graph.stale, !.block = graph.state]

\* A note with no text is passed over, and one that would not change is not written.
BeginCuration ==
  /\ txn[Curation] = NoTxn
  /\ BodyNow # EmptyBody /\ CuratedBody(BodyNow) # BodyNow
  /\ txn' = [txn EXCEPT ![Curation] = [phase |-> "open", row |-> VersionNow, read |-> VersionNow,
                                       guarded |-> TRUE, body |-> CuratedBody(BodyNow)]]
  /\ UNCHANGED <<versions, seen, graph, writes, moves>>

-----------------------------------------------------------------------------
(* The end of a transaction. *)

\* mutant: versions are not unique
CommitOver(w) ==
  /\ txn[w] # NoTxn
  /\ txn' = [txn EXCEPT ![w] = NoTxn]
  /\ versions' = Append(versions, [body |-> txn[w].body, read |-> txn[w].read,
                                   guarded |-> txn[w].guarded])
  /\ UNCHANGED <<seen, graph, writes, moves>>

\* mutant: a refused write is tried again as it is
CommitAgain(w) ==
  /\ txn[w] # NoTxn /\ txn[w].row = VersionNow
  /\ txn' = [txn EXCEPT ![w] = NoTxn]
  /\ versions' = Append(versions, [body |-> txn[w].body, read |-> txn[w].read,
                                   guarded |-> txn[w].guarded])
  /\ UNCHANGED <<seen, graph, writes, moves>>

\* Two transactions that read the same row write the same version number, and
\* uq_note_version (uq_note_key for a first version) lets one of them through.
CommitNote(w) ==
  /\ txn[w] # NoTxn
  /\ txn' = [txn EXCEPT ![w] = NoTxn]
  /\ versions' = IF txn[w].row = VersionNow
                 THEN Append(versions, [body |-> txn[w].body, read |-> txn[w].read,
                                        guarded |-> txn[w].guarded])
                 ELSE versions
  /\ UNCHANGED <<seen, graph, writes, moves>>

\* The client goes away, or the process stops.
AbortNote(w) ==
  /\ w # Curation /\ txn[w] # NoTxn
  /\ txn' = [txn EXCEPT ![w] = NoTxn]
  /\ UNCHANGED <<versions, seen, graph, writes, moves>>

\* A fold changes the live state, or closes what a bullet cites.
MoveGraph ==
  /\ moves > 0 /\ moves' = moves - 1
  /\ \/ \E b \in Blocks : graph' = [graph EXCEPT !.state = b]
     \/ \E th \in Threads : graph' = [graph EXCEPT !.stale = @ \cup {th}]
  /\ UNCHANGED <<versions, seen, txn, writes>>

-----------------------------------------------------------------------------
NotesInit ==
  /\ versions = <<>>
  /\ seen = [w \in Writers |-> 0]
  /\ txn = [w \in Writers \cup {Curation} |-> NoTxn]
  /\ graph \in [state : Blocks, stale : {{}}]
  /\ writes = MaxWrites /\ moves = MaxMoves

CurationRuns == BeginCuration \/ CommitNote(Curation)

NotesNext ==
  \/ \E w \in Writers : Fetch(w) \/ PutOnBase(w) \/ PutBlind(w) \/ PatchNote(w)
                        \/ CommitNote(w) \/ AbortNote(w)
  \/ CurationRuns \/ MoveGraph

\* The worker curates every night, and a request's transaction ends.
NightsGoOn ==
  /\ WF_notesVars(CurationRuns)
  /\ \A w \in Writers : WF_notesVars(CommitNote(w))

NotesSpec == NotesInit /\ [][NotesNext]_notesVars /\ NightsGoOn

NotesTypeOK ==
  /\ versions \in Seq([body : Body, read : Nat, guarded : BOOLEAN])
  /\ seen \in [Writers -> 0..VersionNow]
  /\ \A w \in DOMAIN txn : txn[w] # NoTxn =>
       txn[w].body \in Body /\ txn[w].row \in 0..VersionNow /\ txn[w].read \in 0..VersionNow
  /\ graph \in [state : Blocks, stale : SUBSET Threads]
  /\ writes \in 0..MaxWrites /\ moves \in 0..MaxMoves

-----------------------------------------------------------------------------
(* Properties. *)

\* put_note, patch_section: a version written by a patch, by the curation or with a
\* base_version was made from the version right before it, so none of them drops
\* what a concurrent writer put into another section.
NoLostEdit ==
  \A v \in 1..VersionNow : versions[v].guarded => versions[v].read = v - 1

\* curate_workspace_notes: "Idempotent: a second run on the same graph changes
\* nothing".  When people and the graph have come to rest, the nightly runs bring
\* the note to where it says what the graph says, and then leave it alone.
CurationSettles ==
  <>[](BodyNow = EmptyBody \/ CuratedBody(BodyNow) = BodyNow)
=============================================================================
