----------------------------- MODULE FeedsProofs -----------------------------
(***************************************************************************)
(* The components that bring knowledge in and answer from it: what each of *)
(* them keeps, for any writers, rows, callers, searches and facts.  They   *)
(* share no variable; each part below has its inductive invariant, a lemma *)
(* for each action and the theorem.                                        *)
(***************************************************************************)
EXTENDS Feeds, Iteration

-----------------------------------------------------------------------------
(* Notes: a write begun on a row lands only on that row, so a version made  *)
(* with a guard was made from the one before it.                            *)

NotesInv == NotesTypeOK /\ NoLostEdit
              /\ DOMAIN txn = Writers \cup {Curation}
              /\ \A w \in DOMAIN txn : txn[w] # NoTxn =>
                   /\ txn[w].guarded \in BOOLEAN
                   /\ txn[w].guarded => txn[w].read = txn[w].row

\* Every version has a body, and so has a note nobody has written yet.
LEMMA VersionsHaveBodies ==
  ASSUME NotesAssumption, NotesTypeOK
  PROVE  VersionNow \in Nat /\ \A v \in 0..VersionNow : BodyAt(v) \in Body
<1>1. VersionNow \in Nat
  BY DEF NotesTypeOK, VersionNow
<1>2. EmptyBody \in Body
  BY DEF NotesAssumption, EmptyBody, Body
<1> DEFINE Versions == [body : Body, read : Nat, guarded : BOOLEAN]
<1>3. \A v \in 1..VersionNow : versions[v] \in Versions
  <2>1. versions \in Seq(Versions) /\ VersionNow = Len(versions)
    BY DEF NotesTypeOK, VersionNow
  <2> HIDE DEF Versions
  <2> QED  BY <2>1
<1>4. ASSUME NEW v \in 0..VersionNow
      PROVE  BodyAt(v) \in Body
  <2>1. CASE v = 0
    BY <2>1, <1>2 DEF BodyAt
  <2>2. CASE v # 0
    <3>1. v \in 1..VersionNow
      BY <1>1, <2>2
    <3> QED  BY <2>2, <3>1, <1>3 DEF BodyAt
  <2> QED  BY <2>1, <2>2
<1> QED  BY <1>1, <1>4

\* A transaction that begins: on the row as it is, from a version there is.
LEMMA OpenedKeepsNotes ==
  ASSUME NotesInv, NEW w \in DOMAIN txn,
         /\ txn'[w].row = VersionNow /\ txn'[w].read \in 0..VersionNow
         /\ txn'[w].guarded \in BOOLEAN /\ txn'[w].body \in Body
         /\ txn'[w].guarded => txn'[w].read = VersionNow,
         /\ DOMAIN txn' = DOMAIN txn
         /\ \A u \in DOMAIN txn : u # w => txn'[u] = txn[u],
         UNCHANGED <<versions, seen, graph, moves>>, writes' \in 0..MaxWrites
  PROVE  NotesInv'
<1>1. VersionNow' = VersionNow /\ VersionNow \in Nat
  BY DEF VersionNow, NotesInv, NotesTypeOK
<1>2. ASSUME NEW u \in DOMAIN txn', txn'[u] # NoTxn
      PROVE  /\ txn'[u].body \in Body /\ txn'[u].row \in 0..VersionNow'
             /\ txn'[u].read \in 0..VersionNow' /\ txn'[u].guarded \in BOOLEAN
             /\ txn'[u].guarded => txn'[u].read = txn'[u].row
  <2>1. CASE u = w
    BY <1>1, <2>1
  <2>2. CASE u # w
    BY <1>1, <1>2, <2>2 DEF NotesInv, NotesTypeOK
  <2> QED  BY <2>1, <2>2
<1>3. NotesTypeOK'
  BY <1>1, <1>2 DEF NotesInv, NotesTypeOK
<1>4. NoLostEdit'
  BY <1>1 DEF NotesInv, NoLostEdit
<1> QED  BY <1>2, <1>3, <1>4 DEF NotesInv

LEMMA PutKeepsNotes ==
  ASSUME NotesAssumption, NotesInv, NEW w \in Writers, PutOnBase(w) \/ PutBlind(w) \/ PatchNote(w)
  PROVE  NotesInv'
<1>1. VersionNow \in Nat /\ \A v \in 0..VersionNow : BodyAt(v) \in Body
  BY VersionsHaveBodies DEF NotesInv
<1>2. w \in DOMAIN txn /\ seen[w] \in 0..VersionNow /\ VersionNow \in 0..VersionNow /\ 0 \in 0..VersionNow
  BY <1>1 DEF NotesInv, NotesTypeOK
<1>3. \A b \in Body : /\ \A t \in Texts : [b EXCEPT !.now = t] \in Body /\ [b EXCEPT !.decisions = t] \in Body
                      /\ \A t \in Texts, ts \in SUBSET Threads :
                           [b EXCEPT !.now = t, !.threads = ts] \in Body
                      /\ \A th \in Threads : [b EXCEPT !.threads = @ \cup {th}] \in Body
  BY DEF Body
<1>4. \A base \in BOOLEAN : \A read \in 0..VersionNow : \A body \in Body :
        Open(w, base, read, body) /\ (base => read = VersionNow) => NotesInv'
  <2> SUFFICES ASSUME NEW base \in BOOLEAN, NEW read \in 0..VersionNow, NEW body \in Body,
                      Open(w, base, read, body), base => read = VersionNow
               PROVE  NotesInv'
    OBVIOUS
  <2>1. txn'[w] = [phase |-> "open", row |-> VersionNow, read |-> read, guarded |-> base, body |-> body]
    BY <1>2 DEF Open
  <2>2. DOMAIN txn' = DOMAIN txn /\ \A u \in DOMAIN txn : u # w => txn'[u] = txn[u]
    BY <1>2 DEF Open
  <2>3. UNCHANGED <<versions, seen, graph, moves>> /\ writes' \in 0..MaxWrites
    BY DEF Open, NotesInv, NotesTypeOK, NotesAssumption
  <2> QED  BY <1>2, <2>1, <2>2, <2>3, OpenedKeepsNotes
<1>5. CASE PutOnBase(w)
  <2>1. PICK t \in Texts, ts \in SUBSET Threads :
          Open(w, TRUE, seen[w], [BodyAt(seen[w]) EXCEPT !.now = t, !.threads = ts])
    BY <1>5 DEF PutOnBase
  <2>2. [BodyAt(seen[w]) EXCEPT !.now = t, !.threads = ts] \in Body /\ seen[w] = VersionNow
    BY <1>1, <1>2, <1>3, <1>5 DEF PutOnBase
  <2> QED  BY <2>1, <2>2, <1>2, <1>4
<1>6. CASE PutBlind(w)
  <2>1. PICK t \in Texts : Open(w, FALSE, seen[w], [BodyAt(seen[w]) EXCEPT !.now = t])
    BY <1>6 DEF PutBlind
  <2>2. [BodyAt(seen[w]) EXCEPT !.now = t] \in Body
    BY <1>1, <1>2, <1>3
  <2> QED  BY <2>1, <2>2, <1>2, <1>4
<1>7. CASE PatchNote(w)
  <2>1. BodyNow \in Body
    BY <1>1, <1>2 DEF BodyNow
  <2>2. CASE \E t \in Texts : Open(w, TRUE, VersionNow, [BodyNow EXCEPT !.decisions = t])
    <3>1. PICK t \in Texts : Open(w, TRUE, VersionNow, [BodyNow EXCEPT !.decisions = t])
      BY <2>2
    <3>2. [BodyNow EXCEPT !.decisions = t] \in Body
      BY <2>1, <1>3
    <3> QED  BY <3>1, <3>2, <1>2, <1>4
  <2>3. CASE \E th \in Threads : Open(w, TRUE, VersionNow, [BodyNow EXCEPT !.threads = @ \cup {th}])
    <3>1. PICK th \in Threads : Open(w, TRUE, VersionNow, [BodyNow EXCEPT !.threads = @ \cup {th}])
      BY <2>3
    <3>2. [BodyNow EXCEPT !.threads = @ \cup {th}] \in Body
      BY <2>1, <1>3
    <3> QED  BY <3>1, <3>2, <1>2, <1>4
  <2> QED  BY <1>7, <2>2, <2>3 DEF PatchNote
<1> QED  BY <1>5, <1>6, <1>7

LEMMA CurationKeepsNotes ==
  ASSUME NotesAssumption, NotesInv, BeginCuration
  PROVE  NotesInv'
<1>1. VersionNow \in Nat /\ \A v \in 0..VersionNow : BodyAt(v) \in Body
  BY VersionsHaveBodies DEF NotesInv
<1>2. BodyNow \in Body
  BY <1>1 DEF BodyNow
<1> DEFINE b == CuratedBody(BodyNow)
<1>3. b \in Body
  BY <1>2 DEF CuratedBody, Body, NotesInv, NotesTypeOK
<1> HIDE DEF b
<1>4. Curation \in DOMAIN txn
  BY DEF NotesInv
<1>5. txn' = [txn EXCEPT ![Curation] = [phase |-> "open", row |-> VersionNow, read |-> VersionNow,
                                        guarded |-> TRUE, body |-> b]]
  BY DEF BeginCuration, b
<1>6. txn'[Curation] = [phase |-> "open", row |-> VersionNow, read |-> VersionNow,
                        guarded |-> TRUE, body |-> b]
  BY <1>4, <1>5
<1>7. DOMAIN txn' = DOMAIN txn /\ \A u \in DOMAIN txn : u # Curation => txn'[u] = txn[u]
  BY <1>4, <1>5
<1>8. UNCHANGED <<versions, seen, graph, moves>> /\ writes' \in 0..MaxWrites
  BY DEF BeginCuration, NotesInv, NotesTypeOK
<1>9. /\ txn'[Curation].row = VersionNow /\ txn'[Curation].read \in 0..VersionNow
      /\ txn'[Curation].guarded \in BOOLEAN /\ txn'[Curation].body \in Body
      /\ txn'[Curation].guarded => txn'[Curation].read = VersionNow
  BY <1>1, <1>3, <1>6
<1> QED  BY <1>4, <1>7, <1>8, <1>9, OpenedKeepsNotes

\* What a transaction began with still holds of the others when one ends, and a new
\* version is one more.
LEMMA CommitKeepsNotes ==
  ASSUME NotesInv, NEW w \in DOMAIN txn, CommitNote(w)
  PROVE  NotesInv'
<1> DEFINE ver == [body |-> txn[w].body, read |-> txn[w].read, guarded |-> txn[w].guarded]
<1>1. /\ txn[w] # NoTxn /\ txn' = [txn EXCEPT ![w] = NoTxn]
      /\ UNCHANGED <<seen, graph, writes, moves>>
      /\ versions' = IF txn[w].row = VersionNow THEN Append(versions, ver) ELSE versions
  BY DEF CommitNote
<1>2. /\ versions \in Seq([body : Body, read : Nat, guarded : BOOLEAN])
      /\ VersionNow \in Nat /\ VersionNow = Len(versions)
  BY DEF NotesInv, NotesTypeOK, VersionNow
<1>3. ver \in [body : Body, read : Nat, guarded : BOOLEAN]
  BY <1>1, <1>2 DEF NotesInv, NotesTypeOK
<1>4. ver.guarded => ver.read = txn[w].row
  BY <1>1 DEF NotesInv
<1> DEFINE Versions == [body : Body, read : Nat, guarded : BOOLEAN]
<1> HIDE DEF ver
<1>5. versions' \in Seq(Versions) /\ VersionNow' \in Nat /\ VersionNow <= VersionNow'
  <2>1. versions \in Seq(Versions) /\ ver \in Versions /\ VersionNow' = Len(versions')
    BY <1>2, <1>3 DEF VersionNow
  <2> HIDE DEF Versions
  <2>2. Append(versions, ver) \in Seq(Versions) /\ Len(Append(versions, ver)) = Len(versions) + 1
    BY <2>1
  <2>3. CASE txn[w].row = VersionNow
    BY <1>1, <1>2, <2>1, <2>2, <2>3
  <2>4. CASE txn[w].row # VersionNow
    BY <1>1, <1>2, <2>1, <2>4
  <2> QED  BY <2>3, <2>4
<1>6. DOMAIN txn' = DOMAIN txn /\ \A u \in DOMAIN txn' : txn'[u] # NoTxn => txn[u] # NoTxn /\ txn'[u] = txn[u]
  BY <1>1
<1>7. NotesTypeOK'
  <2>1. seen' \in [Writers -> 0..VersionNow']
    BY <1>1, <1>2, <1>5 DEF NotesInv, NotesTypeOK
  <2>2. \A u \in DOMAIN txn' : txn'[u] # NoTxn =>
          txn'[u].body \in Body /\ txn'[u].row \in 0..VersionNow' /\ txn'[u].read \in 0..VersionNow'
    BY <1>2, <1>5, <1>6 DEF NotesInv, NotesTypeOK
  <2> QED  BY <1>1, <1>5, <2>1, <2>2 DEF NotesInv, NotesTypeOK
<1>8. NoLostEdit'
  <2>1. CASE txn[w].row = VersionNow
    <3>1. versions' = Append(versions, ver) /\ VersionNow' = VersionNow + 1
      BY <1>1, <1>2, <1>3, <2>1 DEF VersionNow
    <3>2. ASSUME NEW v \in 1..VersionNow', versions'[v].guarded
          PROVE  versions'[v].read = v - 1
      <4>1. CASE v = VersionNow + 1
        <5>1. versions'[v] = ver
          BY <3>1, <4>1, <1>2, <1>3
        <5> QED  BY <3>2, <4>1, <5>1, <1>4, <2>1, <1>2
      <4>2. CASE v # VersionNow + 1
        <5>1. v \in 1..VersionNow /\ versions'[v] = versions[v]
          BY <3>1, <4>2, <1>2, <1>3
        <5> QED  BY <3>2, <5>1 DEF NotesInv, NoLostEdit
      <4> QED  BY <4>1, <4>2
    <3> QED  BY <3>2 DEF NoLostEdit
  <2>2. CASE txn[w].row # VersionNow
    BY <1>1, <2>2 DEF NotesInv, NoLostEdit, VersionNow
  <2> QED  BY <2>1, <2>2
<1> QED  BY <1>6, <1>7, <1>8 DEF NotesInv

LEMMA OthersKeepNotes ==
  ASSUME NotesAssumption, NotesInv,
         \/ \E w \in Writers : Fetch(w) \/ AbortNote(w)
         \/ MoveGraph \/ UNCHANGED notesVars
  PROVE  NotesInv'
<1>1. VersionNow \in Nat
  BY DEF NotesInv, NotesTypeOK, VersionNow
<1>2. CASE \E w \in Writers : Fetch(w)
  <2>1. versions' = versions /\ VersionNow' = VersionNow
    BY <1>2 DEF Fetch, VersionNow
  <2>2. seen' \in [Writers -> 0..VersionNow']
    BY <1>1, <1>2, <2>1 DEF Fetch, NotesInv, NotesTypeOK
  <2> QED  BY <1>2, <2>1, <2>2 DEF Fetch, NotesInv, NotesTypeOK, NoLostEdit
<1>3. CASE \E w \in Writers : AbortNote(w)
  <2>1. /\ UNCHANGED <<versions, seen, graph, writes, moves>> /\ VersionNow' = VersionNow
        /\ DOMAIN txn' = DOMAIN txn
        /\ \A u \in DOMAIN txn' : txn'[u] # NoTxn => txn[u] # NoTxn /\ txn'[u] = txn[u]
    BY <1>3 DEF AbortNote, VersionNow
  <2> QED  BY <2>1 DEF NotesInv, NotesTypeOK, NoLostEdit
<1>4. CASE MoveGraph
  <2>1. /\ UNCHANGED <<versions, seen, txn, writes>> /\ VersionNow' = VersionNow
        /\ moves' = moves - 1 /\ moves > 0
    BY <1>4 DEF MoveGraph, VersionNow
  <2>2. graph' \in [state : Blocks, stale : SUBSET Threads]
    BY <1>4 DEF MoveGraph, NotesInv, NotesTypeOK
  <2>3. moves' \in 0..MaxMoves
    BY <2>1 DEF NotesInv, NotesTypeOK, NotesAssumption
  <2> QED  BY <2>1, <2>2, <2>3 DEF NotesInv, NotesTypeOK, NoLostEdit
<1>5. CASE UNCHANGED notesVars
  BY <1>5 DEF notesVars, NotesInv, NotesTypeOK, NoLostEdit, VersionNow
<1> QED  BY <1>2, <1>3, <1>4, <1>5

LEMMA NotesInvHolds ==
  ASSUME NotesAssumption
  PROVE  NotesInit /\ [][NotesNext]_notesVars => []NotesInv
<1>1. NotesInit => NotesInv
  <2> SUFFICES ASSUME NotesInit
               PROVE  NotesInv
    OBVIOUS
  <2>1. versions \in Seq([body : Body, read : Nat, guarded : BOOLEAN]) /\ VersionNow = 0
    BY DEF NotesInit, VersionNow
  <2>2. DOMAIN txn = Writers \cup {Curation} /\ \A w \in DOMAIN txn : txn[w] = NoTxn
    BY DEF NotesInit
  <2>3. graph \in [state : Blocks, stale : SUBSET Threads]
    BY DEF NotesInit
  <2>4. seen \in [Writers -> 0..VersionNow] /\ writes \in 0..MaxWrites /\ moves \in 0..MaxMoves
    BY <2>1 DEF NotesInit, NotesAssumption
  <2> QED  BY <2>1, <2>2, <2>3, <2>4 DEF NotesInv, NotesTypeOK, NoLostEdit
<1>2. NotesInv /\ [NotesNext]_notesVars => NotesInv'
  <2> SUFFICES ASSUME NotesInv, [NotesNext]_notesVars
               PROVE  NotesInv'
    OBVIOUS
  <2>1. \A w \in Writers \cup {Curation} : w \in DOMAIN txn
    BY DEF NotesInv
  <2> QED  BY <2>1, PutKeepsNotes, CurationKeepsNotes, CommitKeepsNotes, OthersKeepNotes
              DEF NotesNext, CurationRuns
<1> QED  BY <1>1, <1>2, PTL

\* put_note, patch_section and the nightly curation: in every behaviour a guarded version
\* was made from the version right before it.
THEOREM NoLostEditHolds ==
  ASSUME NotesAssumption
  PROVE  NotesSpec => []NoLostEdit
<1>1. NotesInv => NoLostEdit
  BY DEF NotesInv
<1> QED  BY <1>1, NotesInvHolds, PTL DEF NotesSpec


-----------------------------------------------------------------------------
(* Sources: the events a sync has written are of rows it holds locked, so no *)
(* other transaction writes them; and of one sync at a time, what is stored  *)
(* and not folded belongs to a row that stays declined.                      *)

Document == [event : Events, text : Blobs]
HasDoc(docs, e) == \E d \in 1..Len(docs) : docs[d].event = e
ToldOnce(docs) == \A d, e \in 1..Len(docs) : docs[d].event = docs[e].event => d = e
TreeOK(tree) == DOMAIN tree \subseteq RepoPaths /\ \A p \in DOMAIN tree : tree[p] \in Blobs

TransactionOK(t) ==
  /\ DOMAIN t = {"phase", "tree", "items", "rows", "queue", "fresh", "docs"}
  /\ t.queue \subseteq DOMAIN t.tree /\ DOMAIN t.items \subseteq RepoPaths
  /\ t.fresh \subseteq Events /\ \A e \in t.fresh : \E p \in DOMAIN t.items : \E b \in Blobs : e = <<p, b>>
  /\ t.docs \in Seq(Document) /\ ToldOnce(t.docs) /\ \A d \in 1..Len(t.docs) : t.docs[d].event \in t.fresh

DocumentsInv ==
  /\ world \in [AllPaths -> Blobs \cup {NoBlob}]
  /\ documents \in Seq(Document) /\ ToldOnce(documents)
  /\ \A d \in 1..Len(documents) : documents[d].event \in stored
  /\ DOMAIN sync = Syncers
  /\ \A s \in Syncers :
       /\ sync[s].phase \in {"idle", "listed", "read", "writing"}
       /\ sync[s].phase # "idle" => TreeOK(sync[s].tree)
       /\ sync[s].phase = "writing" => TransactionOK(sync[s]) /\ sync[s].fresh \cap stored = {}
  /\ \A s, o \in Syncers : s # o => Touched(s) \cap Touched(o) = {}

\* A document more, of an event not told before: still each event once.
LEMMA OneMoreDocument ==
  ASSUME NEW docs \in Seq(Document), ToldOnce(docs), NEW doc \in Document, ~HasDoc(docs, doc.event)
  PROVE  /\ Append(docs, doc) \in Seq(Document) /\ ToldOnce(Append(docs, doc))
         /\ \A e : HasDoc(Append(docs, doc), e) <=> HasDoc(docs, e) \/ e = doc.event
<1> DEFINE new == Append(docs, doc)
           n == Len(docs)
<1> HIDE DEF new
<1>1. /\ new \in Seq(Document) /\ Len(new) = n + 1 /\ n \in Nat
      /\ \A i \in 1..n : new[i] = docs[i]
      /\ new[n + 1] = doc
  BY DEF new
<1>2. \A i \in 1..(n + 1) : i = n + 1 \/ i \in 1..n
  BY <1>1
<1>3. 1..n \subseteq 1..(n + 1) /\ n + 1 \in 1..(n + 1)
  BY <1>1
<1>4. ToldOnce(new)
  BY <1>1, <1>2 DEF ToldOnce, HasDoc
<1>5. \A e : HasDoc(new, e) <=> HasDoc(docs, e) \/ e = doc.event
  BY <1>1, <1>2, <1>3 DEF HasDoc
<1> QED  BY <1>1, <1>4, <1>5 DEF new

\* Two lists of documents of different events.
LEMMA DocumentsTogether ==
  ASSUME NEW old \in Seq(Document), ToldOnce(old), NEW new \in Seq(Document), ToldOnce(new),
         \A d \in 1..Len(new) : ~HasDoc(old, new[d].event)
  PROVE  /\ old \o new \in Seq(Document) /\ ToldOnce(old \o new)
         /\ \A e : HasDoc(old \o new, e) <=> HasDoc(old, e) \/ HasDoc(new, e)
<1> DEFINE all == old \o new
           n == Len(old)
           m == Len(new)
<1> HIDE DEF all
<1>1. /\ all \in Seq(Document) /\ Len(all) = n + m /\ n \in Nat /\ m \in Nat
      /\ \A i \in 1..n : all[i] = old[i]
      /\ \A i \in 1..m : all[n + i] = new[i]
  BY DEF all
<1>2. \A i \in 1..(n + m) : i \in 1..n \/ (i - n \in 1..m /\ i = n + (i - n))
  BY <1>1
<1>3. (\A i \in 1..n : i \in 1..(n + m)) /\ (\A i \in 1..m : n + i \in 1..(n + m))
  BY <1>1
<1>4. \A i \in 1..(n + m) : i \in 1..n \/ (i - n \in 1..m /\ all[i] = new[i - n])
  BY <1>1, <1>2
<1>5. ToldOnce(all)
  <2> SUFFICES ASSUME NEW i \in 1..(n + m), NEW j \in 1..(n + m), all[i].event = all[j].event
               PROVE  i = j
    BY <1>1 DEF ToldOnce
  <2>1. CASE i \in 1..n /\ j \in 1..n
    BY <1>1, <2>1 DEF ToldOnce
  <2>2. CASE i \notin 1..n /\ j \notin 1..n
    <3>1. i - n \in 1..m /\ j - n \in 1..m /\ new[i - n].event = new[j - n].event
      BY <1>4, <2>2
    <3>2. i - n = j - n
      BY <3>1 DEF ToldOnce
    <3> QED  BY <1>1, <3>2
  <2>3. CASE i \in 1..n /\ j \notin 1..n
    BY <1>1, <1>4, <2>3 DEF HasDoc
  <2>4. CASE i \notin 1..n /\ j \in 1..n
    BY <1>1, <1>4, <2>4 DEF HasDoc
  <2> QED  BY <2>1, <2>2, <2>3, <2>4
<1>6. ASSUME NEW e
      PROVE  HasDoc(all, e) <=> HasDoc(old, e) \/ HasDoc(new, e)
  <2>1. ASSUME NEW i \in 1..n, old[i].event = e
        PROVE  HasDoc(all, e)
    <3>1. i \in 1..Len(all) /\ all[i].event = e
      BY <1>1, <1>3, <2>1
    <3> QED  BY <3>1 DEF HasDoc
  <2>2. ASSUME NEW i \in 1..m, new[i].event = e
        PROVE  HasDoc(all, e)
    <3>1. n + i \in 1..Len(all) /\ all[n + i].event = e
      BY <1>1, <1>3, <2>2
    <3> QED  BY <3>1 DEF HasDoc
  <2>3. ASSUME NEW i \in 1..Len(all), all[i].event = e
        PROVE  HasDoc(old, e) \/ HasDoc(new, e)
    <3>1. CASE i \in 1..n
      BY <1>1, <2>3, <3>1 DEF HasDoc
    <3>2. CASE i \notin 1..n
      <4>1. i - n \in 1..m /\ new[i - n].event = e
        BY <1>1, <1>4, <2>3, <3>2
      <4> QED  BY <4>1 DEF HasDoc
    <3> QED  BY <3>1, <3>2
  <2> QED  BY <2>1, <2>2, <2>3 DEF HasDoc
<1> QED  BY <1>1, <1>5, <1>6 DEF all

\* admit: what is folded is stored, what is stored is new, and an item ends admitted
\* with its event or declined.
LEMMA AdmissionFacts ==
  \A p, i, b, event, known : \A a \in Admissions(p, i, b, event, known) :
    /\ a.stores \in BOOLEAN /\ a.folds \in BOOLEAN
    /\ a.folds => a.stores
    /\ a.stores => event \notin known
    /\ \/ a.item = [i EXCEPT !.declined = TRUE] /\ ~a.folds
       \/ a.item = [i EXCEPT !.admitted = TRUE, !.doc = event] /\ (a.folds \/ event \in known)
<1> SUFFICES ASSUME NEW p, NEW i, NEW b, NEW event, NEW known,
                    NEW a \in Admissions(p, i, b, event, known)
             PROVE  /\ a.stores \in BOOLEAN /\ a.folds \in BOOLEAN
                    /\ a.folds => a.stores
                    /\ a.stores => event \notin known
                    /\ \/ a.item = [i EXCEPT !.declined = TRUE] /\ ~a.folds
                       \/ a.item = [i EXCEPT !.admitted = TRUE, !.doc = event]
                            /\ (a.folds \/ event \in known)
  OBVIOUS
<1> DEFINE declined == [i EXCEPT !.declined = TRUE]
           admitted == [i EXCEPT !.admitted = TRUE, !.doc = event]
<1> HIDE DEF declined, admitted
<1>1. \/ a = [item |-> declined, stores |-> FALSE, folds |-> FALSE]
      \/ event \in known /\ a = [item |-> admitted, stores |-> FALSE, folds |-> FALSE]
      \/ event \notin known /\ a = [item |-> admitted, stores |-> TRUE, folds |-> TRUE]
      \/ event \notin known /\ a = [item |-> declined, stores |-> TRUE, folds |-> FALSE]
  BY DEF Admissions, declined, admitted
<1>2. /\ a.stores \in BOOLEAN /\ a.folds \in BOOLEAN /\ (a.folds => a.stores)
      /\ a.stores => event \notin known
      /\ \/ a.item = declined /\ ~a.folds
         \/ a.item = admitted /\ (a.folds \/ event \in known)
  <2>1. CASE a = [item |-> declined, stores |-> FALSE, folds |-> FALSE]
    BY <2>1
  <2>2. CASE event \in known /\ a = [item |-> admitted, stores |-> FALSE, folds |-> FALSE]
    BY <2>2
  <2>3. CASE event \notin known /\ a = [item |-> admitted, stores |-> TRUE, folds |-> TRUE]
    BY <2>3
  <2>4. CASE event \notin known /\ a = [item |-> declined, stores |-> TRUE, folds |-> FALSE]
    BY <2>4
  <2> QED  BY <1>1, <2>1, <2>2, <2>3, <2>4
<1> QED  BY <1>2 DEF declined, admitted

\* A step of one sync, that stores nothing and leaves the documents.
LEMMA QuietStepKeepsDocuments ==
  ASSUME DocumentsInv, NEW s \in Syncers, UNCHANGED <<world, stored, documents>>,
         DOMAIN sync' = Syncers, \A o \in Syncers : o # s => sync'[o] = sync[o],
         /\ sync'[s].phase \in {"idle", "listed", "read", "writing"}
         /\ sync'[s].phase # "idle" => TreeOK(sync'[s].tree)
         /\ sync'[s].phase = "writing" => TransactionOK(sync'[s]) /\ sync'[s].fresh \cap stored = {},
         sync'[s].phase = "writing" => \A o \in Syncers : o # s => Touched(o) \cap DOMAIN sync'[s].items = {}
  PROVE  DocumentsInv'
<1>1. \A o \in Syncers : o # s => Touched(o)' = Touched(o)
  BY DEF Touched
<1>2. Touched(s)' = IF sync'[s].phase = "writing" THEN DOMAIN sync'[s].items ELSE {}
  BY DEF Touched
<1>3. \A o \in Syncers : o # s => Touched(s)' \cap Touched(o)' = {}
  BY <1>1, <1>2
<1>4. \A o, q \in Syncers : o # q => Touched(o)' \cap Touched(q)' = {}
  BY <1>1, <1>3 DEF DocumentsInv
<1>5. \A o \in Syncers :
       /\ sync'[o].phase \in {"idle", "listed", "read", "writing"}
       /\ sync'[o].phase # "idle" => TreeOK(sync'[o].tree)
       /\ sync'[o].phase = "writing" => TransactionOK(sync'[o]) /\ sync'[o].fresh \cap stored = {}
  BY DEF DocumentsInv
<1> QED  BY <1>4, <1>5 DEF DocumentsInv

LEMMA FlushKeepsDocuments ==
  ASSUME DocumentsInv, NEW s \in Syncers, FlushItems(s)
  PROVE  DocumentsInv'
<1> DEFINE tree == sync[s].tree
           rows == sync[s].rows
           changed == ChangedItems(tree, rows)
           reset(p) == [rows[p] EXCEPT !.admitted = FALSE, !.declined = FALSE]
           after == [p \in AllPaths |-> IF p \notin changed THEN rows[p]
                                         ELSE IF rows[p] = NoItem THEN ColdItem ELSE reset(p)]
           clash == \E p \in changed : rows[p] = NoItem /\ item[p] # NoItem
           begun == [phase |-> "writing", tree |-> tree,
                     items |-> [p \in changed |-> [row |-> after[p], columns |-> Differing(rows[p], after[p])]],
                     rows |-> after,
                     queue |-> ColdToAdmit(tree, after), fresh |-> {}, docs |-> <<>>]
<1>1. /\ sync[s].phase = "read" /\ FreeFor(s, changed) /\ UNCHANGED <<world, item, stored, documents>>
      /\ sync' = [sync EXCEPT ![s] = IF clash THEN NoSync ELSE begun]
  BY DEF FlushItems
<1>2. TreeOK(tree) /\ changed \subseteq DOMAIN tree
  BY <1>1 DEF DocumentsInv, ChangedItems
<1> HIDE DEF after, clash, changed
<1>3. ColdToAdmit(tree, after) \subseteq DOMAIN tree
  BY DEF ColdToAdmit, FirstOf
<1>4. /\ begun.phase = "writing" /\ begun.tree = tree /\ DOMAIN begun.items = changed
      /\ begun.fresh = {} /\ begun.docs = <<>> /\ begun.queue = ColdToAdmit(tree, after)
      /\ DOMAIN begun = {"phase", "tree", "items", "rows", "queue", "fresh", "docs"}
  OBVIOUS
<1> HIDE DEF begun
<1>5. TransactionOK(begun)
  BY <1>2, <1>3, <1>4 DEF TransactionOK, TreeOK, ToldOnce
<1>6. /\ DOMAIN sync' = Syncers /\ \A o \in Syncers : o # s => sync'[o] = sync[o]
      /\ sync'[s] = NoSync \/ sync'[s] = begun
  BY <1>1 DEF DocumentsInv
<1>7. \A o \in Syncers : o # s => Touched(o) \cap changed = {}
  BY <1>1 DEF FreeFor
<1> QED  BY <1>1, <1>2, <1>4, <1>5, <1>6, <1>7, QuietStepKeepsDocuments DEF NoSync

\* One cold item admitted: its row is locked, and its event, if stored, was not.
LEMMA AdmitKeepsDocuments ==
  ASSUME SourcesAssumption, DocumentsInv, NEW s \in Syncers, AdmitNext(s)
  PROVE  DocumentsInv'
<1> DEFINE t == sync[s]
           p == Min(t.queue)
           b == world[p]
           event == EventOf(p, t.tree[p])
<1>1. t.phase = "writing" /\ t.queue # {} /\ TransactionOK(t) /\ TreeOK(t.tree) /\ t.fresh \cap stored = {}
  BY DEF AdmitNext, DocumentsInv
<1>2. /\ FreeFor(s, {p}) /\ UNCHANGED <<world, item, stored, documents, pushes>>
      /\ \/ sync' = [sync EXCEPT ![s] = NoSync]
         \/ b # NoBlob /\ \E a \in Admissions(p, t.rows[p], b, event, stored \cup t.fresh) :
             sync' = [sync EXCEPT ![s] =
                  [t EXCEPT !.queue = @ \ {p},
                            !.items = Wrote(@, p, t.rows[p], a.item),
                            !.fresh = IF a.stores THEN @ \cup {event} ELSE @,
                            !.docs = IF a.folds THEN Append(@, [event |-> event, text |-> b]) ELSE @]]
  BY DEF AdmitNext
<1>3. p \in t.queue
  <2>1. t.queue \in SUBSET Nat
    BY <1>1 DEF TransactionOK, TreeOK, SourcesAssumption
  <2>2. \E x \in t.queue : \A y \in t.queue : x <= y
    BY <1>1, <2>1, LeastNatural
  <2> QED  BY <2>2 DEF Min
<1>4. p \in RepoPaths /\ p \in AllPaths /\ t.tree[p] \in Blobs /\ event = <<p, t.tree[p]>>
      /\ event \in Events
  <2>1. p \in RepoPaths /\ p \in AllPaths /\ t.tree[p] \in Blobs
    BY <1>1, <1>3 DEF TransactionOK, TreeOK, AllPaths
  <2> QED  BY <2>1 DEF EventOf, Events
<1>5. CASE sync' = [sync EXCEPT ![s] = NoSync]
  <2>1. /\ DOMAIN sync' = Syncers /\ \A o \in Syncers : o # s => sync'[o] = sync[o]
        /\ sync'[s].phase = "idle"
    BY <1>5 DEF DocumentsInv, NoSync
  <2> QED  BY <1>2, <2>1, QuietStepKeepsDocuments
<1>6. ASSUME b # NoBlob, NEW a \in Admissions(p, t.rows[p], b, event, stored \cup t.fresh),
             sync' = [sync EXCEPT ![s] =
                  [t EXCEPT !.queue = @ \ {p},
                            !.items = Wrote(@, p, t.rows[p], a.item),
                            !.fresh = IF a.stores THEN @ \cup {event} ELSE @,
                            !.docs = IF a.folds THEN Append(@, [event |-> event, text |-> b]) ELSE @]]
      PROVE  DocumentsInv'
  <2> DEFINE doc == [event |-> event, text |-> b]
             items == Wrote(t.items, p, t.rows[p], a.item)
             fresh == IF a.stores THEN t.fresh \cup {event} ELSE t.fresh
             docs == IF a.folds THEN Append(t.docs, doc) ELSE t.docs
             new == [t EXCEPT !.queue = t.queue \ {p}, !.items = items, !.fresh = fresh, !.docs = docs]
  <2>1. a.stores \in BOOLEAN /\ a.folds \in BOOLEAN /\ (a.folds => a.stores)
        /\ (a.stores => event \notin stored \cup t.fresh)
    <3> HIDE DEF t, p, b, event
    <3> QED  BY AdmissionFacts
  <2>2. doc \in Document /\ doc.event = event
    BY <1>4, <1>6 DEF DocumentsInv, Document
  <2>3. DOMAIN items = DOMAIN t.items \cup {p}
    BY DEF Wrote
  <2>4. sync' = [sync EXCEPT ![s] = new]
    BY <1>6
  <2>5. docs \in Seq(Document) /\ ToldOnce(docs) /\ \A d \in 1..Len(docs) : docs[d].event \in fresh
    <3>1. t.docs \in Seq(Document) /\ ToldOnce(t.docs) /\ \A d \in 1..Len(t.docs) : t.docs[d].event \in t.fresh
      BY <1>1 DEF TransactionOK
    <3>2. CASE a.folds
      <4>1. ~HasDoc(t.docs, doc.event)
        BY <2>1, <2>2, <3>1, <3>2 DEF HasDoc
      <4>2. Append(t.docs, doc) \in Seq(Document) /\ ToldOnce(Append(t.docs, doc))
            /\ \A e : HasDoc(Append(t.docs, doc), e) <=> HasDoc(t.docs, e) \/ e = doc.event
        BY <2>2, <3>1, <4>1, OneMoreDocument
      <4>3. docs = Append(t.docs, doc) /\ fresh = t.fresh \cup {event}
        BY <2>1, <3>2
      <4> HIDE DEF doc, docs, fresh
      <4>4. \A d \in 1..Len(docs) : HasDoc(docs, docs[d].event)
        BY DEF HasDoc
      <4>5. \A e : HasDoc(t.docs, e) => e \in t.fresh
        BY <3>1 DEF HasDoc
      <4> QED  BY <2>2, <4>2, <4>3, <4>4, <4>5
    <3>3. CASE ~a.folds
      BY <3>1, <3>3
    <3> QED  BY <3>2, <3>3, <2>1
  <2>6. /\ fresh \subseteq Events /\ fresh \cap stored = {}
        /\ \A e \in fresh : \E q \in DOMAIN items : \E c \in Blobs : e = <<q, c>>
    <3>1. /\ t.fresh \subseteq Events
          /\ \A e \in t.fresh : \E q \in DOMAIN t.items : \E c \in Blobs : e = <<q, c>>
      BY <1>1 DEF TransactionOK
    <3> HIDE DEF items
    <3>2. fresh \subseteq Events /\ fresh \cap stored = {}
      BY <1>1, <1>4, <2>1, <2>3, <3>1
    <3>3. \A e \in fresh : \E q \in DOMAIN items : \E c \in Blobs : e = <<q, c>>
      BY <1>1, <1>4, <2>1, <2>3, <3>1
    <3> QED  BY <3>2, <3>3
  <2>7. p \in DOMAIN t.tree /\ t.queue \subseteq DOMAIN t.tree /\ DOMAIN t.items \subseteq RepoPaths
    BY <1>1, <1>3 DEF TransactionOK
  <2> HIDE DEF items, fresh, docs, doc
  <2>8. /\ new.phase = "writing" /\ new.tree = t.tree /\ new.queue = t.queue \ {p} /\ new.items = items
        /\ new.fresh = fresh /\ new.docs = docs
        /\ DOMAIN new = {"phase", "tree", "items", "rows", "queue", "fresh", "docs"}
    BY <1>1 DEF TransactionOK
  <2> HIDE DEF new
  <2>9. TransactionOK(new)
    BY <1>4, <2>3, <2>5, <2>6, <2>7, <2>8 DEF TransactionOK
  <2>10. /\ DOMAIN sync' = Syncers /\ \A o \in Syncers : o # s => sync'[o] = sync[o]
         /\ sync'[s] = new
    BY <2>4 DEF DocumentsInv
  <2>11. \A o \in Syncers : o # s => Touched(o) \cap DOMAIN new.items = {}
    <3>1. Touched(s) = DOMAIN t.items
      BY <1>1 DEF Touched
    <3>2. \A o \in Syncers : o # s => Touched(o) \cap Touched(s) = {} /\ Touched(o) \cap {p} = {}
      BY <1>2 DEF DocumentsInv, FreeFor
    <3> QED  BY <2>3, <2>8, <3>1, <3>2
  <2>12. /\ sync'[s].phase = "writing" /\ TreeOK(sync'[s].tree) /\ TransactionOK(sync'[s])
         /\ sync'[s].fresh \cap stored = {}
         /\ \A o \in Syncers : o # s => Touched(o) \cap DOMAIN sync'[s].items = {}
    BY <1>1, <2>6, <2>8, <2>9, <2>10, <2>11
  <2>13. UNCHANGED <<world, stored, documents>>
    BY <1>2
  <2> HIDE DEF p, t, b, event
  <2> QED  BY <2>10, <2>12, <2>13, QuietStepKeepsDocuments
<1> QED  BY <1>2, <1>5, <1>6

\* The end of a sync: its events are of no other transaction's rows.
LEMMA CommitKeepsDocuments ==
  ASSUME DocumentsInv, NEW s \in Syncers, CommitSync(s)
  PROVE  DocumentsInv'
<1> DEFINE t == sync[s]
<1>1. /\ t.phase = "writing" /\ TransactionOK(t) /\ t.fresh \cap stored = {}
      /\ stored' = stored \cup t.fresh /\ documents' = documents \o t.docs
      /\ sync' = [sync EXCEPT ![s] = NoSync] /\ world' = world
  BY DEF CommitSync, DocumentsInv
<1>2. /\ documents \in Seq(Document) /\ ToldOnce(documents) /\ t.docs \in Seq(Document) /\ ToldOnce(t.docs)
      /\ \A d \in 1..Len(documents) : documents[d].event \in stored
      /\ \A d \in 1..Len(t.docs) : t.docs[d].event \in t.fresh
  BY <1>1 DEF TransactionOK, DocumentsInv
<1>3. \A d \in 1..Len(t.docs) : ~HasDoc(documents, t.docs[d].event)
  BY <1>1, <1>2 DEF HasDoc
<1>4. /\ documents' \in Seq(Document) /\ ToldOnce(documents')
      /\ \A e : HasDoc(documents', e) <=> HasDoc(documents, e) \/ HasDoc(t.docs, e)
  BY <1>1, <1>2, <1>3, DocumentsTogether
<1>5. \A d \in 1..Len(documents') : documents'[d].event \in stored'
  <2>1. \A d \in 1..Len(documents') : HasDoc(documents', documents'[d].event)
    BY DEF HasDoc
  <2>2. \A e : HasDoc(documents, e) \/ HasDoc(t.docs, e) => e \in stored'
    BY <1>1, <1>2 DEF HasDoc
  <2> QED  BY <1>4, <2>1, <2>2
<1>6. DOMAIN sync' = Syncers /\ sync'[s].phase = "idle" /\ \A o \in Syncers : o # s => sync'[o] = sync[o]
  BY <1>1 DEF DocumentsInv, NoSync
<1>7. Touched(s)' = {} /\ \A o \in Syncers : o # s => Touched(o)' = Touched(o)
  BY <1>6 DEF Touched
<1>8. ASSUME NEW o \in Syncers, sync'[o].phase = "writing"
      PROVE  TransactionOK(sync'[o]) /\ sync'[o].fresh \cap stored' = {}
  <2>1. o # s /\ sync'[o] = sync[o] /\ TransactionOK(sync[o]) /\ sync[o].fresh \cap stored = {}
    BY <1>6, <1>8 DEF DocumentsInv
  <2>2. DOMAIN sync[o].items \cap DOMAIN t.items = {}
    BY <1>1, <1>8, <2>1 DEF DocumentsInv, Touched
  <2>3. sync[o].fresh \cap t.fresh = {}
    BY <1>1, <2>1, <2>2 DEF TransactionOK
  <2> QED  BY <1>1, <2>1, <2>3
<1>9. \A o \in Syncers : sync'[o].phase \in {"idle", "listed", "read", "writing"}
                         /\ (sync'[o].phase # "idle" => TreeOK(sync'[o].tree))
  BY <1>6 DEF DocumentsInv
<1>10. \A o, q \in Syncers : o # q => Touched(o)' \cap Touched(q)' = {}
  BY <1>7 DEF DocumentsInv
<1> QED  BY <1>1, <1>4, <1>5, <1>6, <1>8, <1>9, <1>10 DEF DocumentsInv

\* A file of a directory, admitted for a question: its event has no blob in it.
LEMMA PromoteKeepsDocuments ==
  ASSUME SourcesAssumption, DocumentsInv, NEW p \in DiskPaths, Promote(p)
  PROVE  DocumentsInv'
<1> DEFINE b == world[p]
           event == EventOf(p, b)
           doc == [event |-> event, text |-> b]
<1>1. /\ b # NoBlob /\ UNCHANGED <<world, sync>>
      /\ \E a \in Admissions(p, item[p], b, event, stored) :
           /\ stored' = IF a.stores THEN stored \cup {event} ELSE stored
           /\ documents' = IF a.folds THEN Append(documents, doc) ELSE documents
  BY DEF Promote
<1>2. PICK a \in Admissions(p, item[p], b, event, stored) :
        /\ stored' = IF a.stores THEN stored \cup {event} ELSE stored
        /\ documents' = IF a.folds THEN Append(documents, doc) ELSE documents
  BY <1>1
<1>3. event = <<p>> /\ p \in AllPaths /\ b \in Blobs /\ event \in Events
  <2>1. p \in AllPaths /\ b \in Blobs /\ p \notin RepoPaths
    BY <1>1 DEF SourcesAssumption, AllPaths, DocumentsInv
  <2> QED  BY <2>1 DEF EventOf, Events
<1>4. a.stores \in BOOLEAN /\ a.folds \in BOOLEAN /\ (a.folds => a.stores) /\ (a.stores => event \notin stored)
  <2> HIDE DEF b, event
  <2> QED  BY AdmissionFacts
<1>5. doc \in Document /\ doc.event = event
  BY <1>3 DEF Document
<1>6. /\ documents' \in Seq(Document) /\ ToldOnce(documents')
      /\ \A d \in 1..Len(documents') : documents'[d].event \in stored'
  <2>1. CASE a.folds
    <3>1. ~HasDoc(documents, doc.event)
      BY <1>4, <1>5, <2>1 DEF HasDoc, DocumentsInv
    <3>2. documents' = Append(documents, doc) /\ stored' = stored \cup {event}
      BY <1>2, <1>4, <2>1
    <3> HIDE DEF doc, event
    <3>3. /\ documents' \in Seq(Document) /\ ToldOnce(documents')
          /\ \A e : HasDoc(documents', e) <=> HasDoc(documents, e) \/ e = doc.event
      BY <1>5, <3>1, <3>2, OneMoreDocument DEF DocumentsInv
    <3>4. \A d \in 1..Len(documents') : HasDoc(documents', documents'[d].event)
      BY DEF HasDoc
    <3>5. \A e : HasDoc(documents, e) => e \in stored
      BY DEF HasDoc, DocumentsInv
    <3> QED  BY <1>5, <3>2, <3>3, <3>4, <3>5
  <2>2. CASE ~a.folds
    BY <1>2, <1>4, <2>2 DEF DocumentsInv
  <2> QED  BY <2>1, <2>2, <1>4
<1>7. \A s \in Syncers : sync[s].phase = "writing" => sync[s].fresh \cap stored' = {}
  <2>1. \A s \in Syncers : sync[s].phase = "writing" => event \notin sync[s].fresh /\ sync[s].fresh \cap stored = {}
    <3>1. ASSUME NEW q, NEW c
          PROVE  <<p>> # <<q, c>>
      <4>1. Len(<<p>>) = 1 /\ Len(<<q, c>>) = 2
        OBVIOUS
      <4> QED  BY <4>1
    <3> HIDE DEF event
    <3>2. ASSUME NEW s \in Syncers, sync[s].phase = "writing", event \in sync[s].fresh
          PROVE  FALSE
      <4>1. \E q \in DOMAIN sync[s].items : \E c \in Blobs : event = <<q, c>>
        BY <3>2 DEF DocumentsInv, TransactionOK
      <4> QED  BY <1>3, <3>1, <4>1
    <3> QED  BY <3>2 DEF DocumentsInv
  <2> QED  BY <1>2, <2>1
<1> QED  BY <1>1, <1>6, <1>7 DEF DocumentsInv, Touched

LEMMA NextKeepsDocuments ==
  ASSUME SourcesAssumption, DocumentsInv, [SourcesNext]_sourcesVars
  PROVE  DocumentsInv'
<1>1. ASSUME NEW s \in Syncers, ListTree(s)
      PROVE  DocumentsInv'
  <2> DEFINE tree == [p \in {q \in RepoPaths : world[q] # NoBlob} |-> world[p]]
  <2>1. TreeOK(tree)
    BY DEF TreeOK, DocumentsInv, AllPaths
  <2> HIDE DEF tree
  <2>2. sync' = [sync EXCEPT ![s] = [phase |-> "listed", tree |-> tree]] /\ UNCHANGED <<world, stored, documents>>
    BY <1>1 DEF ListTree, tree
  <2>3. /\ DOMAIN sync' = Syncers /\ \A o \in Syncers : o # s => sync'[o] = sync[o]
        /\ sync'[s].phase = "listed" /\ sync'[s].tree = tree
    BY <2>2 DEF DocumentsInv
  <2> QED  BY <2>1, <2>2, <2>3, QuietStepKeepsDocuments
<1>2. ASSUME NEW s \in Syncers, ReadItems(s)
      PROVE  DocumentsInv'
  <2> DEFINE tree == sync[s].tree
  <2>1. TreeOK(tree)
    BY <1>2 DEF ReadItems, DocumentsInv
  <2>2. sync' = [sync EXCEPT ![s] = [phase |-> "read", tree |-> tree, rows |-> item]]
        /\ UNCHANGED <<world, stored, documents>>
    BY <1>2 DEF ReadItems
  <2> HIDE DEF tree
  <2>3. /\ DOMAIN sync' = Syncers /\ \A o \in Syncers : o # s => sync'[o] = sync[o]
        /\ sync'[s].phase = "read" /\ sync'[s].tree = tree
    BY <2>2 DEF DocumentsInv
  <2> QED  BY <2>1, <2>2, <2>3, QuietStepKeepsDocuments
<1>3. ASSUME NEW s \in Syncers, SyncFails(s)
      PROVE  DocumentsInv'
  <2>1. /\ DOMAIN sync' = Syncers /\ \A o \in Syncers : o # s => sync'[o] = sync[o]
        /\ sync'[s].phase = "idle" /\ UNCHANGED <<world, stored, documents>>
    BY <1>3 DEF SyncFails, DocumentsInv, NoSync
  <2> QED  BY <2>1, QuietStepKeepsDocuments
<1>4. CASE Push
  <2>1. world' \in [AllPaths -> Blobs \cup {NoBlob}] /\ UNCHANGED <<item, stored, documents, sync>>
    BY <1>4 DEF Push, DocumentsInv
  <2> QED  BY <2>1 DEF DocumentsInv, Touched
<1>5. CASE RegisterFiles \/ UNCHANGED sourcesVars
  BY <1>5 DEF RegisterFiles, sourcesVars, DocumentsInv, Touched
<1> QED  BY <1>1, <1>2, <1>3, <1>4, <1>5, FlushKeepsDocuments, AdmitKeepsDocuments, CommitKeepsDocuments,
            PromoteKeepsDocuments DEF SourcesNext, SyncSteps

LEMMA InitHasNoDocuments ==
  ASSUME SourcesInit
  PROVE  DocumentsInv
<1>1. documents = <<>> /\ \A s \in Syncers : sync[s].phase = "idle"
  BY DEF SourcesInit, NoSync
<1>2. <<>> \in Seq(Document) /\ ToldOnce(<<>>)
  BY DEF ToldOnce
<1> QED  BY <1>1, <1>2 DEF SourcesInit, DocumentsInv, Touched


-----------------------------------------------------------------------------
(* Sources, one sync at a time: no row of the repository changes under a     *)
(* transaction, so what it commits is what it decided; an id that is stored  *)
(* has its document, or its row was declined and stays so.                   *)

Columns == {"admitted", "doc", "declined"}
KnownRow(r) ==
  DOMAIN r = Columns /\ r.admitted \in BOOLEAN /\ r.declined \in BOOLEAN /\ ~(r.admitted /\ r.declined)
Declined(r) == r # NoItem /\ r.declined

RowsOK(rows, docs, ids) ==
  /\ DOMAIN rows = AllPaths
  /\ \A p \in AllPaths : rows[p] = NoItem \/ KnownRow(rows[p])
  /\ \A p \in AllPaths : rows[p].admitted => HasDoc(docs, rows[p].doc)
  /\ \A e \in ids : e[1] \in AllPaths /\ (HasDoc(docs, e) \/ Declined(rows[e[1]]))

WrittenRow(t, rows, p) == IF p \in DOMAIN t.items THEN t.items[p].row ELSE rows[p]

WriteOK(w, row, docs, more) ==
  /\ KnownRow(w.row)
  /\ w.row.admitted => HasDoc(docs, w.row.doc) \/ HasDoc(more, w.row.doc)
  /\ row # NoItem => \A c \in Columns \ w.columns : w.row[c] = row[c]

WritesOK(t, rows, docs) ==
  /\ \A p \in DOMAIN t.items \cup t.queue : ~Declined(rows[p])
  /\ \A p \in DOMAIN t.items : WriteOK(t.items[p], rows[p], docs, t.docs)
  /\ \A p \in t.queue : /\ t.rows[p] = WrittenRow(t, rows, p) /\ KnownRow(t.rows[p])
                        /\ ~t.rows[p].admitted /\ ~t.rows[p].declined
  /\ \A e \in t.fresh : /\ e[1] \in DOMAIN t.items \ t.queue
                        /\ HasDoc(t.docs, e) \/ t.items[e[1]].row.declined

CatalogueInv ==
  /\ RowsOK(item, documents, stored)
  /\ \A s \in Syncers :
       /\ sync[s].phase = "read" => \A p \in RepoPaths : sync[s].rows[p] = item[p]
       /\ sync[s].phase = "writing" => WritesOK(sync[s], item, documents)

\* What a transaction has written stands when the rows of its repository do.
LEMMA WritesStand ==
  \A t, rows, now, docs, later :
    (/\ WritesOK(t, rows, docs) /\ DOMAIN t.items \cup t.queue \subseteq RepoPaths
     /\ \A p \in RepoPaths : now[p] = rows[p]
     /\ \A e : HasDoc(docs, e) => HasDoc(later, e))
    => WritesOK(t, now, later)
<1> SUFFICES ASSUME NEW t, NEW rows, NEW now, NEW docs, NEW later,
                    WritesOK(t, rows, docs), DOMAIN t.items \cup t.queue \subseteq RepoPaths,
                    \A p \in RepoPaths : now[p] = rows[p], \A e : HasDoc(docs, e) => HasDoc(later, e)
             PROVE  WritesOK(t, now, later)
  OBVIOUS
<1>1. \A p \in DOMAIN t.items : WriteOK(t.items[p], now[p], later, t.docs)
  BY DEF WritesOK, WriteOK
<1>2. \A p \in DOMAIN t.items \cup t.queue : now[p] = rows[p] /\ WrittenRow(t, now, p) = WrittenRow(t, rows, p)
  BY DEF WrittenRow
<1> QED  BY <1>1, <1>2 DEF WritesOK

\* A step of the only sync, that leaves the rows and the documents.
LEMMA OneSyncKeepsCatalogue ==
  ASSUME CatalogueInv, \A s, o \in Syncers : s = o, NEW s \in Syncers, UNCHANGED <<item, stored, documents>>,
         sync'[s].phase = "read" => \A p \in RepoPaths : sync'[s].rows[p] = item[p],
         sync'[s].phase = "writing" => WritesOK(sync'[s], item, documents)
  PROVE  CatalogueInv'
<1>1. \A o \in Syncers : /\ sync'[o].phase = "read" => \A p \in RepoPaths : sync'[o].rows[p] = item[p]
                         /\ sync'[o].phase = "writing" => WritesOK(sync'[o], item, documents)
  OBVIOUS
<1> QED  BY <1>1 DEF CatalogueInv

\* A step beside the syncs, that leaves the rows of the repository.
LEMMA DirectoryKeepsCatalogue ==
  ASSUME DocumentsInv, CatalogueInv, UNCHANGED sync, \A p \in RepoPaths : item'[p] = item[p],
         \A e : HasDoc(documents, e) => HasDoc(documents', e), RowsOK(item', documents', stored')
  PROVE  CatalogueInv'
<1>1. ASSUME NEW s \in Syncers, sync[s].phase = "writing"
      PROVE  WritesOK(sync[s], item', documents')
  <2>1. WritesOK(sync[s], item, documents) /\ DOMAIN sync[s].items \cup sync[s].queue \subseteq RepoPaths
    BY <1>1 DEF CatalogueInv, DocumentsInv, TransactionOK, TreeOK
  <2> QED  BY <2>1, WritesStand
<1>2. \A s \in Syncers : sync[s].phase = "read" => \A p \in RepoPaths : sync[s].rows[p] = item'[p]
  BY DEF CatalogueInv
<1> QED  BY <1>1, <1>2 DEF CatalogueInv

\* RegisterFiles makes cold rows where there was none.
LEMMA RegisterKeepsCatalogue ==
  ASSUME SourcesAssumption, DocumentsInv, CatalogueInv, RegisterFiles
  PROVE  CatalogueInv'
<1>1. /\ item' = [p \in AllPaths |->
                IF p \in DiskPaths /\ item[p] = NoItem /\ world[p] # NoBlob THEN ColdItem ELSE item[p]]
      /\ UNCHANGED <<stored, documents, sync>>
  BY DEF RegisterFiles
<1>2. KnownRow(ColdItem) /\ ~ColdItem.admitted
  BY DEF KnownRow, ColdItem, Columns
<1>3. \A p \in RepoPaths : p \in AllPaths /\ p \notin DiskPaths
  BY DEF SourcesAssumption, AllPaths
<1> HIDE DEF ColdItem, NoItem
<1>4. \A p \in AllPaths : item'[p] = item[p] \/ (item[p] = NoItem /\ item'[p] = ColdItem)
  BY <1>1
<1>5. RowsOK(item', documents, stored)
  <2>1. DOMAIN item = AllPaths /\ DOMAIN item' = AllPaths
    BY <1>1 DEF CatalogueInv, RowsOK
  <2>2. \A p \in AllPaths : /\ item'[p] = NoItem \/ KnownRow(item'[p])
                            /\ item'[p].admitted => HasDoc(documents, item'[p].doc)
    BY <1>2, <1>4 DEF CatalogueInv, RowsOK
  <2>3. \A e \in stored : e[1] \in AllPaths /\ (HasDoc(documents, e) \/ Declined(item'[e[1]]))
    BY <1>4 DEF CatalogueInv, RowsOK, Declined
  <2> QED  BY <2>1, <2>2, <2>3 DEF RowsOK
<1> QED  BY <1>1, <1>3, <1>5, DirectoryKeepsCatalogue

\* A file of a directory: an id that is stored has its document, for the row is cold.
LEMMA PromoteKeepsCatalogue ==
  ASSUME SourcesAssumption, DocumentsInv, CatalogueInv, NEW p \in DiskPaths, Promote(p)
  PROVE  CatalogueInv'
<1> DEFINE b == world[p]
           event == EventOf(p, b)
           doc == [event |-> event, text |-> b]
           r == item[p]
<1>1. PICK a \in Admissions(p, r, b, event, stored) :
        /\ item' = [item EXCEPT ![p] = a.item]
        /\ stored' = IF a.stores THEN stored \cup {event} ELSE stored
        /\ documents' = IF a.folds THEN Append(documents, doc) ELSE documents
  BY DEF Promote
<1>2. UNCHANGED <<world, sync>> /\ r # NoItem /\ ~r.admitted /\ ~r.declined /\ b # NoBlob
  BY DEF Promote
<1>3. p \in AllPaths /\ b \in Blobs /\ p \notin RepoPaths
  BY <1>2 DEF SourcesAssumption, AllPaths, DocumentsInv
<1>4. event \in Events /\ event[1] = p
  BY <1>3 DEF EventOf, Events
<1>5. doc \in Document /\ doc.event = event
  <2> HIDE DEF event, b
  <2> QED  BY <1>3, <1>4 DEF Document
<1>6. KnownRow(r)
  BY <1>2, <1>3 DEF CatalogueInv, RowsOK
<1> HIDE DEF doc, event, b
<1>7. /\ a.stores \in BOOLEAN /\ a.folds \in BOOLEAN /\ (a.folds => a.stores) /\ (a.stores => event \notin stored)
      /\ \/ a.item = [r EXCEPT !.declined = TRUE] /\ ~a.folds
         \/ a.item = [r EXCEPT !.admitted = TRUE, !.doc = event] /\ (a.folds \/ event \in stored)
  BY AdmissionFacts
<1>8. \A e : HasDoc(documents', e) <=> HasDoc(documents, e) \/ (a.folds /\ e = event)
  <2>1. CASE a.folds
    <3>1. documents \in Seq(Document) /\ ToldOnce(documents) /\ ~HasDoc(documents, doc.event)
      BY <1>5, <1>7, <2>1 DEF HasDoc, DocumentsInv
    <3>2. documents' = Append(documents, doc)
      BY <1>1, <2>1
    <3> QED  BY <1>5, <2>1, <3>1, <3>2, OneMoreDocument
  <2>2. CASE ~a.folds
    BY <1>1, <2>2
  <2> QED  BY <2>1, <2>2, <1>7
<1>9. /\ KnownRow(a.item) /\ a.item # NoItem
      /\ a.item.admitted => HasDoc(documents', a.item.doc)
      /\ a.item.declined \/ HasDoc(documents', event)
  <2>1. event \in stored => HasDoc(documents, event)
    BY <1>2, <1>4 DEF CatalogueInv, RowsOK, Declined
  <2>2. KnownRow(a.item) /\ (a.item.admitted => a.item.doc = event /\ ~a.item.declined)
        /\ (a.item.admitted \/ a.item.declined) /\ (a.item.admitted => a.folds \/ event \in stored)
    BY <1>2, <1>6, <1>7 DEF KnownRow, Columns
  <2>3. a.item # NoItem
    <3>1. DOMAIN a.item = Columns /\ "absent" \in DOMAIN NoItem /\ "absent" \notin Columns
      BY <2>2 DEF KnownRow, Columns, NoItem
    <3> QED  BY <3>1
  <2> QED  BY <1>8, <2>1, <2>2, <2>3
<1>10. DOMAIN item = AllPaths /\ item'[p] = a.item /\ \A q \in AllPaths : q # p => item'[q] = item[q]
  BY <1>1, <1>3 DEF CatalogueInv, RowsOK
<1>11. RowsOK(item', documents', stored')
  <2>1. DOMAIN item' = AllPaths
    BY <1>1, <1>10
  <2>2. \A q \in AllPaths : /\ item'[q] = NoItem \/ KnownRow(item'[q])
                            /\ item'[q].admitted => HasDoc(documents', item'[q].doc)
    BY <1>8, <1>9, <1>10 DEF CatalogueInv, RowsOK
  <2>3. ASSUME NEW e \in stored'
        PROVE  e[1] \in AllPaths /\ (HasDoc(documents', e) \/ Declined(item'[e[1]]))
    <3>1. CASE e \in stored
      <4>1. e[1] \in AllPaths /\ (HasDoc(documents, e) \/ Declined(item[e[1]]))
        BY <3>1 DEF CatalogueInv, RowsOK
      <4>2. ~Declined(item[p])
        BY <1>2 DEF Declined
      <4> QED  BY <1>8, <1>10, <4>1, <4>2
    <3>2. CASE e = event
      BY <1>3, <1>4, <1>9, <1>10, <3>2 DEF Declined
    <3> QED  BY <1>1, <3>1, <3>2
  <2> QED  BY <2>1, <2>2, <2>3 DEF RowsOK
<1>12. \A q \in RepoPaths : item'[q] = item[q]
  BY <1>3, <1>10 DEF AllPaths
<1> QED  BY <1>2, <1>8, <1>11, <1>12, DirectoryKeepsCatalogue

\* The flush: a row it writes is new or was admitted, and one it will admit is cold.
LEMMA FlushKeepsCatalogue ==
  ASSUME SourcesAssumption, \A r, o \in Syncers : r = o, DocumentsInv, CatalogueInv,
         NEW s \in Syncers, FlushItems(s)
  PROVE  CatalogueInv'
<1> DEFINE tree == sync[s].tree
           rows == sync[s].rows
           changed == ChangedItems(tree, rows)
           reset(p) == [rows[p] EXCEPT !.admitted = FALSE, !.declined = FALSE]
           after == [p \in AllPaths |-> IF p \notin changed THEN rows[p]
                                         ELSE IF rows[p] = NoItem THEN ColdItem ELSE reset(p)]
           clash == \E p \in changed : rows[p] = NoItem /\ item[p] # NoItem
           items == [p \in changed |-> [row |-> after[p], columns |-> Differing(rows[p], after[p])]]
           queue == ColdToAdmit(tree, after)
           begun == [phase |-> "writing", tree |-> tree, items |-> items, rows |-> after,
                     queue |-> queue, fresh |-> {}, docs |-> <<>>]
<1>1. /\ sync[s].phase = "read" /\ UNCHANGED <<world, item, stored, documents>>
      /\ sync' = [sync EXCEPT ![s] = IF clash THEN NoSync ELSE begun]
  BY DEF FlushItems
<1>2. /\ DOMAIN tree \subseteq RepoPaths /\ RepoPaths \subseteq AllPaths
      /\ changed \subseteq DOMAIN tree /\ queue \subseteq DOMAIN tree
      /\ \A p \in queue : ~after[p].admitted /\ ~after[p].declined
  BY <1>1 DEF DocumentsInv, TreeOK, AllPaths, ChangedItems, ColdToAdmit, FirstOf
<1>3. \A p \in RepoPaths : rows[p] = item[p]
  BY <1>1 DEF CatalogueInv
<1>4. ASSUME NEW p \in changed
      PROVE  WriteOK(items[p], item[p], documents, <<>>) /\ ~Declined(item[p])
  <2>1. p \in AllPaths /\ rows[p] = item[p] /\ (rows[p] = NoItem \/ (KnownRow(rows[p]) /\ rows[p].admitted))
    BY <1>2, <1>3 DEF CatalogueInv, RowsOK, ChangedItems
  <2>2. ~Declined(item[p])
    BY <2>1 DEF Declined, KnownRow
  <2>3. CASE rows[p] = NoItem
    <3>1. after[p] = ColdItem
      BY <2>1, <2>3
    <3> HIDE DEF after
    <3>2. items[p].row = ColdItem
      BY <3>1
    <3>3. KnownRow(ColdItem) /\ ~ColdItem.admitted
      BY DEF KnownRow, ColdItem, Columns
    <3> HIDE DEF items
    <3> QED  BY <2>1, <2>2, <2>3, <3>2, <3>3 DEF WriteOK
  <2>4. CASE rows[p] # NoItem
    <3>1. after[p] = reset(p)
      BY <2>1, <2>4
    <3>2. KnownRow(after[p]) /\ ~after[p].admitted
      BY <2>1, <2>4, <3>1 DEF KnownRow, Columns
    <3>3. items[p].row = after[p] /\ items[p].columns = Differing(rows[p], after[p])
      OBVIOUS
    <3> HIDE DEF items, after
    <3>4. \A c \in Columns \ items[p].columns : items[p].row[c] = item[p][c]
      BY <2>1, <3>2, <3>3 DEF Differing, KnownRow
    <3> QED  BY <2>2, <3>2, <3>3, <3>4 DEF WriteOK
  <2> QED  BY <2>3, <2>4
<1>5. ASSUME NEW p \in queue
      PROVE  /\ after[p] = (IF p \in DOMAIN items THEN items[p].row ELSE item[p])
             /\ KnownRow(after[p]) /\ ~Declined(item[p])
  <2>1. p \in AllPaths /\ rows[p] = item[p] /\ (item[p] = NoItem \/ KnownRow(item[p]))
    BY <1>2, <1>3 DEF CatalogueInv, RowsOK
  <2>2. CASE p \in changed
    <3>1. p \in DOMAIN items /\ items[p].row = after[p]
      BY <2>2
    <3> HIDE DEF items, after, queue, changed
    <3> QED  BY <1>4, <2>2, <3>1 DEF WriteOK
  <2>3. CASE p \notin changed
    <3>1. after[p] = rows[p]
      BY <2>1, <2>3
    <3> HIDE DEF after, queue
    <3>2. after[p] = item[p] /\ ~item[p].declined
      BY <1>2, <2>1, <3>1
    <3>3. item[p] # NoItem
      BY <3>2 DEF NoItem
    <3>4. DOMAIN items = changed
      OBVIOUS
    <3> HIDE DEF items, changed
    <3> QED  BY <2>1, <2>3, <3>2, <3>3, <3>4 DEF Declined
  <2> QED  BY <2>2, <2>3
<1>6. /\ begun.items = items /\ begun.queue = queue /\ begun.rows = after /\ begun.fresh = {}
      /\ begun.docs = <<>> /\ begun.phase = "writing" /\ DOMAIN items = changed
  BY DEF begun
<1>7. sync'[s] = NoSync \/ sync'[s] = begun
  BY <1>1 DEF DocumentsInv
<1> HIDE DEF begun, after, items, queue, changed, clash, rows, tree
<1>8. WritesOK(begun, item, documents)
  BY <1>2, <1>4, <1>5, <1>6 DEF WritesOK, WrittenRow
<1>9. (sync'[s].phase = "read" => \A p \in RepoPaths : sync'[s].rows[p] = item[p])
      /\ (sync'[s].phase = "writing" => WritesOK(sync'[s], item, documents))
  BY <1>6, <1>7, <1>8 DEF NoSync
<1> QED  BY <1>1, <1>9, OneSyncKeepsCatalogue

\* The first cold item the sync has still to admit.
LEMMA NextToAdmit ==
  ASSUME SourcesAssumption, DocumentsInv, NEW s \in Syncers, sync[s].phase = "writing", sync[s].queue # {}
  PROVE  LET p == Min(sync[s].queue) IN
         /\ p \in sync[s].queue /\ p \in RepoPaths /\ sync[s].tree[p] \in Blobs
         /\ EventOf(p, sync[s].tree[p]) = <<p, sync[s].tree[p]>>
<1> DEFINE q == sync[s].queue
<1>1. q \subseteq RepoPaths /\ \A p \in q : sync[s].tree[p] \in Blobs
  BY DEF DocumentsInv, TransactionOK, TreeOK
<1>2. q \in SUBSET Nat
  BY <1>1 DEF SourcesAssumption
<1>3. \E x \in q : \A y \in q : x <= y
  BY <1>2, LeastNatural
<1>4. Min(q) \in q
  BY <1>3 DEF Min
<1> QED  BY <1>1, <1>4 DEF EventOf

\* One cold item: an id stored by an earlier sync has its document, for the row the
\* sync read was cold.
LEMMA AdmitKeepsCatalogue ==
  ASSUME SourcesAssumption, \A r, o \in Syncers : r = o, DocumentsInv, CatalogueInv,
         NEW s \in Syncers, AdmitNext(s)
  PROVE  CatalogueInv'
<1> DEFINE t == sync[s]
           p == Min(t.queue)
           r == t.rows[p]
           b == world[p]
           event == EventOf(p, t.tree[p])
           doc == [event |-> event, text |-> b]
           known == stored \cup t.fresh
<1>1. /\ t.phase = "writing" /\ t.queue # {} /\ UNCHANGED <<item, stored, documents>>
      /\ TransactionOK(t) /\ WritesOK(t, item, documents)
  BY DEF AdmitNext, DocumentsInv, CatalogueInv
<1>2. /\ p \in t.queue /\ p \in RepoPaths /\ t.tree[p] \in Blobs /\ event = <<p, t.tree[p]>>
  BY <1>1, NextToAdmit
<1>3. \/ sync' = [sync EXCEPT ![s] = NoSync]
      \/ b # NoBlob /\ \E a \in Admissions(p, r, b, event, known) :
             sync' = [sync EXCEPT ![s] =
                  [t EXCEPT !.queue = @ \ {p},
                            !.items = Wrote(@, p, r, a.item),
                            !.fresh = IF a.stores THEN @ \cup {event} ELSE @,
                            !.docs = IF a.folds THEN Append(@, doc) ELSE @]]
  BY DEF AdmitNext
<1>4. DOMAIN sync = Syncers
  BY DEF DocumentsInv
<1>5. CASE sync' = [sync EXCEPT ![s] = NoSync]
  <2>1. sync'[s].phase = "idle"
    BY <1>4, <1>5 DEF NoSync
  <2> QED  BY <1>1, <2>1, OneSyncKeepsCatalogue
<1>6. ASSUME b # NoBlob, NEW a \in Admissions(p, r, b, event, known),
             sync' = [sync EXCEPT ![s] =
                  [t EXCEPT !.queue = @ \ {p},
                            !.items = Wrote(@, p, r, a.item),
                            !.fresh = IF a.stores THEN @ \cup {event} ELSE @,
                            !.docs = IF a.folds THEN Append(@, doc) ELSE @]]
      PROVE  CatalogueInv'
  <2> DEFINE items == Wrote(t.items, p, r, a.item)
             fresh == IF a.stores THEN t.fresh \cup {event} ELSE t.fresh
             docs == IF a.folds THEN Append(t.docs, doc) ELSE t.docs
             new == [t EXCEPT !.queue = t.queue \ {p}, !.items = items, !.fresh = fresh, !.docs = docs]
             before == IF p \in DOMAIN t.items THEN t.items[p].columns ELSE {}
  <2>1. /\ r = WrittenRow(t, item, p) /\ KnownRow(r) /\ ~r.admitted /\ ~r.declined /\ ~Declined(item[p])
    BY <1>1, <1>2 DEF WritesOK
  <2>2. event \notin t.fresh /\ (event \in stored => HasDoc(documents, event))
    <3>1. event[1] = p
      BY <1>2
    <3> HIDE DEF event, p, t
    <3> QED  BY <1>1, <1>2, <2>1, <3>1 DEF WritesOK, CatalogueInv, RowsOK
  <2>3. /\ a.stores \in BOOLEAN /\ a.folds \in BOOLEAN /\ (a.folds => a.stores) /\ (a.stores => event \notin known)
        /\ \/ a.item = [r EXCEPT !.declined = TRUE] /\ ~a.folds
           \/ a.item = [r EXCEPT !.admitted = TRUE, !.doc = event] /\ (a.folds \/ event \in known)
    <3> HIDE DEF t, p, b, r, event, known
    <3> QED  BY AdmissionFacts
  <2>4. doc.event = event /\ b \in Blobs /\ event \in Events /\ doc \in Document
    <3>1. p \in AllPaths /\ b \in Blobs
      BY <1>2, <1>6 DEF DocumentsInv, AllPaths
    <3>2. event \in Events
      BY <1>2, <3>1 DEF EventOf, Events
    <3> HIDE DEF event, b
    <3> QED  BY <3>1, <3>2 DEF Document
  <2> HIDE DEF doc
  <2>5. \A e : HasDoc(docs, e) <=> HasDoc(t.docs, e) \/ (a.folds /\ e = event)
    <3>1. t.docs \in Seq(Document) /\ ToldOnce(t.docs) /\ ~HasDoc(t.docs, event)
      BY <1>1, <2>2 DEF TransactionOK, HasDoc
    <3>2. CASE a.folds
      <4>1. docs = Append(t.docs, doc)
        BY <3>2
      <4> HIDE DEF docs, event, t
      <4> QED  BY <2>4, <3>1, <3>2, <4>1, OneMoreDocument
    <3>3. CASE ~a.folds
      BY <3>3
    <3> QED  BY <2>3, <3>2, <3>3
  <2>6. /\ KnownRow(a.item) /\ (a.item.admitted => a.item.doc = event)
        /\ a.item.admitted \/ a.item.declined
        /\ a.item.admitted => HasDoc(documents, event) \/ HasDoc(docs, event)
        /\ a.item.declined \/ a.folds \/ event \in stored
    <3>1. a.item.admitted => a.folds \/ event \in known
      BY <2>1, <2>3 DEF KnownRow, Columns
    <3>2. KnownRow(a.item) /\ (a.item.admitted => a.item.doc = event) /\ (a.item.admitted \/ a.item.declined)
      BY <2>1, <2>3 DEF KnownRow, Columns
    <3> HIDE DEF docs, event
    <3> QED  BY <2>2, <2>5, <3>1, <3>2
  <2>7. /\ DOMAIN items = DOMAIN t.items \cup {p}
        /\ items[p].row = a.item /\ items[p].columns = before \cup Differing(r, a.item)
        /\ \A q \in DOMAIN t.items : q # p => items[q] = t.items[q]
    BY DEF Wrote
  <2> HIDE DEF items, before
  <2>8. ASSUME item[p] # NoItem, NEW c \in Columns \ items[p].columns
        PROVE  items[p].row[c] = item[p][c]
    <3>1. a.item[c] = r[c] /\ c \notin before
      BY <2>6, <2>7, <2>8 DEF Differing, KnownRow
    <3>2. CASE p \in DOMAIN t.items
      <4>1. r = t.items[p].row /\ before = t.items[p].columns /\ WriteOK(t.items[p], item[p], documents, t.docs)
        BY <1>1, <2>1, <3>2 DEF WritesOK, WrittenRow, before
      <4> HIDE DEF t, r, p
      <4> QED  BY <2>7, <2>8, <3>1, <4>1 DEF WriteOK
    <3>3. CASE p \notin DOMAIN t.items
      BY <2>1, <2>7, <3>1, <3>3 DEF WrittenRow
    <3> QED  BY <3>2, <3>3
  <2>9. \A q \in DOMAIN items : WriteOK(items[q], item[q], documents, docs) /\ ~Declined(item[q])
    <3>1. WriteOK(items[p], item[p], documents, docs)
      BY <2>6, <2>7, <2>8 DEF WriteOK
    <3>2. ASSUME NEW q \in DOMAIN t.items, q # p
          PROVE  WriteOK(items[q], item[q], documents, docs) /\ ~Declined(item[q])
      <4>1. WriteOK(t.items[q], item[q], documents, t.docs) /\ ~Declined(item[q])
        BY <1>1 DEF WritesOK
      <4> HIDE DEF docs, event, t, p
      <4> QED  BY <2>5, <2>7, <3>2, <4>1 DEF WriteOK
    <3> HIDE DEF t, p, docs
    <3> QED  BY <2>1, <2>7, <3>1, <3>2
  <2>10. \A e \in fresh : /\ e[1] \in DOMAIN items \ (t.queue \ {p})
                          /\ HasDoc(docs, e) \/ items[e[1]].row.declined
    <3>1. ASSUME NEW e \in t.fresh
          PROVE  /\ e[1] \in DOMAIN items \ (t.queue \ {p})
                 /\ HasDoc(docs, e) \/ items[e[1]].row.declined
      <4>1. e[1] \in DOMAIN t.items \ t.queue /\ (HasDoc(t.docs, e) \/ t.items[e[1]].row.declined)
        BY <1>1 DEF WritesOK
      <4>2. items[e[1]] = t.items[e[1]]
        BY <1>2, <2>7, <4>1
      <4> HIDE DEF docs, event, t, p
      <4> QED  BY <2>5, <2>7, <4>1, <4>2
    <3>2. ASSUME a.stores
          PROVE  /\ event[1] \in DOMAIN items \ (t.queue \ {p})
                 /\ HasDoc(docs, event) \/ items[event[1]].row.declined
      <4>1. event[1] = p /\ event \notin stored
        BY <1>2, <2>3, <3>2
      <4> HIDE DEF docs, event, t, p
      <4> QED  BY <2>5, <2>6, <2>7, <4>1
    <3> HIDE DEF docs, event, items, t
    <3> QED  BY <3>1, <3>2
  <2>11. /\ new.phase = "writing" /\ new.queue = t.queue \ {p} /\ new.items = items /\ new.fresh = fresh
         /\ new.docs = docs /\ new.rows = t.rows
    BY <1>1 DEF TransactionOK
  <2>12. sync'[s] = new
    BY <1>4, <1>6 DEF items
  <2> HIDE DEF new, docs, fresh
  <2>13. \A q \in t.queue \ {p} :
           /\ t.rows[q] = WrittenRow(new, item, q) /\ KnownRow(t.rows[q])
           /\ ~t.rows[q].admitted /\ ~t.rows[q].declined /\ ~Declined(item[q])
    <3>1. \A q \in t.queue : /\ t.rows[q] = WrittenRow(t, item, q) /\ KnownRow(t.rows[q])
                             /\ ~t.rows[q].admitted /\ ~t.rows[q].declined /\ ~Declined(item[q])
      BY <1>1 DEF WritesOK
    <3> HIDE DEF t, p
    <3> QED  BY <2>7, <2>11, <3>1 DEF WrittenRow
  <2>14. WritesOK(new, item, documents)
    <3> HIDE DEF t, p
    <3> QED  BY <2>9, <2>10, <2>11, <2>13 DEF WritesOK
  <2>15. (sync'[s].phase = "read" => \A q \in RepoPaths : sync'[s].rows[q] = item[q])
         /\ (sync'[s].phase = "writing" => WritesOK(sync'[s], item, documents))
    BY <2>11, <2>12, <2>14
  <2> HIDE DEF t, p, event, known
  <2> QED  BY <1>1, <2>15, OneSyncKeepsCatalogue
<1> QED  BY <1>3, <1>5, <1>6

\* The commit: what it writes of a row is all the sync decided of it.
LEMMA CommitKeepsCatalogue ==
  ASSUME SourcesAssumption, \A r, o \in Syncers : r = o, DocumentsInv, CatalogueInv,
         NEW s \in Syncers, CommitSync(s)
  PROVE  CatalogueInv'
<1> DEFINE t == sync[s]
<1>1. /\ t.phase = "writing" /\ t.queue = {} /\ TransactionOK(t) /\ WritesOK(t, item, documents)
      /\ item' = WithWrites(t.items) /\ stored' = stored \cup t.fresh
      /\ documents' = documents \o t.docs /\ sync' = [sync EXCEPT ![s] = NoSync]
  BY DEF CommitSync, DocumentsInv, CatalogueInv
<1>2. /\ documents \in Seq(Document) /\ ToldOnce(documents) /\ t.docs \in Seq(Document) /\ ToldOnce(t.docs)
      /\ \A d \in 1..Len(documents) : documents[d].event \in stored
      /\ \A d \in 1..Len(t.docs) : t.docs[d].event \in t.fresh
      /\ t.fresh \cap stored = {} /\ DOMAIN t.items \subseteq RepoPaths /\ RepoPaths \subseteq AllPaths
  BY <1>1 DEF TransactionOK, DocumentsInv, AllPaths
<1>3. \A e : HasDoc(documents', e) <=> HasDoc(documents, e) \/ HasDoc(t.docs, e)
  <2>1. \A d \in 1..Len(t.docs) : ~HasDoc(documents, t.docs[d].event)
    BY <1>2 DEF HasDoc
  <2> HIDE DEF t
  <2> QED  BY <1>1, <1>2, <2>1, DocumentsTogether
<1> HIDE DEF t
<1>4. DOMAIN item' = AllPaths /\ \A p \in AllPaths \ DOMAIN t.items : item'[p] = item[p]
  BY <1>1 DEF WithWrites
<1>5. ASSUME NEW p \in DOMAIN t.items
      PROVE  /\ KnownRow(item'[p]) /\ item'[p].declined = t.items[p].row.declined
             /\ item'[p].admitted => HasDoc(documents', item'[p].doc)
  <2> DEFINE new == t.items[p].row
             merged == [c \in DOMAIN ColdItem |-> IF c \in t.items[p].columns THEN new[c] ELSE item[p][c]]
  <2>1. KnownRow(new) /\ (new.admitted => HasDoc(documents', new.doc))
        /\ (item[p] # NoItem => \A c \in Columns \ t.items[p].columns : new[c] = item[p][c])
    BY <1>1, <1>3 DEF WritesOK, WriteOK
  <2>2. item'[p] = IF item[p] = NoItem THEN new ELSE merged
    BY <1>1, <1>2 DEF WithWrites
  <2>3. CASE item[p] = NoItem
    BY <2>1, <2>2, <2>3
  <2>4. CASE item[p] # NoItem
    <3>1. DOMAIN ColdItem = Columns
      BY DEF ColdItem, Columns
    <3>2. DOMAIN merged = Columns /\ \A c \in Columns : merged[c] = new[c]
      BY <2>1, <2>4, <3>1
    <3> HIDE DEF merged, new
    <3>3. merged.admitted = new.admitted /\ merged.doc = new.doc /\ merged.declined = new.declined
      BY <3>2 DEF Columns
    <3>4. item'[p] = merged
      BY <2>2, <2>4
    <3> QED  BY <2>1, <3>2, <3>3, <3>4 DEF KnownRow, new
  <2> QED  BY <2>3, <2>4
<1>6. RowsOK(item', documents', stored')
  <2>1. ASSUME NEW p \in AllPaths
        PROVE  /\ item'[p] = NoItem \/ KnownRow(item'[p])
               /\ item'[p].admitted => HasDoc(documents', item'[p].doc)
    <3>1. CASE p \in DOMAIN t.items
      BY <1>5, <3>1
    <3>2. CASE p \notin DOMAIN t.items
      BY <1>3, <1>4, <3>2 DEF CatalogueInv, RowsOK
    <3> QED  BY <3>1, <3>2
  <2>2. ASSUME NEW e \in stored
        PROVE  e[1] \in AllPaths /\ (HasDoc(documents', e) \/ Declined(item'[e[1]]))
    <3>1. e[1] \in AllPaths /\ (HasDoc(documents, e) \/ Declined(item[e[1]]))
      BY DEF CatalogueInv, RowsOK
    <3>2. Declined(item[e[1]]) => e[1] \notin DOMAIN t.items
      BY <1>1 DEF WritesOK
    <3> QED  BY <1>3, <1>4, <3>1, <3>2
  <2>3. ASSUME NEW e \in t.fresh
        PROVE  e[1] \in AllPaths /\ (HasDoc(documents', e) \/ Declined(item'[e[1]]))
    <3>1. e[1] \in DOMAIN t.items /\ (HasDoc(t.docs, e) \/ t.items[e[1]].row.declined)
      BY <1>1 DEF WritesOK
    <3>2. item'[e[1]] # NoItem
      <4>1. DOMAIN item'[e[1]] = Columns
        BY <1>5, <3>1 DEF KnownRow
      <4>2. "absent" \in DOMAIN NoItem /\ "absent" \notin Columns
        BY DEF NoItem, Columns
      <4> QED  BY <4>1, <4>2
    <3> QED  BY <1>2, <1>3, <1>5, <3>1, <3>2 DEF Declined
  <2> QED  BY <1>1, <1>4, <2>1, <2>2, <2>3 DEF RowsOK
<1>7. \A o \in Syncers : sync'[o].phase = "idle"
  BY <1>1 DEF DocumentsInv, NoSync
<1> QED  BY <1>6, <1>7 DEF CatalogueInv

LEMMA NextKeepsCatalogue ==
  ASSUME SourcesAssumption, \A r, o \in Syncers : r = o, DocumentsInv, CatalogueInv,
         [SourcesNext]_sourcesVars
  PROVE  CatalogueInv'
<1>1. ASSUME NEW s \in Syncers, ListTree(s) \/ ReadItems(s) \/ SyncFails(s)
      PROVE  CatalogueInv'
  <2>1. /\ UNCHANGED <<item, stored, documents>>
        /\ sync'[s].phase # "writing"
        /\ sync'[s].phase = "read" => \A p \in RepoPaths : sync'[s].rows[p] = item[p]
    BY <1>1 DEF ListTree, ReadItems, SyncFails, NoSync, DocumentsInv
  <2> QED  BY <2>1, OneSyncKeepsCatalogue
<1>2. CASE Push \/ UNCHANGED sourcesVars
  BY <1>2 DEF Push, sourcesVars, CatalogueInv
<1> QED  BY <1>1, <1>2, RegisterKeepsCatalogue, PromoteKeepsCatalogue, FlushKeepsCatalogue,
            AdmitKeepsCatalogue, CommitKeepsCatalogue DEF SourcesNext, SyncSteps

\* sync_source: whatever the files, the pushes, the outages and the cap, no version of a
\* file is folded twice, and, of one sync at a time, an admitted item has its document.
THEOREM AdmittedOnceHolds ==
  ASSUME SourcesAssumption, \A r, o \in Syncers : r = o
  PROVE  SourcesSpec => []AdmittedOnce
<1>1. SourcesInit => DocumentsInv /\ CatalogueInv
  <2> SUFFICES ASSUME SourcesInit PROVE CatalogueInv
    BY InitHasNoDocuments
  <2>1. DOMAIN item = AllPaths /\ \A p \in AllPaths : item[p] = NoItem
    BY DEF SourcesInit
  <2>2. ~NoItem.admitted
    BY DEF NoItem
  <2> QED  BY <2>1, <2>2 DEF SourcesInit, CatalogueInv, RowsOK, NoSync
<1>2. DocumentsInv /\ CatalogueInv /\ [SourcesNext]_sourcesVars => (DocumentsInv /\ CatalogueInv)'
  BY NextKeepsDocuments, NextKeepsCatalogue
<1>3. DocumentsInv /\ CatalogueInv => AdmittedOnce
  BY DEF DocumentsInv, CatalogueInv, RowsOK, AdmittedOnce, ToldOnce, HasDoc
<1> QED  BY <1>1, <1>2, <1>3, PTL DEF SourcesSpec

LEMMA DocumentsInvHolds ==
  ASSUME SourcesAssumption
  PROVE  SourcesInit /\ [][SourcesNext]_sourcesVars => []DocumentsInv
<1>1. SourcesInit => DocumentsInv
  BY InitHasNoDocuments
<1>2. DocumentsInv /\ [SourcesNext]_sourcesVars => DocumentsInv'
  BY NextKeepsDocuments
<1> QED  BY <1>1, <1>2, PTL

\* admit with episode_id_for: no version of a file is folded twice, even by syncs that overlap.
THEOREM FoldedOnceHolds ==
  ASSUME SourcesAssumption
  PROVE  SourcesSpec => []ToldOnce(documents)
<1>1. DocumentsInv => ToldOnce(documents)
  BY DEF DocumentsInv
<1> QED  BY <1>1, DocumentsInvHolds, PTL DEF SourcesSpec

-----------------------------------------------------------------------------
(* Tail: the rows that precede a shown one are shown, so the watermark, the *)
(* cursor of a row that was, leaves none behind.                            *)

Cursor(r) == [at |-> r.at, id |-> r.id]
Seen == shown \cup gone
Behind(r, m) == ~AfterMark(r, m)

\* The rows as the producer numbers them, none of them stamped later than now.
RowsInv ==
  /\ stamp \in Nat /\ IsFiniteSet(written)
  /\ \A r \in written : r.id \in 1..Cardinality(written) /\ r.at \in Nat /\ r.at <= stamp
  /\ \A r, s \in written : r.id = s.id => r = s
  /\ Seen \subseteq 1..Cardinality(written)

MarkIsOfARow(m) == m = NoMark \/ \E s \in written : s.id \in Seen /\ m = Cursor(s)

TailInv ==
  /\ RowsInv
  /\ \A r, s \in written : s.id \in Seen /\ Precedes(r, s) => r.id \in Seen
  /\ MarkIsOfARow(mark)
  /\ poll # NoPoll =>
       /\ poll.phase = "listed" /\ MarkIsOfARow(poll.mark)
       /\ \A r \in written : r.id \in shown /\ Behind(r, poll.mark) => Behind(r, mark) \/ r \in poll.rows
  /\ NothingSkipped

\* The order of the cursors, on rows whose columns are numbers.
LEMMA CursorsAreOrdered ==
  ASSUME RowsInv
  PROVE  /\ \A r, s \in written : r = s \/ Precedes(r, s) \/ Precedes(s, r)
         /\ \A r, s \in written : ~(Precedes(r, s) /\ Precedes(s, r))
         /\ \A r, s, q \in written : Precedes(r, s) /\ Precedes(s, q) => Precedes(r, q)
         /\ \A r, s \in written : Behind(r, Cursor(s)) <=> r = s \/ Precedes(r, s)
         /\ \A r \in written : AfterMark(r, NoMark)
<1>1. \A r \in written : r.id \in Nat \ {0} /\ r.at \in Nat
  BY FS_CardinalityType DEF RowsInv
<1>2. \A r, s \in written : Precedes(r, s) <=> s.at > r.at \/ (s.at = r.at /\ s.id > r.id)
  BY DEF Precedes, AfterMark
<1>3. \A r, s \in written : r.id = s.id => r = s
  BY DEF RowsInv
<1>4. \A r, s \in written : AfterMark(r, Cursor(s)) <=> Precedes(s, r)
  BY DEF Precedes, Cursor
<1>5. \A r, s \in written : r = s \/ Precedes(r, s) \/ Precedes(s, r)
  BY <1>1, <1>2, <1>3
<1>6. \A r, s \in written : ~(Precedes(r, s) /\ Precedes(s, r))
  BY <1>1, <1>2
<1>7. \A r, s, q \in written : Precedes(r, s) /\ Precedes(s, q) => Precedes(r, q)
  BY <1>1, <1>2
<1>8. \A r \in written : AfterMark(r, NoMark)
  BY <1>1 DEF AfterMark, NoMark
<1>9. \A r, s \in written : Behind(r, Cursor(s)) <=> r = s \/ Precedes(r, s)
  BY <1>4, <1>5, <1>6 DEF Behind
<1> QED  BY <1>5, <1>6, <1>7, <1>8, <1>9

\* Of some rows, one is the last.
LEMMA OneRowIsLast ==
  ASSUME RowsInv
  PROVE  \A rows \in SUBSET written : rows # {} =>
           \E last \in rows : \A s \in rows : s = last \/ Precedes(s, last)
<1> SUFFICES ASSUME NEW rows \in SUBSET written, rows # {}
             PROVE  \E last \in rows : \A s \in rows : s = last \/ Precedes(s, last)
  OBVIOUS
<1> DEFINE N == Cardinality(written)
           Ats == {r.at : r \in rows}
<1>1. N \in Nat /\ stamp \in Nat /\ \A r \in written : r.id \in 1..N /\ r.at \in Nat /\ r.at <= stamp
  BY FS_CardinalityType DEF RowsInv
<1>2. PICK a \in Ats : \A m \in Ats : m <= a
  <2>1. Ats \in SUBSET Nat /\ Ats # {} /\ \A n \in Ats : n <= stamp
    BY <1>1
  <2> HIDE DEF Ats
  <2> QED  BY <2>1, <1>1, GreatestNatural
<1> DEFINE Latest == {r \in rows : r.at = a}
           Ids == {r.id : r \in Latest}
<1>3. PICK i \in Ids : \A m \in Ids : m <= i
  <2>1. Ids \in SUBSET Nat /\ Ids # {} /\ \A n \in Ids : n <= N
    BY <1>1, <1>2
  <2> HIDE DEF Ids
  <2> QED  BY <2>1, <1>1, GreatestNatural
<1>4. PICK last \in rows : last.at = a /\ last.id = i
  BY <1>3
<1>5. ASSUME NEW s \in rows
      PROVE  s = last \/ Precedes(s, last)
  <2>1. s.at <= last.at /\ s.at \in Nat /\ last.at \in Nat /\ s.id \in Nat /\ last.id \in Nat
    BY <1>1, <1>2, <1>4
  <2>2. s.at = last.at => s.id <= last.id
    BY <1>2, <1>3, <1>4
  <2>3. s.id = last.id => s = last
    BY DEF RowsInv
  <2> QED  BY <2>1, <2>2, <2>3 DEF Precedes, AfterMark
<1> QED  BY <1>5

\* A listing holds every row up to the mark it would move to.
LEMMA ListKeepsTail ==
  ASSUME TailAssumption, TailInv, ListItems
  PROVE  TailInv'
<1> DEFINE rows == NextRows
           to == MarkAfter(rows)
<1>1. /\ poll' = [phase |-> "listed", rows |-> rows, mark |-> to]
      /\ UNCHANGED <<plugin, written, shown, gone, stamp, mark, got, crashes>>
  BY DEF ListItems
<1>2. rows \subseteq Rest /\ Rest \subseteq written /\ \A r \in Rest : r.id \in shown
  BY DEF NextRows, Rest
<1>3. RowsInv
  BY DEF TailInv
<1>4. MarkIsOfARow(to) /\ \A r \in written :
        r.id \in shown /\ Behind(r, to) => Behind(r, mark) \/ r \in rows
  <2>1. CASE rows = {}
    BY <2>1 DEF MarkAfter, TailInv
  <2>2. CASE rows # {}
    <3> DEFINE last == CHOOSE r \in rows : \A s \in rows : s = r \/ Precedes(s, r)
    <3>1. last \in rows /\ \A s \in rows : s = last \/ Precedes(s, last)
      BY <1>2, <1>3, <2>2, OneRowIsLast
    <3>2. to = Cursor(last)
      BY <2>2 DEF MarkAfter, Cursor
    <3> HIDE DEF last, to
    <3>3. last \in written /\ last.id \in Seen /\ last \in Rest
      BY <1>2, <3>1 DEF Seen
    <3>4. ASSUME NEW r \in written, r.id \in shown, Behind(r, to), ~Behind(r, mark)
          PROVE  r \in rows
      <4>1. r \in Rest
        BY <3>4 DEF Rest, Behind
      <4>2. r = last \/ Precedes(r, last)
        BY <1>3, <3>2, <3>3, <3>4, CursorsAreOrdered
      <4>3. CASE Precedes(r, last)
        <5> DEFINE before(q) == {s \in Rest : Precedes(s, q)}
        <5>1. before(r) \subseteq before(last)
          BY <1>2, <1>3, <3>3, <4>3, CursorsAreOrdered
        <5>2. IsFiniteSet(before(last)) /\ IsFiniteSet(before(r))
          <6>1. before(last) \subseteq written /\ before(r) \subseteq written /\ IsFiniteSet(written)
            BY <1>2, <1>3 DEF RowsInv
          <6> QED  BY <6>1, FS_Subset
        <5>3. Cardinality(before(last)) < Batch
          BY <3>1 DEF NextRows
        <5>4. /\ Cardinality(before(r)) <= Cardinality(before(last))
              /\ Cardinality(before(r)) \in Nat /\ Cardinality(before(last)) \in Nat
          <6> HIDE DEF before
          <6> QED  BY <5>1, <5>2, FS_Subset, FS_CardinalityType
        <5>5. Cardinality(before(r)) < Batch
          BY <5>3, <5>4 DEF TailAssumption
        <5> QED  BY <4>1, <5>5 DEF NextRows
      <4> QED  BY <4>2, <4>3, <3>1
    <3> QED  BY <3>2, <3>3, <3>4 DEF MarkIsOfARow
  <2> QED  BY <2>1, <2>2
<1> HIDE DEF rows, to
<1>5. \A r \in written : ItemsOf(r)' = ItemsOf(r)
  BY <1>1 DEF ItemsOf
<1>6. NothingSkipped'
  BY <1>1, <1>5 DEF TailInv, NothingSkipped
<1>7. RowsInv' /\ MarkIsOfARow(mark)' /\ MarkIsOfARow(poll.mark)'
  BY <1>1, <1>4 DEF RowsInv, TailInv, MarkIsOfARow, Seen
<1> QED  BY <1>1, <1>4, <1>6, <1>7 DEF TailInv, Seen

\* What the mark passes over when a poll commits, the poll has stored.
LEMMA CommitKeepsTail ==
  ASSUME TailInv, CommitPoll
  PROVE  TailInv'
<1>1. /\ poll.phase = "listed" /\ poll # NoPoll
      /\ got' = got \cup UNION {ItemsOf(r) : r \in poll.rows}
      /\ mark' = poll.mark /\ poll' = NoPoll
      /\ UNCHANGED <<plugin, written, shown, gone, stamp, crashes>>
  BY DEF CommitPoll, NoPoll
<1>2. \A r \in written : ItemsOf(r)' = ItemsOf(r)
  BY <1>1 DEF ItemsOf
<1>3. ASSUME NEW r \in written, r.id \in shown, Behind(r, poll.mark)
      PROVE  ItemsOf(r) \subseteq got'
  <2>1. CASE Behind(r, mark)
    BY <1>1, <1>3, <2>1 DEF TailInv, NothingSkipped, Behind
  <2>2. CASE r \in poll.rows
    BY <1>1, <2>2
  <2> QED  BY <1>1, <1>3, <2>1, <2>2 DEF TailInv
<1>4. NothingSkipped'
  BY <1>1, <1>2, <1>3 DEF NothingSkipped, Behind
<1>5. RowsInv' /\ MarkIsOfARow(mark)'
  BY <1>1 DEF RowsInv, TailInv, MarkIsOfARow, Seen
<1> QED  BY <1>1, <1>4, <1>5 DEF TailInv, Seen

\* A row shown late has none before it that was shown, so it lies beyond every mark.
LEMMA ShowKeepsTail ==
  ASSUME TailInv, InOrder, NEW r \in written, ShowRow(r)
  PROVE  TailInv'
<1>1. /\ r.id \notin Seen /\ \A s \in written : Precedes(s, r) => s.id \in Seen
      /\ shown' = (shown \cup {r.id}) \ Replaced(r) /\ gone' = gone \cup Replaced(r)
      /\ UNCHANGED <<plugin, written, stamp, mark, got, poll, crashes>>
  BY DEF ShowRow, Seen
<1>2. RowsInv
  BY DEF TailInv
<1>3. Seen' = Seen \cup {r.id} \cup Replaced(r)
  BY <1>1 DEF Seen
<1>4. Replaced(r) \subseteq Seen
  BY <1>1 DEF Replaced
<1>5. Seen' = Seen \cup {r.id}
  BY <1>3, <1>4
<1>6. \A q, s \in written : s.id \in Seen' /\ Precedes(q, s) => q.id \in Seen'
  <2> SUFFICES ASSUME NEW q \in written, NEW s \in written, s.id \in Seen', Precedes(q, s)
               PROVE  q.id \in Seen'
    OBVIOUS
  <2>1. CASE s.id \in Seen
    BY <2>1, <1>5 DEF TailInv
  <2>2. CASE s.id = r.id
    BY <2>2, <1>1, <1>2, <1>5 DEF RowsInv
  <2> QED  BY <2>1, <2>2, <1>5
<1>7. ASSUME NEW m, MarkIsOfARow(m)
      PROVE  AfterMark(r, m)
  <2>1. CASE m = NoMark
    BY <2>1, <1>2, CursorsAreOrdered
  <2>2. CASE m # NoMark
    <3>1. PICK s \in written : s.id \in Seen /\ m = Cursor(s)
      BY <1>7, <2>2 DEF MarkIsOfARow
    <3>2. r # s /\ ~Precedes(r, s)
      BY <1>1, <3>1 DEF TailInv
    <3> QED  BY <1>2, <3>1, <3>2, CursorsAreOrdered DEF Behind
  <2> QED  BY <2>1, <2>2
<1>8. AfterMark(r, mark) /\ (poll # NoPoll => AfterMark(r, poll.mark))
  BY <1>7 DEF TailInv
<1>9. \A q \in written : q.id \in shown' => q.id \in shown \/ q = r
  BY <1>1, <1>2 DEF RowsInv
<1>10. \A q \in written : ItemsOf(q)' = ItemsOf(q)
  BY <1>1 DEF ItemsOf
<1>11. NothingSkipped'
  BY <1>1, <1>8, <1>9, <1>10 DEF TailInv, NothingSkipped
<1>12. RowsInv' /\ MarkIsOfARow(mark)' /\ (poll # NoPoll => MarkIsOfARow(poll.mark)')
  BY <1>1, <1>5 DEF RowsInv, TailInv, MarkIsOfARow
<1>13. poll' # NoPoll => \A q \in written' : q.id \in shown' /\ Behind(q, poll'.mark) =>
         Behind(q, mark') \/ q \in poll'.rows
  BY <1>1, <1>8, <1>9 DEF TailInv, Behind
<1> QED  BY <1>1, <1>6, <1>11, <1>12, <1>13 DEF TailInv

\* A new row is numbered next and stamped now.
LEMMA WriteKeepsRows ==
  ASSUME RowsInv, WriteRow
  PROVE  RowsInv' /\ Cardinality(written') = Cardinality(written) + 1
<1> DEFINE N == Cardinality(written)
<1>1. PICK useful \in BOOLEAN, thing \in Things, up \in BOOLEAN :
        written' = written \cup {[id |-> N + 1, at |-> stamp, useful |-> useful,
                                  thing |-> thing, up |-> up]}
  BY DEF WriteRow
<1> DEFINE new == [id |-> N + 1, at |-> stamp, useful |-> useful, thing |-> thing, up |-> up]
<1>2. new.id = N + 1 /\ new.at = stamp /\ written' = written \cup {new}
  BY <1>1
<1> HIDE DEF new
<1>3. stamp' = stamp /\ Seen' = Seen
  BY DEF WriteRow, Seen
<1>4. /\ N \in Nat /\ stamp \in Nat /\ IsFiniteSet(written)
      /\ \A r \in written : r.id \in 1..N /\ r.at \in Nat /\ r.at <= stamp
  BY FS_CardinalityType DEF RowsInv
<1>5. new \notin written /\ Cardinality(written') = N + 1 /\ IsFiniteSet(written')
  BY <1>2, <1>4, FS_AddElement
<1>6. \A r \in written' : r.id \in 1..Cardinality(written') /\ r.at \in Nat /\ r.at <= stamp
  BY <1>2, <1>4, <1>5
<1>7. \A r, s \in written' : r.id = s.id => r = s
  BY <1>2, <1>4 DEF RowsInv
<1>8. Seen' \subseteq 1..Cardinality(written')
  BY <1>3, <1>4, <1>5 DEF RowsInv
<1> QED  BY <1>3, <1>4, <1>5, <1>6, <1>7, <1>8 DEF RowsInv

\* A new row is stamped now and numbered next, so it precedes none.
LEMMA WriteKeepsTail ==
  ASSUME TailInv, WriteRow
  PROVE  TailInv'
<1> DEFINE N == Cardinality(written)
<1>1. PICK useful \in BOOLEAN, thing \in Things, up \in BOOLEAN :
        written' = written \cup {[id |-> N + 1, at |-> stamp, useful |-> useful,
                                  thing |-> thing, up |-> up]}
  BY DEF WriteRow
<1> DEFINE new == [id |-> N + 1, at |-> stamp, useful |-> useful, thing |-> thing, up |-> up]
<1>2. new.id = N + 1 /\ new.at = stamp /\ written' = written \cup {new}
  BY <1>1
<1> HIDE DEF new
<1>3. UNCHANGED <<plugin, shown, gone, stamp, mark, got, poll, crashes>> /\ Seen' = Seen
  BY DEF WriteRow, Seen
<1>4. /\ N \in Nat /\ stamp \in Nat /\ IsFiniteSet(written)
      /\ \A r \in written : r.id \in 1..N /\ r.at \in Nat /\ r.at <= stamp
  BY FS_CardinalityType DEF TailInv, RowsInv
<1>5. new \notin written /\ Cardinality(written') = N + 1 /\ IsFiniteSet(written')
  BY <1>2, <1>4, FS_AddElement
<1>6. RowsInv'
  BY WriteKeepsRows DEF TailInv
<1>7. \A s \in written : ~Precedes(new, s)
  BY <1>2, <1>4 DEF Precedes, AfterMark
<1>8. ASSUME NEW m, MarkIsOfARow(m)
      PROVE  MarkIsOfARow(m)' /\ AfterMark(new, m)
  <2>1. CASE m = NoMark
    BY <2>1, <1>2, <1>4 DEF MarkIsOfARow, NoMark, AfterMark
  <2>2. CASE m # NoMark
    <3>1. PICK s \in written : s.id \in Seen /\ m = Cursor(s)
      BY <1>8, <2>2 DEF MarkIsOfARow
    <3>2. AfterMark(new, m)
      BY <3>1, <1>2, <1>4 DEF Cursor, AfterMark
    <3> QED  BY <3>1, <3>2, <1>2, <1>3 DEF MarkIsOfARow
  <2> QED  BY <2>1, <2>2
<1>9. \A r \in written : ItemsOf(r)' = ItemsOf(r)
  BY <1>3 DEF ItemsOf
<1>10. MarkIsOfARow(mark)' /\ AfterMark(new, mark)
  BY <1>3, <1>8 DEF TailInv, MarkIsOfARow
<1>11. poll # NoPoll => MarkIsOfARow(poll.mark)' /\ AfterMark(new, poll.mark)
  BY <1>3, <1>8 DEF TailInv, MarkIsOfARow
<1>12. NothingSkipped'
  BY <1>2, <1>3, <1>9, <1>10 DEF TailInv, NothingSkipped
<1>13. \A r, s \in written' : s.id \in Seen' /\ Precedes(r, s) => r.id \in Seen'
  <2>1. new.id \notin Seen
    BY <1>2, <1>4 DEF TailInv, RowsInv
  <2> QED  BY <1>2, <1>3, <1>7, <2>1 DEF TailInv
<1> QED  BY <1>2, <1>3, <1>6, <1>10, <1>11, <1>12, <1>13 DEF TailInv, Behind

\* list_items and _drain_one, with a producer that shows its rows in the order of their
\* cursors: in every behaviour what lies behind the watermark has its episodes.
THEOREM NothingSkippedHolds ==
  ASSUME TailAssumption, InOrder
  PROVE  TailSpec => []NothingSkipped
<1>1. TailInit => TailInv
  <2> SUFFICES ASSUME TailInit
               PROVE  TailInv
    OBVIOUS
  <2>1. Cardinality({}) = 0 /\ IsFiniteSet({})
    BY FS_EmptySet
  <2>2. written = {} /\ Seen = {} /\ stamp \in Nat /\ mark = NoMark /\ poll = NoPoll
    BY DEF TailInit, Seen
  <2> QED  BY <2>1, <2>2 DEF TailInv, RowsInv, MarkIsOfARow, NothingSkipped
<1>2. TailInv /\ [TailNext]_tailVars => TailInv'
  <2> SUFFICES ASSUME TailInv, [TailNext]_tailVars
               PROVE  TailInv'
    OBVIOUS
  <2>1. CASE ProducerTick \/ PollFails \/ UNCHANGED tailVars
    <3>1. /\ UNCHANGED <<plugin, written, shown, gone, mark, got>>
          /\ stamp' = stamp \/ (stamp' = stamp + 1 /\ stamp \in Nat)
          /\ poll' = poll \/ poll' = NoPoll
      BY <2>1 DEF ProducerTick, PollFails, tailVars, TailInv, RowsInv
    <3>2. \A r \in written : ItemsOf(r)' = ItemsOf(r)
      BY <3>1 DEF ItemsOf
    <3>3. RowsInv'
      BY <3>1 DEF TailInv, RowsInv, Seen
    <3>4. MarkIsOfARow(mark)' /\ (poll' # NoPoll => poll' = poll /\ MarkIsOfARow(poll.mark)')
      BY <3>1 DEF TailInv, MarkIsOfARow, Seen
    <3>5. NothingSkipped'
      BY <3>1, <3>2 DEF TailInv, NothingSkipped
    <3> QED  BY <3>1, <3>3, <3>4, <3>5 DEF TailInv, Seen
  <2> QED  BY <2>1, WriteKeepsTail, ShowKeepsTail, ListKeepsTail, CommitKeepsTail DEF TailNext
<1>3. TailInv => NothingSkipped
  BY DEF TailInv
<1> QED  BY <1>1, <1>2, <1>3, PTL DEF TailSpec


-----------------------------------------------------------------------------
(* Lifecycle: the anchors stay one per thing, for any number of known ones, *)
(* of readers and of documents.  What a fold knows is still there, so a     *)
(* name compared with every anchor and standing for itself is like none.    *)

NamesInv == LifecycleTypeOK /\ OneAnchorPerThing

\* A name snaps onto a known anchor, or onto itself when no known anchor is the same thing.
LEMMA SnappedKnownOrNew ==
  ASSUME NEW s, NEW known, NEW x \in Snapped(s, known), x \notin DOMAIN known
  PROVE  x = s /\ \A k \in DOMAIN known : ~SameThing(s, k)
<1> DEFINE hits == {k \in DOMAIN known : Comparable(s, k)}
           near == {k \in DOMAIN known : Near(s, k)}
           nearest == {k \in near : \A l \in near : ~Nearer(s, l, k)}
<1>1. Snapped(s, known) = IF hits # {} THEN LatestOf(hits, known)
                          ELSE IF near # {} THEN LatestOf(nearest, known) ELSE {s}
  BY DEF Snapped
<1>2. LatestOf(hits, known) \subseteq DOMAIN known /\ LatestOf(nearest, known) \subseteq DOMAIN known
  BY DEF LatestOf
<1>3. hits = {} /\ near = {}
  BY <1>1, <1>2
<1> QED  BY <1>1, <1>3 DEF SameThing

\* To be the same thing goes both ways.
LEMMA SameThingSymmetric ==
  ASSUME NEW s, NEW k, SameThing(s, k)
  PROVE  SameThing(k, s)
<1>1. s \cap k = k \cap s /\ s \cup k = k \cup s
  OBVIOUS
<1> QED  BY <1>1, Zenon DEF SameThing, Comparable, Near

LEMMA InitHasNoNames == LifecycleInit => NamesInv
<1> SUFFICES ASSUME LifecycleInit PROVE NamesInv  OBVIOUS
<1>1. Names = {}
  BY DEF LifecycleInit, Names
<1> QED  BY <1>1, SMT DEF LifecycleInit, NamesInv, LifecycleTypeOK, OneAnchorPerThing, Names

\* Reading the known names, or giving up, adds no anchor.
LEMMA ReadKnownKeepsNames ==
  ASSUME NamesInv, NEW p \in Readers, ReadKnown(p)
  PROVE  NamesInv'
<1>1. PICK K \in SUBSET Names :
        reading' = [reading EXCEPT ![p] =
                      [phase |-> "asking", began |-> texts, known |-> [k \in K |-> updated[k]]]]
  BY DEF ReadKnown
<1>2. /\ updated' = updated /\ sticky' = sticky /\ Names' = Names
      /\ texts \in Nat /\ texts' \in Nat
  BY SMT DEF ReadKnown, Names, NamesInv, LifecycleTypeOK
<1>3. DOMAIN reading' = Readers
  BY <1>1 DEF NamesInv, LifecycleTypeOK
<1>4. ASSUME NEW q \in Readers, reading'[q] # Idle
      PROVE  DOMAIN reading'[q].known \subseteq Names /\ reading'[q].began \in Nat
  <2>1. CASE q = p
    BY <1>1, <1>2, <2>1 DEF NamesInv, LifecycleTypeOK
  <2>2. CASE q # p
    BY <1>1, <1>4, <2>2 DEF NamesInv, LifecycleTypeOK
  <2> QED  BY <2>1, <2>2
<1> QED  BY <1>2, <1>3, <1>4 DEF NamesInv, LifecycleTypeOK, OneAnchorPerThing

LEMMA NoStatesKeepsNames ==
  ASSUME NamesInv, NEW p \in Readers, NoStates(p)
  PROVE  NamesInv'
<1>1. updated' = updated /\ sticky' = sticky /\ texts' = texts /\ Names' = Names
  BY DEF NoStates, Names
<1>2. \A q \in Readers : reading'[q] # Idle => reading[q] # Idle /\ reading'[q] = reading[q]
  BY DEF NoStates, NamesInv, LifecycleTypeOK
<1>3. DOMAIN reading' = Readers
  BY DEF NoStates, NamesInv, LifecycleTypeOK
<1> QED  BY <1>1, <1>2, <1>3 DEF NamesInv, LifecycleTypeOK, OneAnchorPerThing

\* A fold adds only names that stand for themselves; compared with every anchor, or none
\* new, they leave the anchors unlike one another.
LEMMA FoldKeepsNames ==
  ASSUME NamesInv, NEW p \in Readers, NEW said \in SUBSET Subjects, FoldNames(p, said)
  PROVE  NamesInv'
<1> DEFINE known == reading[p].known
<1>1. PICK f \in [said -> said \cup DOMAIN known] :
        /\ \A s \in said : f[s] \in Snapped(s, known)
        /\ updated' = [k \in Names \cup {f[s] : s \in said} |->
                         IF k \in {f[s] : s \in said} THEN reading[p].began ELSE updated[k]]
        /\ sticky' = (sticky /\ (\/ {f[s] : s \in said} \subseteq Names
                                 \/ Names \subseteq DOMAIN known)
                             /\ \A s, k \in {f[s] : s \in said} \ Names : SameThing(s, k) => s = k)
  BY DEF FoldNames
<1> DEFINE landed == {f[s] : s \in said}
<1>2. Names' = Names \cup landed
  BY <1>1 DEF Names
<1>3. reading[p] # Idle /\ DOMAIN known \subseteq Names /\ reading[p].began \in Nat
  BY DEF FoldNames, NamesInv, LifecycleTypeOK
<1>4. landed \subseteq said \cup DOMAIN known
  OBVIOUS
<1>5. LifecycleTypeOK'
  <2>1. Names' \subseteq Subjects
    BY <1>2, <1>3, <1>4 DEF NamesInv, LifecycleTypeOK
  <2>2. updated' \in [Names' -> Nat]
    BY <1>1, <1>2, <1>3 DEF NamesInv, LifecycleTypeOK
  <2>3. \A q \in Readers : reading'[q] # Idle => reading[q] # Idle /\ reading'[q] = reading[q]
    BY DEF FoldNames, NamesInv, LifecycleTypeOK
  <2>4. DOMAIN reading' = Readers /\ texts' = texts
    BY DEF FoldNames, NamesInv, LifecycleTypeOK
  <2>5. sticky' \in BOOLEAN
    BY <1>1 DEF NamesInv, LifecycleTypeOK
  <2> QED  BY <1>2, <2>1, <2>2, <2>3, <2>4, <2>5 DEF NamesInv, LifecycleTypeOK
<1>6. ASSUME sticky', NEW x \in Names', NEW y \in Names', SameThing(x, y)
      PROVE  x = y
  <2>1. sticky /\ \A s, k \in landed \ Names : SameThing(s, k) => s = k
    BY <1>1, <1>6
  <2>2. ASSUME NEW a \in landed \ Names, NEW b \in Names
        PROVE  ~SameThing(a, b)
    <3>1. PICK s \in said : a = f[s]
      OBVIOUS
    <3>2. a \in Snapped(s, known) /\ a \notin DOMAIN known
      BY <1>1, <1>3, <3>1
    <3>3. Names \subseteq DOMAIN known
      BY <1>1, <1>6, <2>2
    <3> QED  BY <3>2, <3>3, SnappedKnownOrNew
  <2>3. CASE x \in Names /\ y \in Names
    BY <2>1, <2>3, <1>6 DEF NamesInv, OneAnchorPerThing
  <2>4. CASE x \notin Names /\ y \notin Names
    BY <1>2, <1>6, <2>1, <2>4
  <2>5. CASE x \notin Names /\ y \in Names
    BY <1>2, <1>6, <2>2, <2>5
  <2>6. CASE x \in Names /\ y \notin Names
    BY <1>2, <1>6, <2>2, <2>6, SameThingSymmetric
  <2> QED  BY <2>3, <2>4, <2>5, <2>6
<1> QED  BY <1>5, <1>6 DEF NamesInv, OneAnchorPerThing

\* Every step keeps the invariant of the names.
LEMMA StepsKeepNames == NamesInv /\ [LifecycleNext]_lifecycleVars => NamesInv'
<1> SUFFICES ASSUME NamesInv, [LifecycleNext]_lifecycleVars PROVE NamesInv'  OBVIOUS
<1>1. CASE LifecycleNext
  <2>1. PICK p \in Readers : ReadKnown(p) \/ NoStates(p) \/ \E said \in Said : FoldNames(p, said)
    BY <1>1 DEF LifecycleNext
  <2>2. Said \subseteq SUBSET Subjects
    BY DEF Said
  <2> QED  BY <2>1, <2>2, ReadKnownKeepsNames, NoStatesKeepsNames, FoldKeepsNames
<1>2. CASE UNCHANGED lifecycleVars
  BY <1>2 DEF lifecycleVars, NamesInv, LifecycleTypeOK, OneAnchorPerThing, Names
<1> QED  BY <1>1, <1>2

\* canonical_subject with _known_state_subjects: in every behaviour no two anchors name the
\* same thing, unless folds overlapped, a document named a thing twice or the list was cut.
THEOREM OneAnchorPerThingHolds == LifecycleSpec => []OneAnchorPerThing
<1>1. NamesInv => OneAnchorPerThing
  BY DEF NamesInv
<1> QED  BY <1>1, InitHasNoNames, StepsKeepNames, PTL DEF LifecycleSpec

-----------------------------------------------------------------------------
(* Answer: whatever a request was shown it might read, and when it was shown *)
(* nothing, nothing kept throughout had its words.                           *)

Fields == {"mode", "at", "clock", "phase", "promoted", "todo", "tried", "shown", "before",
           "calls", "cites", "there", "stayed"}

\* What a request may be shown of what was there, and that nothing that stayed answers it.
Readable(q) == {c \in q.there : KnownAt(c, q) /\ Library[c].scope \in ReaderScopes}
Bare(q) ==
  \A c \in q.stayed :
    Library[c].scope \in ReaderScopes /\ KnownAt(c, q) => TheQuestion \notin Library[c].text

RequestOK(q, hand, served) ==
  /\ DOMAIN q = Fields
  /\ q.calls \in 0..(MaxHops + 1)
  /\ q.cites \subseteq q.shown /\ q.shown \subseteq Readable(q)
  /\ q.mode # "hop" => q.shown \subseteq served
  /\ q.phase \in {"assess", "search"} => q.mode \in {"hop", "stream"}
  /\ q.phase = "assess" => q.calls < MaxHops
  /\ q.phase \in {"search", "compose"} => q.calls <= MaxHops
  /\ q.phase \in {"none", "first", "promote"} => q.calls = 0 /\ q.shown = {}
  /\ q.shown = {} /\ q.mode # "stream" => q.calls = 0 /\ q.phase \notin {"assess", "search", "compose"}
  /\ q.phase \in {"promote", "assess", "search", "compose", "answered"} /\ q.shown = {} => Bare(q)
  /\ q.phase # "none" => hand \subseteq q.there
  /\ q.stayed \subseteq hand

AnswerInv == RequestOK(question, onHand, counted)

\* The fields that say what was asked and what came of it.
SameAsked(q, r) ==
  /\ DOMAIN r = Fields
  /\ r.mode = q.mode /\ r.at = q.at /\ r.clock = q.clock
  /\ r.there = q.there /\ r.stayed = q.stayed
SameShown(q, r) == SameAsked(q, r) /\ r.shown = q.shown /\ r.calls = q.calls /\ r.cites = q.cites

\* A request that goes to another phase, or ends, is the same request.
LEMMA PhasesKeepTheRequest ==
  \A q, phase : DOMAIN q = Fields =>
    /\ To(q, phase).phase = phase /\ SameShown(q, To(q, phase))
    /\ Ends(q, phase).phase = phase /\ SameShown(q, Ends(q, phase))
<1> SUFFICES ASSUME NEW q, NEW phase, DOMAIN q = Fields
             PROVE  /\ To(q, phase).phase = phase /\ SameShown(q, To(q, phase))
                    /\ Ends(q, phase).phase = phase /\ SameShown(q, Ends(q, phase))
  OBVIOUS
<1>1. To(q, phase).phase = phase /\ SameShown(q, To(q, phase))
  BY DEF To, SameShown, SameAsked, Fields
<1>2. Ends(q, phase).phase = phase /\ SameShown(q, Ends(q, phase))
  BY DEF Ends, To, SameShown, SameAsked, Fields
<1> QED  BY <1>1, <1>2

\* The same request may read the same, and finds the same nothing.
LEMMA SameAskedReadsTheSame ==
  \A q, r : SameAsked(q, r) =>
    /\ Readable(r) = Readable(q) /\ (Bare(r) <=> Bare(q))
    /\ \A c : KnownAt(c, r) <=> KnownAt(c, q)
<1> SUFFICES ASSUME NEW q, NEW r, SameAsked(q, r)
             PROVE  /\ Readable(r) = Readable(q) /\ (Bare(r) <=> Bare(q))
                    /\ \A c : KnownAt(c, r) <=> KnownAt(c, q)
  OBVIOUS
<1>1. \A c : KnownAt(c, r) <=> KnownAt(c, q)
  BY DEF SameAsked, KnownAt
<1> QED  BY <1>1 DEF SameAsked, Readable, Bare

\* search: a page is of what the reader may read at the instant, and an empty one means
\* that nothing readable has the words.
LEMMA PagesAreReadable ==
  ASSUME AnswerAssumption
  PROVE  \A q, words : \A page \in Pages(q, words) :
           /\ page \subseteq Base(q)
           /\ page = {} => \A c \in Base(q) : words \notin Library[c].text
<1> SUFFICES ASSUME NEW q, NEW words, NEW page \in Pages(q, words)
             PROVE  /\ page \subseteq Base(q)
                    /\ page = {} => \A c \in Base(q) : words \notin Library[c].text
  OBVIOUS
<1> DEFINE others == LexicalRows(q, words) \cup TitleRows(q, words)
<1>1. PICK rows \in VectorRows(q) : IsPage(page, rows \cup others)
  BY DEF Pages
<1>2. rows \subseteq Base(q) /\ others \subseteq Base(q)
  BY DEF VectorRows, LexicalRows, TitleRows
<1>3. page \subseteq Base(q)
  BY <1>1, <1>2 DEF IsPage
<1>4. ASSUME page = {}
      PROVE  rows \cup others = {}
  <2>1. Cardinality({}) = 0 /\ 0 < PageSize /\ PerDocument # 0
    BY FS_EmptySet DEF AnswerAssumption
  <2>2. \A c \in rows \cup others : Cardinality({e \in {} : DocOf(e) = DocOf(c)}) = PerDocument
    BY <1>1, <1>4, <2>1 DEF IsPage
  <2>3. \A c : {e \in {} : DocOf(e) = DocOf(c)} = {}
    OBVIOUS
  <2> QED  BY <2>1, <2>2, <2>3
<1>5. ASSUME page = {}, NEW c \in Base(q), words \in Library[c].text
      PROVE  FALSE
  <2>1. c \in LexicalRows(q, words)
    BY <1>5 DEF LexicalRows
  <2> QED  BY <1>4, <1>5, <2>1
<1> QED  BY <1>3, <1>5

\* What is in memory now a request may be shown.
LEMMA BaseIsReadable ==
  \A q : onHand \subseteq q.there => Base(q) \subseteq Readable(q)
BY DEF Base, Readable

\* A page shown: counted, and answered from it alone or handed to the model.
LEMMA ShowingKeepsRequest ==
  ASSUME AnswerAssumption, AnswerInv, question.phase \in {"first", "promote"},
         NEW page, ShowsPacket(page), page \subseteq Readable(question),
         page = {} => Bare(question)
  PROVE  AnswerInv'
<1> DEFINE q == [question EXCEPT !.shown = page]
<1>1. /\ DOMAIN question = Fields /\ question.calls = 0 /\ question.cites = {}
      /\ onHand \subseteq question.there /\ question.stayed \subseteq onHand
  BY DEF AnswerInv, RequestOK
<1>2. /\ SameAsked(question, q) /\ q.shown = page /\ q.calls = 0 /\ q.cites = {}
      /\ DOMAIN q = Fields
  BY <1>1 DEF SameAsked, Fields
<1>3. question' = AfterPacket(q, page) /\ counted' = counted \cup page /\ onHand' = onHand
  BY DEF ShowsPacket
<1> HIDE DEF q
<1>4. MaxHops \in Nat /\ 0 < MaxHops
  BY DEF AnswerAssumption
<1>5. Readable(q) = Readable(question) /\ (Bare(q) <=> Bare(question))
  BY <1>2, SameAskedReadsTheSame
<1> DEFINE r == question'
<1>6. SameAsked(q, r) /\ r.shown = page /\ r.calls = 0 /\ r.cites \subseteq page
      /\ \/ r.phase = "assess" /\ (q.mode = "stream" \/ (q.mode = "hop" /\ page # {}))
         \/ r.phase = "compose" /\ page # {}
         \/ r.phase = "answered"
  <2>1. CASE q.mode = "stream" \/ (q.mode = "hop" /\ page # {})
    <3>1. r = To(q, "assess")
      BY <1>3, <2>1 DEF AfterPacket
    <3> QED  BY <1>2, <2>1, <3>1, PhasesKeepTheRequest DEF SameShown
  <2>2. CASE q.mode \in {"synthesized", "hybrid"} /\ page # {}
    <3>1. r = To(q, "compose")
      BY <1>3, <2>2 DEF AfterPacket
    <3> QED  BY <1>2, <2>2, <3>1, PhasesKeepTheRequest DEF SameShown
  <2>3. CASE ~(q.mode = "stream" \/ (q.mode = "hop" /\ page # {}))
             /\ ~(q.mode \in {"synthesized", "hybrid"} /\ page # {})
    <3> DEFINE e == Ends(q, "answered")
    <3>1. r = [e EXCEPT !.cites = page]
      BY <1>3, <2>3 DEF AfterPacket
    <3>2. e.phase = "answered" /\ SameShown(q, e)
      BY <1>2, PhasesKeepTheRequest
    <3> HIDE DEF e
    <3>3. /\ SameAsked(q, r) /\ r.shown = e.shown /\ r.calls = e.calls
          /\ r.cites = page /\ r.phase = e.phase
      BY <3>1, <3>2 DEF SameShown, SameAsked, Fields
    <3> QED  BY <1>2, <3>2, <3>3 DEF SameShown
  <2> QED  BY <2>1, <2>2, <2>3
<1>7. Readable(r) = Readable(q) /\ (Bare(r) <=> Bare(q))
  BY <1>6, SameAskedReadsTheSame
<1>8. r.mode = question.mode /\ r.there = question.there /\ r.stayed = question.stayed /\ DOMAIN r = Fields
  BY <1>2, <1>6 DEF SameAsked
<1>9. q.mode = r.mode
  BY <1>6 DEF SameAsked
<1> HIDE DEF r
<1>10. RequestOK(r, onHand, counted')
  BY <1>1, <1>3, <1>4, <1>5, <1>6, <1>7, <1>8, <1>9 DEF RequestOK
<1> QED  BY <1>3, <1>10 DEF AnswerInv, r

LEMMA FirstPacketKeepsRequest ==
  ASSUME AnswerAssumption, AnswerInv, FirstPacket
  PROVE  AnswerInv'
<1>1. question.phase = "first" /\ DOMAIN question = Fields
  BY DEF FirstPacket, At, AnswerInv, RequestOK
<1>2. PICK page \in Pages(question, TheQuestion) :
        \/ ShowsPacket(page)
        \/ /\ MayPromote(page)
           /\ question' = [To(question, "promote") EXCEPT !.promoted = TRUE]
           /\ UNCHANGED <<onHand, counted>>
  BY DEF FirstPacket
<1>3. page \subseteq Base(question) /\ (page = {} => \A c \in Base(question) : TheQuestion \notin Library[c].text)
  BY <1>2, PagesAreReadable
<1>4. page \subseteq Readable(question)
  BY <1>1, <1>3, BaseIsReadable DEF AnswerInv, RequestOK
<1>5. page = {} => Bare(question)
  BY <1>3 DEF Bare, Base, AnswerInv, RequestOK
<1>6. CASE ShowsPacket(page)
  BY <1>1, <1>4, <1>5, <1>6, ShowingKeepsRequest
<1>7. CASE /\ MayPromote(page)
           /\ question' = [To(question, "promote") EXCEPT !.promoted = TRUE]
           /\ UNCHANGED <<onHand, counted>>
  <2> DEFINE q == To(question, "promote")
             r == question'
  <2>1. q.phase = "promote" /\ SameShown(question, q)
    BY <1>1, PhasesKeepTheRequest
  <2>2. r = [q EXCEPT !.promoted = TRUE]
    BY <1>7
  <2> HIDE DEF q
  <2>3. SameShown(question, r) /\ r.phase = "promote"
    BY <2>1, <2>2 DEF SameShown, SameAsked, Fields
  <2>4. Bare(question) /\ question.shown = {} /\ question.calls = 0 /\ question.phase # "none"
    BY <1>1, <1>5, <1>7 DEF MayPromote, AnswerInv, RequestOK
  <2>5. Readable(r) = Readable(question) /\ Bare(r)
    BY <2>3, <2>4, SameAskedReadsTheSame DEF SameShown
  <2> HIDE DEF r
  <2>6. RequestOK(r, onHand, counted)
    BY <2>3, <2>4, <2>5 DEF AnswerInv, RequestOK, SameShown, SameAsked
  <2> QED  BY <1>7, <2>6 DEF AnswerInv, r
<1> QED  BY <1>2, <1>6, <1>7

LEMMA AdmitKeepsRequest ==
  ASSUME AnswerAssumption, AnswerInv, NEW admitted \in SUBSET Cold, AdmitCold(admitted)
  PROVE  AnswerInv'
<1>1. question.phase = "promote" /\ DOMAIN question = Fields /\ Bare(question) /\ question.shown = {}
  BY DEF AdmitCold, At, AnswerInv, RequestOK
<1>2. CASE admitted = {}
  <2>1. ShowsPacket({})
    BY <1>2 DEF AdmitCold
  <2> QED  BY <1>1, <2>1, ShowingKeepsRequest
<1>3. CASE admitted # {}
  <2> DEFINE q == To(question, "first")
             r == question'
  <2>1. q.phase = "first" /\ SameShown(question, q)
    BY <1>1, PhasesKeepTheRequest
  <2>2. r = [q EXCEPT !.there = q.there \cup admitted] /\ onHand' = onHand \cup admitted /\ counted' = counted
    BY <1>3 DEF AdmitCold
  <2> HIDE DEF q
  <2>3. /\ DOMAIN r = Fields /\ r.phase = "first" /\ r.there = question.there \cup admitted
        /\ r.mode = question.mode /\ r.stayed = question.stayed /\ r.shown = {}
        /\ r.calls = question.calls /\ r.cites = question.cites
    BY <1>1, <2>1, <2>2 DEF SameShown, SameAsked, Fields
  <2> HIDE DEF r
  <2>4. RequestOK(r, onHand', counted')
    BY <1>1, <2>2, <2>3 DEF AnswerInv, RequestOK
  <2> QED  BY <2>4 DEF AnswerInv, r
<1> QED  BY <1>2, <1>3

\* A model's answer cites what was shown, whatever the model said.
LEMMA AnswersKeepRequest ==
  ASSUME AnswerAssumption, AnswerInv, question.phase \in {"assess", "compose"},
         NEW cited, Answers(cited), UNCHANGED <<onHand, counted>>
  PROVE  AnswerInv'
<1> DEFINE e == Ends(question, "answered")
           r == question'
           cites == Enforced(cited) \cup (IF question.mode = "hybrid" THEN question.shown ELSE {})
<1>1. r = [e EXCEPT !.calls = e.calls + 1, !.cites = cites]
  BY DEF Answers
<1>2. e.phase = "answered" /\ SameShown(question, e)
  BY PhasesKeepTheRequest DEF AnswerInv, RequestOK
<1>3. cites \subseteq question.shown
  BY DEF Enforced
<1> HIDE DEF e, cites
<1>4. /\ SameAsked(question, r) /\ r.shown = question.shown /\ r.calls = question.calls + 1
      /\ r.cites \subseteq question.shown /\ r.phase = "answered"
  BY <1>1, <1>2, <1>3 DEF SameShown, SameAsked, Fields
<1>5. Readable(r) = Readable(question) /\ (Bare(r) <=> Bare(question))
  BY <1>4, SameAskedReadsTheSame
<1> HIDE DEF r
<1>6. MaxHops \in Nat /\ question.calls \in Nat /\ question.calls <= MaxHops
  BY DEF AnswerAssumption, AnswerInv, RequestOK
<1>7. r.calls \in 0..(MaxHops + 1)
  BY <1>4, <1>6
<1>8. r.shown = {} => r.mode = "stream" /\ Bare(r)
  BY <1>4, <1>5 DEF AnswerInv, RequestOK, SameAsked
<1>9. /\ DOMAIN r = Fields /\ r.mode = question.mode /\ r.there = question.there /\ r.stayed = question.stayed
      /\ question.shown \subseteq Readable(question) /\ (question.mode # "hop" => question.shown \subseteq counted)
      /\ onHand \subseteq question.there /\ question.stayed \subseteq onHand
  BY <1>4 DEF AnswerInv, RequestOK, SameAsked
<1>10. RequestOK(r, onHand, counted)
  BY <1>4, <1>5, <1>7, <1>8, <1>9 DEF RequestOK
<1> QED  BY <1>10 DEF AnswerInv, r

LEMMA AssessKeepsRequest ==
  ASSUME AnswerAssumption, AnswerInv, Assess
  PROVE  AnswerInv'
<1>1. question.phase = "assess" /\ UNCHANGED <<onHand, counted>> /\ DOMAIN question = Fields
  BY DEF Assess, At, AnswerInv, RequestOK
<1>2. CASE \E cited \in CitedByModel : Answers(cited)
  BY <1>1, <1>2, AnswersKeepRequest
<1>3. CASE \E new \in SUBSET (Searches \ question.tried) :
             question' = [To(question, IF new = {} THEN "compose" ELSE "search") EXCEPT
                            !.calls = @ + 1, !.todo = new, !.before = question.shown]
  <2>1. PICK new \in SUBSET (Searches \ question.tried) :
          question' = [To(question, IF new = {} THEN "compose" ELSE "search") EXCEPT
                         !.calls = @ + 1, !.todo = new, !.before = question.shown]
    BY <1>3
  <2> DEFINE next == IF new = {} THEN "compose" ELSE "search"
             q == To(question, next)
             r == question'
  <2>2. q.phase = next /\ SameShown(question, q)
    BY <1>1, PhasesKeepTheRequest
  <2>3. r = [q EXCEPT !.calls = q.calls + 1, !.todo = new, !.before = question.shown]
    BY <2>1
  <2>4. next \in {"compose", "search"}
    OBVIOUS
  <2> HIDE DEF q, next
  <2>5. /\ SameAsked(question, r) /\ r.shown = question.shown /\ r.calls = question.calls + 1
        /\ r.cites = question.cites /\ r.phase \in {"compose", "search"}
    BY <2>2, <2>3, <2>4 DEF SameShown, SameAsked, Fields
  <2>6. Readable(r) = Readable(question) /\ (Bare(r) <=> Bare(question))
    BY <2>5, SameAskedReadsTheSame
  <2>7. MaxHops \in Nat /\ question.calls \in Nat /\ question.calls < MaxHops
    BY <1>1 DEF AnswerAssumption, AnswerInv, RequestOK
  <2> HIDE DEF r
  <2>8. r.calls \in 0..(MaxHops + 1) /\ r.calls <= MaxHops
    BY <2>5, <2>7
  <2>9. /\ DOMAIN r = Fields /\ r.mode = question.mode /\ r.there = question.there /\ r.stayed = question.stayed
    BY <2>5 DEF SameAsked
  <2>10. RequestOK(r, onHand, counted)
    BY <1>1, <2>5, <2>6, <2>8, <2>9 DEF AnswerInv, RequestOK
  <2> QED  BY <1>1, <2>10 DEF AnswerInv, r
<1> QED  BY <1>2, <1>3 DEF Assess

\* A further search shows more of what may be read.
LEMMA SearchKeepsRequest ==
  ASSUME AnswerAssumption, AnswerInv, SearchAgain
  PROVE  AnswerInv'
<1>1. /\ question.phase = "search" /\ DOMAIN question = Fields /\ onHand' = onHand
      /\ question.mode \in {"hop", "stream"}
  BY DEF SearchAgain, At, AnswerInv, RequestOK
<1>2. PICK words \in question.todo : \E page \in Pages(question, words) :
        /\ question' = AfterSearch([question EXCEPT !.todo = @ \ {words}, !.tried = @ \cup {words},
                                                    !.shown = @ \cup page])
        /\ counted' = IF question.mode = "stream" THEN counted \cup page ELSE counted
  BY DEF SearchAgain
<1>2a. PICK page \in Pages(question, words) :
        /\ question' = AfterSearch([question EXCEPT !.todo = @ \ {words}, !.tried = @ \cup {words},
                                                    !.shown = @ \cup page])
        /\ counted' = IF question.mode = "stream" THEN counted \cup page ELSE counted
  BY <1>2
<1> DEFINE q == [question EXCEPT !.todo = @ \ {words}, !.tried = @ \cup {words}, !.shown = @ \cup page]
           r == question'
<1>3. page \subseteq Readable(question)
  BY <1>1, PagesAreReadable, BaseIsReadable DEF AnswerInv, RequestOK
<1>4. /\ SameAsked(question, q) /\ q.shown = question.shown \cup page /\ q.calls = question.calls
      /\ q.cites = question.cites /\ q.phase = "search"
  BY <1>1 DEF SameAsked, Fields
<1>5. r = AfterSearch(q)
  BY <1>2a
<1> HIDE DEF q
<1>6. /\ SameAsked(question, r) /\ r.shown = question.shown \cup page /\ r.calls = question.calls
      /\ r.cites = question.cites /\ r.phase \in {"search", "compose", "assess"}
      /\ r.phase = "assess" => r.calls # MaxHops
  <2>1. CASE q.todo # {}
    BY <1>4, <1>5, <2>1 DEF AfterSearch
  <2>2. CASE q.todo = {}
    <3> DEFINE p == [q EXCEPT !.before = {}]
               next == IF q.shown = q.before \/ q.calls = MaxHops THEN "compose" ELSE "assess"
    <3>1. SameShown(q, p) /\ DOMAIN p = Fields
      BY <1>4 DEF SameShown, SameAsked, Fields
    <3>2. r = To(p, next)
      BY <1>5, <2>2 DEF AfterSearch
    <3>3. next \in {"compose", "assess"} /\ (next = "assess" => q.calls # MaxHops)
      OBVIOUS
    <3> HIDE DEF p, next
    <3>4. r.phase = next /\ SameShown(p, r)
      BY <3>1, <3>2, PhasesKeepTheRequest
    <3> QED  BY <1>4, <3>1, <3>3, <3>4 DEF SameShown, SameAsked
  <2> QED  BY <2>1, <2>2
<1>7. Readable(r) = Readable(question) /\ (Bare(r) <=> Bare(question))
  BY <1>6, SameAskedReadsTheSame
<1>8. MaxHops \in Nat /\ question.calls \in Nat /\ question.calls <= MaxHops
  BY <1>1 DEF AnswerAssumption, AnswerInv, RequestOK
<1> HIDE DEF r
<1>9. r.calls \in 0..(MaxHops + 1) /\ r.calls <= MaxHops /\ (r.phase = "assess" => r.calls < MaxHops)
  BY <1>6, <1>8
<1>10. DOMAIN r = Fields /\ r.mode = question.mode /\ r.there = question.there /\ r.stayed = question.stayed
  BY <1>6 DEF SameAsked
<1>11. RequestOK(r, onHand, counted')
  BY <1>1, <1>2a, <1>3, <1>6, <1>7, <1>9, <1>10 DEF AnswerInv, RequestOK
<1> QED  BY <1>1, <1>11 DEF AnswerInv, r

LEMMA OthersKeepRequest ==
  ASSUME AnswerAssumption, AnswerInv,
         \/ \E m \in AnswerModes \cup {"stream"}, at \in AskedAsOf \cup {CurrentView}, k \in {"valid", "system"} :
              Ask(m, at, k)
         \/ Fails \/ Leaves \/ (\E c \in AllPassages : Forgets(DocOf(c)))
         \/ UNCHANGED answerVars
  PROVE  AnswerInv'
<1> DEFINE r == question'
<1>1. ASSUME NEW m, NEW at, NEW k, Ask(m, at, k)
      PROVE  AnswerInv'
  <2>1. /\ r = [NoQuestion EXCEPT !.mode = m, !.at = at, !.clock = k, !.phase = "first",
                                  !.tried = {TheQuestion}, !.there = onHand, !.stayed = onHand]
        /\ UNCHANGED <<onHand, counted>>
    BY <1>1 DEF Ask
  <2>2. /\ DOMAIN r = Fields /\ r.phase = "first" /\ r.calls = 0 /\ r.shown = {} /\ r.cites = {}
        /\ r.there = onHand /\ r.stayed = onHand
    BY <2>1 DEF NoQuestion, Fields
  <2>3. 0 \in 0..(MaxHops + 1)
    BY DEF AnswerAssumption
  <2> HIDE DEF r
  <2>4. RequestOK(r, onHand, counted)
    BY <2>2, <2>3 DEF RequestOK
  <2> QED  BY <2>1, <2>4 DEF AnswerInv, r
<1>2. CASE Fails \/ Leaves
  <2>1. PICK phase \in {"failed", "left"} : r = Ends(question, phase)
    BY <1>2 DEF Fails, Leaves
  <2>2. r.phase = phase /\ SameShown(question, r) /\ UNCHANGED <<onHand, counted>>
    BY <1>2, <2>1, PhasesKeepTheRequest DEF Fails, Leaves, AnswerInv, RequestOK
  <2>3. Readable(r) = Readable(question)
    BY <2>2, SameAskedReadsTheSame DEF SameShown
  <2>4. question.phase # "none"
    BY <1>2 DEF Fails, Leaves
  <2> HIDE DEF r
  <2>5. RequestOK(r, onHand, counted)
    BY <2>2, <2>3, <2>4 DEF AnswerInv, RequestOK, SameShown, SameAsked
  <2> QED  BY <2>2, <2>5 DEF AnswerInv, r
<1>3. ASSUME NEW c, Forgets(DocOf(c))
      PROVE  AnswerInv'
  <2>1. /\ onHand' \subseteq onHand /\ counted' = counted
        /\ r = [question EXCEPT !.stayed = question.stayed \cap onHand']
    BY <1>3 DEF Forgets
  <2>2. /\ DOMAIN r = Fields /\ r.phase = question.phase /\ r.mode = question.mode /\ r.at = question.at
        /\ r.clock = question.clock /\ r.shown = question.shown /\ r.calls = question.calls
        /\ r.cites = question.cites /\ r.there = question.there
        /\ r.stayed = question.stayed \cap onHand'
    BY <2>1 DEF Fields, AnswerInv, RequestOK
  <2>3. \A d : KnownAt(d, r) <=> KnownAt(d, question)
    BY <2>2 DEF KnownAt
  <2>4. Readable(r) = Readable(question) /\ (Bare(question) => Bare(r))
    BY <2>2, <2>3 DEF Readable, Bare
  <2> HIDE DEF r
  <2>5. RequestOK(r, onHand', counted)
    BY <2>1, <2>2, <2>4 DEF AnswerInv, RequestOK
  <2> QED  BY <2>1, <2>5 DEF AnswerInv, r
<1>4. CASE UNCHANGED answerVars
  BY <1>4 DEF answerVars, AnswerInv
<1> QED  BY <1>1, <1>2, <1>3, <1>4

LEMMA AnswerInvHolds ==
  ASSUME AnswerAssumption
  PROVE  AnswerSpec => []AnswerInv
<1>1. AnswerInit => AnswerInv
  <2> SUFFICES ASSUME AnswerInit
               PROVE  RequestOK(question, onHand, counted)
    BY DEF AnswerInv
  <2>1. /\ DOMAIN question = Fields /\ question.phase = "none" /\ question.calls = 0 /\ question.shown = {}
        /\ question.cites = {} /\ question.stayed = {}
    BY DEF AnswerInit, NoQuestion, Fields
  <2>2. 0 \in 0..(MaxHops + 1)
    BY DEF AnswerAssumption
  <2> QED  BY <2>1, <2>2 DEF RequestOK
<1>2. AnswerInv /\ [AnswerNext]_answerVars => AnswerInv'
  <2> SUFFICES ASSUME AnswerInv, [AnswerNext]_answerVars
               PROVE  AnswerInv'
    OBVIOUS
  <2>1. CASE Compose
    <3>1. question.phase = "compose" /\ UNCHANGED <<onHand, counted>>
          /\ \E cited \in CitedByModel : Answers(cited)
      BY <2>1 DEF Compose, At
    <3> QED  BY <3>1, AnswersKeepRequest
  <2> QED  BY <2>1, FirstPacketKeepsRequest, AdmitKeepsRequest, AssessKeepsRequest, SearchKeepsRequest,
              OthersKeepRequest DEF AnswerNext
<1> QED  BY <1>1, <1>2, PTL DEF AnswerSpec

\* DirectMemory.search, the memory hop and the promotion of cold items: in every behaviour
\* an answer cites what its reader might read, and an empty one abstains truly.
THEOREM AnswerIsGroundedHolds ==
  ASSUME AnswerAssumption
  PROVE  AnswerSpec => []AnswerIsGrounded
<1>1. AnswerInv => AnswerIsGrounded
  <2> SUFFICES ASSUME RequestOK(question, onHand, counted)
               PROVE  AnswerIsGrounded
    BY DEF AnswerInv
  <2>1. MaxHops \in Nat
    BY DEF AnswerAssumption
  <2>2. question.calls <= MaxHops + 1
    BY <2>1 DEF RequestOK
  <2>3. \A c \in question.cites : /\ c \in question.there /\ KnownAt(c, question)
                                  /\ Library[c].scope \in ReaderScopes
    BY DEF RequestOK, Readable
  <2>4. question.phase = "answered" /\ question.shown = {} =>
          \A c \in question.stayed : Library[c].scope \in ReaderScopes /\ KnownAt(c, question) =>
            TheQuestion \notin Library[c].text
    BY DEF RequestOK, Bare
  <2>5. question.mode # "hop" => question.cites \subseteq counted
    BY DEF RequestOK
  <2>6. question.shown = {} /\ question.mode # "stream" => question.calls = 0
    BY DEF RequestOK
  <2> QED  BY <2>2, <2>3, <2>4, <2>5, <2>6 DEF AnswerIsGrounded
<1> QED  BY <1>1, AnswerInvHolds, PTL


-----------------------------------------------------------------------------
(* Callers: the entries served are those of the file last loaded, and what   *)
(* is believed of a member was true when the platform was asked.             *)

KeysInv ==
  /\ server.phase \in {"serving", "changed", "read"}
  /\ mtime \in Nat /\ server.mtime \in Nat /\ server.mtime <= mtime
  /\ server.phase = "changed" => server.seen \in Nat /\ server.seen <= mtime
  /\ server.phase = "read" => server.seen \in Nat /\ server.seen <= mtime
  /\ DOMAIN server = {"phase", "keys", "mtime", "seen"}
  /\ server.keys \in goodSets /\ (Parsed(keyFile) => keyFile.entries \in goodSets)
  /\ overtaken \in BOOLEAN
  /\ server.phase = "read" /\ ~overtaken => Parsed(keyFile) /\ server.keys = keyFile.entries
  /\ server.phase = "serving" /\ server.mtime = mtime /\ Parsed(keyFile) /\ ~overtaken
       => server.keys = keyFile.entries

\* Whoever is believed was a member when asked, or left since.
MembersInv ==
  /\ minute \in Nat
  /\ leftAt \in [Asking \X Chosen -> Nat] /\ confirmed \in [Asking \X Chosen -> Nat]
  /\ \A m \in Asking \X Chosen :
       /\ leftAt[m] <= minute /\ confirmed[m] <= minute + MembershipTTL
       /\ m \in members \/ confirmed[m] <= leftAt[m] + MembershipTTL
  /\ DOMAIN asked = Asking
  /\ \A p \in Asking : asked[p].phase \in {"sent", "listed"} =>
       /\ asked[p].org \in Chosen /\ asked[p].at \in Nat /\ asked[p].at <= minute
  /\ \A p \in Asking : asked[p].phase = "listed" /\ asked[p].yes =>
       <<p, asked[p].org>> \in members \/ asked[p].at <= leftAt[<<p, asked[p].org>>]

\* Another file: of a later time than any that was loaded, and known to have overtaken a
\* load that had read.
LEMMA ReplacedKeepsKeys ==
  ASSUME KeysInv
  PROVE  \A content : FileReplaced(content) /\ UNCHANGED server => KeysInv'
<1> SUFFICES ASSUME NEW content, FileReplaced(content), UNCHANGED server
             PROVE  KeysInv'
  OBVIOUS
<1>1. /\ keyFile' = content /\ mtime' = mtime + 1 /\ server' = server
      /\ goodSets' = IF Parsed(content) THEN goodSets \cup {content.entries} ELSE goodSets
      /\ overtaken' = (overtaken \/ server.phase = "read")
  BY DEF FileReplaced
<1>2. mtime \in Nat /\ server.mtime \in Nat /\ server.mtime <= mtime
  BY DEF KeysInv
<1>3. goodSets \subseteq goodSets' /\ (Parsed(keyFile') => keyFile'.entries \in goodSets')
  BY <1>1
<1>4. server'.mtime # mtime' /\ server'.mtime <= mtime' /\ mtime' \in Nat
  BY <1>1, <1>2
<1>5. server'.phase = "read" => overtaken'
  BY <1>1
<1>6. \A n \in Nat : n <= mtime => n <= mtime'
  BY <1>1, <1>2
<1> QED  BY <1>1, <1>3, <1>4, <1>5, <1>6 DEF KeysInv

\* A step of the file and its readers.
LEMMA KeyFileKeepsKeys ==
  ASSUME KeysInv, KeyFileNext
  PROVE  KeysInv'
<1>1. CASE \E c \in Files : HandEdit(c)
  <2>1. PICK c \in Files : FileReplaced(c) /\ UNCHANGED server
    BY <1>1 DEF HandEdit
  <2> QED  BY <2>1, ReplacedKeepsKeys
<1>2. CASE \E o \in Operators : ToolWrites(o)
  <2>1. \E c : FileReplaced(c) /\ UNCHANGED server
    BY <1>2 DEF ToolWrites
  <2> QED  BY <2>1, ReplacedKeepsKeys
<1>3. CASE \E o \in Operators, k \in KeyIds, v \in {"new", "revoke"} : ToolReads(o, v, k)
  BY <1>3 DEF ToolReads, KeysInv
<1>4. CASE Stats
  <2>1. server' = [server EXCEPT !.phase = "changed", !.seen = mtime]
        /\ UNCHANGED <<keyFile, mtime, goodSets, overtaken>>
    BY <1>4 DEF Stats
  <2>2. /\ server'.phase = "changed" /\ server'.seen = mtime /\ server'.keys = server.keys
        /\ server'.mtime = server.mtime /\ DOMAIN server' = DOMAIN server
    BY <2>1 DEF KeysInv
  <2> QED  BY <2>1, <2>2 DEF KeysInv
<1>5. CASE Loads
  <2>1. /\ server.phase = "changed" /\ overtaken' = (overtaken /\ ~Parsed(keyFile))
        /\ UNCHANGED <<keyFile, mtime, goodSets>>
    BY <1>5 DEF Loads
  <2>2. CASE Parsed(keyFile)
    <3>1. server' = [server EXCEPT !.phase = "read", !.keys = keyFile.entries]
      BY <1>5, <2>2 DEF Loads
    <3>2. /\ server'.phase = "read" /\ server'.keys = keyFile.entries /\ server'.seen = server.seen
          /\ server'.mtime = server.mtime /\ DOMAIN server' = DOMAIN server
      BY <3>1 DEF KeysInv
    <3> QED  BY <2>1, <2>2, <3>2 DEF KeysInv
  <2>3. CASE ~Parsed(keyFile)
    <3>1. server' = [server EXCEPT !.phase = "serving", !.mtime = server.seen]
      BY <1>5, <2>3 DEF Loads, GivenUp
    <3>2. /\ server'.phase = "serving" /\ server'.keys = server.keys
          /\ server'.mtime = server.seen /\ DOMAIN server' = DOMAIN server
      BY <3>1 DEF KeysInv
    <3> QED  BY <2>1, <2>3, <3>2 DEF KeysInv
  <2> QED  BY <2>2, <2>3
<1>6. CASE StatsAgain
  <2>1. server.phase = "read" /\ UNCHANGED <<keyFile, mtime, goodSets, overtaken>>
    BY <1>6 DEF StatsAgain, KeysInv
  <2>2. CASE keyFile.is = "missing"
    <3>1. server' = [server EXCEPT !.phase = "serving", !.mtime = server.seen]
      BY <1>6, <2>2 DEF StatsAgain, GivenUp
    <3>2. /\ server'.phase = "serving" /\ server'.keys = server.keys
          /\ server'.mtime = server.seen /\ DOMAIN server' = DOMAIN server
      BY <3>1 DEF KeysInv
    <3>3. ~Parsed(keyFile)
      BY <2>2 DEF Parsed
    <3> QED  BY <2>1, <3>2, <3>3 DEF KeysInv
  <2>3. CASE keyFile.is # "missing"
    <3>1. server' = [server EXCEPT !.phase = "serving", !.mtime = mtime]
      BY <1>6, <2>3 DEF StatsAgain
    <3>2. /\ server'.phase = "serving" /\ server'.keys = server.keys
          /\ server'.mtime = mtime /\ DOMAIN server' = DOMAIN server
      BY <3>1 DEF KeysInv
    <3> QED  BY <2>1, <3>2 DEF KeysInv
  <2> QED  BY <2>2, <2>3
<1>7. CASE ServiceStarts
  <2>1. /\ server' = [phase |-> "read", keys |-> keyFile.entries, mtime |-> server.mtime, seen |-> mtime]
        /\ Parsed(keyFile) /\ overtaken' = FALSE /\ UNCHANGED <<keyFile, mtime, goodSets>>
    BY <1>7 DEF ServiceStarts
  <2>2. /\ server'.phase = "read" /\ server'.keys = keyFile.entries /\ server'.mtime = server.mtime
        /\ server'.seen = mtime /\ DOMAIN server' = {"phase", "keys", "mtime", "seen"}
    BY <2>1
  <2>3. Parsed(keyFile) /\ overtaken' \in BOOLEAN /\ UNCHANGED <<keyFile, mtime, goodSets>>
    BY <2>1
  <2> QED  BY <2>2, <2>3 DEF KeysInv
<1> QED  BY <1>1, <1>2, <1>3, <1>4, <1>5, <1>6, <1>7 DEF KeyFileNext

\* A step of somebody's membership, or of the clock.
LEMMA MembershipKeepsMembers ==
  ASSUME CallersAssumption, MembersInv, MembershipNext
  PROVE  MembersInv'
<1>0. MembershipTTL \in Nat
  BY DEF CallersAssumption
<1>1. ASSUME NEW p \in Asking, NEW org \in Chosen, Asks(p, org)
      PROVE  MembersInv'
  <2>1. /\ asked' = [asked EXCEPT ![p] = [phase |-> "sent", org |-> org, at |-> minute]]
        /\ UNCHANGED <<members, leftAt, confirmed, minute>>
    BY <1>1 DEF Asks
  <2>2. /\ asked'[p].phase = "sent" /\ asked'[p].org = org /\ asked'[p].at = minute
        /\ DOMAIN asked' = Asking /\ \A q \in Asking : q # p => asked'[q] = asked[q]
    BY <2>1 DEF MembersInv
  <2> QED  BY <2>1, <2>2 DEF MembersInv
<1>2. ASSUME NEW p \in Asking, PlatformLists(p)
      PROVE  MembersInv'
  <2> DEFINE listing == [phase |-> "listed", org |-> asked[p].org, at |-> asked[p].at,
                      yes |-> <<p, asked[p].org>> \in members]
  <2>1. /\ asked[p].phase = "sent" /\ asked' = [asked EXCEPT ![p] = listing]
        /\ UNCHANGED <<members, leftAt, confirmed, minute>>
    BY <1>2 DEF PlatformLists
  <2>2. /\ listing.phase = "listed" /\ listing.org = asked[p].org /\ listing.at = asked[p].at
        /\ listing.yes = (<<p, asked[p].org>> \in members)
    OBVIOUS
  <2> HIDE DEF listing
  <2>3. /\ asked'[p] = listing /\ DOMAIN asked' = Asking
        /\ \A q \in Asking : q # p => asked'[q] = asked[q]
    BY <2>1 DEF MembersInv
  <2> QED  BY <2>1, <2>2, <2>3 DEF MembersInv
<1>3. ASSUME NEW p \in Asking, IsTold(p)
      PROVE  MembersInv'
  <2> DEFINE m == <<p, asked[p].org>>
             till == asked[p].at + MembershipTTL
  <2>1. /\ asked[p].phase = "listed" /\ asked' = [asked EXCEPT ![p] = NotAsked]
        /\ confirmed' = IF asked[p].yes THEN [confirmed EXCEPT ![m] = till] ELSE confirmed
        /\ UNCHANGED <<members, leftAt, minute>>
    BY <1>3 DEF IsTold, Believed
  <2>2. m \in Asking \X Chosen /\ asked[p].at \in Nat /\ asked[p].at <= minute /\ till \in Nat
    BY <1>0, <2>1 DEF MembersInv
  <2>3. asked[p].yes => m \in members \/ asked[p].at <= leftAt[m]
    BY <2>1 DEF MembersInv
  <2>4. asked'[p].phase = "idle" /\ DOMAIN asked' = Asking
        /\ \A q \in Asking : q # p => asked'[q] = asked[q]
    BY <2>1 DEF MembersInv, NotAsked
  <2>5. minute \in Nat /\ leftAt[m] \in Nat /\ till <= minute + MembershipTTL
        /\ (asked[p].at <= leftAt[m] => till <= leftAt[m] + MembershipTTL)
    BY <1>0, <2>2 DEF MembersInv
  <2> HIDE DEF m, till
  <2>6. /\ confirmed' \in [Asking \X Chosen -> Nat]
        /\ \A k \in Asking \X Chosen :
             /\ confirmed'[k] <= minute + MembershipTTL
             /\ k \in members \/ confirmed'[k] <= leftAt[k] + MembershipTTL
    BY <2>1, <2>2, <2>3, <2>5 DEF MembersInv
  <2> QED  BY <2>1, <2>4, <2>6 DEF MembersInv
<1>4. ASSUME NEW p \in Asking, AskFails(p)
      PROVE  MembersInv'
  <2>1. asked' = [asked EXCEPT ![p] = NotAsked] /\ UNCHANGED <<members, leftAt, confirmed, minute>>
    BY <1>4 DEF AskFails
  <2>2. asked'[p].phase = "idle" /\ DOMAIN asked' = Asking
        /\ \A q \in Asking : q # p => asked'[q] = asked[q]
    BY <2>1 DEF MembersInv, NotAsked
  <2> QED  BY <2>1, <2>2 DEF MembersInv
<1>5. ASSUME NEW p \in Asking, NEW org \in Chosen, JoinsOrLeaves(p, org)
      PROVE  MembersInv'
  <2> DEFINE m == <<p, org>>
  <2>1. m \in Asking \X Chosen /\ UNCHANGED <<asked, confirmed, minute>>
    BY <1>5 DEF JoinsOrLeaves
  <2>2. IF m \in members
        THEN members' = members \ {m} /\ leftAt' = [leftAt EXCEPT ![m] = minute]
        ELSE members' = members \cup {m} /\ leftAt' = leftAt
    BY <1>5 DEF JoinsOrLeaves
  <2> HIDE DEF m
  <2>3. /\ leftAt' \in [Asking \X Chosen -> Nat]
        /\ \A k \in Asking \X Chosen : leftAt[k] <= leftAt'[k] /\ leftAt'[k] <= minute
        /\ \A k \in Asking \X Chosen : k \in members' \/ k \notin members \/ leftAt'[k] = minute
    BY <2>1, <2>2 DEF MembersInv
  <2>4. ASSUME NEW k \in Asking \X Chosen
        PROVE  k \in members' \/ confirmed[k] <= leftAt'[k] + MembershipTTL
    <3>1. /\ confirmed[k] <= minute + MembershipTTL /\ confirmed[k] \in Nat /\ minute \in Nat
          /\ leftAt[k] \in Nat /\ leftAt'[k] \in Nat /\ leftAt[k] <= leftAt'[k]
      BY <2>1, <2>3 DEF MembersInv
    <3>2. CASE k \in members'
      BY <3>2
    <3>3. CASE leftAt'[k] = minute
      BY <3>1, <3>3
    <3>4. CASE k \notin members' /\ k \notin members
      <4>1. confirmed[k] <= leftAt[k] + MembershipTTL
        BY <3>4 DEF MembersInv
      <4> QED  BY <1>0, <3>1, <4>1
    <3> QED  BY <2>3, <3>2, <3>3, <3>4
  <2>5. ASSUME NEW q \in Asking, asked[q].phase = "listed", asked[q].yes
        PROVE  <<q, asked[q].org>> \in members' \/ asked[q].at <= leftAt'[<<q, asked[q].org>>]
    <3> DEFINE k == <<q, asked[q].org>>
    <3>1. k \in Asking \X Chosen /\ asked[q].at \in Nat /\ asked[q].at <= minute /\ minute \in Nat
          /\ (k \in members \/ asked[q].at <= leftAt[k])
      BY <2>5 DEF MembersInv
    <3> HIDE DEF k
    <3>2. leftAt[k] \in Nat /\ leftAt'[k] \in Nat /\ leftAt[k] <= leftAt'[k]
      BY <2>3, <3>1 DEF MembersInv
    <3>3. k \in members' \/ asked[q].at <= leftAt'[k]
      BY <2>3, <3>1, <3>2
    <3> QED  BY <3>3 DEF k
  <2> QED  BY <2>1, <2>3, <2>4, <2>5 DEF MembersInv
<1>6. CASE MinutePasses
  <2>1. minute' = minute + 1 /\ UNCHANGED <<members, leftAt, asked, confirmed>> /\ minute \in Nat
    BY <1>6 DEF MinutePasses, MembersInv
  <2>2. \A n \in Nat : (n <= minute => n <= minute')
                       /\ (n <= minute + MembershipTTL => n <= minute' + MembershipTTL)
    BY <1>0, <2>1
  <2>3. minute' \in Nat
    BY <2>1
  <2> QED  BY <2>1, <2>2, <2>3 DEF MembersInv
<1> QED  BY <1>1, <1>2, <1>3, <1>4, <1>5, <1>6 DEF MembershipNext

CallersInv == KeysInv /\ MembersInv

LEMMA CallersInvHolds ==
  ASSUME CallersAssumption
  PROVE  CallersSpec => []CallersInv
<1>1. CallersInit => CallersInv
  <2> SUFFICES ASSUME CallersInit
               PROVE  KeysInv /\ MembersInv
    BY DEF CallersInv
  <2>1. KeysInv
    <3>1. server = [phase |-> "serving", keys |-> NoEntries, mtime |-> 0, seen |-> 0]
          /\ keyFile = File("ok", NoEntries) /\ mtime = 0 /\ goodSets = {NoEntries} /\ overtaken = FALSE
      BY DEF CallersInit
    <3>2. /\ server.phase = "serving" /\ server.keys = NoEntries /\ server.mtime = 0
          /\ DOMAIN server = {"phase", "keys", "mtime", "seen"} /\ keyFile.entries = NoEntries
      BY <3>1 DEF File
    <3>3. mtime = 0 /\ goodSets = {NoEntries} /\ overtaken \in BOOLEAN
      BY <3>1
    <3> QED  BY <3>2, <3>3 DEF KeysInv
  <2>2. MembersInv
    <3>1. /\ members = {} /\ leftAt = [m \in Asking \X Chosen |-> 0] /\ minute = 1
          /\ asked = [p \in Asking |-> NotAsked] /\ confirmed = [m \in Asking \X Chosen |-> 0]
      BY DEF CallersInit, Never
    <3>2. MembershipTTL \in Nat /\ 0 <= 0 + MembershipTTL /\ 0 <= 1 + MembershipTTL
      BY DEF CallersAssumption
    <3> QED  BY <3>1, <3>2 DEF MembersInv, NotAsked
  <2> QED  BY <2>1, <2>2
<1>2. CallersInv /\ [CallersNext]_callersVars => CallersInv'
  <2> SUFFICES ASSUME KeysInv, MembersInv, [CallersNext]_callersVars
               PROVE  KeysInv' /\ MembersInv'
    BY DEF CallersInv
  <2>1. CASE KeyFileNext
    <3>1. UNCHANGED memberVars
      BY <2>1 DEF KeyFileNext, HandEdit, ToolWrites, ToolReads, Stats, Loads, StatsAgain, ServiceStarts
    <3> QED  BY <2>1, <3>1, KeyFileKeepsKeys DEF memberVars, MembersInv
  <2>2. CASE MembershipNext
    <3>1. UNCHANGED fileVars
      BY <2>2 DEF MembershipNext, Asks, PlatformLists, IsTold, AskFails, JoinsOrLeaves, MinutePasses
    <3> QED  BY <2>2, <3>1, MembershipKeepsMembers DEF fileVars, KeysInv
  <2>3. CASE UNCHANGED callersVars
    BY <2>3 DEF callersVars, KeysInv, MembersInv
  <2> QED  BY <2>1, <2>2, <2>3 DEF CallersNext
<1> QED  BY <1>1, <1>2, PTL DEF CallersSpec

\* lookup with _maybe_reload, and verify_membership: in every behaviour the keys served are
\* the file's and who is believed a member was one within the time.
THEOREM CallersAreCurrentHolds ==
  ASSUME CallersAssumption
  PROVE  CallersSpec => []CallersAreCurrent
<1>1. CallersInv => CallersAreCurrent
  <2> SUFFICES ASSUME KeysInv, MembersInv
               PROVE  KeysAreTheFiles /\ MembersAreRecent
    BY DEF CallersInv, CallersAreCurrent
  <2>1. KeysAreTheFiles
    BY DEF KeysInv, KeysAreTheFiles, Granted
  <2>2. MembersAreRecent
    <3> SUFFICES ASSUME NEW m \in Asking \X Chosen, confirmed[m] > minute, m \notin members
                 PROVE  leftAt[m] + MembershipTTL > minute
      BY DEF MembersAreRecent
    <3>1. /\ confirmed[m] <= leftAt[m] + MembershipTTL /\ confirmed[m] \in Nat /\ leftAt[m] \in Nat
          /\ minute \in Nat /\ MembershipTTL \in Nat
      BY DEF MembersInv, CallersAssumption
    <3> QED  BY <3>1
  <2> QED  BY <2>1, <2>2
<1> QED  BY <1>1, CallersInvHolds, PTL


-----------------------------------------------------------------------------
(* Judge: a judgement opens nothing, and a fact still open at its end has    *)
(* been put beside every other that was.                                     *)

JudgeInv ==
  /\ relations \subseteq Relation
  /\ \A r, q \in OpenOf(relations) : r.object = q.object => r = q
  /\ FactsAgree

\* What is ended is not open, and nothing else changes.
LEMMA EndedFacts ==
  ASSUME JudgeAssumption, NEW rs \in SUBSET Relation, NEW object, NEW day \in 1..LastDay
  PROVE  /\ EndedAt(rs, object, day) \in SUBSET Relation
         /\ OpenOf(EndedAt(rs, object, day)) \subseteq OpenOf(rs)
         /\ \A r \in OpenOf(EndedAt(rs, object, day)) : ~(r.object = object /\ r.from <= day)
<1> DEFINE hit == {r \in OpenOf(rs) : r.object = object /\ r.from <= day}
           over == {[r EXCEPT !.to = day] : r \in hit}
<1>1. EndedAt(rs, object, day) = (rs \ hit) \cup over
  BY DEF EndedAt
<1>2. day \in 1..StillOpen /\ day # StillOpen
  BY DEF StillOpen, JudgeAssumption
<1>3. \A r \in over : r \in Relation /\ r.to = day
  BY <1>2 DEF OpenOf, Relation
<1>4. \A r \in OpenOf((rs \ hit) \cup over) : r \in rs /\ r \notin hit /\ r.to = StillOpen
  BY <1>2, <1>3 DEF OpenOf
<1> QED  BY <1>1, <1>3, <1>4 DEF OpenOf

\* judge_and_invalidate, of one candidate: nothing is opened, and if the new fact stays
\* open a candidate that contradicts it does not.
LEMMA JudgedFacts ==
  ASSUME JudgeAssumption, NEW rs \in SUBSET Relation, NEW edge \in Relation, NEW c \in Relation,
         edge.to = StillOpen
  PROVE  /\ Judged(rs, edge, c) \in SUBSET Relation
         /\ OpenOf(Judged(rs, edge, c)) \subseteq OpenOf(rs)
         /\ edge \in OpenOf(Judged(rs, edge, c)) /\ Contradicts(c, edge)
              => c \notin OpenOf(Judged(rs, edge, c))
<1> DEFINE Told(r) == r.object = edge.object /\ r.from = edge.from
                        /\ \A q \in rs : q.object = r.object /\ q.from = r.from => q.to <= r.to
           last == CHOOSE r \in rs : Told(r)
           end == last.to
<1>1. Judged(rs, edge, c) =
        IF end > c.from /\ Contradicts(c, edge) THEN OlderClosed(rs, edge, c) ELSE rs
  BY DEF Judged
<1>2. c.from \in 1..LastDay /\ edge.from \in 1..LastDay /\ LastDay \in Nat
  BY DEF Relation, JudgeAssumption
<1>3. edge \in OpenOf(rs) => end > c.from
  <2> SUFFICES ASSUME edge \in rs
               PROVE  end > c.from
    BY DEF OpenOf
  <2>1. \A q \in rs : q.to \in 1..StillOpen
    BY DEF Relation
  <2>2. Told(edge)
    BY <2>1 DEF StillOpen, JudgeAssumption
  <2>3. last \in rs /\ Told(last)
    BY <2>2
  <2>4. edge.to <= last.to /\ last.to \in 1..StillOpen
    BY <2>1, <2>3
  <2> QED  BY <2>4, <1>2 DEF StillOpen
<1> HIDE DEF end
<1>4. CASE end > c.from /\ Contradicts(c, edge)
  <2>1. CASE c.from <= edge.from
    <3> DEFINE new == EndedAt(rs, c.object, edge.from)
    <3>1. Judged(rs, edge, c) = new
      BY <1>1, <1>4, <2>1 DEF OlderClosed
    <3>2. new \in SUBSET Relation /\ OpenOf(new) \subseteq OpenOf(rs)
          /\ \A r \in OpenOf(new) : ~(r.object = c.object /\ r.from <= edge.from)
      BY <1>2, EndedFacts
    <3> QED  BY <2>1, <3>1, <3>2
  <2>2. CASE ~(c.from <= edge.from)
    <3> DEFINE new == EndedAt(rs, edge.object, c.from)
    <3>1. Judged(rs, edge, c) = new
      BY <1>1, <1>4, <2>2 DEF OlderClosed
    <3>2. new \in SUBSET Relation /\ OpenOf(new) \subseteq OpenOf(rs)
          /\ \A r \in OpenOf(new) : ~(r.object = edge.object /\ r.from <= c.from)
      BY <1>2, EndedFacts
    <3>3. edge \notin OpenOf(new)
      BY <1>2, <2>2, <3>2
    <3> QED  BY <3>1, <3>2, <3>3
  <2> QED  BY <2>1, <2>2
<1>5. CASE ~(end > c.from /\ Contradicts(c, edge))
  BY <1>1, <1>3, <1>5
<1> QED  BY <1>4, <1>5

\* Of all of them in turn: the same.
LEMMA JudgedInTurnFacts ==
  ASSUME JudgeAssumption, NEW rs \in SUBSET Relation, NEW edge \in Relation, edge.to = StillOpen,
         NEW candidates \in Seq(Relation)
  PROVE  LET done == JudgedInTurn(rs, edge, candidates) IN
         /\ done \in SUBSET Relation /\ OpenOf(done) \subseteq OpenOf(rs)
         /\ edge \in OpenOf(done) =>
              \A i \in 1..Len(candidates) :
                Contradicts(candidates[i], edge) => candidates[i] \notin OpenOf(done)
<1> DEFINE N == Len(candidates)
           S == SUBSET Relation
           after[n \in 0..N] == IF n = 0 THEN rs ELSE Judged(after[n - 1], edge, candidates[n])
           F == [k \in (1..N) \X S |-> Judged(k[2], edge, candidates[k[1]])]
<1>1. N \in Nat /\ \A i \in 1..N : candidates[i] \in Relation
  OBVIOUS
<1>2. F \in [(1..N) \X S -> S]
  BY <1>1, JudgedFacts
<1>3. \A n \in 1..N : \A x \in S : F[<<n, x>>] = Judged(x, edge, candidates[n])
  OBVIOUS
<1> HIDE DEF F
<1>4. PICK g \in [0..N -> S] : Walked(g, N, rs, F)
  <2>1. rs \in S
    OBVIOUS
  <2> HIDE DEF S, N
  <2> QED  BY <1>1, <1>2, <2>1, WalkExists
<1>5. g = [n \in 0..N |-> IF n = 0 THEN rs ELSE Judged(g[n - 1], edge, candidates[n])]
  <2>1. ASSUME NEW n \in 0..N
        PROVE  g[n] = IF n = 0 THEN rs ELSE Judged(g[n - 1], edge, candidates[n])
    <3>1. CASE n = 0
      BY <3>1, <1>4 DEF Walked
    <3>2. CASE n # 0
      <4>1. n \in 1..N /\ n - 1 \in 0..N /\ g[n - 1] \in S
        BY <1>1, <3>2
      <4> QED  BY <4>1, <3>2, <1>3, <1>4 DEF Walked
    <3> QED  BY <3>1, <3>2
  <2> HIDE DEF S
  <2>2. g = [n \in 0..N |-> g[n]]
    OBVIOUS
  <2> QED  BY <2>1, <2>2
<1>6. after = [n \in 0..N |-> IF n = 0 THEN rs ELSE Judged(after[n - 1], edge, candidates[n])]
  BY <1>5
<1>7. JudgedInTurn(rs, edge, candidates) = after[N]
  BY DEF JudgedInTurn
<1> HIDE DEF after
<1> DEFINE Kept == {k \in (0..N) \X S :
                      /\ OpenOf(k[2]) \subseteq OpenOf(rs)
                      /\ edge \in OpenOf(k[2]) =>
                           \A i \in 1..k[1] : Contradicts(candidates[i], edge)
                                                => candidates[i] \notin OpenOf(k[2])}
<1>8. \A n \in 0..N : after[n] \in S /\ <<n, after[n]>> \in Kept
  <2> DEFINE Good == {n \in Nat : n <= N => after[n] \in S /\ <<n, after[n]>> \in Kept}
  <2>1. 0 \in Good
    <3>1. 0 \in 0..N /\ after[0] = rs
      BY <1>1, <1>6
    <3> QED  BY <3>1
  <2>2. ASSUME NEW n \in Nat, n \in Good
        PROVE  n + 1 \in Good
    <3> SUFFICES ASSUME n + 1 <= N
                 PROVE  after[n + 1] \in S /\ <<n + 1, after[n + 1]>> \in Kept
      OBVIOUS
    <3>1. n + 1 \in 0..N /\ n + 1 # 0 /\ (n + 1) - 1 = n /\ n + 1 \in 1..N /\ n <= N
      BY <1>1
    <3>2. after[n + 1] = Judged(after[n], edge, candidates[n + 1])
      BY <1>6, <3>1
    <3> DEFINE x == after[n]
               y == after[n + 1]
               c == candidates[n + 1]
    <3>3. x \in S /\ <<n, x>> \in Kept
      BY <2>2, <3>1
    <3>4. c \in Relation
      BY <1>1, <3>1
    <3>5. /\ y \in S /\ OpenOf(y) \subseteq OpenOf(x)
          /\ edge \in OpenOf(y) /\ Contradicts(c, edge) => c \notin OpenOf(y)
      BY <3>2, <3>3, <3>4, JudgedFacts
    <3>6. /\ OpenOf(x) \subseteq OpenOf(rs)
          /\ edge \in OpenOf(x) =>
               \A i \in 1..n : Contradicts(candidates[i], edge) => candidates[i] \notin OpenOf(x)
      BY <3>3
    <3> HIDE DEF x, y
    <3>7. ASSUME edge \in OpenOf(y), NEW i \in 1..(n + 1), Contradicts(candidates[i], edge)
          PROVE  candidates[i] \notin OpenOf(y)
      <4>1. CASE i = n + 1
        BY <4>1, <3>5, <3>7
      <4>2. CASE i # n + 1
        <5>1. i \in 1..n
          BY <4>2
        <5> QED  BY <5>1, <3>5, <3>6, <3>7
      <4> QED  BY <4>1, <4>2
    <3>8. y \in S /\ <<n + 1, y>> \in Kept
      BY <3>1, <3>5, <3>6, <3>7
    <3> QED  BY <3>8 DEF y
  <2> HIDE DEF Good
  <2>3. Nat \subseteq Good
    BY <2>1, <2>2, SetInduction
  <2> QED  BY <1>1, <2>3 DEF Good
<1>9. N \in 0..N
  BY <1>1
<1> QED  BY <1>7, <1>8, <1>9

\* search_fact_edges, when there is room for every object: a list of candidates holds all
\* the other open facts.
LEMMA EveryOtherIsSeen ==
  ASSUME JudgeAssumption, JudgeInv, Cardinality(Objects) <= JudgeLimit
  PROVE  \A edge \in Relation :
           edge.object \notin {r.object : r \in OpenOf(relations) \ {edge}} =>
             \A candidates \in CandidateLists(edge) : \A r \in OpenOf(relations) \ {edge} :
               \E i \in 1..Len(candidates) : candidates[i] = r
<1> SUFFICES ASSUME NEW edge \in Relation,
                    edge.object \notin {r.object : r \in OpenOf(relations) \ {edge}},
                    NEW candidates \in CandidateLists(edge), NEW r \in OpenOf(relations) \ {edge}
             PROVE  \E i \in 1..Len(candidates) : candidates[i] = r
  OBVIOUS
<1> DEFINE others == OpenOf(relations) \ {edge}
           rest == Objects \ {edge.object}
           f == [q \in others |-> q.object]
<1>1. IsFiniteSet(Objects) /\ edge.object \in Objects /\ others \subseteq Relation
  BY DEF JudgeAssumption, Relation, JudgeInv, OpenOf
<1>2. IsFiniteSet(rest) /\ Cardinality(rest) = Cardinality(Objects) - 1
  BY <1>1, FS_RemoveElement
<1>3. f \in Injection(others, rest)
  <2>1. \A q \in others : q.object \in rest
    BY <1>1 DEF Relation
  <2>2. \A q, s \in others : q.object = s.object => q = s
    BY DEF JudgeInv
  <2> QED  BY <2>1, <2>2 DEF Injection, IsInjective
<1> HIDE DEF f, rest
<1>4. IsFiniteSet(others) /\ Cardinality(others) <= Cardinality(rest)
  BY <1>2, <1>3, FS_Injection
<1>5. /\ Cardinality(others) \in Nat /\ Cardinality(rest) \in Nat /\ Cardinality(Objects) \in Nat
      /\ JudgeLimit \in Nat
  BY <1>1, <1>2, <1>4, FS_CardinalityType DEF JudgeAssumption
<1>6. Cardinality(others) < JudgeLimit
  BY <1>2, <1>4, <1>5
<1> DEFINE D == 1..Cardinality(others)
<1>7. candidates \in [D -> others] /\ \A i, j \in D : i # j => candidates[i] # candidates[j]
  BY <1>6 DEF CandidateLists, SetToSeqs
<1>8. IsFiniteSet(D) /\ Cardinality(D) = Cardinality(others)
  BY <1>5, FS_Interval
<1>9. candidates \in Injection(D, others)
  BY <1>7 DEF Injection, IsInjective
<1>10. Len(candidates) = Cardinality(others)
  BY <1>5, <1>7
<1> HIDE DEF D
<1>11. candidates \in Surjection(D, others)
  BY <1>4, <1>8, <1>9, FS_Injection
<1>12. \E i \in D : candidates[i] = r
  <2> HIDE DEF others
  <2>1. r \in others
    BY DEF others
  <2> QED  BY <1>11, <2>1 DEF Surjection
<1> QED  BY <1>10, <1>12 DEF D

LEMMA FoldKeepsJudged ==
  ASSUME JudgeAssumption, JudgeInv, NEW object \in Objects, NEW day \in 1..LastDay,
         FoldRelation(object, day)
  PROVE  JudgeInv'
<1> DEFINE edge == EdgeTo(object, day)
<1>1. edge \in Relation /\ edge.object = object /\ edge.to = StillOpen
      /\ \A r \in OpenOf(relations) : r.object = object => r = edge
  <2> DEFINE open == {r \in OpenOf(relations) : r.object = object}
  <2>1. CASE open # {}
    <3>1. edge \in open
      BY <2>1 DEF EdgeTo
    <3> QED  BY <3>1 DEF OpenOf, JudgeInv
  <2>2. CASE open = {}
    <3>1. edge = [object |-> object, from |-> day, to |-> StillOpen]
      BY <2>2 DEF EdgeTo
    <3>2. StillOpen \in 1..StillOpen
      BY DEF StillOpen, JudgeAssumption
    <3> QED  BY <2>2, <3>1, <3>2 DEF Relation
  <2> QED  BY <2>1, <2>2
<1>2. PICK candidates \in CandidateLists(edge) :
        relations' = JudgedInTurn(relations \cup {edge}, edge, candidates)
  BY DEF FoldRelation
<1> HIDE DEF edge
<1> DEFINE rs == relations \cup {edge}
<1>3. rs \in SUBSET Relation /\ relations \subseteq Relation
  BY <1>1 DEF JudgeInv
<1>4. candidates \in Seq(Relation)
  <2>1. PICK s \in SUBSET OpenOf(relations) : candidates \in [1..Cardinality(s) -> s]
                                              /\ IsFiniteSet(s)
    <3>1. IsFiniteSet(OpenOf(relations))
      <4> DEFINE f == [q \in OpenOf(relations) |-> q.object]
      <4>1. f \in Injection(OpenOf(relations), Objects)
        <5>1. \A q \in OpenOf(relations) : q.object \in Objects
          BY DEF JudgeInv, OpenOf, Relation
        <5>2. \A q, s \in OpenOf(relations) : q.object = s.object => q = s
          BY DEF JudgeInv
        <5> QED  BY <5>1, <5>2 DEF Injection, IsInjective
      <4> HIDE DEF f
      <4> QED  BY <4>1, FS_Injection DEF JudgeAssumption
    <3>2. PICK s \in SUBSET OpenOf(relations) : candidates \in SetToSeqs(s)
      BY <1>2 DEF CandidateLists
    <3> QED  BY <3>1, <3>2, FS_Subset DEF SetToSeqs
  <2>2. Cardinality(s) \in Nat /\ s \subseteq Relation
    BY <2>1, FS_CardinalityType DEF JudgeInv, OpenOf
  <2> QED  BY <2>1, <2>2
<1>5. /\ relations' \in SUBSET Relation /\ OpenOf(relations') \subseteq OpenOf(rs)
      /\ edge \in OpenOf(relations') =>
           \A i \in 1..Len(candidates) :
             Contradicts(candidates[i], edge) => candidates[i] \notin OpenOf(relations')
  BY <1>1, <1>2, <1>3, <1>4, JudgedInTurnFacts
<1>6. OpenOf(rs) = OpenOf(relations) \cup {edge}
  BY <1>1 DEF OpenOf
<1>7. \A r, q \in OpenOf(rs) : r.object = q.object => r = q
  BY <1>1, <1>6 DEF JudgeInv
<1>8. ASSUME Cardinality(Objects) <= JudgeLimit, NEW r \in OpenOf(relations'), NEW q \in OpenOf(relations')
      PROVE  ~Contradicts(r, q)
  <2>1. \A s \in OpenOf(relations') \ {edge} : s \in OpenOf(relations)
    BY <1>5, <1>6
  <2>2. ASSUME NEW s \in OpenOf(relations'), s # edge, edge \in OpenOf(relations')
        PROVE  ~Contradicts(s, edge)
    <3>1. edge.object \notin {t.object : t \in OpenOf(relations) \ {edge}}
      BY <1>1
    <3>2. s \in OpenOf(relations) \ {edge}
      BY <2>1, <2>2
    <3>3. PICK i \in 1..Len(candidates) : candidates[i] = s
      BY <1>1, <1>2, <1>8, <3>1, <3>2, EveryOtherIsSeen
    <3> QED  BY <1>5, <2>2, <3>3
  <2>3. \A a, b \in Relation : Contradicts(a, b) => Contradicts(b, a) /\ a # b
    <3>1. \A a, b \in Relation : {a.object, b.object} = {b.object, a.object}
      OBVIOUS
    <3> QED  BY <3>1 DEF Contradicts
  <2>4. r \in Relation /\ q \in Relation
    BY <1>5 DEF OpenOf
  <2>5. CASE r # edge /\ q # edge
    BY <2>1, <2>5, <1>8 DEF JudgeInv, FactsAgree
  <2>6. CASE r = edge \/ q = edge
    BY <2>2, <2>3, <2>4, <2>6
  <2> QED  BY <2>5, <2>6
<1>9. FactsAgree'
  BY <1>8 DEF FactsAgree
<1>10. \A r, q \in OpenOf(relations') : r.object = q.object => r = q
  BY <1>5, <1>7
<1> QED  BY <1>5, <1>9, <1>10 DEF JudgeInv

LEMMA JudgeInvHolds ==
  ASSUME JudgeAssumption
  PROVE  JudgeSpec => []JudgeInv
<1>1. JudgeInit => JudgeInv
  BY DEF JudgeInit, JudgeInv, OpenOf, FactsAgree
<1>2. JudgeInv /\ [JudgeNext]_judgeVars => JudgeInv'
  <2> SUFFICES ASSUME JudgeInv, [JudgeNext]_judgeVars
               PROVE  JudgeInv'
    OBVIOUS
  <2>1. ASSUME NEW object \in Objects, NEW day \in 1..LastDay, EndRelation(object, day)
        PROVE  JudgeInv'
    <3>1. relations' = EndedAt(relations, object, day) /\ relations \in SUBSET Relation
      BY <2>1 DEF EndRelation, JudgeInv
    <3>2. relations' \in SUBSET Relation /\ OpenOf(relations') \subseteq OpenOf(relations)
      <4>1. \A rs \in SUBSET Relation : EndedAt(rs, object, day) \in SUBSET Relation
                                        /\ OpenOf(EndedAt(rs, object, day)) \subseteq OpenOf(rs)
        BY EndedFacts
      <4> QED  BY <3>1, <4>1
    <3> QED  BY <3>2 DEF JudgeInv, FactsAgree
  <2>2. CASE UNCHANGED judgeVars
    BY <2>2 DEF judgeVars, JudgeInv, FactsAgree
  <2> QED  BY <2>1, <2>2, FoldKeepsJudged DEF JudgeNext
<1> QED  BY <1>1, <1>2, PTL DEF JudgeSpec

\* judge_and_invalidate: in every behaviour, with room for every object among the
\* candidates, no two current facts contradict each other.
THEOREM FactsAgreeHolds ==
  ASSUME JudgeAssumption
  PROVE  JudgeSpec => []FactsAgree
<1>1. JudgeInv => FactsAgree
  BY DEF JudgeInv
<1> QED  BY <1>1, JudgeInvHolds, PTL

-----------------------------------------------------------------------------
(* Presence: of the relations that exclude each other one is open, and every *)
(* window begins and ends at an instant that was told of one of them; so     *)
(* news as late as nothing told, or later, finds the windows it bounds.      *)

SameGroup(e, f) == e.home = f.home /\ f.rel \in Group(e.rel)

EdgeTold(e) ==
  /\ e.from <= latest[<<e.rel, e.home>>]
  /\ e.to = Ongoing \/ \E g \in Group(e.rel) : e.to <= latest[<<g, e.home>>]

PresenceInv ==
  /\ PresenceTypeOK
  /\ \A e, f \in OpenEdges : SameGroup(e, f) => e = f
  /\ \A e \in edges : EdgeTold(e)
  /\ AsOfIsWhatWasTold

\* A relation and its rival exclude each other.
LEMMA GroupFacts ==
  \A r \in Relations :
    /\ r \in Group(r) /\ Group(r) \subseteq Relations /\ Rivals(r) \subseteq Relations
    /\ \A g \in Group(r) : Group(g) = Group(r) /\ r \in Group(g)
    /\ \A g : g \in Rivals(r) <=> g \in Group(r) /\ g # r
BY DEF Relations, Group, Rivals, Status

\* What is known of the instants.
LEMMA InstantFacts ==
  ASSUME PresenceAssumption
  PROVE  /\ Instants \subseteq Nat /\ Ongoing \in Nat \ {0} /\ Ongoing \notin Instants
         /\ \A i \in Instants : i < Ongoing /\ i # 0
BY DEF PresenceAssumption, Instants, Ongoing

\* An end told of some relations closes their open windows that began by then: what held
\* from then on is not told any more, and late news of an end changes only what it reaches.
LEMMA EndKeepsPresence ==
  ASSUME PresenceAssumption, PresenceInv, NEW ks \in SUBSET (Relations \X Homes), NEW t \in Instants,
         LET ending == {e \in OpenEdges : <<e.rel, e.home>> \in ks /\ e.from <= t}
         IN  edges' = (edges \ ending) \cup Closed(ending, t),
         ToldEnd(ks, t), ended' \subseteq Nodes \X Homes, events' \in 0..MaxEvents
  PROVE  PresenceInv'
<1> DEFINE ending == {e \in OpenEdges : <<e.rel, e.home>> \in ks /\ e.from <= t}
           Cut(e) == [e EXCEPT !.to = t]
           K == Relations \X Homes
<1>0. /\ t \in Nat /\ t # 0 /\ t < Ongoing /\ t # Ongoing /\ Ongoing \in Nat /\ Instants \subseteq Nat
      /\ LastInstant \in Nat /\ t <= LastInstant
  BY InstantFacts DEF PresenceAssumption, Instants
<1>1. /\ edges \subseteq Edge /\ truth \in [K -> SUBSET Instants] /\ exact \in [K -> BOOLEAN]
      /\ latest \in [K -> 0..LastInstant]
  BY DEF PresenceInv, PresenceTypeOK
<1>2. \A e \in edges : /\ e.rel \in Relations /\ e.home \in Homes /\ <<e.rel, e.home>> \in K
                       /\ e.from \in Nat /\ e.to \in Nat /\ e.from \in Instants
  BY <1>0, <1>1 DEF Edge
<1>3. ending \subseteq edges /\ \A e \in ending : e.to = Ongoing
  BY DEF OpenEdges
<1>4. \A e \in ending : /\ Cut(e) \in Edge /\ Cut(e).rel = e.rel /\ Cut(e).home = e.home
                      /\ Cut(e).from = e.from /\ Cut(e).to = t
  <2> SUFFICES ASSUME NEW e \in ending
               PROVE  /\ Cut(e) \in Edge /\ Cut(e).rel = e.rel /\ Cut(e).home = e.home
                      /\ Cut(e).from = e.from /\ Cut(e).to = t
    OBVIOUS
  <2>1. e \in Edge
    BY <1>1, <1>3
  <2> QED  BY <2>1 DEF Edge
<1>5. edges' = (edges \ ending) \cup {Cut(e) : e \in ending}
  BY DEF Closed
<1>6. /\ latest' = [k \in K |-> IF k \in ks /\ t > latest[k] THEN t ELSE latest[k]]
      /\ truth' = [k \in K |-> IF k \in ks /\ t >= latest[k] THEN truth[k] \ From(t) ELSE truth[k]]
      /\ exact' = [k \in K |-> exact[k] /\ (k \in ks => Timely(k[1], k[2], t) \/ t \notin truth[k])]
  BY <1>1 DEF ToldEnd
<1>7. \A k \in K : latest[k] \in Nat /\ latest'[k] \in 0..LastInstant /\ latest[k] <= latest'[k]
                   /\ (k \in ks => t <= latest'[k])
  BY <1>0, <1>1, <1>6
<1>8. PresenceTypeOK'
  <2>1. edges' \subseteq Edge
    BY <1>1, <1>4, <1>5
  <2>2. latest' \in [K -> 0..LastInstant]
    BY <1>6, <1>7
  <2>3. truth' \in [K -> SUBSET Instants]
    BY <1>1, <1>6
  <2>4. exact' \in [K -> BOOLEAN]
    BY <1>1, <1>6
  <2> QED  BY <2>1, <2>2, <2>3, <2>4 DEF PresenceTypeOK
<1> HIDE DEF Cut, ending, K
<1>9. OpenEdges' \subseteq OpenEdges
  BY <1>0, <1>3, <1>4, <1>5 DEF OpenEdges
<1>10. \A e, f \in OpenEdges' : SameGroup(e, f) => e = f
  BY <1>9 DEF PresenceInv
<1>11. \A e \in edges' : EdgeTold(e)'
  <2>1. ASSUME NEW e \in edges
        PROVE  EdgeTold(e)'
    <3>1. EdgeTold(e) /\ <<e.rel, e.home>> \in K /\ e.from \in Nat /\ e.to \in Nat
      BY <1>2 DEF PresenceInv
    <3>2. \A g \in Group(e.rel) : <<g, e.home>> \in K
      BY <1>2, GroupFacts DEF K
    <3> QED  BY <1>7, <3>1, <3>2 DEF EdgeTold, Ongoing
  <2>2. ASSUME NEW e \in ending
        PROVE  EdgeTold(Cut(e))'
    <3>1. EdgeTold(e)' /\ e.rel \in Group(e.rel) /\ <<e.rel, e.home>> \in ks /\ <<e.rel, e.home>> \in K
      BY <1>2, <1>3, <2>1, GroupFacts DEF ending
    <3> QED  BY <1>4, <1>7, <3>1 DEF EdgeTold
  <2> QED  BY <1>5, <2>1, <2>2
<1>12. ASSUME NEW r \in Relations, NEW h \in Homes, exact'[<<r, h>>]
       PROVE  AsOf(r, h)' = truth'[<<r, h>>]
  <2> DEFINE k == <<r, h>>
  <2>1. k \in K /\ k[1] = r /\ k[2] = h
    BY DEF K
  <2>2. exact[k] /\ (k \in ks => Timely(r, h, t) \/ t \notin truth[k])
    BY <1>6, <1>12, <2>1
  <2>3. AsOf(r, h) = truth[k]
    BY <2>2 DEF PresenceInv, AsOfIsWhatWasTold
  <2>4. /\ latest[k] \in Nat /\ truth'[k] = IF k \in ks /\ t >= latest[k] THEN truth[k] \ From(t) ELSE truth[k]
    BY <1>6, <1>7, <2>1
  <2>5. \A e \in edges : e.rel = r /\ e.home = h =>
          e.from <= latest[k] /\ (e.to = Ongoing \/ \E g \in Group(r) : e.to <= latest[<<g, h>>])
    BY DEF PresenceInv, EdgeTold
  <2>6. \A g \in Group(r) : latest[<<g, h>>] \in Nat
    BY <1>7, GroupFacts DEF K
  <2> HIDE DEF k
  <2>7. CASE k \notin ks
    <3>1. \A e \in edges : e.rel = r /\ e.home = h => e \notin ending
      BY <2>7 DEF ending, k
    <3>2. \A e : e.rel = r /\ e.home = h => (e \in edges' <=> e \in edges)
      BY <1>3, <1>4, <1>5, <3>1
    <3>3. AsOf(r, h)' = AsOf(r, h)
      BY <3>2 DEF AsOf
    <3> QED  BY <2>3, <2>4, <2>7, <3>3 DEF k
  <2>8. CASE k \in ks /\ Timely(r, h, t)
    <3>1. \A g \in Group(r) : t >= latest[<<g, h>>]
      BY <2>8 DEF Timely
    <3>2. t >= latest[k]
      BY <3>1, GroupFacts DEF k
    <3>3. \A e \in edges : e.rel = r /\ e.home = h =>
            /\ e.from <= t
            /\ e.to = Ongoing => e \in ending
            /\ e.to # Ongoing => e.to <= t
      <4> SUFFICES ASSUME NEW e \in edges, e.rel = r, e.home = h
                   PROVE  e.from <= t /\ (e.to = Ongoing => e \in ending) /\ (e.to # Ongoing => e.to <= t)
        OBVIOUS
      <4>1. e.from \in Nat /\ e.to \in Nat /\ e.from <= latest[k]
        BY <1>2, <2>5
      <4>2. e.from <= t
        BY <1>0, <2>4, <3>2, <4>1
      <4>3. e.to = Ongoing => e \in ending
        BY <2>8, <4>2 DEF ending, OpenEdges, k
      <4>4. ASSUME e.to # Ongoing
            PROVE  e.to <= t
        <5>1. PICK g \in Group(r) : e.to <= latest[<<g, h>>]
          BY <2>5, <4>4
        <5> DEFINE last == latest[<<g, h>>]
        <5>2. last \in Nat /\ last <= t /\ e.to <= last
          BY <2>6, <3>1, <5>1
        <5> HIDE DEF last
        <5> QED  BY <1>0, <4>1, <5>2
      <4> QED  BY <4>2, <4>3, <4>4
    <3>4. ASSUME NEW i \in Instants
          PROVE  i \in AsOf(r, h)' <=> i \in AsOf(r, h) /\ i < t
      <4>0. i \in Nat /\ i < Ongoing
        BY InstantFacts
      <4>1. ASSUME NEW e \in edges', e.rel = r, e.home = h, e.from <= i, i < e.to
            PROVE  i \in AsOf(r, h) /\ i < t
        <5>1. CASE e \in edges \ ending
          BY <1>0, <1>2, <3>3, <4>0, <4>1, <5>1 DEF AsOf
        <5>2. CASE e \notin edges \ ending
          <6>1. PICK f \in ending : e = Cut(f)
            BY <1>5, <5>2
          <6>2. f \in edges /\ f.rel = r /\ f.home = h /\ f.from <= i /\ f.to = Ongoing /\ i < t
            BY <1>3, <1>4, <4>1, <6>1
          <6> QED  BY <4>0, <6>2 DEF AsOf
        <5> QED  BY <5>1, <5>2
      <4>2. ASSUME NEW e \in edges, e.rel = r, e.home = h, e.from <= i, i < e.to, i < t
            PROVE  i \in AsOf(r, h)'
        <5>1. CASE e \in ending
          <6>1. Cut(e) \in edges' /\ Cut(e).rel = r /\ Cut(e).home = h /\ Cut(e).from <= i /\ i < Cut(e).to
            BY <1>4, <1>5, <4>2, <5>1
          <6> QED  BY <6>1 DEF AsOf
        <5>2. CASE e \notin ending
          <6>1. e \in edges'
            BY <1>5, <5>2
          <6> QED  BY <4>2, <6>1 DEF AsOf
        <5> QED  BY <5>1, <5>2
      <4>3. i \in AsOf(r, h)' => \E e \in edges' : e.rel = r /\ e.home = h /\ e.from <= i /\ i < e.to
        BY DEF AsOf
      <4>4. i \in AsOf(r, h) => \E e \in edges : e.rel = r /\ e.home = h /\ e.from <= i /\ i < e.to
        BY DEF AsOf
      <4> QED  BY <4>1, <4>2, <4>3, <4>4
    <3>5. AsOf(r, h)' \subseteq Instants /\ AsOf(r, h) \subseteq Instants
      BY DEF AsOf
    <3>6. truth'[k] = AsOf(r, h) \ From(t)
      BY <2>3, <2>4, <2>8, <3>2
    <3>7. \A i \in Instants : i \in From(t) <=> ~(i < t)
      BY <1>0 DEF From
    <3> QED  BY <3>4, <3>5, <3>6, <3>7 DEF k
  <2>9. CASE k \in ks /\ ~Timely(r, h, t)
    <3>1. t \notin AsOf(r, h)
      BY <2>2, <2>3, <2>9
    <3>2. \A e \in edges : e.rel = r /\ e.home = h => ~(e.from <= t /\ t < e.to)
      BY <3>1 DEF AsOf
    <3>3. \A e \in edges : e.rel = r /\ e.home = h => e \notin ending
      BY <1>0, <3>2 DEF ending, OpenEdges
    <3>4. \A e : e.rel = r /\ e.home = h => (e \in edges' <=> e \in edges)
      BY <1>3, <1>4, <1>5, <3>3
    <3>5. AsOf(r, h)' = AsOf(r, h)
      BY <3>4 DEF AsOf
    <3>6. CASE t >= latest[k]
      <4>1. \A e \in edges : e.rel = r /\ e.home = h => e.to <= t
        <5> SUFFICES ASSUME NEW e \in edges, e.rel = r, e.home = h
                     PROVE  e.to <= t
          OBVIOUS
        <5>1. e.from \in Nat /\ e.to \in Nat /\ e.from <= latest[k]
          BY <1>2, <2>5
        <5>2. e.from <= t
          BY <1>0, <2>4, <3>6, <5>1
        <5>3. ~(t < e.to)
          BY <3>2, <5>2
        <5> QED  BY <1>0, <5>1, <5>3
      <4>2. \A i \in AsOf(r, h) : i \notin From(t)
        <5> SUFFICES ASSUME NEW i \in AsOf(r, h)
                     PROVE  i \notin From(t)
          OBVIOUS
        <5>1. PICK e \in edges : e.rel = r /\ e.home = h /\ e.from <= i /\ i < e.to
          BY DEF AsOf
        <5>2. i \in Nat /\ e.to \in Nat /\ e.to <= t
          BY <1>0, <1>2, <4>1, <5>1 DEF AsOf
        <5> QED  BY <1>0, <5>1, <5>2 DEF From
      <4>3. truth[k] \ From(t) = truth[k]
        BY <2>3, <4>2
      <4> QED  BY <2>3, <2>4, <2>9, <3>5, <3>6, <4>3 DEF k
    <3>7. CASE ~(t >= latest[k])
      BY <2>3, <2>4, <3>5, <3>7 DEF k
    <3> QED  BY <3>6, <3>7
  <2> QED  BY <2>7, <2>8, <2>9
<1> QED  BY <1>8, <1>10, <1>11, <1>12 DEF PresenceInv, AsOfIsWhatWasTold

\* What a beginning does to the store: an open relation goes on; a new one ends the open rival
\* that began before it, and is itself ended by one that began after.
Fresh(r, h, t) == [rel |-> r, home |-> h, from |-> t, to |-> Ongoing]

LEMMA BegunEdges ==
  ASSUME PresenceAssumption, PresenceInv, NEW r \in Relations, NEW h \in Homes, NEW t \in Instants
  PROVE  LET after == Superseded(Upserted(r, h, t), r, h) IN
         \/ /\ \E e \in OpenEdges : e.rel = r /\ e.home = h
            /\ after = edges
         \/ /\ \A e \in OpenEdges : ~(e.rel \in Group(r) /\ e.home = h)
            /\ after = edges \cup {Fresh(r, h, t)}
         \/ \E e \in OpenEdges :
              /\ e.rel \in Rivals(r) /\ e.home = h
              /\ \A f \in OpenEdges : f.rel \in Group(r) /\ f.home = h => f = e
              /\ \/ /\ e.from <= t
                    /\ after = (edges \ {e}) \cup {[e EXCEPT !.to = t], Fresh(r, h, t)}
                 \/ /\ t < e.from
                    /\ after = edges \cup {[Fresh(r, h, t) EXCEPT !.to = e.from]}
<1> DEFINE es == Upserted(r, h, t)
           fresh == Fresh(r, h, t)
           IsNew(e) == e.rel = r /\ e.home = h /\ e.to = Ongoing
           new == CHOOSE e \in es : IsNew(e)
           old == {e \in es : e.rel \in Rivals(r) /\ e.home = h /\ e.to = Ongoing}
           past == {e \in old : e.from <= new.from}
           later == old \ past
           after == Superseded(es, r, h)
<1>0. \A e \in edges : e.rel \in Relations /\ e.from \in Nat /\ e.to \in Nat
  BY InstantFacts DEF PresenceInv, PresenceTypeOK, Edge
<1>1. after = (es \ (past \cup (IF later = {} THEN {} ELSE {new}))) \cup Closed(past, new.from)
                 \cup {[new EXCEPT !.to = e.from] : e \in later}
  BY DEF Superseded
<1>2. fresh.rel = r /\ fresh.home = h /\ fresh.from = t /\ fresh.to = Ongoing /\ IsNew(fresh)
  BY DEF Fresh
<1>3. \A S : Closed({}, S) = {}
  BY DEF Closed
<1>4. r \notin Rivals(r) /\ r \in Group(r) /\ \A q : q \in Rivals(r) => q \in Group(r)
  BY GroupFacts
<1>5. \A e, f \in OpenEdges : e.home = h /\ f.home = h /\ e.rel \in Group(r) /\ f.rel \in Group(r) => e = f
  <2> SUFFICES ASSUME NEW e \in OpenEdges, NEW f \in OpenEdges, e.home = h, f.home = h,
                      e.rel \in Group(r), f.rel \in Group(r)
               PROVE  e = f
    OBVIOUS
  <2>1. f.rel \in Group(e.rel)
    BY GroupFacts
  <2> QED  BY <2>1 DEF PresenceInv, SameGroup
<1>6. es = IF \E e \in OpenEdges : e.rel = r /\ e.home = h THEN edges ELSE edges \cup {fresh}
  BY DEF Upserted, Fresh
<1> HIDE DEF es, fresh, after
<1>7. CASE \E e \in OpenEdges : e.rel = r /\ e.home = h
  <2>1. PICK n \in OpenEdges : n.rel = r /\ n.home = h
    BY <1>7
  <2>2. es = edges /\ n \in edges /\ n.to = Ongoing
    BY <1>6, <1>7 DEF OpenEdges
  <2>3. old = {}
    <3> SUFFICES ASSUME NEW e \in old
                 PROVE  FALSE
      OBVIOUS
    <3>1. e \in OpenEdges /\ e.rel \in Rivals(r) /\ e.home = h
      BY <2>2 DEF OpenEdges
    <3>2. e = n
      BY <1>4, <1>5, <2>1, <3>1
    <3> QED  BY <1>4, <2>1, <3>1, <3>2
  <2> HIDE DEF old, new
  <2>4. past = {} /\ later = {}
    BY <2>3
  <2> HIDE DEF past, later
  <2>5. after = edges
    BY <1>1, <1>3, <2>2, <2>4
  <2> QED  BY <1>7, <2>5 DEF after, es
<1>8. CASE ~\E e \in OpenEdges : e.rel = r /\ e.home = h
  <2>1. es = edges \cup {fresh} /\ fresh \in es
    BY <1>6, <1>8
  <2>2. \A e \in es : IsNew(e) <=> e = fresh
    BY <1>2, <1>8, <2>1 DEF OpenEdges
  <2>3. new = fresh
    <3>1. new \in es /\ IsNew(new)
      <4> HIDE DEF IsNew
      <4> QED  BY <1>2, <2>1
    <3> HIDE DEF new
    <3> QED  BY <2>2, <3>1
  <2>4. old = {e \in OpenEdges : e.rel \in Rivals(r) /\ e.home = h}
    BY <1>2, <1>4, <2>1 DEF OpenEdges
  <2>5. fresh \notin edges
    BY <1>2, <1>8 DEF OpenEdges
  <2> HIDE DEF new, IsNew
  <2>6. CASE old = {}
    <3>1. past = {} /\ later = {}
      BY <2>6
    <3>2. \A e \in OpenEdges : ~(e.rel \in Group(r) /\ e.home = h)
      BY <1>8, <2>4, <2>6, GroupFacts
    <3> HIDE DEF past, later, old
    <3>3. after = edges \cup {fresh}
      BY <1>1, <1>3, <2>1, <3>1
    <3> QED  BY <3>2, <3>3 DEF after, es, fresh
  <2>7. CASE old # {}
    <3>1. PICK e \in OpenEdges : e.rel \in Rivals(r) /\ e.home = h
      BY <2>4, <2>7
    <3>2. old = {e} /\ \A f \in OpenEdges : f.rel \in Group(r) /\ f.home = h => f = e
      BY <1>4, <1>5, <2>4, <3>1
    <3>3. e \in edges /\ e.from \in Nat /\ t \in Nat
      BY <1>0, InstantFacts DEF OpenEdges
    <3> HIDE DEF old
    <3>4. CASE e.from <= t
      <4>1. past = {e} /\ later = {}
        BY <1>2, <2>3, <3>2, <3>4
      <4>2. Closed({e}, t) = {[e EXCEPT !.to = t]}
        BY DEF Closed
      <4>3. new.from = t /\ fresh # e
        BY <1>2, <2>3, <2>5, <3>3
      <4> HIDE DEF past, later
      <4>4. after = (es \ {e}) \cup {[e EXCEPT !.to = t]}
        BY <1>1, <4>1, <4>2, <4>3
      <4>5. after = (edges \ {e}) \cup {[e EXCEPT !.to = t], fresh}
        BY <2>1, <4>3, <4>4
      <4> QED  BY <3>1, <3>2, <3>4, <4>5 DEF after, es, fresh
    <3>5. CASE t < e.from
      <4>1. past = {} /\ later = {e}
        BY <1>2, <2>3, <3>2, <3>3, <3>5
      <4> HIDE DEF past, later
      <4>2. after = (es \ {fresh}) \cup {[fresh EXCEPT !.to = e.from]}
        BY <1>1, <1>3, <2>3, <4>1
      <4>3. after = edges \cup {[fresh EXCEPT !.to = e.from]}
        BY <2>1, <2>5, <4>2
      <4> QED  BY <3>1, <3>2, <3>5, <4>3 DEF after, es, fresh
    <3> QED  BY <3>3, <3>4, <3>5
  <2> QED  BY <2>6, <2>7
<1> QED  BY <1>7, <1>8

\* A relation told to begin, as late as nothing told of it or its rival, holds from then on
\* and its rival does not; one told late, before the only one known, holds until that one.
LEMMA BeginKeepsPresence ==
  ASSUME PresenceAssumption, PresenceInv, NEW r \in Relations, NEW h \in Homes, NEW t \in Instants,
         edges' = Superseded(Upserted(r, h, t), r, h), ToldBegin(r, h, t),
         ended' = ended, events' \in 0..MaxEvents
  PROVE  PresenceInv'
<1> DEFINE K == Relations \X Homes
           fresh == Fresh(r, h, t)
           Mine(e) == e.rel \in Group(r) /\ e.home = h
<1>0. /\ t \in Nat /\ t # 0 /\ t < Ongoing /\ t # Ongoing /\ Ongoing \in Nat /\ Instants \subseteq Nat
      /\ LastInstant \in Nat /\ t <= LastInstant /\ t \in 0..LastInstant
  BY InstantFacts DEF PresenceAssumption, Instants
<1>1. /\ edges \subseteq Edge /\ truth \in [K -> SUBSET Instants] /\ exact \in [K -> BOOLEAN]
      /\ latest \in [K -> 0..LastInstant]
  BY DEF PresenceInv, PresenceTypeOK
<1>2. \A e \in edges : /\ e.rel \in Relations /\ e.home \in Homes /\ <<e.rel, e.home>> \in K
                       /\ e.from \in Nat /\ e.to \in Nat /\ e.from \in Instants
  BY <1>0, <1>1 DEF Edge
<1>3. fresh \in Edge /\ fresh.rel = r /\ fresh.home = h /\ fresh.from = t /\ fresh.to = Ongoing
  BY DEF Fresh, Edge
<1>4. /\ r \in Group(r) /\ \A q \in Group(r) : q \in Relations /\ Group(q) = Group(r)
      /\ \A q : q \in Rivals(r) <=> q \in Group(r) /\ q # r
  BY GroupFacts
<1>5. /\ latest' = [k \in K |-> IF k = <<r, h>> /\ t > latest[k] THEN t ELSE latest[k]]
      /\ truth' = [k \in K |->
           IF k = <<r, h>>
           THEN IF Timely(r, h, t) THEN truth[k] \cup From(t) ELSE truth[k] \cup (From(t) \ Known(r, h))
           ELSE IF k[1] \in Rivals(r) /\ k[2] = h /\ Timely(r, h, t) THEN truth[k] \ From(t)
           ELSE truth[k]]
      /\ exact' = [k \in K |->
           exact[k] /\ (k[1] \in Group(r) /\ k[2] = h => Timely(r, h, t) \/ LateBegin(r, h, t))]
  BY <1>1 DEF ToldBegin
<1>6. /\ \A k \in K : latest[k] \in Nat /\ latest'[k] \in 0..LastInstant /\ latest[k] <= latest'[k]
      /\ <<r, h>> \in K /\ t <= latest'[<<r, h>>] /\ latest'[<<r, h>>] \in Nat
  BY <1>0, <1>1, <1>5
<1>7. \A i \in Instants : i \in Nat /\ i < Ongoing /\ (i \in From(t) <=> t <= i)
  BY InstantFacts DEF From
<1>8. From(t) \subseteq Instants
  BY DEF From
<1>9. latest' \in [K -> 0..LastInstant] /\ exact' \in [K -> BOOLEAN] /\ truth' \in [K -> SUBSET Instants]
  <2>1. latest' \in [K -> 0..LastInstant]
    BY <1>5, <1>6
  <2>2. exact' \in [K -> BOOLEAN]
    BY <1>1, <1>5
  <2>3. truth' \in [K -> SUBSET Instants]
    BY <1>1, <1>5, <1>8
  <2> QED  BY <2>1, <2>2, <2>3
<1>10. \A e \in edges : EdgeTold(e)'
  <2> SUFFICES ASSUME NEW e \in edges
               PROVE  EdgeTold(e)'
    OBVIOUS
  <2>1. EdgeTold(e) /\ <<e.rel, e.home>> \in K /\ e.from \in Nat /\ e.to \in Nat
    BY <1>2 DEF PresenceInv
  <2>2. \A g \in Group(e.rel) : <<g, e.home>> \in K
    BY <1>2, GroupFacts
  <2> HIDE DEF K
  <2> QED  BY <1>6, <2>1, <2>2 DEF EdgeTold, Ongoing
<1>11. \A e, f \in OpenEdges : Mine(e) /\ Mine(f) => e = f
  <2> SUFFICES ASSUME NEW e \in OpenEdges, NEW f \in OpenEdges, Mine(e), Mine(f)
               PROVE  e = f
    OBVIOUS
  <2>1. SameGroup(e, f)
    BY <1>4 DEF SameGroup
  <2> QED  BY <2>1 DEF PresenceInv
<1>12. ASSUME Timely(r, h, t), NEW e \in edges, Mine(e)
       PROVE  e.from <= t /\ (e.to # Ongoing => e.to <= t)
  <2>1. EdgeTold(e) /\ Group(e.rel) = Group(r) /\ e.from \in Nat /\ e.to \in Nat
    BY <1>2, <1>4, <1>12 DEF PresenceInv
  <2>2. \A g \in Group(r) : latest[<<g, h>>] \in Nat /\ latest[<<g, h>>] <= t
    <3>1. \A g \in Group(r) : <<g, h>> \in K
      BY <1>4
    <3> HIDE DEF K
    <3> QED  BY <1>0, <1>6, <1>12, <3>1 DEF Timely
  <2>3. e.from <= t
    BY <1>0, <1>12, <2>1, <2>2 DEF EdgeTold
  <2>4. ASSUME e.to # Ongoing
        PROVE  e.to <= t
    <3>1. PICK g \in Group(r) : e.to <= latest[<<g, h>>]
      BY <1>12, <2>1, <2>4 DEF EdgeTold
    <3> DEFINE last == latest[<<g, h>>]
    <3>2. last \in Nat /\ last <= t /\ e.to <= last
      BY <2>2, <3>1
    <3> HIDE DEF last
    <3> QED  BY <1>0, <2>1, <3>2
  <2> QED  BY <2>3, <2>4
<1>13. \A q \in Relations, j \in Homes :
         AsOf(q, j) \subseteq Instants /\ (AsOf(q, j) \subseteq Instants)'
  BY DEF AsOf
<1>14. \A q \in Relations, j \in Homes : exact'[<<q, j>>] =>
         /\ AsOf(q, j) = truth[<<q, j>>]
         /\ q \in Group(r) /\ j = h => Timely(r, h, t) \/ LateBegin(r, h, t)
  <2> SUFFICES ASSUME NEW q \in Relations, NEW j \in Homes, exact'[<<q, j>>]
               PROVE  /\ AsOf(q, j) = truth[<<q, j>>]
                      /\ q \in Group(r) /\ j = h => Timely(r, h, t) \/ LateBegin(r, h, t)
    OBVIOUS
  <2>1. exact[<<q, j>>] /\ (q \in Group(r) /\ j = h => Timely(r, h, t) \/ LateBegin(r, h, t))
    BY <1>5
  <2> QED  BY <2>1 DEF PresenceInv, AsOfIsWhatWasTold
<1>15. /\ \A q \in Relations, j \in Homes : ~(q \in Group(r) /\ j = h) => truth'[<<q, j>>] = truth[<<q, j>>]
       /\ truth'[<<r, h>>] = IF Timely(r, h, t) THEN truth[<<r, h>>] \cup From(t)
                             ELSE truth[<<r, h>>] \cup (From(t) \ Known(r, h))
       /\ \A q \in Rivals(r) : truth'[<<q, h>>] = IF Timely(r, h, t) THEN truth[<<q, h>>] \ From(t)
                                                  ELSE truth[<<q, h>>]
  <2>1. \A q \in Relations, j \in Homes : <<q, j>> \in K /\ <<q, j>>[1] = q /\ <<q, j>>[2] = j
    OBVIOUS
  <2>2. \A q \in Rivals(r) : q \in Relations /\ q # r
    BY <1>4
  <2> QED  BY <1>4, <1>5, <2>1, <2>2
<1> DEFINE Goal == /\ edges' \subseteq Edge
                   /\ \A e, f \in OpenEdges' : SameGroup(e, f) => e = f
                   /\ \A e \in edges' : EdgeTold(e)'
                   /\ \A q \in Relations, j \in Homes :
                        exact'[<<q, j>>] => AsOf(q, j)' = truth'[<<q, j>>]
\* What is told of nothing in the group, of r and of its rivals, if the windows are these.
<1>16. ASSUME \A e : ~Mine(e) => (e \in edges' <=> e \in edges),
              NEW q \in Relations, NEW j \in Homes, ~(q \in Group(r) /\ j = h), exact'[<<q, j>>]
       PROVE  AsOf(q, j)' = truth'[<<q, j>>]
  <2>1. \A e : e.rel = q /\ e.home = j => (e \in edges' <=> e \in edges)
    BY <1>16
  <2>2. AsOf(q, j)' = AsOf(q, j)
    BY <2>1 DEF AsOf
  <2> QED  BY <1>14, <1>15, <1>16, <2>2
<1>17. ASSUME Timely(r, h, t), exact'[<<r, h>>],
              \A i \in Instants : i \in AsOf(r, h)' <=> i \in AsOf(r, h) \/ t <= i
       PROVE  AsOf(r, h)' = truth'[<<r, h>>]
  <2>1. truth'[<<r, h>>] = AsOf(r, h) \cup From(t)
    BY <1>4, <1>14, <1>15, <1>17
  <2> QED  BY <1>7, <1>8, <1>13, <1>17, <2>1
<1>18. ASSUME Timely(r, h, t), NEW q \in Rivals(r), exact'[<<q, h>>],
              \A i \in Instants : i \in AsOf(q, h)' <=> i \in AsOf(q, h) /\ i < t
       PROVE  AsOf(q, h)' = truth'[<<q, h>>]
  <2>1. q \in Relations
    BY <1>4
  <2>2. truth'[<<q, h>>] = AsOf(q, h) \ From(t)
    BY <1>14, <1>15, <1>18, <2>1
  <2>3. \A i \in Instants : i < t <=> i \notin From(t)
    BY <1>0, <1>7
  <2> QED  BY <1>13, <1>18, <2>1, <2>2, <2>3
<1> HIDE DEF K, fresh, Mine
<1>19. ASSUME \E e \in OpenEdges : e.rel = r /\ e.home = h, edges' = edges
       PROVE  Goal
  <2>1. PICK n \in OpenEdges : n.rel = r /\ n.home = h
    BY <1>19
  <2>2. n \in edges /\ n.to = Ongoing /\ Mine(n) /\ n.from \in Nat
    BY <1>2, <1>4, <2>1 DEF OpenEdges, Mine
  <2>3. ~LateBegin(r, h, t)
    <3>1. n.from <= latest[<<r, h>>] /\ n.from # 0
      BY <1>2, <2>1, <2>2, InstantFacts DEF PresenceInv, EdgeTold
    <3> QED  BY <2>2, <3>1 DEF LateBegin
  <2>4. OpenEdges' = OpenEdges
    BY <1>19 DEF OpenEdges
  <2>5. ASSUME NEW q \in Relations, NEW j \in Homes, exact'[<<q, j>>]
        PROVE  AsOf(q, j)' = truth'[<<q, j>>]
    <3>1. CASE ~(q \in Group(r) /\ j = h)
      BY <1>16, <1>19, <2>5, <3>1
    <3>2. CASE q = r /\ j = h
      <4>1. Timely(r, h, t)
        BY <1>4, <1>14, <2>3, <2>5, <3>2
      <4>2. n.from <= t
        BY <1>12, <2>2, <4>1
      <4>3. \A i \in Instants : t <= i => n.from <= i /\ i < n.to
        BY <1>0, <1>7, <2>2, <4>2
      <4>4. \A i \in Instants : t <= i => i \in AsOf(r, h)
        BY <2>1, <2>2, <4>3 DEF AsOf
      <4>5. AsOf(r, h)' = AsOf(r, h)
        BY <1>19 DEF AsOf
      <4> QED  BY <1>17, <2>5, <3>2, <4>1, <4>4, <4>5
    <3>3. CASE q \in Rivals(r) /\ j = h
      <4>1. Timely(r, h, t)
        BY <1>4, <1>14, <2>3, <2>5, <3>3
      <4>2. ASSUME NEW i \in AsOf(q, h)
            PROVE  i < t
        <5>1. PICK e \in edges : e.rel = q /\ e.home = h /\ e.from <= i /\ i < e.to
          BY DEF AsOf
        <5>2. Mine(e) /\ e # n
          BY <1>4, <2>1, <3>3, <5>1 DEF Mine
        <5>3. e.to # Ongoing
          BY <1>11, <2>1, <2>2, <5>2 DEF OpenEdges
        <5>4. e.to <= t /\ e.to \in Nat /\ i \in Nat
          BY <1>2, <1>7, <1>12, <4>1, <5>2, <5>3 DEF AsOf
        <5> QED  BY <1>0, <5>1, <5>4
      <4>3. AsOf(q, h)' = AsOf(q, h)
        BY <1>19 DEF AsOf
      <4> QED  BY <1>18, <2>5, <3>3, <4>1, <4>2, <4>3
    <3> QED  BY <1>4, <3>1, <3>2, <3>3
  <2>6. edges' \subseteq Edge /\ \A e \in edges' : EdgeTold(e)'
    BY <1>1, <1>10, <1>19
  <2>7. \A e, f \in OpenEdges' : SameGroup(e, f) => e = f
    BY <2>4 DEF PresenceInv
  <2> QED  BY <2>5, <2>6, <2>7
<1>20. ASSUME \A e \in OpenEdges : ~Mine(e), edges' = edges \cup {fresh}
       PROVE  Goal
  <2>1. ~LateBegin(r, h, t)
    BY <1>4, <1>20 DEF LateBegin, Mine
  <2>2. OpenEdges' = OpenEdges \cup {fresh}
    BY <1>3, <1>20 DEF OpenEdges
  <2>3. \A e : (SameGroup(e, fresh) \/ SameGroup(fresh, e)) /\ e.rel \in Relations => Mine(e)
    BY <1>3, GroupFacts DEF SameGroup, Mine
  <2>4. \A e, f \in OpenEdges' : SameGroup(e, f) => e = f
    <3>1. \A e \in OpenEdges : e.rel \in Relations
      BY <1>2 DEF OpenEdges
    <3> QED  BY <1>20, <2>2, <2>3, <3>1 DEF PresenceInv
  <2>5. EdgeTold(fresh)'
    BY <1>3, <1>6 DEF EdgeTold, Ongoing
  <2>6. Mine(fresh)
    BY <1>3, <1>4 DEF Mine
  <2>7. ASSUME NEW q \in Relations, NEW j \in Homes, exact'[<<q, j>>]
        PROVE  AsOf(q, j)' = truth'[<<q, j>>]
    <3>1. CASE ~(q \in Group(r) /\ j = h)
      BY <1>16, <1>20, <2>6, <2>7, <3>1
    <3>2. CASE q = r /\ j = h
      <4>1. Timely(r, h, t)
        BY <1>4, <1>14, <2>1, <2>7, <3>2
      <4>2. \A i \in Instants : i \in AsOf(r, h)' <=> i \in AsOf(r, h) \/ (fresh.from <= i /\ i < fresh.to)
        BY <1>3, <1>20 DEF AsOf
      <4> QED  BY <1>3, <1>7, <1>17, <2>7, <3>2, <4>1, <4>2
    <3>3. CASE q \in Rivals(r) /\ j = h
      <4>1. Timely(r, h, t)
        BY <1>4, <1>14, <2>1, <2>7, <3>3
      <4>2. ASSUME NEW i \in AsOf(q, h)
            PROVE  i < t
        <5>1. PICK e \in edges : e.rel = q /\ e.home = h /\ e.from <= i /\ i < e.to
          BY DEF AsOf
        <5>2. Mine(e)
          BY <1>4, <3>3, <5>1 DEF Mine
        <5>3. e.to # Ongoing
          BY <1>20, <5>2 DEF OpenEdges
        <5>4. e.to <= t /\ e.to \in Nat /\ i \in Nat
          BY <1>2, <1>7, <1>12, <4>1, <5>2, <5>3 DEF AsOf
        <5> QED  BY <1>0, <5>1, <5>4
      <4>3. q # r
        BY <1>4, <3>3
      <4>4. \A e : e.rel = q => (e \in edges' <=> e \in edges)
        BY <1>3, <1>20, <4>3
      <4>5. AsOf(q, h)' = AsOf(q, h)
        BY <4>4 DEF AsOf
      <4> QED  BY <1>18, <2>7, <3>3, <4>1, <4>2, <4>5
    <3> QED  BY <1>4, <3>1, <3>2, <3>3
  <2>8. edges' \subseteq Edge /\ \A e \in edges' : EdgeTold(e)'
    BY <1>1, <1>3, <1>10, <1>20, <2>5
  <2> QED  BY <2>4, <2>7, <2>8
<1>21. ASSUME NEW e \in OpenEdges, e.rel \in Rivals(r), e.home = h,
              \A f \in OpenEdges : Mine(f) => f = e, e.from <= t,
              edges' = (edges \ {e}) \cup {[e EXCEPT !.to = t], fresh}
       PROVE  Goal
  <2> DEFINE cut == [e EXCEPT !.to = t]
  <2>0. e \in edges /\ e \in Edge /\ e.to = Ongoing /\ Mine(e) /\ e.rel # r /\ e.from \in Nat
    BY <1>1, <1>2, <1>4, <1>21 DEF OpenEdges, Mine
  <2>1. cut \in Edge /\ cut.rel = e.rel /\ cut.home = h /\ cut.from = e.from /\ cut.to = t /\ Mine(cut)
    BY <1>4, <1>21, <2>0 DEF Edge, Mine
  <2> HIDE DEF cut
  <2>2. edges' = (edges \ {e}) \cup {cut, fresh}
    BY <1>21 DEF cut
  <2>3. ~LateBegin(r, h, t)
    <3> SUFFICES ASSUME LateBegin(r, h, t)
                 PROVE  FALSE
      OBVIOUS
    <3>1. PICK f \in OpenEdges : f.rel \in Rivals(r) /\ f.home = h /\ t < f.from
      BY DEF LateBegin
    <3>2. f = e
      BY <1>4, <1>21, <3>1 DEF Mine
    <3> QED  BY <1>0, <1>21, <2>0, <3>1, <3>2
  <2>4. OpenEdges' = (OpenEdges \ {e}) \cup {fresh}
    BY <1>0, <1>3, <2>1, <2>2 DEF OpenEdges
  <2>5. \A f, g \in OpenEdges' : SameGroup(f, g) => f = g
    <3>1. \A f \in OpenEdges : f.rel \in Relations
      BY <1>2 DEF OpenEdges
    <3>2. \A f : (SameGroup(f, fresh) \/ SameGroup(fresh, f)) /\ f.rel \in Relations => Mine(f)
      BY <1>3, GroupFacts DEF SameGroup, Mine
    <3> QED  BY <1>21, <2>4, <3>1, <3>2 DEF PresenceInv
  <2>6. EdgeTold(fresh)'
    BY <1>3, <1>6 DEF EdgeTold, Ongoing
  <2>7. EdgeTold(cut)'
    <3>1. EdgeTold(e)' /\ r \in Group(e.rel)
      BY <1>4, <1>10, <1>21, <2>0
    <3> QED  BY <1>6, <1>21, <2>0, <2>1, <3>1 DEF EdgeTold
  <2>8. Mine(fresh)
    BY <1>3, <1>4 DEF Mine
  <2>9. ASSUME NEW q \in Relations, NEW j \in Homes, exact'[<<q, j>>]
        PROVE  AsOf(q, j)' = truth'[<<q, j>>]
    <3>1. CASE ~(q \in Group(r) /\ j = h)
      <4>1. \A f : ~Mine(f) => (f \in edges' <=> f \in edges)
        BY <2>0, <2>1, <2>2, <2>8
      <4> QED  BY <1>16, <2>9, <3>1, <4>1
    <3>2. CASE q = r /\ j = h
      <4>1. Timely(r, h, t)
        BY <1>4, <1>14, <2>3, <2>9, <3>2
      <4>2. \A f : f.rel = r => (f \in edges' <=> f \in edges \/ f = fresh)
        BY <2>0, <2>1, <2>2
      <4>3. fresh \in edges'
        BY <2>2
      <4>4. \A i \in Instants : i \in AsOf(r, h)' <=> i \in AsOf(r, h) \/ (fresh.from <= i /\ i < fresh.to)
        BY <1>3, <4>2, <4>3 DEF AsOf
      <4> QED  BY <1>3, <1>7, <1>17, <2>9, <3>2, <4>1, <4>4
    <3>3. CASE q \in Rivals(r) /\ j = h
      <4>1. Timely(r, h, t)
        BY <1>4, <1>14, <2>3, <2>9, <3>3
      <4>2. q # r
        BY <1>4, <3>3
      <4>3. ASSUME NEW i \in Instants, i \in AsOf(q, h)'
            PROVE  i \in AsOf(q, h) /\ i < t
        <5>1. PICK f \in edges' : f.rel = q /\ f.home = h /\ f.from <= i /\ i < f.to
          BY <4>3 DEF AsOf
        <5>2. CASE f = cut
          <6>1. e.rel = q /\ e.home = h /\ e.from <= i /\ i < t
            BY <1>21, <2>1, <5>1, <5>2
          <6>2. i < e.to
            BY <1>7, <2>0
          <6> QED  BY <2>0, <6>1, <6>2 DEF AsOf
        <5>3. CASE f # cut
          <6>1. f \in edges /\ f # e /\ Mine(f)
            BY <1>3, <1>4, <2>2, <3>3, <4>2, <5>1, <5>3 DEF Mine
          <6>2. f.to # Ongoing
            BY <1>21, <6>1 DEF OpenEdges
          <6>3. f.to <= t /\ f.to \in Nat /\ i \in Nat
            BY <1>2, <1>7, <1>12, <4>1, <6>1, <6>2
          <6>4. i \in AsOf(q, h)
            BY <5>1, <6>1 DEF AsOf
          <6> QED  BY <1>0, <5>1, <6>3, <6>4
        <5> QED  BY <5>2, <5>3
      <4>4. ASSUME NEW i \in Instants, i \in AsOf(q, h), i < t
            PROVE  i \in AsOf(q, h)'
        <5>1. PICK f \in edges : f.rel = q /\ f.home = h /\ f.from <= i /\ i < f.to
          BY <4>4 DEF AsOf
        <5>2. CASE f = e
          <6>1. cut \in edges' /\ cut.rel = q /\ cut.home = h /\ cut.from <= i /\ i < cut.to
            BY <2>1, <2>2, <4>4, <5>1, <5>2
          <6> QED  BY <6>1 DEF AsOf
        <5>3. CASE f # e
          <6>1. f \in edges'
            BY <2>2, <5>3
          <6> QED  BY <5>1, <6>1 DEF AsOf
        <5> QED  BY <5>2, <5>3
      <4> QED  BY <1>18, <2>9, <3>3, <4>1, <4>3, <4>4
    <3> QED  BY <1>4, <3>1, <3>2, <3>3
  <2>10. edges' \subseteq Edge /\ \A f \in edges' : EdgeTold(f)'
    BY <1>1, <1>3, <1>10, <2>1, <2>2, <2>6, <2>7
  <2> QED  BY <2>5, <2>9, <2>10
<1>22. ASSUME NEW e \in OpenEdges, e.rel \in Rivals(r), e.home = h,
              \A f \in OpenEdges : Mine(f) => f = e, t < e.from,
              edges' = edges \cup {[fresh EXCEPT !.to = e.from]}
       PROVE  Goal
  <2> DEFINE brief == [fresh EXCEPT !.to = e.from]
  <2>0. e \in edges /\ e.to = Ongoing /\ Mine(e) /\ e.rel # r /\ e.rel \in Group(r)
        /\ e.from \in Nat /\ e.from \in Instants /\ e.from # Ongoing
    BY <1>2, <1>4, <1>21, <1>22, InstantFacts DEF OpenEdges, Mine
  <2>1. /\ brief \in Edge /\ brief.rel = r /\ brief.home = h /\ brief.from = t /\ brief.to = e.from
        /\ Mine(brief)
    BY <1>3, <1>4, <2>0 DEF Edge, Mine
  <2> HIDE DEF brief
  <2>2. edges' = edges \cup {brief}
    BY <1>22 DEF brief
  <2>3. EdgeTold(e) /\ <<e.rel, h>> \in K /\ latest[<<e.rel, h>>] \in Nat /\ e.from <= latest[<<e.rel, h>>]
    BY <1>2, <1>6, <1>22, <2>0 DEF PresenceInv, EdgeTold
  <2>4. ~Timely(r, h, t)
    BY <1>0, <1>22, <2>0, <2>3 DEF Timely
  <2>5. OpenEdges' = OpenEdges
    BY <2>0, <2>1, <2>2 DEF OpenEdges
  <2>6. EdgeTold(brief)'
    <3>1. e.from <= latest'[<<e.rel, h>>]
      BY <1>10, <1>22, <2>0 DEF EdgeTold
    <3> QED  BY <1>6, <2>0, <2>1, <3>1 DEF EdgeTold
  <2>7. ASSUME NEW q \in Relations, NEW j \in Homes, exact'[<<q, j>>]
        PROVE  AsOf(q, j)' = truth'[<<q, j>>]
    <3>1. CASE ~(q \in Group(r) /\ j = h)
      <4>1. \A f : ~Mine(f) => (f \in edges' <=> f \in edges)
        BY <2>1, <2>2
      <4> QED  BY <1>16, <2>7, <3>1, <4>1
    <3>2. CASE q = r /\ j = h
      <4>1. LateBegin(r, h, t) /\ AsOf(r, h) = truth[<<r, h>>]
        BY <1>4, <1>14, <2>4, <2>7, <3>2
      <4>2. PICK f \in OpenEdges : f.rel \in Rivals(r) /\ f.home = h /\ Known(r, h) = From(f.from)
        BY <4>1 DEF LateBegin
      <4>3. f = e /\ truth[<<r, h>>] = {}
        BY <1>4, <1>22, <4>1, <4>2 DEF Mine, LateBegin
      <4>4. truth'[<<r, h>>] = From(t) \ From(e.from)
        BY <1>15, <2>4, <4>2, <4>3
      <4>5. \A i \in Instants : i \in AsOf(r, h)' <=> brief.from <= i /\ i < brief.to
        BY <2>1, <2>2, <4>1, <4>3 DEF AsOf
      <4>6. \A i \in Instants : i \in Nat /\ (i \in From(e.from) <=> e.from <= i)
        BY <1>7 DEF From
      <4>7. \A i \in Instants : i \in AsOf(r, h)' <=> i \in From(t) \ From(e.from)
        BY <1>0, <1>7, <2>0, <2>1, <4>5, <4>6
      <4> QED  BY <1>8, <1>13, <3>2, <4>4, <4>7
    <3>3. CASE q \in Rivals(r) /\ j = h
      <4>1. q # r
        BY <1>4, <3>3
      <4>2. \A f : f.rel = q => (f \in edges' <=> f \in edges)
        BY <2>1, <2>2, <4>1
      <4>3. AsOf(q, h)' = AsOf(q, h)
        BY <4>2 DEF AsOf
      <4> QED  BY <1>14, <1>15, <2>4, <2>7, <3>3, <4>3
    <3> QED  BY <1>4, <3>1, <3>2, <3>3
  <2>8. edges' \subseteq Edge /\ \A f \in edges' : EdgeTold(f)'
    BY <1>1, <1>10, <2>1, <2>2, <2>6
  <2>9. \A f, g \in OpenEdges' : SameGroup(f, g) => f = g
    BY <2>5 DEF PresenceInv
  <2> QED  BY <2>7, <2>8, <2>9
<1>23. Goal
  <2>1. \/ /\ \E e \in OpenEdges : e.rel = r /\ e.home = h
           /\ edges' = edges
        \/ /\ \A e \in OpenEdges : ~Mine(e)
           /\ edges' = edges \cup {fresh}
        \/ \E e \in OpenEdges :
             /\ e.rel \in Rivals(r) /\ e.home = h
             /\ \A f \in OpenEdges : Mine(f) => f = e
             /\ \/ /\ e.from <= t
                   /\ edges' = (edges \ {e}) \cup {[e EXCEPT !.to = t], fresh}
                \/ /\ t < e.from
                   /\ edges' = edges \cup {[fresh EXCEPT !.to = e.from]}
    BY BegunEdges DEF Mine, fresh
  <2> HIDE DEF Goal
  <2> QED  BY <1>19, <1>20, <1>21, <1>22, <2>1
<1> QED  BY <1>9, <1>23 DEF PresenceInv, PresenceTypeOK, AsOfIsWhatWasTold, K

LEMMA PresenceInvHolds ==
  ASSUME PresenceAssumption
  PROVE  PresenceSpec => []PresenceInv
<1>1. PresenceInit => PresenceInv
  <2> SUFFICES ASSUME PresenceInit PROVE PresenceInv
    OBVIOUS
  <2>1. PresenceTypeOK
    BY DEF PresenceInit, PresenceTypeOK, PresenceAssumption
  <2>2. \A r \in Relations, h \in Homes : AsOf(r, h) = {} /\ truth[<<r, h>>] = {}
    BY DEF PresenceInit, AsOf
  <2> QED  BY <2>1, <2>2 DEF PresenceInit, PresenceInv, OpenEdges, AsOfIsWhatWasTold
<1>2. PresenceInv /\ [PresenceNext]_presenceVars => PresenceInv'
  <2> SUFFICES ASSUME PresenceInv, [PresenceNext]_presenceVars PROVE PresenceInv'
    OBVIOUS
  <2>1. CASE UNCHANGED presenceVars
    BY <2>1 DEF presenceVars, PresenceInv, PresenceTypeOK, OpenEdges, EdgeTold, AsOfIsWhatWasTold, AsOf
  <2>2. CASE PresenceNext
    <3>0. events' \in 0..MaxEvents /\ ended \subseteq Nodes \X Homes
      BY <2>2 DEF PresenceNext, PresenceInv, PresenceTypeOK, PresenceAssumption
    <3>1. ASSUME NEW h \in Homes, NEW t \in Instants, NEW what \in {"org.member_added", "agent.deployed", "agent.stopped"},
                 Begins(what, h, t)
          PROVE  PresenceInv'
      <4>1. Asserted(what) \in Relations
        BY DEF Asserted, Relations
      <4> QED  BY <3>0, <3>1, <4>1, BeginKeepsPresence DEF Begins
    <3>2. ASSUME NEW h \in Homes, NEW t \in Instants, Mentions(h, t)
          PROVE  PresenceInv'
      <4>1. Hinted \in Relations /\ Rivals(Hinted) = {}
        BY DEF Hinted, Relations, Rivals, Status
      <4>2. \A es : Superseded(es, Hinted, h) = es
        BY <4>1 DEF Superseded, Closed
      <4> QED  BY <3>0, <3>2, <4>1, <4>2, BeginKeepsPresence DEF Mentions
    <3>3. ASSUME NEW h \in Homes, NEW t \in Instants, MemberRemoved(h, t)
          PROVE  PresenceInv'
      <4> DEFINE ks == {<<"member", h>>}
      <4>1. ks \in SUBSET (Relations \X Homes)
        BY DEF Relations
      <4>2. Invalidated("member", h, t) = {e \in OpenEdges : <<e.rel, e.home>> \in ks /\ e.from <= t}
        BY DEF Invalidated
      <4> HIDE DEF ks
      <4>3. ToldEnd(ks, t)
        BY <3>3 DEF MemberRemoved, ks
      <4> QED  BY <3>0, <3>3, <4>1, <4>2, <4>3, EndKeepsPresence DEF MemberRemoved
    <3>4. ASSUME NEW node \in Nodes, NEW t \in Instants, IsGone(node, t)
          PROVE  PresenceInv'
      <4> DEFINE ks == {k \in DOMAIN truth : NodeOf(k[1]) = node}
      <4>0. DOMAIN truth = Relations \X Homes
            /\ \A e \in edges : e.rel \in Relations /\ e.home \in Homes
        BY DEF PresenceInv, PresenceTypeOK, Edge
      <4>1. ks \in SUBSET (Relations \X Homes)
        BY <4>0
      <4>2. \A e \in OpenEdges : <<e.rel, e.home>> \in ks <=> NodeOf(e.rel) = node
        BY <4>0 DEF OpenEdges
      <4> HIDE DEF ks
      <4>3. EndsOf(node, t) = {e \in OpenEdges : <<e.rel, e.home>> \in ks /\ e.from <= t}
        BY <4>2 DEF EndsOf
      <4>4. ToldEnd(ks, t)
        BY <3>4 DEF IsGone, ks
      <4>5. Copies(node) \subseteq Nodes \X Homes
        BY <4>0 DEF Copies
      <4>6. ended' \subseteq Nodes \X Homes
        BY <3>0, <3>4, <4>5 DEF IsGone
      <4> QED  BY <3>0, <3>4, <4>1, <4>3, <4>4, <4>6, EndKeepsPresence DEF IsGone
    <3>5. ASSUME NEW node \in Nodes, IsBack(node)
          PROVE  PresenceInv'
      BY <3>0, <3>5 DEF IsBack, PresenceInv, PresenceTypeOK, OpenEdges, EdgeTold, AsOfIsWhatWasTold, AsOf
    <3> QED  BY <2>2, <3>1, <3>2, <3>3, <3>4, <3>5 DEF PresenceNext
  <2> QED  BY <2>1, <2>2
<1> QED  BY <1>1, <1>2, PTL DEF PresenceSpec

\* extract, upsert_edge, invalidate_superseded, end_entity and reopen_entity: in every
\* behaviour a read as of any instant returns what was told of it, unless a relation was told
\* of late and it mattered.
THEOREM AsOfIsWhatWasToldHolds ==
  ASSUME PresenceAssumption
  PROVE  PresenceSpec => []AsOfIsWhatWasTold
<1>1. PresenceInv => AsOfIsWhatWasTold
  BY DEF PresenceInv
<1> QED  BY <1>1, PresenceInvHolds, PTL

-----------------------------------------------------------------------------
(* TopicTally: a fact folded is among the items or was told before; the     *)
(* state is what the facts told amount to, fact by fact.                    *)

\* What a fold reads and makes: a count may be below zero until it is trimmed.
Sums == UNION {[D -> Int] : D \in SUBSET STRING}
TallyState == [count : Int, sums : Sums, items : Seq(Facts), stated : Facts \cup {NoTotal}]

\* What a set of facts adds up to.
Amount(F) == MapThenSumSet(Signed, F)

\* The state is what the facts T amount to: the total stated last is the one it holds, a
\* total stands alone in its unit, and each sum and, where only things are counted, the
\* count are what was told since.
AmountsTo(st, T) ==
  /\ \A f \in T : f.op = "set" =>
       /\ st.stated \in T /\ st.stated.op = "set"
       /\ f # st.stated => f.date < st.stated.date
       /\ \A g \in T : g.op # "none" => g.unit = f.unit
  /\ (\A f \in T : f.op # "set") => st.stated = NoTotal
  /\ \A u \in STRING \ {CountUnit} : SumOf(st, u) = Truth(T, u)
  /\ UnitsOf(T) \subseteq {CountUnit} => st.count = Truth(T, CountUnit)

TallyInv ==
  /\ line.tally \in TallyState /\ line.tally.count \in Nat /\ told \subseteq Facts
  /\ work = [p \in Folders |-> work[p]]
  /\ \A p \in Folders : work[p] # Resting =>
       work[p].read \in TallyState /\ work[p].facts \in Seq(Facts)
  /\ fair => Range(line.tally.items) \subseteq told /\ AmountsTo(line.tally, told)

LEMMA FactFacts ==
  ASSUME TopicTallyAssumption
  PROVE  /\ IsFiniteSet(Facts)
         /\ \A f \in Facts : /\ f.date \in Nat /\ f.date # 0 /\ f.qty \in Nat /\ f.unit \in STRING
                             /\ f.op \in {"add", "remove", "set", "none"}
                             /\ f # NoTotal /\ Signed(f) \in Int /\ One(f) \in Int
         /\ NoTotal.date = 0 /\ NoTotal.qty = 0 /\ NoTotal.op = "set" /\ NoTotal.unit = ""
<1>1. IsFiniteSet(Facts) /\ \A f \in Facts : f \in TallyFact
  BY DEF TopicTallyAssumption
<1>2. \A f \in Facts : /\ f.date \in 1..LastDate /\ f.qty \in Nat /\ f.unit \in STRING
                       /\ f.op \in {"add", "remove", "set", "none"}
  BY <1>1 DEF TallyFact
<1>3. LastDate \in Nat
  BY DEF TopicTallyAssumption
<1>4. NoTotal.date = 0 /\ NoTotal.qty = 0 /\ NoTotal.op = "set" /\ NoTotal.unit = ""
  BY DEF NoTotal
<1>5. \A f \in Facts : f.date \in Nat /\ f.date # 0 /\ Signed(f) \in Int /\ One(f) \in Int
  BY <1>2, <1>3 DEF Signed, One
<1>6. \A f \in Facts : f # NoTotal
  BY <1>4, <1>5
<1> QED  BY <1>1, <1>2, <1>4, <1>5, <1>6

-----------------------------------------------------------------------------
(* What a set of facts adds up to does not depend on the order.             *)

\* The recursion behind a sum, over the subsets of U.
SumsUp(total, U) ==
  total = [G \in SUBSET U |->
             IF G = {} THEN 0
             ELSE LET f == CHOOSE g \in G : TRUE IN Signed(f) + total[G \ {f}]]

LEMMA SumsExist ==
  ASSUME NEW U, IsFiniteSet(U), \A f \in U : Signed(f) \in Int
  PROVE  \E total \in [SUBSET U -> Int] : SumsUp(total, U)
<1> DEFINE pick == [G \in SUBSET U |-> CHOOSE g \in G : TRUE]
           F == [k \in U \X Int |-> Signed(k[1]) + k[2]]
<1>1. \A G \in SUBSET U : G # {} => pick[G] \in G
  OBVIOUS
<1>2. \A G \in SUBSET U : pick[G] = CHOOSE g \in G : TRUE
  OBVIOUS
<1>3. F \in [U \X Int -> Int] /\ \A f \in U, n \in Int : F[<<f, n>>] = Signed(f) + n
  OBVIOUS
<1> HIDE DEF pick, F
<1>4. PICK g \in [SUBSET U -> Int] : Folded(g, U, 0, pick, F)
  <2>1. 0 \in Int
    OBVIOUS
  <2> QED  BY <1>1, <1>3, <2>1, FoldExists
<1>5. ASSUME NEW G \in SUBSET U
      PROVE  g[G] = IF G = {} THEN 0
                    ELSE Signed(CHOOSE f \in G : TRUE) + g[G \ {CHOOSE f \in G : TRUE}]
  <2>1. CASE G = {}
    BY <1>4, <2>1 DEF Folded
  <2>2. CASE G # {}
    <3>1. g[G] = F[<<pick[G], g[G \ {pick[G]}]>>]
      BY <1>4, <2>2 DEF Folded
    <3>2. pick[G] \in U /\ g[G \ {pick[G]}] \in Int
      BY <1>1, <2>2
    <3>3. g[G] = Signed(pick[G]) + g[G \ {pick[G]}]
      BY <1>3, <3>1, <3>2
    <3> QED  BY <1>2, <2>2, <3>3
  <2> QED  BY <2>1, <2>2
<1>6. g = [G \in SUBSET U |-> g[G]]
  OBVIOUS
<1> QED  BY <1>5, <1>6 DEF SumsUp

\* The sum of a set is the value of that recursion over any larger set.
LEMMA SumsAgree ==
  ASSUME NEW U, IsFiniteSet(U), NEW V \in SUBSET U, NEW t, SumsUp(t, U), NEW s, SumsUp(s, V)
  PROVE  \A G \in SUBSET V : t[G] = s[G]
<1> DEFINE Agree == {n \in Nat : \A G \in SUBSET V : Cardinality(G) = n => t[G] = s[G]}
<1>0. \A G \in SUBSET V : /\ IsFiniteSet(G) /\ Cardinality(G) \in Nat /\ (Cardinality(G) = 0 <=> G = {})
                          /\ \A f \in G : Cardinality(G \ {f}) = Cardinality(G) - 1
  BY FS_Subset, FS_CardinalityType, FS_EmptySet, FS_RemoveElement
<1>1. 0 \in Agree
  BY <1>0 DEF SumsUp
<1>2. ASSUME NEW n \in Nat, n \in Agree
      PROVE  n + 1 \in Agree
  <2> SUFFICES ASSUME NEW G \in SUBSET V, Cardinality(G) = n + 1
               PROVE  t[G] = s[G]
    OBVIOUS
  <2> DEFINE f == CHOOSE g \in G : TRUE
  <2>1. G # {} /\ f \in G /\ t[G] = Signed(f) + t[G \ {f}] /\ s[G] = Signed(f) + s[G \ {f}]
    <3>1. G # {} /\ G \in SUBSET U
      BY <1>0
    <3>2. f \in G
      BY <3>1
    <3>3. t[G] = Signed(f) + t[G \ {f}]
      BY <3>1 DEF SumsUp
    <3>4. s[G] = Signed(f) + s[G \ {f}]
      BY <3>1 DEF SumsUp
    <3> HIDE DEF f
    <3> QED  BY <3>1, <3>2, <3>3, <3>4
  <2> HIDE DEF f
  <2>2. G \ {f} \in SUBSET V /\ Cardinality(G \ {f}) = n
    BY <1>0, <2>1
  <2>3. t[G \ {f}] = s[G \ {f}]
    BY <1>2, <2>2
  <2> QED  BY <2>1, <2>3
<1> HIDE DEF Agree
<1>3. Nat \subseteq Agree
  BY <1>1, <1>2, SetInduction
<1> QED  BY <1>0, <1>3 DEF Agree

\* The element taken first does not matter.
LEMMA SumsCommute ==
  ASSUME NEW U, IsFiniteSet(U), \A f \in U : Signed(f) \in Int,
         NEW t, t \in [SUBSET U -> Int], SumsUp(t, U), NEW e \in U
  PROVE  t[U] = Signed(e) + t[U \ {e}]
<1> DEFINE Good == {n \in Nat : \A G \in SUBSET U : Cardinality(G) = n =>
                                  \A k \in G : t[G] = Signed(k) + t[G \ {k}]}
<1>0. \A G \in SUBSET U : /\ IsFiniteSet(G) /\ Cardinality(G) \in Nat /\ (Cardinality(G) = 0 <=> G = {})
                          /\ \A f \in G : Cardinality(G \ {f}) = Cardinality(G) - 1
  BY FS_Subset, FS_CardinalityType, FS_EmptySet, FS_RemoveElement
<1>1. 0 \in Good
  BY <1>0
<1>2. ASSUME NEW n \in Nat, n \in Good
      PROVE  n + 1 \in Good
  <2> SUFFICES ASSUME NEW G \in SUBSET U, Cardinality(G) = n + 1, NEW k \in G
               PROVE  t[G] = Signed(k) + t[G \ {k}]
    OBVIOUS
  <2> DEFINE f == CHOOSE g \in G : TRUE
  <2>1. f \in G /\ t[G] = Signed(f) + t[G \ {f}]
    BY DEF SumsUp
  <2> HIDE DEF f
  <2>2. CASE k = f
    BY <2>1, <2>2
  <2>3. CASE k # f
    <3>1. /\ G \ {f} \in SUBSET U /\ Cardinality(G \ {f}) = n /\ k \in G \ {f}
          /\ G \ {k} \in SUBSET U /\ Cardinality(G \ {k}) = n /\ f \in G \ {k}
      BY <1>0, <2>1, <2>3
    <3>2. t[G \ {f}] = Signed(k) + t[(G \ {f}) \ {k}] /\ t[G \ {k}] = Signed(f) + t[(G \ {k}) \ {f}]
      BY <1>2, <3>1
    <3>3. (G \ {f}) \ {k} = (G \ {k}) \ {f}
      OBVIOUS
    <3> DEFINE rest == t[(G \ {k}) \ {f}]
    <3>4. rest \in Int /\ Signed(k) \in Int /\ Signed(f) \in Int
      BY <2>1
    <3> HIDE DEF rest
    <3>5. t[G \ {f}] = Signed(k) + rest /\ t[G \ {k}] = Signed(f) + rest
      BY <3>2, <3>3 DEF rest
    <3> QED  BY <2>1, <3>4, <3>5
  <2> QED  BY <2>2, <2>3
<1> HIDE DEF Good
<1>3. Nat \subseteq Good
  BY <1>1, <1>2, SetInduction
<1>4. U \in SUBSET U /\ Cardinality(U) \in Good
  BY <1>0, <1>3
<1> QED  BY <1>4 DEF Good

LEMMA AmountIsSum ==
  ASSUME NEW U, IsFiniteSet(U), \A f \in U : Signed(f) \in Int
  PROVE  \E t : SumsUp(t, U) /\ t \in [SUBSET U -> Int] /\ Amount(U) = t[U]
<1> DEFINE total == CHOOSE t : SumsUp(t, U)
<1>1. SumsUp(total, U)
  BY SumsExist
<1>2. Amount(U) = total[U]
  BY DEF Amount, MapThenSumSet, MapThenFoldSet, SumsUp
<1> HIDE DEF total
<1>3. PICK s \in [SUBSET U -> Int] : SumsUp(s, U)
  BY SumsExist
<1>4. total = [G \in SUBSET U |-> total[G]]
  BY <1>1 DEF SumsUp
<1>5. \A G \in SUBSET U : total[G] = s[G]
  BY <1>1, <1>3, SumsAgree
<1>6. total \in [SUBSET U -> Int]
  BY <1>4, <1>5
<1> QED  BY <1>1, <1>2, <1>6

LEMMA AmountFacts ==
  ASSUME NEW U, IsFiniteSet(U), \A f \in U : Signed(f) \in Int
  PROVE  /\ Amount(U) \in Int
         /\ U = {} => Amount(U) = 0
         /\ \A e \in U : Amount(U) = Signed(e) + Amount(U \ {e})
<1>1. PICK t : SumsUp(t, U) /\ t \in [SUBSET U -> Int] /\ Amount(U) = t[U]
  BY AmountIsSum
<1>2. U = {} => t[U] = 0
  BY <1>1 DEF SumsUp
<1>3. ASSUME NEW e \in U
      PROVE  Amount(U) = Signed(e) + Amount(U \ {e})
  <2> DEFINE V == U \ {e}
  <2>1. V \in SUBSET U /\ IsFiniteSet(V) /\ \A f \in V : Signed(f) \in Int
    BY FS_Subset
  <2> HIDE DEF V
  <2>2. PICK s : SumsUp(s, V) /\ s \in [SUBSET V -> Int] /\ Amount(V) = s[V]
    BY <2>1, AmountIsSum
  <2>3. t[V] = s[V]
    BY <1>1, <2>1, <2>2, SumsAgree
  <2>4. t[U] = Signed(e) + t[V]
    <3>1. t \in [SUBSET U -> Int] /\ SumsUp(t, U)
      BY <1>1
    <3> QED  BY <3>1, SumsCommute DEF V
  <2> QED  BY <1>1, <2>2, <2>3, <2>4 DEF V
<1> QED  BY <1>1, <1>2, <1>3

-----------------------------------------------------------------------------
(* Truth, of a set of facts that grows by one.                              *)

\* The total of unit u stated last, among the facts T.
IsLast(T, u, l) ==
  IF Stated(T, u) = {} THEN l = NoTotal
  ELSE l \in Stated(T, u) /\ \A g \in Stated(T, u) : g # l => g.date < l.date

After(T, u, d) == {f \in Moves(T, u) : f.date > d}

LastOf(S) == IF S = {} THEN NoTotal ELSE CHOOSE f \in S : \A g \in S : g.date <= f.date
LastTotal(T, u) == LastOf(Stated(T, u))

LEMMA TruthUnfolds ==
  ASSUME NEW T, NEW u
  PROVE  Truth(T, u) = LastTotal(T, u).qty + Amount(After(T, u, LastTotal(T, u).date))
BY Zenon DEF Truth, LastTotal, LastOf, Amount, After

LEMMA TruthIs ==
  ASSUME TopicTallyAssumption, NEW T \in SUBSET Facts, NEW u, NEW l, IsLast(T, u, l)
  PROVE  /\ Truth(T, u) = l.qty + Amount(After(T, u, l.date))
         /\ l.qty \in Nat /\ l.date \in Nat
<1>1. Stated(T, u) \subseteq Facts
  BY DEF Stated
<1>2. CASE Stated(T, u) = {}
  <2>1. l = NoTotal /\ LastTotal(T, u) = l
    BY <1>2 DEF LastTotal, LastOf, IsLast
  <2>2. NoTotal.qty = 0 /\ NoTotal.date = 0
    BY DEF NoTotal
  <2>3. l.qty = 0 /\ l.date = 0
    BY <2>1, <2>2
  <2> QED  BY <2>1, <2>3, TruthUnfolds
<1>3. CASE Stated(T, u) # {}
  <2>1. l \in Stated(T, u) /\ \A g \in Stated(T, u) : g # l => g.date < l.date
    BY <1>3 DEF IsLast
  <2>2. \A g \in Stated(T, u) : g.date \in Nat /\ g.qty \in Nat
    BY <1>1, FactFacts
  <2>3. \A g \in Stated(T, u) : g.date <= l.date
    BY <2>1, <2>2
  <2>4. \A k \in Stated(T, u) : (\A g \in Stated(T, u) : g.date <= k.date) => k = l
    <3> SUFFICES ASSUME NEW k \in Stated(T, u), \A g \in Stated(T, u) : g.date <= k.date, k # l
                 PROVE  FALSE
      OBVIOUS
    <3>1. k.date < l.date /\ l.date <= k.date /\ k.date \in Nat /\ l.date \in Nat
      BY <2>1, <2>2
    <3> QED  BY <3>1
  <2>5. l = CHOOSE f \in Stated(T, u) : \A g \in Stated(T, u) : g.date <= f.date
    BY <2>1, <2>3, <2>4
  <2>6. LastTotal(T, u) = l
    BY <1>3, <2>5 DEF LastTotal, LastOf
  <2> QED  BY <2>1, <2>2, <2>6, TruthUnfolds
<1> QED  BY <1>2, <1>3

LEMMA AfterFacts ==
  ASSUME TopicTallyAssumption, NEW T \in SUBSET Facts, NEW u, NEW d
  PROVE  /\ IsFiniteSet(After(T, u, d)) /\ After(T, u, d) \subseteq Facts
         /\ \A f \in After(T, u, d) : Signed(f) \in Int
         /\ Amount(After(T, u, d)) \in Int
<1>1. After(T, u, d) \subseteq Facts
  BY DEF After, Moves
<1>2. IsFiniteSet(After(T, u, d)) /\ \A f \in After(T, u, d) : Signed(f) \in Int
  BY <1>1, FactFacts, FS_Subset
<1> QED  BY <1>1, <1>2, AmountFacts

\* A fact that says nothing changes nothing.
LEMMA TruthOfNone ==
  ASSUME NEW T, NEW u, NEW f, f.op = "none"
  PROVE  Truth(T \cup {f}, u) = Truth(T, u) /\ UnitsOf(T \cup {f}) = UnitsOf(T)
<1>1. Stated(T \cup {f}, u) = Stated(T, u) /\ Moves(T \cup {f}, u) = Moves(T, u)
  BY DEF Stated, Moves
<1>2. UnitsOf(T \cup {f}) = UnitsOf(T)
  <2>1. {g \in T \cup {f} : g.op # "none"} = {g \in T : g.op # "none"}
    OBVIOUS
  <2> QED  BY <2>1 DEF UnitsOf
<1>3. LastTotal(T \cup {f}, u) = LastTotal(T, u)
  BY <1>1 DEF LastTotal
<1>4. After(T \cup {f}, u, LastTotal(T, u).date) = After(T, u, LastTotal(T, u).date)
  BY <1>1 DEF After
<1> QED  BY <1>2, <1>3, <1>4, TruthUnfolds

\* An event adds itself, after the total last stated in its unit.
LEMMA TruthOfEvent ==
  ASSUME TopicTallyAssumption, NEW T \in SUBSET Facts, NEW f \in Facts \ T,
         f.op \in {"add", "remove"}, NEW u, NEW l, IsLast(T, u, l)
  PROVE  /\ Truth(T, u) \in Int
         /\ Truth(T \cup {f}, u) = Truth(T, u) + (IF f.unit = u /\ f.date > l.date THEN Signed(f) ELSE 0)
<1> DEFINE W == T \cup {f}
           A == After(T, u, l.date)
           B == After(W, u, l.date)
<1>0. W \in SUBSET Facts /\ f \in Facts
  OBVIOUS
<1>1. IsLast(W, u, l)
  <2>1. Stated(W, u) = Stated(T, u)
    BY DEF Stated
  <2> QED  BY <2>1 DEF IsLast
<1>2. Truth(T, u) = l.qty + Amount(A) /\ Truth(W, u) = l.qty + Amount(B) /\ l.qty \in Nat
  <2> HIDE DEF W
  <2>1. Truth(T, u) = l.qty + Amount(A) /\ l.qty \in Nat
    BY TruthIs
  <2>2. Truth(W, u) = l.qty + Amount(B)
    BY <1>0, <1>1, TruthIs
  <2> QED  BY <2>1, <2>2
<1>3. Amount(A) \in Int /\ IsFiniteSet(B) /\ (\A g \in B : Signed(g) \in Int) /\ Amount(B) \in Int
  <2> HIDE DEF W
  <2> QED  BY <1>0, AfterFacts
<1>4. CASE f.unit = u /\ f.date > l.date
  <2>1. f \in B /\ B \ {f} = A
    BY <1>4 DEF After, Moves
  <2> HIDE DEF A, B, W
  <2>2. Amount(B) = Signed(f) + Amount(A)
    BY <1>3, <2>1, AmountFacts
  <2>3. Signed(f) \in Int
    BY <1>3, <2>1
  <2>4. Truth(W, u) = Truth(T, u) + Signed(f) /\ Truth(T, u) \in Int
    BY <1>2, <1>3, <2>2, <2>3
  <2> QED  BY <1>4, <2>4 DEF W
<1>5. CASE ~ (f.unit = u /\ f.date > l.date)
  <2>1. B = A
    BY <1>5 DEF After, Moves
  <2> HIDE DEF A, B
  <2>2. Truth(W, u) = Truth(T, u) /\ Truth(T, u) \in Int
    BY <1>2, <1>3, <2>1
  <2>3. Truth(T, u) + 0 = Truth(T, u)
    BY <2>2
  <2> QED  BY <1>5, <2>2, <2>3
<1> QED  BY <1>4, <1>5

\* A total stated last is the truth of its unit.
LEMMA TruthOfTotal ==
  ASSUME TopicTallyAssumption, NEW T \in SUBSET Facts, NEW f \in Facts \ T, f.op = "set",
         \A g \in T : g.date < f.date \/ (g.op # "set" /\ g.date = f.date)
  PROVE  Truth(T \cup {f}, f.unit) = f.qty
<1> DEFINE W == T \cup {f}
<1>1. IsLast(W, f.unit, f)
  BY DEF IsLast, Stated
<1>2. After(W, f.unit, f.date) = {}
  <2> SUFFICES ASSUME NEW g \in Moves(W, f.unit), g.date > f.date
               PROVE  FALSE
    BY DEF After
  <2>1. g \in T /\ g.date \in Nat /\ f.date \in Nat
    BY FactFacts DEF Moves
  <2> QED  BY <2>1
<1>3. Amount({}) = 0
  BY AmountFacts, FS_EmptySet
<1>4. Truth(W, f.unit) = f.qty + Amount(After(W, f.unit, f.date)) /\ f.qty \in Nat
  <2>1. W \in SUBSET Facts
    OBVIOUS
  <2> HIDE DEF W
  <2> QED  BY <1>1, <2>1, TruthIs
<1> QED  BY <1>2, <1>3, <1>4

\* Of a unit nothing was told in, the truth is nothing.
LEMMA TruthOfNothing ==
  ASSUME TopicTallyAssumption, NEW T \in SUBSET Facts, NEW u, \A g \in T : g.op # "none" => g.unit # u
  PROVE  Truth(T, u) = 0
<1>1. Stated(T, u) = {} /\ Moves(T, u) = {}
  BY DEF Stated, Moves
<1>2. IsLast(T, u, NoTotal) /\ After(T, u, NoTotal.date) = {}
  BY <1>1 DEF IsLast, After
<1>3. Amount({}) = 0
  BY AmountFacts, FS_EmptySet
<1>4. Truth(T, u) = NoTotal.qty + Amount(After(T, u, NoTotal.date))
  BY <1>2, TruthIs
<1>5. NoTotal.qty = 0
  BY DEF NoTotal
<1> QED  BY <1>2, <1>3, <1>4, <1>5

-----------------------------------------------------------------------------
(* A fact applied to a state.                                               *)

IsPut(t, s, u, n) ==
  /\ t \in Sums /\ u \in DOMAIN t /\ t[u] = n
  /\ \A v : v # u => (v \in DOMAIN t <=> v \in DOMAIN s)
  /\ \A v : v # u => t[v] = s[v] \/ v \notin DOMAIN s

LEMMA PutSum ==
  ASSUME NEW s \in Sums, NEW u \in STRING, NEW n \in Int
  PROVE  IsPut(WithSum(s, u, n), s, u, n)
<1> DEFINE t == WithSum(s, u, n)
<1>1. PICK D \in SUBSET STRING : s \in [D -> Int]
  BY DEF Sums
<1>2. t = [x \in D \cup {u} |-> IF x = u THEN n ELSE s[x]]
  BY <1>1 DEF WithSum
<1>3. t \in [D \cup {u} -> Int] /\ D \cup {u} \in SUBSET STRING
  BY <1>1, <1>2
<1>4. t \in Sums
  BY <1>3 DEF Sums
<1>5. /\ u \in DOMAIN t /\ t[u] = n
      /\ \A v : v # u => (v \in DOMAIN t <=> v \in DOMAIN s)
      /\ \A v : v # u => t[v] = s[v] \/ v \notin DOMAIN s
  BY <1>1, <1>2
<1> QED  BY <1>4, <1>5 DEF IsPut

\* The sum a state has of a unit is a number.
LEMMA SumOfType ==
  ASSUME NEW st \in TallyState
  PROVE  /\ st.count \in Int /\ st.sums \in Sums /\ \A u : SumOf(st, u) \in Int
         /\ \A u \in DOMAIN st.sums : st.sums[u] \in Int
         /\ st.items \in Seq(Facts) /\ st.stated \in Facts \cup {NoTotal}
<1>1. st.sums \in Sums /\ st.count \in Int /\ st.items \in Seq(Facts) /\ st.stated \in Facts \cup {NoTotal}
  BY DEF TallyState
<1>2. PICK D \in SUBSET STRING : st.sums \in [D -> Int]
  BY <1>1 DEF Sums
<1>3. \A u \in DOMAIN st.sums : st.sums[u] \in Int
  BY <1>2
<1>4. \A u : SumOf(st, u) \in Int
  BY <1>3 DEF SumOf
<1> QED  BY <1>1, <1>3, <1>4

\* What each kind of fact does to a state.
LEMMA TotalApplied ==
  ASSUME TopicTallyAssumption, NEW st \in TallyState, NEW f \in Facts, f.op = "set"
  PROVE  LET s == Applied(st, f)
         IN /\ s \in TallyState /\ s.items = st.items /\ s.stated = f
            /\ Countish(f) => s.count = f.qty /\ \A u : SumOf(s, u) = SumOf(st, u)
            /\ ~ Countish(f) => /\ s.count = st.count /\ SumOf(s, f.unit) = f.qty
                                /\ \A u : u # f.unit => SumOf(s, u) = SumOf(st, u)
<1> DEFINE s == Applied(st, f)
<1>0. f.qty \in Int /\ f.unit \in STRING /\ st.sums \in Sums
  <2>1. f.qty \in Nat /\ f.unit \in STRING
    BY FactFacts
  <2>2. st.sums \in Sums
    BY SumOfType
  <2> QED  BY <2>1, <2>2
<1>1. s = WithTotal(st, f)
  BY DEF Applied
<1>2. CASE Countish(f)
  <2>1. s = [st EXCEPT !.count = f.qty, !.stated = f]
    BY <1>1, <1>2 DEF WithTotal
  <2>2. s \in TallyState /\ s.items = st.items /\ s.stated = f /\ s.count = f.qty /\ s.sums = st.sums
    BY <1>0, <2>1 DEF TallyState
  <2> HIDE DEF s
  <2>3. \A u : SumOf(s, u) = SumOf(st, u)
    BY <2>2 DEF SumOf
  <2> QED  BY <1>2, <2>2, <2>3 DEF s
<1>3. CASE ~ Countish(f)
  <2> DEFINE t == WithSum(st.sums, f.unit, f.qty)
  <2>1. s = [st EXCEPT !.sums = t, !.stated = f]
    BY <1>1, <1>3 DEF WithTotal
  <2>2. /\ t \in Sums /\ f.unit \in DOMAIN t /\ t[f.unit] = f.qty
        /\ \A v : v # f.unit => (v \in DOMAIN t <=> v \in DOMAIN st.sums)
        /\ \A v : v # f.unit => t[v] = st.sums[v] \/ v \notin DOMAIN st.sums
    <3>1. IsPut(t, st.sums, f.unit, f.qty)
      BY <1>0, PutSum
    <3> HIDE DEF t
    <3> QED  BY <3>1 DEF IsPut
  <2> HIDE DEF t
  <2>3. s \in TallyState /\ s.items = st.items /\ s.stated = f /\ s.count = st.count /\ s.sums = t
    BY <2>1, <2>2 DEF TallyState
  <2> HIDE DEF s
  <2>4. SumOf(s, f.unit) = f.qty /\ \A u : u # f.unit => SumOf(s, u) = SumOf(st, u)
    BY <2>2, <2>3 DEF SumOf
  <2> QED  BY <1>3, <2>3, <2>4 DEF s
<1> QED  BY <1>2, <1>3

LEMMA EventApplied ==
  ASSUME TopicTallyAssumption, NEW st \in TallyState, NEW f \in Facts, f.op \in {"add", "remove"}
  PROVE  LET s == Applied(st, f)
         IN /\ s \in TallyState /\ s.items = st.items /\ s.stated = st.stated
            /\ Inside(st, f) => s = st
            /\ ~ Inside(st, f) /\ Countish(f) =>
                 s.count = st.count + Signed(f) /\ \A u : SumOf(s, u) = SumOf(st, u)
            /\ ~ Inside(st, f) /\ ~ Countish(f) =>
                 /\ SumOf(s, f.unit) = SumOf(st, f.unit) + Signed(f)
                 /\ \A u : u # f.unit => SumOf(s, u) = SumOf(st, u)
<1> DEFINE s == Applied(st, f)
           n == SumOf(st, f.unit) + Signed(f)
<1>0. /\ Signed(f) \in Int /\ One(f) \in Int /\ f.unit \in STRING /\ st.sums \in Sums
      /\ st.count \in Int /\ n \in Int
  <2>1. Signed(f) \in Int /\ One(f) \in Int /\ f.unit \in STRING
    BY FactFacts
  <2>2. st.sums \in Sums /\ st.count \in Int /\ SumOf(st, f.unit) \in Int
    BY SumOfType
  <2> QED  BY <2>1, <2>2
<1>1. s = WithEvent(st, f)
  BY DEF Applied
<1>2. CASE Inside(st, f)
  <2>1. s = st
    BY <1>1, <1>2 DEF WithEvent
  <2> QED  BY <1>2, <2>1
<1>3. CASE ~ Inside(st, f) /\ Countish(f)
  <2>1. s = [st EXCEPT !.count = @ + Signed(f)]
    BY <1>1, <1>3 DEF WithEvent
  <2>2. /\ s \in TallyState /\ s.items = st.items /\ s.stated = st.stated
        /\ s.count = st.count + Signed(f) /\ s.sums = st.sums
    BY <1>0, <2>1 DEF TallyState
  <2> HIDE DEF s
  <2>3. \A u : SumOf(s, u) = SumOf(st, u)
    BY <2>2 DEF SumOf
  <2> QED  BY <1>3, <2>2, <2>3 DEF s
<1>4. CASE ~ Inside(st, f) /\ ~ Countish(f)
  <2> DEFINE t == WithSum(st.sums, f.unit, n)
  <2>1. s = [st EXCEPT !.count = @ + One(f), !.sums = t]
    BY <1>1, <1>4 DEF WithEvent
  <2> HIDE DEF n
  <2>2. /\ t \in Sums /\ f.unit \in DOMAIN t /\ t[f.unit] = n
        /\ \A v : v # f.unit => (v \in DOMAIN t <=> v \in DOMAIN st.sums)
        /\ \A v : v # f.unit => t[v] = st.sums[v] \/ v \notin DOMAIN st.sums
    <3>1. IsPut(t, st.sums, f.unit, n)
      BY <1>0, PutSum
    <3> HIDE DEF t
    <3> QED  BY <3>1 DEF IsPut
  <2> HIDE DEF t
  <2>3. s \in TallyState /\ s.items = st.items /\ s.stated = st.stated /\ s.sums = t
    <3> DEFINE c == st.count + One(f)
    <3>1. s = [st EXCEPT !.count = c, !.sums = t] /\ c \in Int
      BY <1>0, <2>1
    <3> HIDE DEF c
    <3> QED  BY <2>2, <3>1 DEF TallyState
  <2> HIDE DEF s
  <2>4. SumOf(s, f.unit) = n /\ \A u : u # f.unit => SumOf(s, u) = SumOf(st, u)
    BY <2>2, <2>3 DEF SumOf
  <2> QED  BY <1>4, <2>3, <2>4 DEF s, n
<1> QED  BY <1>2, <1>3, <1>4

\* Applying a fact not told before, as long as the tally is meant for it, keeps the state
\* what was told amounts to.
LEMMA AppliedAmounts ==
  ASSUME TopicTallyAssumption, NEW st \in TallyState, NEW T \in SUBSET Facts, NEW f \in Facts \ T,
         AmountsTo(st, T),
         f.op = "set" => \A g \in T : g.date < f.date \/ (g.op # "set" /\ g.date = f.date),
         (\E g \in T \cup {f} : g.op = "set") =>
            \A g, h \in T \cup {f} : g.op # "none" /\ h.op # "none" => g.unit = h.unit
  PROVE  /\ Applied(st, f) \in TallyState /\ Applied(st, f).items = st.items
         /\ AmountsTo(Applied(st, f), T \cup {f})
<1> DEFINE s == Applied(st, f)
           W == T \cup {f}
<1>0. /\ f \in Facts /\ f \notin T /\ T \subseteq Facts /\ f.op \in {"add", "remove", "set", "none"}
      /\ \A g \in W : g.date \in Nat /\ g.qty \in Nat /\ g # NoTotal /\ g.date # 0
      /\ NoTotal.date = 0
  BY FactFacts
<1>1. CASE f.op = "none"
  <2>1. s = st
    BY <1>1 DEF Applied
  <2>2. \A u : Truth(W, u) = Truth(T, u)
    BY <1>1, TruthOfNone
  <2>3. UnitsOf(W) = UnitsOf(T)
    BY <1>1, TruthOfNone
  <2> HIDE DEF s
  <2>4. AmountsTo(s, W)
    BY <1>1, <2>1, <2>2, <2>3 DEF AmountsTo
  <2> QED  BY <2>1, <2>4 DEF s
<1>2. CASE f.op = "set"
  <2>1. /\ s \in TallyState /\ s.items = st.items /\ s.stated = f
        /\ Countish(f) => s.count = f.qty /\ \A u : SumOf(s, u) = SumOf(st, u)
        /\ ~ Countish(f) => /\ s.count = st.count /\ SumOf(s, f.unit) = f.qty
                            /\ \A u : u # f.unit => SumOf(s, u) = SumOf(st, u)
    BY <1>0, <1>2, TotalApplied
  <2> HIDE DEF s
  <2>2. \A g \in W : g.op # "none" => g.unit = f.unit
    BY <1>2
  <2>3. Truth(W, f.unit) = f.qty
    BY <1>0, <1>2, TruthOfTotal
  <2>4. \A u : u # f.unit => Truth(W, u) = 0 /\ Truth(T, u) = 0
    <3> SUFFICES ASSUME NEW u, u # f.unit
                 PROVE  Truth(W, u) = 0 /\ Truth(T, u) = 0
      OBVIOUS
    <3>1. W \in SUBSET Facts /\ (\A g \in W : g.op # "none" => g.unit # u)
          /\ \A g \in T : g.op # "none" => g.unit # u
      BY <1>0, <2>2
    <3> HIDE DEF W
    <3> QED  BY <3>1, TruthOfNothing
  <2>5. \A g \in W : g.op = "set" =>
          /\ s.stated \in W /\ s.stated.op = "set"
          /\ g # s.stated => g.date < s.stated.date
          /\ \A h \in W : h.op # "none" => h.unit = g.unit
    <3> SUFFICES ASSUME NEW g \in W, g.op = "set"
                 PROVE  /\ s.stated \in W /\ s.stated.op = "set"
                        /\ g # s.stated => g.date < s.stated.date
                        /\ \A h \in W : h.op # "none" => h.unit = g.unit
      OBVIOUS
    <3>1. g # f => g.date < f.date
      BY <1>2
    <3>2. g.unit = f.unit
      BY <2>2
    <3> QED  BY <1>2, <2>1, <2>2, <3>1, <3>2
  <2>6. ~ \A g \in W : g.op # "set"
    BY <1>2
  <2>7. \A u \in STRING \ {CountUnit} : SumOf(s, u) = Truth(W, u)
    <3> SUFFICES ASSUME NEW u \in STRING \ {CountUnit}
                 PROVE  SumOf(s, u) = Truth(W, u)
      OBVIOUS
    <3>1. CASE u = f.unit
      BY <3>1, <2>1, <2>3 DEF Countish
    <3>2. CASE u # f.unit
      <4>1. SumOf(s, u) = SumOf(st, u)
        BY <3>2, <2>1
      <4>2. SumOf(st, u) = Truth(T, u)
        BY DEF AmountsTo
      <4> QED  BY <3>2, <4>1, <4>2, <2>4
    <3> QED  BY <3>1, <3>2
  <2>8. UnitsOf(W) \subseteq {CountUnit} => s.count = Truth(W, CountUnit)
    <3> SUFFICES ASSUME UnitsOf(W) \subseteq {CountUnit}
                 PROVE  s.count = Truth(W, CountUnit)
      OBVIOUS
    <3>1. f.unit \in UnitsOf(W)
      BY <1>2 DEF UnitsOf
    <3>2. f.unit = CountUnit
      BY <3>1
    <3> QED  BY <3>2, <2>1, <2>3 DEF Countish
  <2>9. AmountsTo(s, W)
    BY <2>5, <2>6, <2>7, <2>8 DEF AmountsTo
  <2> QED  BY <2>1, <2>9 DEF s
<1>3. CASE f.op \in {"add", "remove"}
  <2>1. /\ s \in TallyState /\ s.items = st.items /\ s.stated = st.stated
        /\ Inside(st, f) => s = st
        /\ ~ Inside(st, f) /\ Countish(f) =>
             s.count = st.count + Signed(f) /\ \A u : SumOf(s, u) = SumOf(st, u)
        /\ ~ Inside(st, f) /\ ~ Countish(f) =>
             /\ SumOf(s, f.unit) = SumOf(st, f.unit) + Signed(f)
             /\ \A u : u # f.unit => SumOf(s, u) = SumOf(st, u)
    BY <1>0, <1>3, EventApplied
  <2> HIDE DEF s
  <2>2. \A g \in W : g.op = "set" => g \in T /\ g # f
    BY <1>3
  <2>3. /\ \A g \in W : g.op = "set" =>
             /\ s.stated \in W /\ s.stated.op = "set"
             /\ g # s.stated => g.date < s.stated.date
             /\ \A h \in W : h.op # "none" => h.unit = g.unit
        /\ (\A g \in W : g.op # "set") => s.stated = NoTotal
    <3>1. ASSUME NEW g \in W, g.op = "set"
          PROVE  /\ s.stated \in W /\ s.stated.op = "set"
                 /\ g # s.stated => g.date < s.stated.date
                 /\ \A h \in W : h.op # "none" => h.unit = g.unit
      <4>1. g \in T /\ g.op # "none"
        BY <2>2, <3>1
      <4>2. st.stated \in T /\ st.stated.op = "set" /\ (g # st.stated => g.date < st.stated.date)
        BY <3>1, <4>1 DEF AmountsTo
      <4>3. \A h \in W : h.op # "none" => h.unit = g.unit
        BY <3>1, <4>1
      <4> QED  BY <2>1, <4>2, <4>3
    <3>2. ASSUME \A g \in W : g.op # "set"
          PROVE  s.stated = NoTotal
      BY <2>1, <3>2 DEF AmountsTo
    <3> QED  BY <3>1, <3>2
  \* The total last stated, and whether the event is inside it.
  <2>4. \A u : (\A g \in T : g.op = "set" => g.unit = u) => IsLast(T, u, st.stated)
    <3> SUFFICES ASSUME NEW u, \A g \in T : g.op = "set" => g.unit = u
                 PROVE  IsLast(T, u, st.stated)
      OBVIOUS
    <3>1. CASE Stated(T, u) = {}
      <4>1. \A g \in T : g.op # "set"
        BY <3>1 DEF Stated
      <4> QED  BY <3>1, <4>1 DEF AmountsTo, IsLast
    <3>2. CASE Stated(T, u) # {}
      <4>1. \A g \in Stated(T, u) : g \in T /\ g.op = "set"
        BY DEF Stated
      <4>2. st.stated \in T /\ st.stated.op = "set"
        BY <3>2, <4>1 DEF AmountsTo
      <4>3. st.stated.unit = u
        BY <4>2
      <4>4. st.stated \in Stated(T, u)
        BY <4>2, <4>3 DEF Stated
      <4>5. \A g \in Stated(T, u) : g # st.stated => g.date < st.stated.date
        BY <4>1 DEF AmountsTo
      <4> QED  BY <3>2, <4>4, <4>5 DEF IsLast
    <3> QED  BY <3>1, <3>2
  <2>5. \A u : (\A g \in T : g.op = "set" => g.unit = u) =>
          /\ Truth(T, u) \in Int
          /\ Truth(W, u) = Truth(T, u) + (IF f.unit = u /\ f.date > st.stated.date THEN Signed(f) ELSE 0)
    BY <1>3, <2>4, TruthOfEvent
  <2>6. \A u : (\E g \in T : g.op = "set" /\ g.unit # u) => Truth(W, u) = 0 /\ Truth(T, u) = 0
    <3> SUFFICES ASSUME NEW u, NEW g \in T, g.op = "set", g.unit # u
                 PROVE  Truth(W, u) = 0 /\ Truth(T, u) = 0
      OBVIOUS
    <3>1. \A h \in W : h.op # "none" => h.unit = g.unit
      <4>1. g \in W /\ g.op # "none"
        OBVIOUS
      <4> QED  BY <4>1
    <3>2. W \in SUBSET Facts /\ (\A h \in W : h.op # "none" => h.unit # u)
          /\ \A h \in T : h.op # "none" => h.unit # u
      BY <1>0, <3>1
    <3> HIDE DEF W
    <3> QED  BY <3>2, TruthOfNothing
  <2>7. Inside(st, f) <=> ~ f.date > st.stated.date
    <3>1. CASE \A g \in T : g.op # "set"
      <4>1. st.stated = NoTotal
        BY <3>1 DEF AmountsTo
      <4>2. f.date > st.stated.date
        BY <1>0, <4>1
      <4> QED  BY <4>1, <4>2 DEF Inside
    <3>2. CASE \E g \in T : g.op = "set"
      <4>1. st.stated \in T /\ st.stated.op = "set"
        BY <3>2 DEF AmountsTo
      <4>2. f.unit = st.stated.unit
        BY <1>3, <4>1
      <4>3. st.stated # NoTotal /\ st.stated.date \in Nat /\ f.date \in Nat
        BY <1>0, <4>1
      <4> QED  BY <4>2, <4>3 DEF Inside
    <3> QED  BY <3>1, <3>2
  <2>8. Signed(f) \in Int /\ st.count \in Int /\ \A u : SumOf(st, u) \in Int
    BY <1>0, FactFacts, SumOfType
  <2>9. ASSUME NEW u \in STRING \ {CountUnit}
        PROVE  SumOf(s, u) = Truth(W, u)
    <3>1. SumOf(st, u) = Truth(T, u) /\ SumOf(st, u) \in Int
      BY <2>8 DEF AmountsTo
    <3>2. SumOf(s, u) = IF f.unit = u /\ ~ Inside(st, f) THEN SumOf(st, u) + Signed(f) ELSE SumOf(st, u)
      BY <2>1 DEF Countish
    <3>3. CASE \A g \in T : g.op = "set" => g.unit = u
      <4>1. Truth(W, u) = Truth(T, u) + (IF f.unit = u /\ f.date > st.stated.date THEN Signed(f) ELSE 0)
        BY <2>5, <3>3
      <4> HIDE DEF W
      <4> QED  BY <2>7, <2>8, <3>1, <3>2, <4>1
    <3>4. CASE \E g \in T : g.op = "set" /\ g.unit # u
      <4>1. PICK g \in T : g.op = "set" /\ g.unit # u
        BY <3>4
      <4>2. f.unit = g.unit
        <5>1. f \in W /\ g \in W /\ f.op # "none" /\ g.op # "none" /\ \E k \in W : k.op = "set"
          BY <1>3, <4>1
        <5> QED  BY <5>1
      <4>3. SumOf(s, u) = SumOf(st, u)
        BY <3>2, <4>1, <4>2
      <4> QED  BY <2>6, <3>1, <3>4, <4>3
    <3> QED  BY <3>3, <3>4
  <2>10. ASSUME UnitsOf(W) \subseteq {CountUnit}
         PROVE  s.count = Truth(W, CountUnit)
    <3>1. \A g \in W : g.op # "none" => g.unit = CountUnit
      BY <2>10 DEF UnitsOf
    <3>2. f.unit = CountUnit /\ \A g \in T : g.op = "set" => g.unit = CountUnit
      BY <1>3, <3>1
    <3>3. UnitsOf(T) \subseteq {CountUnit}
      BY <3>1 DEF UnitsOf
    <3>4. st.count = Truth(T, CountUnit)
      BY <3>3 DEF AmountsTo
    <3>5. Truth(W, CountUnit) = Truth(T, CountUnit) + (IF f.date > st.stated.date THEN Signed(f) ELSE 0)
      BY <2>5, <3>2
    <3>6. s.count = IF Inside(st, f) THEN st.count ELSE st.count + Signed(f)
      BY <2>1, <3>2 DEF Countish
    <3> HIDE DEF W
    <3> QED  BY <2>7, <2>8, <3>4, <3>5, <3>6
  <2>11. AmountsTo(s, W)
    BY <2>3, <2>9, <2>10 DEF AmountsTo
  <2> QED  BY <2>1, <2>11 DEF s
<1> QED  BY <1>0, <1>1, <1>2, <1>3

\* WithFact: a fact among the items is passed over, another is applied and kept.
LEMMA WithFactKeeps ==
  ASSUME TopicTallyAssumption, NEW st \in TallyState, NEW f \in Facts
  PROVE  /\ WithFact(st, f) \in TallyState
         /\ Range(WithFact(st, f).items) = Range(st.items) \cup {f}
         /\ f \in Range(st.items) => WithFact(st, f) = st
         /\ f \notin Range(st.items) =>
              /\ WithFact(st, f).count = Applied(st, f).count
              /\ WithFact(st, f).sums = Applied(st, f).sums
              /\ WithFact(st, f).stated = Applied(st, f).stated
<1> DEFINE a == Applied(st, f)
           w == WithFact(st, f)
<1>0. st.items \in Seq(Facts)
  BY DEF TallyState
<1>1. a \in TallyState /\ a.items = st.items
  <2>1. f.op \in {"add", "remove", "set", "none"}
    BY FactFacts
  <2>2. CASE f.op = "none"
    BY <2>2 DEF Applied
  <2>3. CASE f.op = "set"
    BY <2>3, TotalApplied
  <2>4. CASE f.op \in {"add", "remove"}
    BY <2>4, EventApplied
  <2> QED  BY <2>1, <2>2, <2>3, <2>4
<1>2. CASE f \in Range(st.items)
  <2>1. PICK i \in DOMAIN st.items : st.items[i] = f
    BY <1>2 DEF Range
  <2>2. w = st
    BY <2>1 DEF WithFact
  <2>3. Range(st.items) = Range(st.items) \cup {f}
    BY <1>2
  <2> QED  BY <1>2, <2>2, <2>3
<1>3. CASE f \notin Range(st.items)
  <2>1. ~ \E i \in DOMAIN st.items : st.items[i] = f
    BY <1>3 DEF Range
  <2>2. w = [a EXCEPT !.items = Append(a.items, f)]
    BY <2>1 DEF WithFact
  <2> HIDE DEF a
  <2> DEFINE longer == Append(st.items, f)
  <2>3. longer \in Seq(Facts) /\ Range(longer) = Range(st.items) \cup {f}
    <3>1. /\ longer \in Seq(Facts) /\ Len(longer) = Len(st.items) + 1 /\ Len(st.items) \in Nat
          /\ DOMAIN st.items = 1..Len(st.items) /\ DOMAIN longer = 1..(Len(st.items) + 1)
          /\ longer[Len(st.items) + 1] = f /\ \A i \in 1..Len(st.items) : longer[i] = st.items[i]
      BY <1>0
    <3> HIDE DEF longer
    <3>2. 1..(Len(st.items) + 1) = (1..Len(st.items)) \cup {Len(st.items) + 1}
      BY <3>1
    <3> QED  BY <3>1, <3>2 DEF Range
  <2> HIDE DEF longer
  <2>4. w = [a EXCEPT !.items = longer]
    BY <1>1, <2>2 DEF longer
  <2> HIDE DEF w
  <2>5. /\ w \in TallyState /\ w.items = longer
        /\ w.count = a.count /\ w.sums = a.sums /\ w.stated = a.stated
    BY <1>1, <2>3, <2>4 DEF TallyState
  <2> QED  BY <1>3, <2>3, <2>5 DEF a, w
<1> QED  BY <1>2, <1>3

\* The fold of a session is a walk through its facts.
FactWalk(h, st, facts) ==
  /\ h \in [0..Len(facts) -> TallyState] /\ h[0] = st
  /\ \A n \in 1..Len(facts) : h[n] = WithFact(h[n - 1], facts[n])

IsFactFold(g, st, facts) ==
  g = [S \in SUBSET DOMAIN facts |->
         IF S = {} THEN st ELSE WithFact(g[S \ {Max(S)}], facts[Max(S)])]

LEMMA FactFoldIs ==
  ASSUME NEW st, NEW facts
  PROVE  FoldLeft(WithFact, st, facts) = (CHOOSE g : IsFactFold(g, st, facts))[DOMAIN facts]
BY Zenon DEF FoldLeft, MapThenFoldSet, IsFactFold

LEMMA FactsWalked ==
  ASSUME TopicTallyAssumption, NEW st \in TallyState, NEW facts \in Seq(Facts)
  PROVE  \E h : FactWalk(h, st, facts) /\ FoldLeft(WithFact, st, facts) = h[Len(facts)]
<1> DEFINE N == Len(facts)
           F == [k \in (1..N) \X TallyState |-> WithFact(k[2], facts[k[1]])]
<1>0. N \in Nat /\ DOMAIN facts = 1..N /\ \A n \in 1..N : facts[n] \in Facts
  OBVIOUS
<1> HIDE DEF N
<1>1. F \in [(1..N) \X TallyState -> TallyState]
  <2>1. \A k \in (1..N) \X TallyState : k[1] \in 1..N /\ k[2] \in TallyState
    OBVIOUS
  <2>2. \A k \in (1..N) \X TallyState : WithFact(k[2], facts[k[1]]) \in TallyState
    BY <1>0, <2>1, WithFactKeeps
  <2> QED  BY <2>2
<1>2. \A n \in 1..N, s \in TallyState : F[<<n, s>>] = WithFact(s, facts[n])
  OBVIOUS
<1> HIDE DEF F
<1>3. PICK g \in [SUBSET (1..N) -> TallyState] : LastTaken(g, N, st, F)
  BY <1>0, <1>1, SequenceFoldExists
<1>4. IsFactFold(g, st, facts)
  <2>1. ASSUME NEW S \in SUBSET (1..N)
        PROVE  g[S] = IF S = {} THEN st ELSE WithFact(g[S \ {Max(S)}], facts[Max(S)])
    <3>1. CASE S = {}
      BY <1>3, <3>1 DEF LastTaken
    <3>2. CASE S # {}
      <4>1. Max(S) \in 1..N /\ S \ {Max(S)} \in SUBSET (1..N)
        BY <1>0, <3>2, MaxIsIn
      <4>2. g[S \ {Max(S)}] \in TallyState
        BY <4>1
      <4>3. g[S] = F[<<Max(S), g[S \ {Max(S)}]>>]
        BY <1>3, <3>2 DEF LastTaken
      <4> QED  BY <1>2, <3>2, <4>1, <4>2, <4>3
    <3> QED  BY <3>1, <3>2
  <2>2. g = [S \in SUBSET (1..N) |-> g[S]]
    OBVIOUS
  <2> QED  BY <1>0, <2>1, <2>2 DEF IsFactFold
<1> DEFINE k == CHOOSE f : IsFactFold(f, st, facts)
<1>5. IsFactFold(k, st, facts) /\ FoldLeft(WithFact, st, facts) = k[1..N]
  BY <1>0, <1>4, FactFoldIs
<1> HIDE DEF k
<1>6. \A S \in SUBSET (1..N) :
        k[S] = IF S = {} THEN st ELSE WithFact(k[S \ {Max(S)}], facts[Max(S)])
  BY <1>0, <1>5 DEF IsFactFold
<1> DEFINE h == [n \in 0..N |-> k[1..n]]
           In == {n \in Nat : n <= N => h[n] \in TallyState}
<1>7. h[0] = st
  <2>1. h[0] = k[1..0] /\ 1..0 = {}
    BY <1>0
  <2> QED  BY <1>6, <2>1
<1>8. \A n \in 1..N : h[n] = WithFact(h[n - 1], facts[n])
  <2> SUFFICES ASSUME NEW n \in 1..N
               PROVE  h[n] = WithFact(h[n - 1], facts[n])
    OBVIOUS
  <2>1. n \in Nat \ {0} /\ n \in 0..N /\ n - 1 \in 0..N /\ 1..n \in SUBSET (1..N)
    BY <1>0
  <2>2. Max(1..n) = n /\ 1..n # {} /\ (1..n) \ {n} = 1..(n - 1)
    BY <2>1, MaxOfInterval
  <2>3. k[1..n] = WithFact(k[1..(n - 1)], facts[n])
    BY <1>6, <2>1, <2>2
  <2> QED  BY <2>1, <2>3
<1>9. h[N] = k[1..N] /\ DOMAIN h = 0..N /\ h = [n \in 0..N |-> h[n]]
  BY <1>0
<1> HIDE DEF h
<1>10. 0 \in In
  BY <1>7
<1>11. \A n \in Nat : n \in In => n + 1 \in In
  <2> SUFFICES ASSUME NEW n \in Nat, n \in In, n + 1 <= N
               PROVE  h[n + 1] \in TallyState
    OBVIOUS
  <2>1. n + 1 \in 1..N /\ n <= N /\ (n + 1) - 1 = n
    BY <1>0
  <2>2. h[n] \in TallyState /\ facts[n + 1] \in Facts /\ h[n + 1] = WithFact(h[n], facts[n + 1])
    BY <1>0, <1>8, <2>1
  <2> QED  BY <2>2, WithFactKeeps
<1> HIDE DEF In
<1>12. Nat \subseteq In
  BY <1>10, <1>11, SetInduction
<1>13. h \in [0..N -> TallyState]
  <2>1. \A n \in 0..N : h[n] \in TallyState
    BY <1>0, <1>12 DEF In
  <2> QED  BY <1>9, <2>1
<1> QED  BY <1>5, <1>7, <1>8, <1>9, <1>13 DEF FactWalk, N

\* The items by date are the items again, each from some place among them.
DateOrder(items, i) ==
  {j \in DOMAIN items : \/ items[j].date < items[i].date
                        \/ items[j].date = items[i].date /\ j <= i}

LEMMA ByDateKeeps ==
  ASSUME TopicTallyAssumption, NEW items \in Seq(Facts)
  PROVE  /\ ByDate(items) \in Seq(Facts) /\ Len(ByDate(items)) = Len(items)
         /\ Range(ByDate(items)) \subseteq Range(items)
<1> DEFINE N == Len(items)
           rank == [i \in 1..N |-> Cardinality(DateOrder(items, i))]
<1>00. N \in Nat /\ DOMAIN items = 1..N /\ \A i \in 1..N : items[i] \in Facts
  OBVIOUS
<1> HIDE DEF N
<1>0. N \in Nat /\ DOMAIN items = 1..N /\ \A i \in 1..N : items[i] \in Facts /\ items[i].date \in Nat
  BY <1>00, FactFacts
<1>1. IsFiniteSet(1..N) /\ Cardinality(1..N) = N
  <2>1. 1 \in Int /\ N \in Int
    BY <1>00
  <2>2. IsFiniteSet(1..N) /\ Cardinality(1..N) = IF 1 > N THEN 0 ELSE N - 1 + 1
    BY <2>1, FS_Interval
  <2> QED  BY <1>00, <2>2
<1>2. \A i \in 1..N : /\ DateOrder(items, i) \in SUBSET (1..N) /\ i \in DateOrder(items, i)
                      /\ IsFiniteSet(DateOrder(items, i))
                      /\ Cardinality(DateOrder(items, i)) \in Nat
  <2> SUFFICES ASSUME NEW i \in 1..N
               PROVE  /\ DateOrder(items, i) \in SUBSET (1..N) /\ i \in DateOrder(items, i)
                      /\ IsFiniteSet(DateOrder(items, i))
                      /\ Cardinality(DateOrder(items, i)) \in Nat
    OBVIOUS
  <2>1. DateOrder(items, i) \in SUBSET (1..N) /\ i \in DateOrder(items, i)
    BY <1>0 DEF DateOrder
  <2> QED  BY <2>1, <1>1, FS_Subset, FS_CardinalityType
<1>3. \A i \in 1..N : rank[i] \in 1..N
  <2> SUFFICES ASSUME NEW i \in 1..N
               PROVE  rank[i] \in 1..N
    OBVIOUS
  <2>1. Cardinality(DateOrder(items, i)) <= N
    <3> DEFINE before == DateOrder(items, i)
    <3>1. before \in SUBSET (1..N)
      BY <1>2
    <3> HIDE DEF before
    <3>2. Cardinality(before) <= Cardinality(1..N)
      BY <1>1, <3>1, FS_Subset
    <3> QED  BY <1>1, <3>2 DEF before
  <2>2. Cardinality(DateOrder(items, i)) # 0
    BY <1>2, FS_EmptySet
  <2>3. Cardinality(DateOrder(items, i)) \in Nat
    BY <1>2
  <2> QED  BY <1>0, <2>1, <2>2, <2>3
\* An item before another has the lower rank.
<1>4. \A i, j \in 1..N :
        items[i].date < items[j].date \/ (items[i].date = items[j].date /\ i < j) => rank[i] # rank[j]
  <2> SUFFICES ASSUME NEW i \in 1..N, NEW j \in 1..N,
                      items[i].date < items[j].date \/ (items[i].date = items[j].date /\ i < j)
               PROVE  rank[i] # rank[j]
    OBVIOUS
  <2>1. DateOrder(items, i) \subseteq DateOrder(items, j)
    <3> SUFFICES ASSUME NEW k \in DateOrder(items, i)
                 PROVE  k \in DateOrder(items, j)
      OBVIOUS
    <3>1. /\ k \in 1..N /\ items[k].date \in Nat /\ items[i].date \in Nat /\ items[j].date \in Nat
          /\ i \in Nat /\ j \in Nat /\ k \in Nat
          /\ items[k].date < items[i].date \/ (items[k].date = items[i].date /\ k <= i)
      BY <1>0 DEF DateOrder
    <3>2. items[k].date < items[j].date \/ (items[k].date = items[j].date /\ k <= j)
      BY <3>1
    <3> QED  BY <1>0, <3>1, <3>2 DEF DateOrder
  <2>2. j \in DateOrder(items, j) /\ j \notin DateOrder(items, i)
    <3>1. items[i].date \in Nat /\ items[j].date \in Nat /\ i \in Nat /\ j \in Nat
      BY <1>0
    <3>2. ~ (items[j].date < items[i].date \/ (items[j].date = items[i].date /\ j <= i))
      BY <3>1
    <3> QED  BY <1>2, <3>2 DEF DateOrder
  <2>3. Cardinality(DateOrder(items, i)) # Cardinality(DateOrder(items, j))
    BY <1>2, <2>1, <2>2, FS_Subset
  <2> QED  BY <2>3
<1>5. \A i, j \in 1..N : rank[i] = rank[j] => i = j
  <2> SUFFICES ASSUME NEW i \in 1..N, NEW j \in 1..N, i # j
               PROVE  rank[i] # rank[j]
    OBVIOUS
  <2>1. items[i].date \in Nat /\ items[j].date \in Nat /\ i \in Nat /\ j \in Nat
    BY <1>0
  <2>2. \/ items[i].date < items[j].date \/ (items[i].date = items[j].date /\ i < j)
        \/ items[j].date < items[i].date \/ (items[j].date = items[i].date /\ j < i)
    BY <2>1
  <2>3. rank[i] # rank[j] \/ rank[j] # rank[i]
    BY <1>4, <2>2
  <2> QED  BY <2>3
\* So every rank is taken.
<1>6. \A n \in 1..N : \E i \in 1..N : rank[i] = n
  <2> SUFFICES ASSUME NEW n \in 1..N, \A i \in 1..N : rank[i] # n
               PROVE  FALSE
    OBVIOUS
  <2> DEFINE U == (1..N) \ {n}
  <2>1. IsFiniteSet(U) /\ Cardinality(U) = N - 1
    BY <1>1, FS_RemoveElement
  <2>2. rank \in [1..N -> U]
    BY <1>3
  <2> HIDE DEF rank, U
  <2>3. Cardinality(U) < Cardinality(1..N)
    BY <1>0, <1>1, <2>1
  <2>4. \E i, j \in 1..N : i # j /\ rank[i] = rank[j]
    BY <1>1, <2>1, <2>2, <2>3, FS_PigeonHole
  <2> QED  BY <1>5, <2>4
<1> DEFINE at == [n \in 1..N |-> CHOOSE i \in 1..N : Cardinality(DateOrder(items, i)) = n]
<1>7. at \in [1..N -> 1..N]
  <2>1. \A n \in 1..N : \E i \in 1..N : Cardinality(DateOrder(items, i)) = n
    BY <1>6
  <2> QED  BY <2>1
<1>8. ByDate(items) = [n \in 1..N |-> items[at[n]]]
  BY <1>0 DEF ByDate, DateOrder
<1> HIDE DEF at, rank
<1>9. ByDate(items) \in [1..N -> Facts]
  BY <1>0, <1>7, <1>8
<1>10. ByDate(items) \in Seq(Facts) /\ Len(ByDate(items)) = N
  BY <1>0, <1>9
<1>11. Range(ByDate(items)) \subseteq Range(items)
  BY <1>0, <1>7, <1>8 DEF Range
<1> QED  BY <1>10, <1>11 DEF N

\* Trimming keeps the state, of the items some, and a count that is not below zero.
LEMMA TrimmedKeeps ==
  ASSUME TopicTallyAssumption, NEW st \in TallyState
  PROVE  /\ Trimmed(st) \in TallyState /\ Trimmed(st).count \in Nat
         /\ Range(Trimmed(st).items) \subseteq Range(st.items)
         /\ Trimmed(st).sums = st.sums /\ Trimmed(st).stated = st.stated
         /\ st.count >= 0 => Trimmed(st).count = st.count
<1> DEFINE sorted == ByDate(st.items)
           n == Len(sorted)
           kept == IF n > KeptItems THEN SubSeq(sorted, n - KeptItems + 1, n) ELSE sorted
           c == IF st.count < 0 THEN 0 ELSE st.count
<1>0. st.items \in Seq(Facts) /\ st.count \in Int
  BY DEF TallyState
<1>1. sorted \in Seq(Facts) /\ Range(sorted) \subseteq Range(st.items) /\ KeptItems \in Nat
  BY <1>0, ByDateKeeps DEF TopicTallyAssumption
<1> HIDE DEF sorted
<1>2. kept \in Seq(Facts) /\ Range(kept) \subseteq Range(sorted)
  <2>1. CASE n > KeptItems
    <3> DEFINE m == n - KeptItems + 1
    <3>1. m \in Int /\ n \in Nat /\ m \in 1..(n + 1) /\ DOMAIN sorted = 1..n
      BY <1>1, <2>1
    <3>2. \A i \in m..n : i \in 1..n /\ sorted[i] \in Facts
      BY <1>1, <3>1
    <3> HIDE DEF m
    <3>3. /\ SubSeq(sorted, m, n) = [i \in 1..(n - m + 1) |-> sorted[i + m - 1]]
          /\ n - m + 1 \in Nat /\ \A i \in 1..(n - m + 1) : i + m - 1 \in m..n
      BY <1>1, <3>1
    <3>4. SubSeq(sorted, m, n) \in [1..(n - m + 1) -> Facts]
      BY <3>2, <3>3
    <3>5. SubSeq(sorted, m, n) \in Seq(Facts)
      BY <3>3, <3>4
    <3>6. Range(SubSeq(sorted, m, n)) \subseteq Range(sorted)
      <4> DEFINE cut == SubSeq(sorted, m, n)
      <4>1. DOMAIN cut = 1..(n - m + 1) /\ \A i \in DOMAIN cut : cut[i] = sorted[i + m - 1]
        BY <3>3
      <4> HIDE DEF cut
      <4>2. \A i \in DOMAIN cut : i + m - 1 \in DOMAIN sorted
        BY <3>1, <3>2, <3>3, <4>1
      <4>3. \A i \in DOMAIN cut : cut[i] \in Range(sorted)
        BY <4>1, <4>2 DEF Range
      <4>4. Range(cut) \subseteq Range(sorted)
        BY <4>3 DEF Range
      <4> QED  BY <4>4 DEF cut
    <3> QED  BY <2>1, <3>5, <3>6 DEF m
  <2>2. CASE ~ n > KeptItems
    BY <1>1, <2>2
  <2> QED  BY <2>1, <2>2
<1>3. Trimmed(st) = [st EXCEPT !.items = kept, !.count = c]
  BY DEF Trimmed, sorted
<1>4. c \in Nat /\ c \in Int /\ (st.count >= 0 => c = st.count)
  BY <1>0
<1> HIDE DEF kept, c
<1> DEFINE r == Trimmed(st)
<1>5. r = [st EXCEPT !.items = kept, !.count = c]
  BY <1>3
<1> HIDE DEF r
<1>6. r \in TallyState /\ r.count = c /\ r.items = kept /\ r.sums = st.sums /\ r.stated = st.stated
  BY <1>2, <1>4, <1>5 DEF TallyState
<1> QED  BY <1>1, <1>2, <1>4, <1>6 DEF r

-----------------------------------------------------------------------------
(* The folds.                                                               *)

\* What a state amounts to is a matter of its count, its sums and its total.
LEMMA AmountsSame ==
  ASSUME NEW s, NEW t, NEW T, AmountsTo(s, T),
         t.count = s.count, t.sums = s.sums, t.stated = s.stated
  PROVE  AmountsTo(t, T)
<1>1. \A u : SumOf(t, u) = SumOf(s, u)
  BY DEF SumOf
<1> QED  BY <1>1 DEF AmountsTo

\* Facts that all say nothing amount to nothing.
LEMMA NothingAmounts ==
  ASSUME TopicTallyAssumption, NEW st, NEW T \in SUBSET Facts, UnitsOf(T) = {}
  PROVE  AmountsTo(st, T) <=> /\ st.stated = NoTotal /\ st.count = 0
                              /\ \A u \in STRING \ {CountUnit} : SumOf(st, u) = 0
<1>1. \A g \in T : g.op = "none"
  BY DEF UnitsOf
<1>2. \A u : Truth(T, u) = 0
  BY <1>1, TruthOfNothing
<1> QED  BY <1>1, <1>2 DEF AmountsTo

\* The facts of a session up to the n-th.
FactsTo(facts, n) == {facts[i] : i \in 1..n}

\* A fold the tally is meant for, fact by fact.
LEMMA MeantWalks ==
  ASSUME TopicTallyAssumption, NEW st \in TallyState, NEW facts \in Seq(Facts),
         NEW known \in SUBSET Facts, Range(st.items) \subseteq known, AmountsTo(st, known),
         \A f \in Range(facts) \cap known : f.op # "none" => f \in Range(st.items),
         \A f \in Range(facts) \ known : f.op = "set" =>
           \A g \in (known \cup Range(facts)) \ {f} :
              g.date < f.date \/ (g.op # "set" /\ g.date = f.date),
         (\E f \in known \cup Range(facts) : f.op = "set") =>
            \A g, h \in known \cup Range(facts) : g.op # "none" /\ h.op # "none" => g.unit = h.unit,
         NEW h, FactWalk(h, st, facts)
  PROVE  /\ h[Len(facts)] \in TallyState
         /\ AmountsTo(h[Len(facts)], known \cup Range(facts))
         /\ Range(h[Len(facts)].items) \subseteq known \cup Range(facts)
<1> DEFINE N == Len(facts)
           all == known \cup Range(facts)
           Upto(n) == known \cup FactsTo(facts, n)
           Good == {n \in Nat : n <= N =>
                      /\ AmountsTo(h[n], Upto(n))
                      /\ Range(h[n].items) \subseteq Upto(n)
                      /\ Range(st.items) \cup FactsTo(facts, n) \subseteq Range(h[n].items)}
<1>0. /\ N \in Nat /\ DOMAIN facts = 1..N /\ Range(facts) = FactsTo(facts, N)
      /\ all \subseteq Facts
      /\ \A n \in 1..N : facts[n] \in Facts /\ facts[n] \in Range(facts)
  BY DEF Range, FactsTo
<1>1. /\ \A n \in 0..N : h[n] \in TallyState
      /\ h[0] = st /\ \A n \in 1..N : h[n] = WithFact(h[n - 1], facts[n])
  BY DEF FactWalk
<1> HIDE DEF N
<1>2. 0 \in Good
  <2>1. FactsTo(facts, 0) = {}
    BY DEF FactsTo
  <2> QED  BY <1>1, <2>1
<1>3. ASSUME NEW n \in Nat, n \in Good
      PROVE  n + 1 \in Good
  <2> SUFFICES ASSUME n + 1 <= N
               PROVE  /\ AmountsTo(h[n + 1], Upto(n + 1))
                      /\ Range(h[n + 1].items) \subseteq Upto(n + 1)
                      /\ Range(st.items) \cup FactsTo(facts, n + 1) \subseteq Range(h[n + 1].items)
    OBVIOUS
  <2> DEFINE f == facts[n + 1]
             s == h[n]
             w == h[n + 1]
  <2>1. n \in 0..N /\ n + 1 \in 1..N /\ n <= N /\ (n + 1) - 1 = n
    BY <1>0
  <2>2. /\ s \in TallyState /\ w = WithFact(s, f) /\ f \in Facts /\ f \in Range(facts)
        /\ AmountsTo(s, Upto(n)) /\ Range(s.items) \subseteq Upto(n)
        /\ Range(st.items) \cup FactsTo(facts, n) \subseteq Range(s.items)
    BY <1>0, <1>1, <1>3, <2>1
  <2>3. FactsTo(facts, n + 1) = FactsTo(facts, n) \cup {f} /\ Upto(n + 1) = Upto(n) \cup {f}
    <3>1. 1..(n + 1) = (1..n) \cup {n + 1}
      OBVIOUS
    <3> QED  BY <3>1 DEF FactsTo
  <2>4. FactsTo(facts, n) \subseteq Range(facts) /\ Upto(n) \subseteq all /\ Upto(n) \subseteq Facts
    <3>1. \A i \in 1..n : i \in 1..N
      BY <1>0, <2>1
    <3>2. FactsTo(facts, n) \subseteq Range(facts)
      BY <1>0, <3>1 DEF FactsTo
    <3> QED  BY <1>0, <3>2
  <2> HIDE DEF f, s, w
  <2>5. /\ w \in TallyState /\ Range(w.items) = Range(s.items) \cup {f}
        /\ f \in Range(s.items) => w = s
        /\ f \notin Range(s.items) =>
             /\ w.count = Applied(s, f).count /\ w.sums = Applied(s, f).sums
             /\ w.stated = Applied(s, f).stated
    BY <2>2, WithFactKeeps
  <2>6. /\ Range(w.items) \subseteq Upto(n + 1)
        /\ Range(st.items) \cup FactsTo(facts, n + 1) \subseteq Range(w.items)
    BY <2>2, <2>3, <2>5
  <2> DEFINE T == Upto(n)
  <2>7. AmountsTo(w, T \cup {f})
    <3>1. CASE f \in Range(s.items)
      <4>1. w = s /\ T \cup {f} = T
        BY <2>2, <2>5, <3>1
      <4> QED  BY <2>2, <4>1
    <3>2. CASE f \notin Range(s.items) /\ f \in known
      <4>1. f.op = "none" /\ T \cup {f} = T
        BY <2>2, <3>2
      <4>2. Applied(s, f) = s
        BY <4>1 DEF Applied
      <4> HIDE DEF T
      <4> QED  BY <2>2, <2>5, <3>2, <4>1, <4>2, AmountsSame DEF T
    <3>3. CASE f \notin Range(s.items) /\ f \notin known
      <4>1. f \notin T /\ T \in SUBSET Facts /\ T \cup {f} \subseteq all
        BY <2>2, <2>4, <3>3
      <4>2. f.op = "set" => \A g \in T : g.date < f.date \/ (g.op # "set" /\ g.date = f.date)
        <5>1. f \in Range(facts) \ known /\ \A g \in T : g \in all \ {f}
          BY <2>2, <3>3, <4>1
        <5> HIDE DEF T
        <5> QED  BY <5>1
      <4>3. (\E g \in T \cup {f} : g.op = "set") =>
              \A g, k \in T \cup {f} : g.op # "none" /\ k.op # "none" => g.unit = k.unit
        <5> HIDE DEF T
        <5> QED  BY <4>1
      <4>4. AmountsTo(s, T)
        BY <2>2
      <4> HIDE DEF T, Upto
      <4>5. AmountsTo(Applied(s, f), T \cup {f})
        BY <2>2, <4>1, <4>2, <4>3, <4>4, AppliedAmounts
      <4> QED  BY <2>5, <3>3, <4>5, AmountsSame
    <3> QED  BY <3>1, <3>2, <3>3
  <2> QED  BY <2>3, <2>6, <2>7 DEF w
<1> HIDE DEF Good
<1>4. N \in Good
  BY <1>0, <1>2, <1>3, SetInduction
<1>5. N \in 0..N /\ N <= N
  BY <1>0
<1> QED  BY <1>0, <1>1, <1>4, <1>5 DEF Good, N

\* What a fold makes of a state, whatever it read.
LEMMA FoldKeeps ==
  ASSUME TopicTallyAssumption, NEW st \in TallyState, NEW facts \in Seq(Facts)
  PROVE  FoldTopic(st, facts) \in TallyState /\ FoldTopic(st, facts).count \in Nat
<1> DEFINE e == FoldLeft(WithFact, st, facts)
<1>1. PICK h : FactWalk(h, st, facts) /\ e = h[Len(facts)]
  BY FactsWalked
<1>2. e \in TallyState
  <2>1. Len(facts) \in 0..Len(facts)
    OBVIOUS
  <2> QED  BY <1>1, <2>1 DEF FactWalk
<1>3. FoldTopic(st, facts) = Trimmed(e)
  BY DEF FoldTopic
<1> HIDE DEF e
<1> QED  BY <1>2, <1>3, TrimmedKeeps

\* A fold the tally is meant for makes the line what was told amounts to.
LEMMA MeantFolds ==
  ASSUME TopicTallyAssumption, NEW w, NEW p, NEW q, p \in TallyState, told \subseteq Facts,
         Range(p.items) \subseteq told, AmountsTo(p, told),
         line.tally = p, w.facts \in Seq(Facts), Meant(w),
         q = IF Emitted(FoldTopic(p, w.facts)) /\ w.at >= line.at THEN FoldTopic(p, w.facts) ELSE p
  PROVE  Range(q.items) \subseteq told \cup Range(w.facts) /\ AmountsTo(q, told \cup Range(w.facts))
<1> DEFINE facts == w.facts
           all == told \cup Range(facts)
           e == FoldLeft(WithFact, p, facts)
           st == Trimmed(e)
<1>0. all \in SUBSET Facts /\ told \in SUBSET Facts
  BY DEF Range
<1>1. all = told \cup (Range(facts) \ told)
  OBVIOUS
<1>2. /\ w.read = p /\ w.at >= line.at
      /\ \A f \in Range(facts) \cap told : f.op # "none" => f \in Range(p.items)
      /\ \A f \in Range(facts) \ told : f.op = "set" =>
           \A g \in all \ {f} : g.date < f.date \/ (g.op # "set" /\ g.date = f.date)
      /\ (\E f \in all : f.op = "set") => \A u, v \in UnitsOf(all) : u = v
      /\ UnitsOf(all) # {} => e.count > 0
  <2>1. w.read = p
    BY DEF Meant
  <2> HIDE DEF e
  <2>2. UnitsOf(all) # {} => FoldLeft(WithFact, w.read, facts).count > 0
    BY <1>1 DEF Meant
  <2> QED  BY <1>1, <2>1, <2>2 DEF Meant, e
<1>3. (\E f \in all : f.op = "set") =>
        \A g, h \in all : g.op # "none" /\ h.op # "none" => g.unit = h.unit
  BY <1>2 DEF UnitsOf
<1>4. PICK h : FactWalk(h, p, facts) /\ e = h[Len(facts)]
  BY FactsWalked
<1>5. e \in TallyState /\ AmountsTo(e, all) /\ Range(e.items) \subseteq all
  <2> HIDE DEF e
  <2> QED  BY <1>0, <1>2, <1>3, <1>4, MeantWalks
<1>6. q = IF Emitted(st) /\ w.at >= line.at THEN st ELSE p
  BY DEF FoldTopic
<1> HIDE DEF e
<1>7. /\ st \in TallyState /\ st.count \in Nat /\ Range(st.items) \subseteq Range(e.items)
      /\ st.sums = e.sums /\ st.stated = e.stated /\ (e.count >= 0 => st.count = e.count)
  BY <1>5, TrimmedKeeps
<1>8. e.count \in Int
  BY <1>5 DEF TallyState
<1> HIDE DEF st
<1>9. CASE UnitsOf(all) # {}
  <2>1. e.count > 0 /\ st.count = e.count
    <3>1. e.count > 0
      BY <1>2, <1>9
    <3>2. e.count >= 0
      BY <1>8, <3>1
    <3> QED  BY <1>7, <3>1, <3>2
  <2>2. Emitted(st)
    BY <1>8, <2>1 DEF Emitted
  <2>3. q = st
    BY <1>2, <1>6, <2>2
  <2>4. AmountsTo(st, all)
    BY <1>5, <1>7, <2>1, AmountsSame
  <2> QED  BY <1>5, <1>7, <2>3, <2>4
<1>10. CASE UnitsOf(all) = {}
  <2>1. UnitsOf(told) = {}
    BY <1>10 DEF UnitsOf
  <2>2. AmountsTo(p, all)
    BY <1>0, <1>10, <2>1, NothingAmounts
  <2>3. e.count = 0
    BY <1>0, <1>5, <1>10, NothingAmounts
  <2>4. AmountsTo(st, all)
    BY <1>5, <1>7, <2>3, AmountsSame
  <2> QED  BY <1>5, <1>6, <1>7, <2>2, <2>4
<1> QED  BY <1>9, <1>10

LEMMA TallyInvInit ==
  ASSUME TopicTallyAssumption, TopicTallyInit
  PROVE  TallyInv
<1>1. NoTally \in TallyState /\ NoTally.count = 0 /\ NoTally.items = <<>> /\ NoTally.stated = NoTotal
      /\ NoTally.sums = <<>>
  <2>1. <<>> \in [{} -> Int] /\ {} \in SUBSET STRING
    OBVIOUS
  <2>2. <<>> \in Sums
    BY <2>1 DEF Sums
  <2>3. <<>> \in Seq(Facts)
    OBVIOUS
  <2> QED  BY <2>2, <2>3 DEF NoTally, TallyState
<1>2. AmountsTo(NoTally, {})
  <2>1. UnitsOf({}) = {} /\ {} \in SUBSET Facts
    BY DEF UnitsOf
  <2>2. \A u : SumOf(NoTally, u) = 0
    BY <1>1 DEF SumOf
  <2> QED  BY <1>1, <2>1, <2>2, NothingAmounts
<1>3. line.tally = NoTally /\ told = {} /\ \A p \in Folders : work[p] = Resting
  BY DEF TopicTallyInit, NoLine
<1>4. Range(NoTally.items) = {}
  BY <1>1 DEF Range
<1>5. work = [p \in Folders |-> work[p]]
  BY DEF TopicTallyInit
<1> QED  BY <1>1, <1>2, <1>3, <1>4, <1>5 DEF TallyInv

LEMMA SessionsAreSequences ==
  Sessions1 \cup Sessions2 \subseteq Seq(Facts)
<1>1. \A f \in Facts : <<f>> \in Seq(Facts)
  OBVIOUS
<1>2. \A s \in Facts \X Facts : s \in Seq(Facts)
  <2>1. \A s \in Facts \X Facts : s = <<s[1], s[2]>> /\ s[1] \in Facts /\ s[2] \in Facts
    OBVIOUS
  <2>2. \A x, y \in Facts : <<x, y>> \in Seq(Facts)
    OBVIOUS
  <2> QED  BY <2>1, <2>2
<1> QED  BY <1>1, <1>2 DEF Sessions1, Sessions2

LEMMA TallyInvStep ==
  ASSUME TopicTallyAssumption, TallyInv, [TopicTallyNext]_tallyVars
  PROVE  TallyInv'
<1>0. /\ line.tally \in TallyState /\ line.tally.count \in Nat /\ told \subseteq Facts
      /\ work = [p \in Folders |-> work[p]]
      /\ \A p \in Folders : work[p] # Resting =>
           work[p].read \in TallyState /\ work[p].facts \in Seq(Facts)
      /\ fair => Range(line.tally.items) \subseteq told /\ AmountsTo(line.tally, told)
  BY DEF TallyInv
<1>1. CASE UNCHANGED tallyVars
  BY <1>1, <1>0 DEF tallyVars, TallyInv, AmountsTo, SumOf
<1>2. ASSUME NEW p \in Folders, NEW facts \in Sessions1 \cup Sessions2, NEW d \in 1..LastDate,
             BeginTopic(p, facts, d)
      PROVE  TallyInv'
  <2> DEFINE b == [phase |-> "extracting", read |-> line.tally, at |-> d, facts |-> facts]
  <2>1. work' = [work EXCEPT ![p] = b] /\ line' = line /\ told' = told /\ fair' = fair
    BY <1>2 DEF BeginTopic
  <2>2. b.read = line.tally /\ b.facts \in Seq(Facts)
    BY SessionsAreSequences
  <2> HIDE DEF b
  <2>3. \A q \in Folders : work'[q] # Resting =>
          work'[q].read \in TallyState /\ work'[q].facts \in Seq(Facts)
    BY <1>0, <2>1, <2>2
  <2>4. work' = [q \in Folders |-> work'[q]]
    BY <1>0, <2>1
  <2> QED  BY <1>0, <2>1, <2>3, <2>4 DEF TallyInv, AmountsTo, SumOf
<1>3. ASSUME NEW p \in Folders, CommitTopic(p)
      PROVE  TallyInv'
  <2> DEFINE w == work[p]
             st == FoldTopic(w.read, w.facts)
  <2>1. /\ w # Resting /\ told' = told \cup Range(w.facts) /\ fair' = (fair /\ Meant(w))
        /\ line' = IF Emitted(st) /\ w.at >= line.at THEN [tally |-> st, at |-> w.at] ELSE line
        /\ work' = [work EXCEPT ![p] = Resting]
    BY <1>3 DEF CommitTopic
  <2>2. w.read \in TallyState /\ w.facts \in Seq(Facts)
    BY <1>0, <2>1
  <2>3. st \in TallyState /\ st.count \in Nat
    BY <2>2, FoldKeeps
  <2>4. told' \subseteq Facts
    <3> HIDE DEF w, st
    <3>1. Range(w.facts) \subseteq Facts
      BY <2>2 DEF Range
    <3> QED  BY <1>0, <2>1, <3>1
  <2>5. /\ \A q \in Folders : work'[q] # Resting =>
             work'[q].read \in TallyState /\ work'[q].facts \in Seq(Facts)
        /\ work' = [q \in Folders |-> work'[q]]
    BY <1>0, <2>1
  <2>6. line'.tally = IF Emitted(st) /\ w.at >= line.at THEN st ELSE line.tally
    <3> HIDE DEF st, w
    <3> QED  BY <2>1
  <2>7. line'.tally \in TallyState /\ line'.tally.count \in Nat
    <3> HIDE DEF st, w
    <3> QED  BY <1>0, <2>3, <2>6
  <2>8. ASSUME fair'
        PROVE  Range(line'.tally.items) \subseteq told' /\ AmountsTo(line'.tally, told')
    <3> DEFINE l == line.tally
               r == line'.tally
    <3>1. fair /\ Meant(w)
      BY <2>1, <2>8
    <3>2. w.read = l
      BY <3>1 DEF Meant
    <3>3. r = IF Emitted(FoldTopic(l, w.facts)) /\ w.at >= line.at THEN FoldTopic(l, w.facts) ELSE l
      BY <2>6, <3>2
    <3>4. l \in TallyState /\ Range(l.items) \subseteq told /\ AmountsTo(l, told) /\ line.tally = l
      BY <1>0, <3>1
    <3> HIDE DEF l, r, w, st
    <3>5. Range(r.items) \subseteq told \cup Range(w.facts) /\ AmountsTo(r, told \cup Range(w.facts))
      BY <1>0, <2>2, <3>1, <3>3, <3>4, MeantFolds
    <3> QED  BY <2>1, <3>5 DEF r
  <2> HIDE DEF w, st
  <2> QED  BY <2>4, <2>5, <2>7, <2>8 DEF TallyInv, AmountsTo, SumOf
<1>4. ASSUME NEW p \in Folders, TopicFails(p)
      PROVE  TallyInv'
  <2>1. work' = [work EXCEPT ![p] = Resting] /\ line' = line /\ told' = told /\ fair' = fair
    BY <1>4 DEF TopicFails
  <2>2. \A q \in Folders : work'[q] # Resting =>
          work'[q].read \in TallyState /\ work'[q].facts \in Seq(Facts)
    BY <1>0, <2>1
  <2>3. work' = [q \in Folders |-> work'[q]]
    BY <1>0, <2>1
  <2> QED  BY <1>0, <2>1, <2>2, <2>3 DEF TallyInv, AmountsTo, SumOf
<1> QED  BY <1>1, <1>2, <1>3, <1>4 DEF TopicTallyNext

LEMMA TallyInvIsExact ==
  ASSUME TopicTallyAssumption, TallyInv
  PROVE  TallyIsExact
<1> SUFFICES ASSUME fair
             PROVE  /\ UnitsOf(told) = {CountUnit} => line.tally.count = Truth(told, CountUnit)
                    /\ \A u \in UnitsOf(told) \ {CountUnit} : SumOf(line.tally, u) = Truth(told, u)
  BY DEF TallyIsExact
<1>1. AmountsTo(line.tally, told) /\ told \subseteq Facts
  BY DEF TallyInv
<1>2. UnitsOf(told) \subseteq STRING
  BY <1>1, FactFacts DEF UnitsOf
<1> QED  BY <1>1, <1>2 DEF AmountsTo

LEMMA TallyInvHolds ==
  ASSUME TopicTallyAssumption
  PROVE  TopicTallySpec => []TallyInv
<1>1. TopicTallyInit => TallyInv
  BY TallyInvInit
<1>2. TallyInv /\ [TopicTallyNext]_tallyVars => TallyInv'
  BY TallyInvStep
<1> QED  BY <1>1, <1>2, PTL DEF TopicTallySpec

(* Whatever is told of a topic, in how many sessions, by whichever process *)
(* and however often it fails and is folded again: as long as the folds are *)
(* those it is meant for, the topic's line is the total last stated and what *)
(* was told to have come after it (pipeline/topic_state.py:72-142).         *)
THEOREM TallyIsExactHolds ==
  ASSUME TopicTallyAssumption
  PROVE  TopicTallySpec => []TallyIsExact
<1>1. TallyInv => TallyIsExact
  BY TallyInvIsExact
<1> QED  BY <1>1, TallyInvHolds, PTL

-----------------------------------------------------------------------------
(* Judge, Answer, Callers: types.                                           *)

\* pipeline/contradiction.py: the relation's facts stay dated facts of its objects.
LEMMA JudgeTypeOKHolds ==
  ASSUME JudgeAssumption
  PROVE  JudgeSpec => []JudgeTypeOK
<1>1. JudgeInit => foldsDone \in 0..MaxFolds
  BY DEF JudgeInit, JudgeAssumption
<1>2. foldsDone \in 0..MaxFolds /\ [JudgeNext]_judgeVars => (foldsDone \in 0..MaxFolds)'
  <2>1. foldsDone \in 0..MaxFolds /\ foldsDone < MaxFolds => foldsDone + 1 \in 0..MaxFolds
    BY DEF JudgeAssumption
  <2> QED  BY <2>1 DEF JudgeNext, FoldRelation, EndRelation, judgeVars
<1>3. JudgeInv /\ foldsDone \in 0..MaxFolds => JudgeTypeOK
  BY DEF JudgeInv, JudgeTypeOK
<1> QED  BY <1>1, <1>2, <1>3, JudgeInvHolds, PTL DEF JudgeSpec

\* services/direct.py: what is kept and what is counted are passages there are, and so is
\* whatever a request was there to be shown.
AnswerTyped ==
  onHand \subseteq AllPassages /\ counted \subseteq AllPassages /\ question.there \subseteq AllPassages

LEMMA AnswerTypeOKHolds ==
  ASSUME AnswerAssumption
  PROVE  AnswerSpec => []AnswerTypeOK
<1>1. AnswerInit => AnswerTyped
  BY DEF AnswerInit, AnswerTyped, NoQuestion
<1>2. AnswerTyped /\ AnswerInv /\ [AnswerNext]_answerVars => AnswerTyped'
  <2> SUFFICES ASSUME AnswerTyped, AnswerInv, [AnswerNext]_answerVars PROVE AnswerTyped'
    OBVIOUS
  <2>0. DOMAIN question = Fields
    BY DEF AnswerInv, RequestOK
  <2>1. \A q : DOMAIN q = Fields => \A phase : /\ To(q, phase).there = q.there
                                               /\ Ends(q, phase).there = q.there
    BY PhasesKeepTheRequest DEF SameShown, SameAsked
  <2>2. ASSUME NEW m, NEW at, NEW k, Ask(m, at, k)
        PROVE  AnswerTyped'
    BY <2>2 DEF Ask, NoQuestion, AnswerTyped
  <2>3. ASSUME NEW page \in SUBSET AllPassages, ShowsPacket(page)
        PROVE  AnswerTyped'
    <3> DEFINE q == [question EXCEPT !.shown = page]
    <3>1. DOMAIN q = Fields /\ q.there = question.there
      BY <2>0 DEF Fields
    <3>2. question' = AfterPacket(q, page) /\ counted' = counted \cup page /\ onHand' = onHand
      BY <2>3 DEF ShowsPacket
    <3> HIDE DEF q
    <3>3. \A p : [Ends(q, p) EXCEPT !.cites = page].there = Ends(q, p).there
      <4>1. \A p : DOMAIN Ends(q, p) = Fields
        BY <3>1, PhasesKeepTheRequest DEF SameShown, SameAsked
      <4> QED  BY <4>1 DEF Fields
    <3>4. question'.there = question.there
      BY <2>1, <3>1, <3>2, <3>3 DEF AfterPacket
    <3> QED  BY <3>2, <3>4 DEF AnswerTyped
  <2>4. \A q, words : Pages(q, words) \subseteq SUBSET onHand
    <3>1. ASSUME NEW q, NEW words
          PROVE  /\ \A rows \in VectorRows(q) : rows \subseteq onHand
                 /\ LexicalRows(q, words) \subseteq onHand /\ TitleRows(q, words) \subseteq onHand
      BY DEF VectorRows, LexicalRows, TitleRows, Base
    <3> QED  BY <3>1 DEF Pages, IsPage
  <2>5. CASE FirstPacket
    <3>1. PICK page \in Pages(question, TheQuestion) :
            \/ ShowsPacket(page)
            \/ /\ question' = [To(question, "promote") EXCEPT !.promoted = TRUE]
               /\ UNCHANGED <<onHand, counted>>
      BY <2>5 DEF FirstPacket
    <3>2. page \in SUBSET AllPassages
      BY <2>4 DEF AnswerTyped
    <3>3. DOMAIN To(question, "promote") = Fields
      BY <2>0, PhasesKeepTheRequest DEF SameShown, SameAsked
    <3>4. [To(question, "promote") EXCEPT !.promoted = TRUE].there = question.there
      BY <2>0, <2>1, <3>3 DEF Fields
    <3> QED  BY <2>3, <3>1, <3>2, <3>4 DEF AnswerTyped
  <2>6. ASSUME NEW some \in SUBSET Cold, AdmitCold(some)
        PROVE  AnswerTyped'
    <3>1. some \subseteq AllPassages /\ {} \in SUBSET AllPassages
      BY DEF AnswerAssumption, AllPassages
    <3>2. CASE some = {}
      BY <2>3, <2>6, <3>1, <3>2 DEF AdmitCold
    <3>3. CASE some # {}
      <4>1. /\ onHand' = onHand \cup some /\ counted' = counted
            /\ question' = [To(question, "first") EXCEPT !.there = @ \cup some]
        BY <2>6, <3>3 DEF AdmitCold
      <4>2. DOMAIN To(question, "first") = Fields
        BY <2>0, PhasesKeepTheRequest DEF SameShown, SameAsked
      <4>3. question'.there = question.there \cup some
        BY <2>0, <2>1, <4>1, <4>2 DEF Fields
      <4> QED  BY <3>1, <4>1, <4>3 DEF AnswerTyped
    <3> QED  BY <3>2, <3>3
  <2>7. ASSUME UNCHANGED <<onHand, counted>>, NEW cited, Answers(cited)
        PROVE  AnswerTyped'
    <3>1. DOMAIN Ends(question, "answered") = Fields
      BY <2>0, PhasesKeepTheRequest DEF SameShown, SameAsked
    <3>2. question'.there = question.there
      BY <2>0, <2>1, <2>7, <3>1 DEF Answers, Fields
    <3> QED  BY <2>7, <3>2 DEF AnswerTyped
  <2>8. CASE Assess
    <3>1. CASE \E cited \in CitedByModel : Answers(cited)
      BY <2>7, <2>8, <3>1 DEF Assess
    <3>2. CASE ~\E cited \in CitedByModel : Answers(cited)
      <4>1. PICK new, phase :
              /\ question' = [To(question, phase) EXCEPT !.calls = @ + 1, !.todo = new,
                                                         !.before = question.shown]
              /\ UNCHANGED <<onHand, counted>>
        BY <2>8, <3>2 DEF Assess
      <4>2. DOMAIN To(question, phase) = Fields
        BY <2>0, PhasesKeepTheRequest DEF SameShown, SameAsked
      <4>3. question'.there = question.there
        BY <2>0, <2>1, <4>1, <4>2 DEF Fields
      <4> QED  BY <4>1, <4>3 DEF AnswerTyped
    <3> QED  BY <3>1, <3>2
  <2>9. CASE SearchAgain
    <3>1. PICK words, page :
            /\ page \in Pages(question, words)
            /\ question' = AfterSearch([question EXCEPT !.todo = @ \ {words}, !.tried = @ \cup {words},
                                                        !.shown = @ \cup page])
            /\ onHand' = onHand /\ counted' \in {counted, counted \cup page}
      BY <2>9 DEF SearchAgain
    <3> DEFINE q == [question EXCEPT !.todo = @ \ {words}, !.tried = @ \cup {words},
                                     !.shown = @ \cup page]
    <3>2. DOMAIN q = Fields /\ q.there = question.there
      BY <2>0 DEF Fields
    <3> HIDE DEF q
    <3>3. DOMAIN [q EXCEPT !.before = {}] = Fields /\ [q EXCEPT !.before = {}].there = q.there
      BY <3>2 DEF Fields
    <3>4. AfterSearch(q).there = question.there
      BY <2>1, <3>2, <3>3 DEF AfterSearch
    <3>5. page \subseteq AllPassages
      BY <2>4, <3>1 DEF AnswerTyped
    <3> QED  BY <3>1, <3>4, <3>5 DEF AnswerTyped, q
  <2>10. CASE Compose
    BY <2>7, <2>10 DEF Compose
  <2>11. CASE Fails \/ Leaves
    BY <2>0, <2>1, <2>11 DEF Fails, Leaves, AnswerTyped
  <2>12. ASSUME NEW doc, Forgets(doc)
         PROVE  AnswerTyped'
    <3>1. onHand' \subseteq onHand /\ counted' = counted /\ question'.there = question.there
      BY <2>0, <2>12 DEF Forgets, Fields
    <3> QED  BY <3>1 DEF AnswerTyped
  <2>13. CASE UNCHANGED answerVars
    BY <2>13 DEF answerVars, AnswerTyped
  <2> QED  BY <2>2, <2>5, <2>6, <2>8, <2>9, <2>10, <2>11, <2>12, <2>13 DEF AnswerNext
<1>3. AnswerTyped /\ AnswerInv => AnswerTypeOK
  BY DEF AnswerTyped, AnswerInv, RequestOK, Readable, AnswerTypeOK
<1> QED  BY <1>1, <1>2, <1>3, AnswerInvHolds, PTL DEF AnswerSpec

\* core/api_keys.py, api/deps.py: a tool and the service hold entries of files there were, and
\* who is a member is somebody who asks, of an organization they choose.
CallersTyped ==
  /\ keyFile \in Files /\ mtime \in 0..MaxFileEdits
  /\ DOMAIN tools = Operators
  /\ \A o \in Operators : tools[o] # NoEdit => tools[o].entries \in EntrySets
  /\ members \subseteq Asking \X Chosen /\ minute \in 1..LastMinute

LEMMA CallersTypeOKHolds ==
  ASSUME CallersAssumption
  PROVE  CallersSpec => []CallersTypeOK
<1>1. CallersInit => CallersTyped
  <2>1. NoEntries \in EntrySets
    BY DEF NoEntries, EntrySets
  <2> QED  BY <2>1 DEF CallersInit, CallersTyped, Files, CallersAssumption
<1>2. CallersTyped /\ [CallersNext]_callersVars => CallersTyped'
  <2> SUFFICES ASSUME CallersTyped, [CallersNext]_callersVars PROVE CallersTyped'
    OBVIOUS
  <2>1. ASSUME NEW content \in Files, FileReplaced(content), UNCHANGED memberVars,
               DOMAIN tools' = Operators,
               \A o \in Operators : tools'[o] # NoEdit => tools'[o] = tools[o]
        PROVE  CallersTyped'
    <3>1. mtime' \in 0..MaxFileEdits /\ keyFile' = content
      BY <2>1 DEF FileReplaced, CallersTyped, CallersAssumption
    <3> QED  BY <2>1, <3>1 DEF CallersTyped, memberVars
  <2>2. ASSUME NEW c \in Files, HandEdit(c)
        PROVE  CallersTyped'
    BY <2>1, <2>2 DEF HandEdit, CallersTyped
  <2>3. ASSUME NEW o \in Operators, ToolWrites(o)
        PROVE  CallersTyped'
    <3> DEFINE e == [tools[o].entries EXCEPT ![tools[o].key] =
                       IF tools[o].verb = "new" THEN "active" ELSE "disabled"]
    <3>1. FileReplaced(File("ok", e)) /\ tools' = [tools EXCEPT ![o] = NoEdit] /\ UNCHANGED memberVars
      BY <2>3 DEF ToolWrites
    <3>2. tools[o].entries \in EntrySets
      BY <2>3 DEF ToolWrites, CallersTyped
    <3>3. e \in EntrySets
      BY <3>2 DEF EntrySets
    <3>4. File("ok", e) \in Files
      BY <3>3 DEF Files
    <3>5. DOMAIN tools' = Operators /\ \A p \in Operators : tools'[p] # NoEdit => tools'[p] = tools[p]
      BY <3>1 DEF CallersTyped
    <3> QED  BY <2>1, <3>1, <3>4, <3>5
  <2>4. ASSUME NEW o \in Operators, NEW k, NEW v, ToolReads(o, v, k)
        PROVE  CallersTyped'
    <3> DEFINE read == [verb |-> v, key |-> k, entries |-> keyFile.entries]
    <3>1. tools' = [tools EXCEPT ![o] = read] /\ UNCHANGED <<keyFile, mtime, memberVars>>
      BY <2>4 DEF ToolReads
    <3>2. read.entries \in EntrySets
      BY DEF CallersTyped, Files, File, EntrySets, NoEntries
    <3> HIDE DEF read
    <3> QED  BY <3>1, <3>2 DEF CallersTyped, memberVars
  <2>5. CASE Stats \/ Loads \/ StatsAgain \/ ServiceStarts
    BY <2>5 DEF Stats, Loads, StatsAgain, ServiceStarts, CallersTyped, memberVars
  <2>6. ASSUME NEW p \in Asking, NEW org \in Chosen, JoinsOrLeaves(p, org)
        PROVE  CallersTyped'
    BY <2>6 DEF JoinsOrLeaves, CallersTyped, fileVars
  <2>7. ASSUME NEW p, NEW org, PlatformLists(p) \/ IsTold(p) \/ AskFails(p) \/ Asks(p, org)
        PROVE  CallersTyped'
    BY <2>7 DEF PlatformLists, IsTold, AskFails, Asks, CallersTyped, fileVars
  <2>8. CASE MinutePasses
    BY <2>8 DEF MinutePasses, CallersTyped, fileVars, CallersAssumption
  <2>9. CASE UNCHANGED callersVars
    BY <2>9 DEF callersVars, CallersTyped
  <2>10. CASE MembershipNext
    BY <2>6, <2>7, <2>8, <2>10 DEF MembershipNext
  <2> QED  BY <2>2, <2>3, <2>4, <2>5, <2>9, <2>10 DEF CallersNext, KeyFileNext
<1>3. CallersTyped /\ CallersInv => CallersTypeOK
  BY DEF CallersTyped, CallersInv, KeysInv, CallersTypeOK
<1> QED  BY <1>1, <1>2, <1>3, CallersInvHolds, PTL DEF CallersSpec

-----------------------------------------------------------------------------
(* TopicTally: types.                                                       *)

\* What a fold keeps of its items is no more than MAX_ITEMS.
LEMMA FoldIsShort ==
  ASSUME TopicTallyAssumption, NEW st \in TallyState, NEW facts \in Seq(Facts)
  PROVE  Len(FoldTopic(st, facts).items) <= KeptItems
<1> DEFINE e == FoldLeft(WithFact, st, facts)
           sorted == ByDate(e.items)
           n == Len(sorted)
           kept == IF n > KeptItems THEN SubSeq(sorted, n - KeptItems + 1, n) ELSE sorted
<1>1. PICK h : FactWalk(h, st, facts) /\ e = h[Len(facts)]
  BY FactsWalked
<1>2. e \in TallyState
  <2>1. Len(facts) \in 0..Len(facts)
    OBVIOUS
  <2> QED  BY <1>1, <2>1 DEF FactWalk
<1>3. FoldTopic(st, facts).items = kept
  <2>1. FoldTopic(st, facts) = [e EXCEPT !.items = kept, !.count = IF @ < 0 THEN 0 ELSE @]
    BY DEF FoldTopic, Trimmed
  <2> HIDE DEF kept, e
  <2> QED  BY <1>2, <2>1 DEF TallyState
<1>4. e.items \in Seq(Facts)
  BY <1>2 DEF TallyState
<1> HIDE DEF e
<1>5. sorted \in Seq(Facts) /\ KeptItems \in Nat
  BY <1>4, ByDateKeeps DEF TopicTallyAssumption
<1> HIDE DEF sorted
<1>6. Len(kept) <= KeptItems
  <2>1. CASE n > KeptItems
    <3>1. n \in Nat /\ n - KeptItems + 1 \in 1..(n + 1)
      BY <1>5, <2>1
    <3>2. Len(SubSeq(sorted, n - KeptItems + 1, n)) = KeptItems
      BY <1>5, <3>1
    <3> QED  BY <1>5, <2>1, <3>2
  <2>2. CASE ~ n > KeptItems
    BY <1>5, <2>2
  <2> QED  BY <2>1, <2>2
<1> HIDE DEF kept
<1> QED  BY <1>3, <1>6

TallyTyped ==
  /\ Len(line.tally.items) <= KeptItems /\ line.at \in 0..LastDate
  /\ \A p \in Folders : work[p] # Resting =>
       /\ work[p].read.count \in Nat /\ Len(work[p].read.items) <= KeptItems
       /\ work[p].at \in 1..LastDate
  /\ fair \in BOOLEAN /\ turns \in 0..MaxTurns

\* pipeline/topic_state.py: a state has no more items than are kept and no count below zero.
LEMMA TopicTallyTypeOKHolds ==
  ASSUME TopicTallyAssumption
  PROVE  TopicTallySpec => []TopicTallyTypeOK
<1>1. TopicTallyInit => TallyTyped
  <2> SUFFICES ASSUME TopicTallyInit PROVE TallyTyped
    OBVIOUS
  <2>1. line.tally.items = <<>> /\ line.at = 0 /\ Len(<<>>) = 0
    BY DEF TopicTallyInit, NoLine, NoTally
  <2> QED  BY <2>1 DEF TopicTallyInit, TallyTyped, TopicTallyAssumption
<1>2. TallyInv /\ TallyTyped /\ [TopicTallyNext]_tallyVars => TallyTyped'
  <2> SUFFICES ASSUME TallyInv, TallyTyped, [TopicTallyNext]_tallyVars PROVE TallyTyped'
    OBVIOUS
  <2>0. /\ line.tally \in TallyState /\ line.tally.count \in Nat
        /\ work = [p \in Folders |-> work[p]]
        /\ \A p \in Folders : work[p] # Resting =>
             work[p].read \in TallyState /\ work[p].facts \in Seq(Facts)
    BY DEF TallyInv
  <2>1. ASSUME NEW p \in Folders, NEW facts, NEW d \in 1..LastDate, BeginTopic(p, facts, d)
        PROVE  TallyTyped'
    <3> DEFINE b == [phase |-> "extracting", read |-> line.tally, at |-> d, facts |-> facts]
    <3>1. work' = [work EXCEPT ![p] = b] /\ UNCHANGED <<line, fair>>
      BY <2>1 DEF BeginTopic
    <3>2. b.read = line.tally /\ b.at \in 1..LastDate
      OBVIOUS
    <3> HIDE DEF b
    <3>3. \A q \in Folders : work'[q] = IF q = p THEN b ELSE work[q]
      BY <2>0, <3>1
    <3>4. turns' \in 0..MaxTurns
      BY <2>1 DEF BeginTopic, TallyTyped, TopicTallyAssumption
    <3> QED  BY <2>0, <3>1, <3>2, <3>3, <3>4 DEF TallyTyped
  <2>2. ASSUME NEW p \in Folders, work' = [work EXCEPT ![p] = Resting], turns' = turns,
               Len(line'.tally.items) <= KeptItems, line'.at \in 0..LastDate, fair' \in BOOLEAN
        PROVE  TallyTyped'
    <3>1. \A q \in Folders : work'[q] # Resting => work'[q] = work[q]
      BY <2>0, <2>2
    <3> QED  BY <2>2, <3>1 DEF TallyTyped
  <2>3. ASSUME NEW p \in Folders, CommitTopic(p)
        PROVE  TallyTyped'
    <3> DEFINE w == work[p]
               st == FoldTopic(w.read, w.facts)
    <3>1. /\ w # Resting /\ fair' = (fair /\ Meant(w)) /\ turns' = turns
          /\ line' = IF Emitted(st) /\ w.at >= line.at THEN [tally |-> st, at |-> w.at] ELSE line
          /\ work' = [work EXCEPT ![p] = Resting]
      BY <2>3 DEF CommitTopic
    <3>2. Len(st.items) <= KeptItems /\ w.at \in 1..LastDate
      BY <2>0, <3>1, FoldIsShort DEF TallyTyped
    <3>3. fair' \in BOOLEAN
      BY <3>1
    <3> HIDE DEF w, st
    <3>4. Len(line'.tally.items) <= KeptItems /\ line'.at \in 0..LastDate
      <4>1. CASE line' = [tally |-> st, at |-> w.at]
        BY <3>2, <4>1
      <4>2. CASE line' = line
        BY <4>2 DEF TallyTyped
      <4> QED  BY <3>1, <4>1, <4>2
    <3> QED  BY <2>2, <3>1, <3>3, <3>4
  <2>4. ASSUME NEW p \in Folders, TopicFails(p)
        PROVE  TallyTyped'
    BY <2>2, <2>4 DEF TopicFails, TallyTyped
  <2>5. CASE UNCHANGED tallyVars
    BY <2>5 DEF tallyVars, TallyTyped
  <2> QED  BY <2>1, <2>3, <2>4, <2>5 DEF TopicTallyNext
<1>3. TallyInv /\ TallyTyped => TopicTallyTypeOK
  <2> SUFFICES ASSUME TallyInv, TallyTyped PROVE TopicTallyTypeOK
    OBVIOUS
  <2>1. \A st \in TallyState : st.count \in Nat /\ Len(st.items) <= KeptItems => IsTally(st)
    <3>1. \A s \in Sums : \A u \in DOMAIN s : s[u] \in Int
      BY DEF Sums
    <3> QED  BY <3>1 DEF TallyState, IsTally
  <2> QED  BY <2>1 DEF TallyInv, TallyTyped, TopicTallyTypeOK
<1> QED  BY <1>1, <1>2, <1>3, TallyInvHolds, PTL DEF TopicTallySpec

-----------------------------------------------------------------------------
(* Sources: types.                                                          *)

CatalogueRow == [admitted : BOOLEAN, doc : Events \cup {<<>>}, declined : BOOLEAN]
MaybeRow == CatalogueRow \cup {NoItem}

\* What a sync has read and written are rows, and those it has still to admit are cold.
SyncTyped(t) ==
  /\ t.phase = "read" => t.rows \in [AllPaths -> MaybeRow]
  /\ t.phase = "writing" =>
       /\ \A p \in DOMAIN t.items : t.items[p].row \in CatalogueRow
       /\ \A p \in t.queue : t.rows[p] \in CatalogueRow /\ ~t.rows[p].declined

SourcesTyped ==
  /\ item \in [AllPaths -> MaybeRow] /\ stored \subseteq Events
  /\ \A s \in Syncers : SyncTyped(sync[s])
  /\ pushes \in 0..MaxPushes /\ failures \in 0..MaxFailures

LEMMA RowFacts ==
  /\ ColdItem \in CatalogueRow /\ DOMAIN ColdItem = {"admitted", "doc", "declined"}
  /\ NoItem.declined = TRUE /\ NoItem.admitted = FALSE
  /\ \A r \in CatalogueRow :
       /\ r.admitted \in BOOLEAN /\ r.declined \in BOOLEAN /\ r.doc \in Events \cup {<<>>}
       /\ [r EXCEPT !.declined = TRUE] \in CatalogueRow
       /\ [r EXCEPT !.admitted = FALSE, !.declined = FALSE] \in CatalogueRow
       /\ \A e \in Events : /\ [r EXCEPT !.admitted = TRUE, !.doc = e] \in CatalogueRow
                            /\ [r EXCEPT !.admitted = TRUE, !.doc = e].declined = r.declined
<1>1. ColdItem \in CatalogueRow /\ DOMAIN ColdItem = {"admitted", "doc", "declined"}
  BY DEF ColdItem, CatalogueRow
<1>2. NoItem.declined = TRUE /\ NoItem.admitted = FALSE
  BY DEF NoItem
<1>3. ASSUME NEW r \in CatalogueRow
      PROVE  /\ r.admitted \in BOOLEAN /\ r.declined \in BOOLEAN /\ r.doc \in Events \cup {<<>>}
             /\ [r EXCEPT !.declined = TRUE] \in CatalogueRow
             /\ [r EXCEPT !.admitted = FALSE, !.declined = FALSE] \in CatalogueRow
             /\ \A e \in Events : /\ [r EXCEPT !.admitted = TRUE, !.doc = e] \in CatalogueRow
                                  /\ [r EXCEPT !.admitted = TRUE, !.doc = e].declined = r.declined
  BY DEF CatalogueRow
<1> QED  BY <1>1, <1>2, <1>3

\* A cold item that is admitted ends in a row, and over budget only while days over budget
\* are left.
LEMMA AdmittedRowIsTyped ==
  ASSUME NEW p, NEW i \in CatalogueRow, ~i.declined, NEW b, NEW event \in Events, NEW known,
         NEW a \in Admissions(p, i, b, event, known)
  PROVE  a.item \in CatalogueRow /\ (OverBudget(b, a) => failures > 0)
<1> DEFINE declined == [i EXCEPT !.declined = TRUE]
           admitted == [i EXCEPT !.admitted = TRUE, !.doc = event]
<1>1. declined \in CatalogueRow /\ admitted \in CatalogueRow /\ ~admitted.declined
  <2>1. declined \in CatalogueRow
    BY DEF CatalogueRow
  <2>2. admitted \in CatalogueRow /\ admitted.declined = i.declined
    BY DEF CatalogueRow
  <2> QED  BY <2>1, <2>2
<1> HIDE DEF declined, admitted
<1>2. \/ a.item = admitted
      \/ a.item = declined /\ (b \in Short \/ b \in Low \/ failures > 0)
  <2>1. \/ b \in Short /\ a = [item |-> declined, stores |-> FALSE, folds |-> FALSE]
        \/ a = [item |-> admitted, stores |-> FALSE, folds |-> FALSE]
        \/ a = [item |-> admitted, stores |-> TRUE, folds |-> TRUE]
        \/ (b \in Low \/ failures > 0) /\ a = [item |-> declined, stores |-> TRUE, folds |-> FALSE]
    BY DEF Admissions, declined, admitted
  <2>2. \A s, f, r : [item |-> r, stores |-> s, folds |-> f].item = r
    OBVIOUS
  <2> QED  BY <2>1, <2>2
<1> QED  BY <1>1, <1>2 DEF OverBudget

\* A sync that is given up, or steps without a write.
LEMMA QuietStepKeepsRows ==
  ASSUME DocumentsInv, SourcesTyped, NEW s \in Syncers, NEW t, SyncTyped(t),
         sync' = [sync EXCEPT ![s] = t], UNCHANGED <<item, stored, pushes>>,
         failures' \in 0..MaxFailures
  PROVE  SourcesTyped'
<1>1. \A o \in Syncers : sync'[o] = IF o = s THEN t ELSE sync[o]
  BY DEF DocumentsInv
<1>2. \A o \in Syncers : SyncTyped(sync'[o])
  BY <1>1 DEF SourcesTyped
<1>3. \A u : SyncTyped(u)' <=> SyncTyped(u)
  BY DEF SyncTyped, CatalogueRow, MaybeRow
<1> QED  BY <1>2 DEF SourcesTyped, SyncTyped

LEMMA FlushKeepsRows ==
  ASSUME SourcesAssumption, DocumentsInv, SourcesTyped, NEW s \in Syncers, FlushItems(s)
  PROVE  SourcesTyped'
<1> DEFINE tree == sync[s].tree
           rows == sync[s].rows
           changed == ChangedItems(tree, rows)
           reset(p) == [rows[p] EXCEPT !.admitted = FALSE, !.declined = FALSE]
           after == [p \in AllPaths |-> IF p \notin changed THEN rows[p]
                                         ELSE IF rows[p] = NoItem THEN ColdItem ELSE reset(p)]
           clash == \E p \in changed : rows[p] = NoItem /\ item[p] # NoItem
           items == [p \in changed |-> [row |-> after[p], columns |-> Differing(rows[p], after[p])]]
           begun == [phase |-> "writing", tree |-> tree, items |-> items, rows |-> after,
                     queue |-> ColdToAdmit(tree, after), fresh |-> {}, docs |-> <<>>]
<1>1. /\ sync[s].phase = "read" /\ UNCHANGED <<item, stored, pushes, failures>>
      /\ sync' = [sync EXCEPT ![s] = IF clash THEN NoSync ELSE begun]
  BY DEF FlushItems
<1>2. rows \in [AllPaths -> MaybeRow] /\ DOMAIN tree \subseteq AllPaths
  BY <1>1 DEF SourcesTyped, SyncTyped, DocumentsInv, TreeOK, AllPaths
<1>3. changed \subseteq DOMAIN tree
  BY DEF ChangedItems
<1>4. \A p \in AllPaths : after[p] \in MaybeRow /\ (p \in changed => after[p] \in CatalogueRow)
  <2> SUFFICES ASSUME NEW p \in AllPaths
               PROVE  after[p] \in MaybeRow /\ (p \in changed => after[p] \in CatalogueRow)
    OBVIOUS
  <2>1. rows[p] \in CatalogueRow \/ rows[p] = NoItem
    BY <1>2 DEF MaybeRow
  <2>2. rows[p] \in CatalogueRow => reset(p) \in CatalogueRow
    BY RowFacts
  <2>3. after[p] = IF p \notin changed THEN rows[p] ELSE IF rows[p] = NoItem THEN ColdItem ELSE reset(p)
    OBVIOUS
  <2>4. ColdItem \in CatalogueRow
    BY RowFacts
  <2> HIDE DEF changed, rows, reset, after
  <2> QED  BY <2>1, <2>2, <2>3, <2>4 DEF MaybeRow
<1> HIDE DEF clash, after, changed
<1>5. \A p \in DOMAIN items : items[p].row \in CatalogueRow
  BY <1>2, <1>3, <1>4
<1>6. \A p \in ColdToAdmit(tree, after) : after[p] \in CatalogueRow /\ ~after[p].declined
  BY <1>2, <1>4, RowFacts DEF ColdToAdmit, FirstOf, MaybeRow
<1>7. begun.phase = "writing" /\ begun.items = items /\ begun.rows = after
      /\ begun.queue = ColdToAdmit(tree, after)
  OBVIOUS
<1> HIDE DEF begun, items, tree
<1>8. SyncTyped(begun) /\ SyncTyped(NoSync)
  BY <1>5, <1>6, <1>7 DEF SyncTyped, NoSync
<1>9. SyncTyped(IF clash THEN NoSync ELSE begun)
  BY <1>8
<1>10. failures' \in 0..MaxFailures
  BY <1>1 DEF SourcesTyped
<1> QED  BY <1>1, <1>9, <1>10, QuietStepKeepsRows

LEMMA AdmitKeepsRows ==
  ASSUME SourcesAssumption, DocumentsInv, SourcesTyped, NEW s \in Syncers, AdmitNext(s)
  PROVE  SourcesTyped'
<1> DEFINE t == sync[s]
           p == Min(t.queue)
           b == world[p]
           event == EventOf(p, t.tree[p])
<1>1. t.phase = "writing" /\ t.queue # {} /\ TransactionOK(t) /\ TreeOK(t.tree)
  BY DEF AdmitNext, DocumentsInv
<1>2. /\ UNCHANGED <<world, item, stored, documents, pushes>>
      /\ \/ sync' = [sync EXCEPT ![s] = NoSync] /\ failures' = failures
         \/ \E a \in Admissions(p, t.rows[p], b, event, stored \cup t.fresh) :
             /\ sync' = [sync EXCEPT ![s] =
                  [t EXCEPT !.queue = @ \ {p},
                            !.items = Wrote(@, p, t.rows[p], a.item),
                            !.fresh = IF a.stores THEN @ \cup {event} ELSE @,
                            !.docs = IF a.folds THEN Append(@, [event |-> event, text |-> b]) ELSE @]]
             /\ failures' = IF OverBudget(b, a) THEN failures - 1 ELSE failures
  BY DEF AdmitNext
<1>3. p \in t.queue
  <2>1. t.queue \in SUBSET Nat
    BY <1>1 DEF TransactionOK, TreeOK, SourcesAssumption
  <2>2. \E x \in t.queue : \A y \in t.queue : x <= y
    BY <1>1, <2>1, LeastNatural
  <2> QED  BY <2>2 DEF Min
<1>4. event \in Events
  <2>1. p \in RepoPaths /\ p \in AllPaths /\ t.tree[p] \in Blobs
    BY <1>1, <1>3 DEF TransactionOK, TreeOK, AllPaths
  <2> QED  BY <2>1 DEF Events
<1>5. /\ t.rows[p] \in CatalogueRow /\ ~t.rows[p].declined
      /\ \A q \in DOMAIN t.items : t.items[q].row \in CatalogueRow
      /\ \A q \in t.queue : t.rows[q] \in CatalogueRow /\ ~t.rows[q].declined
  BY <1>1, <1>3 DEF SourcesTyped, SyncTyped
<1>6. CASE sync' = [sync EXCEPT ![s] = NoSync] /\ failures' = failures
  <2>1. SyncTyped(NoSync)
    BY DEF SyncTyped, NoSync
  <2>2. failures' \in 0..MaxFailures
    BY <1>6 DEF SourcesTyped
  <2> HIDE DEF t
  <2> QED  BY <1>2, <1>6, <2>1, <2>2, QuietStepKeepsRows
<1>7. ASSUME NEW a \in Admissions(p, t.rows[p], b, event, stored \cup t.fresh),
             sync' = [sync EXCEPT ![s] =
                  [t EXCEPT !.queue = @ \ {p},
                            !.items = Wrote(@, p, t.rows[p], a.item),
                            !.fresh = IF a.stores THEN @ \cup {event} ELSE @,
                            !.docs = IF a.folds THEN Append(@, [event |-> event, text |-> b]) ELSE @]],
             failures' = IF OverBudget(b, a) THEN failures - 1 ELSE failures
      PROVE  SourcesTyped'
  <2> DEFINE items == Wrote(t.items, p, t.rows[p], a.item)
             new == [t EXCEPT !.queue = t.queue \ {p}, !.items = items,
                              !.fresh = IF a.stores THEN t.fresh \cup {event} ELSE t.fresh,
                              !.docs = IF a.folds THEN Append(t.docs, [event |-> event, text |-> b]) ELSE t.docs]
  <2>1. a.item \in CatalogueRow /\ (OverBudget(b, a) => failures > 0)
    <3> HIDE DEF t, p, b, event
    <3> QED  BY <1>4, <1>5, AdmittedRowIsTyped
  <2>2. failures' \in 0..MaxFailures
    <3> HIDE DEF t, p, b, event
    <3>1. failures \in 0..MaxFailures /\ MaxFailures \in Nat
      BY DEF SourcesTyped, SourcesAssumption
    <3> QED  BY <1>7, <2>1, <3>1
  <2>3. sync' = [sync EXCEPT ![s] = new]
    BY <1>7
  <2>4. \A q \in DOMAIN items : items[q].row \in CatalogueRow
    <3> HIDE DEF t, p
    <3> QED  BY <1>5, <2>1 DEF Wrote
  <2> HIDE DEF items
  <2>5. new.phase = "writing" /\ new.items = items /\ new.queue = t.queue \ {p} /\ new.rows = t.rows
    BY <1>1 DEF TransactionOK
  <2> HIDE DEF new
  <2>6. SyncTyped(new)
    <3> HIDE DEF t
    <3> QED  BY <1>5, <2>4, <2>5 DEF SyncTyped
  <2> HIDE DEF t, p, b, event
  <2> QED  BY <1>2, <2>2, <2>3, <2>6, QuietStepKeepsRows
<1> HIDE DEF t, p, b, event
<1> QED  BY <1>2, <1>6, <1>7

LEMMA CommitKeepsRows ==
  ASSUME DocumentsInv, SourcesTyped, NEW s \in Syncers, CommitSync(s)
  PROVE  SourcesTyped'
<1> DEFINE items == sync[s].items
<1>1. /\ sync[s].phase = "writing" /\ item' = WithWrites(items) /\ stored' = stored \cup sync[s].fresh
      /\ sync' = [sync EXCEPT ![s] = NoSync] /\ UNCHANGED <<pushes, failures>>
  BY DEF CommitSync
<1>2. \A p \in DOMAIN items : items[p].row \in CatalogueRow
  BY <1>1 DEF SourcesTyped, SyncTyped
<1>3. sync[s].fresh \subseteq Events
  BY <1>1 DEF DocumentsInv, TransactionOK
<1> HIDE DEF items
<1>4. item' \in [AllPaths -> MaybeRow]
  <2> SUFFICES ASSUME NEW p \in AllPaths
               PROVE  item'[p] \in MaybeRow
    BY <1>1 DEF WithWrites
  <2>0. item[p] \in MaybeRow
    BY DEF SourcesTyped
  <2>1. item'[p] = IF p \notin DOMAIN items THEN item[p]
                   ELSE IF item[p] = NoItem THEN items[p].row
                   ELSE [c \in DOMAIN ColdItem |->
                           IF c \in items[p].columns THEN items[p].row[c] ELSE item[p][c]]
    BY <1>1 DEF WithWrites
  <2>2. \A r, o \in CatalogueRow : \A cs :
          [c \in DOMAIN ColdItem |-> IF c \in cs THEN r[c] ELSE o[c]] \in CatalogueRow
    <3> SUFFICES ASSUME NEW r \in CatalogueRow, NEW o \in CatalogueRow, NEW cs
                 PROVE  [c \in DOMAIN ColdItem |-> IF c \in cs THEN r[c] ELSE o[c]] \in CatalogueRow
      OBVIOUS
    <3> DEFINE f == [c \in DOMAIN ColdItem |-> IF c \in cs THEN r[c] ELSE o[c]]
    <3>1. /\ DOMAIN f = {"admitted", "doc", "declined"}
          /\ \A c \in {"admitted", "doc", "declined"} : f[c] \in {r[c], o[c]}
          /\ f = [c \in DOMAIN f |-> f[c]]
      <4>1. DOMAIN ColdItem = {"admitted", "doc", "declined"}
        BY RowFacts
      <4> QED  BY <4>1
    <3> HIDE DEF f
    <3>2. \A q \in CatalogueRow : /\ q["admitted"] \in BOOLEAN /\ q["declined"] \in BOOLEAN
                                  /\ q["doc"] \in Events \cup {<<>>}
      BY DEF CatalogueRow
    <3>3. f["admitted"] \in BOOLEAN /\ f["declined"] \in BOOLEAN /\ f["doc"] \in Events \cup {<<>>}
      BY <3>1, <3>2
    <3> DEFINE row == [admitted |-> f["admitted"], doc |-> f["doc"], declined |-> f["declined"]]
    <3>4. f = row
      <4>1. /\ DOMAIN row = {"admitted", "doc", "declined"}
            /\ row["admitted"] = f["admitted"] /\ row["doc"] = f["doc"]
            /\ row["declined"] = f["declined"]
            /\ row = [c \in {"admitted", "doc", "declined"} |-> row[c]]
        OBVIOUS
      <4> HIDE DEF row
      <4>2. f = [c \in {"admitted", "doc", "declined"} |-> f[c]]
        BY <3>1
      <4>3. \A c \in {"admitted", "doc", "declined"} : f[c] = row[c]
        BY <4>1
      <4> QED  BY <4>1, <4>2, <4>3
    <3>5. row \in CatalogueRow
      BY <3>3 DEF CatalogueRow
    <3> HIDE DEF row
    <3> QED  BY <3>4, <3>5 DEF f
  <2>3. CASE p \in DOMAIN items /\ item[p] # NoItem
    <3> DEFINE cs == items[p].columns
               f == [c \in DOMAIN ColdItem |-> IF c \in cs THEN items[p].row[c] ELSE item[p][c]]
    <3>1. items[p].row \in CatalogueRow /\ item[p] \in CatalogueRow
      BY <1>2, <2>0, <2>3 DEF MaybeRow
    <3> HIDE DEF cs
    <3>2. f \in CatalogueRow
      BY <2>2, <3>1
    <3>3. item'[p] = f
      BY <2>1, <2>3 DEF cs
    <3> HIDE DEF f
    <3> QED  BY <3>2, <3>3 DEF MaybeRow
  <2>4. CASE p \notin DOMAIN items \/ item[p] = NoItem
    <3>1. p \notin DOMAIN items => item'[p] = item[p]
      BY <2>1
    <3>2. p \in DOMAIN items => item'[p] = items[p].row
      BY <2>1, <2>4
    <3> QED  BY <1>2, <2>0, <3>1, <3>2 DEF MaybeRow
  <2> QED  BY <2>3, <2>4
<1>5. \A o \in Syncers : SyncTyped(sync'[o])
  <2>1. \A o \in Syncers : sync'[o] = IF o = s THEN NoSync ELSE sync[o]
    BY <1>1 DEF DocumentsInv
  <2>2. SyncTyped(NoSync)
    BY DEF SyncTyped, NoSync
  <2> QED  BY <2>1, <2>2 DEF SourcesTyped
<1> QED  BY <1>1, <1>3, <1>4, <1>5 DEF SourcesTyped, SyncTyped

LEMMA OthersKeepRows ==
  ASSUME SourcesAssumption, DocumentsInv, SourcesTyped,
         \/ \E s \in Syncers : ListTree(s) \/ ReadItems(s) \/ SyncFails(s)
         \/ RegisterFiles \/ (\E p \in DiskPaths : Promote(p)) \/ Push \/ UNCHANGED sourcesVars
  PROVE  SourcesTyped'
<1>1. ASSUME NEW s \in Syncers, ListTree(s)
      PROVE  SourcesTyped'
  <2> DEFINE t == [phase |-> "listed", tree |-> [p \in {q \in RepoPaths : world[q] # NoBlob} |-> world[p]]]
  <2>1. t.phase = "listed"
    OBVIOUS
  <2>2. sync' = [sync EXCEPT ![s] = t] /\ UNCHANGED <<item, stored, pushes, failures>>
    BY <1>1 DEF ListTree
  <2> HIDE DEF t
  <2>3. SyncTyped(t) /\ failures' \in 0..MaxFailures
    BY <2>1, <2>2 DEF SyncTyped, SourcesTyped
  <2> QED  BY <2>2, <2>3, QuietStepKeepsRows
<1>2. ASSUME NEW s \in Syncers, ReadItems(s)
      PROVE  SourcesTyped'
  <2> DEFINE t == [phase |-> "read", tree |-> sync[s].tree, rows |-> item]
  <2>1. t.phase = "read" /\ t.rows = item
    OBVIOUS
  <2>2. sync' = [sync EXCEPT ![s] = t] /\ UNCHANGED <<item, stored, pushes, failures>>
    BY <1>2 DEF ReadItems
  <2> HIDE DEF t
  <2>3. SyncTyped(t) /\ failures' \in 0..MaxFailures
    BY <2>1, <2>2 DEF SyncTyped, SourcesTyped
  <2> QED  BY <2>2, <2>3, QuietStepKeepsRows
<1>3. ASSUME NEW s \in Syncers, SyncFails(s)
      PROVE  SourcesTyped'
  <2>1. sync' = [sync EXCEPT ![s] = NoSync] /\ UNCHANGED <<item, stored, pushes>>
    BY <1>3 DEF SyncFails
  <2>2. SyncTyped(NoSync)
    BY DEF SyncTyped, NoSync
  <2>3. failures' \in 0..MaxFailures
    BY <1>3 DEF SyncFails, SourcesTyped, SourcesAssumption
  <2> QED  BY <2>1, <2>2, <2>3, QuietStepKeepsRows
<1>4. CASE RegisterFiles
  <2>1. UNCHANGED <<stored, sync, pushes, failures>>
    BY <1>4 DEF RegisterFiles
  <2>2. item' \in [AllPaths -> MaybeRow]
    <3>1. item' = [p \in AllPaths |->
                     IF p \in DiskPaths /\ item[p] = NoItem /\ world[p] # NoBlob THEN ColdItem
                     ELSE item[p]]
      BY <1>4 DEF RegisterFiles
    <3>2. \A p \in AllPaths : item[p] \in MaybeRow
      BY DEF SourcesTyped
    <3>3. ColdItem \in MaybeRow
      BY RowFacts DEF MaybeRow
    <3> QED  BY <3>1, <3>2, <3>3
  <2> QED  BY <2>1, <2>2 DEF SourcesTyped, SyncTyped
<1>5. ASSUME NEW p \in DiskPaths, Promote(p)
      PROVE  SourcesTyped'
  <2> DEFINE b == world[p]
             event == EventOf(p, b)
  <2>1. /\ item[p] # NoItem /\ ~item[p].declined /\ b # NoBlob /\ UNCHANGED <<sync, pushes>>
        /\ \E a \in Admissions(p, item[p], b, event, stored) :
             /\ item' = [item EXCEPT ![p] = a.item]
             /\ stored' = IF a.stores THEN stored \cup {event} ELSE stored
             /\ failures' = IF OverBudget(b, a) THEN failures - 1 ELSE failures
    BY <1>5 DEF Promote
  <2>2. p \in AllPaths /\ b \in Blobs
    BY <2>1 DEF DocumentsInv, AllPaths
  <2>3. event \in Events
    BY <2>2 DEF Events
  <2>4. item[p] \in CatalogueRow
    BY <2>1, <2>2 DEF SourcesTyped, MaybeRow
  <2> HIDE DEF b, event
  <2>5. PICK a \in Admissions(p, item[p], b, event, stored) :
             /\ item' = [item EXCEPT ![p] = a.item]
             /\ stored' = IF a.stores THEN stored \cup {event} ELSE stored
             /\ failures' = IF OverBudget(b, a) THEN failures - 1 ELSE failures
    BY <2>1
  <2>6. a.item \in CatalogueRow /\ (OverBudget(b, a) => failures > 0)
    BY <2>1, <2>3, <2>4, AdmittedRowIsTyped
  <2>7. item' \in [AllPaths -> MaybeRow] /\ stored' \subseteq Events
    BY <2>2, <2>3, <2>5, <2>6 DEF SourcesTyped, MaybeRow
  <2>8. failures' \in 0..MaxFailures
    <3>1. failures \in 0..MaxFailures /\ MaxFailures \in Nat
      BY DEF SourcesTyped, SourcesAssumption
    <3> QED  BY <2>5, <2>6, <3>1
  <2> QED  BY <2>1, <2>7, <2>8 DEF SourcesTyped, SyncTyped
<1>6. CASE Push
  <2>1. pushes' \in 0..MaxPushes /\ UNCHANGED <<item, stored, sync, failures>>
    BY <1>6 DEF Push, SourcesTyped, SourcesAssumption
  <2> QED  BY <2>1 DEF SourcesTyped, SyncTyped
<1>7. CASE UNCHANGED sourcesVars
  BY <1>7 DEF sourcesVars, SourcesTyped, SyncTyped
<1> QED  BY <1>1, <1>2, <1>3, <1>4, <1>5, <1>6, <1>7

\* services/sources.py: the catalogue has rows, of documents of files there were, whatever syncs
\* overlap and fail.
LEMMA SourcesTypeOKHolds ==
  ASSUME SourcesAssumption
  PROVE  SourcesInit /\ [][SourcesNext]_sourcesVars => []SourcesTypeOK
<1>1. SourcesInit => SourcesTyped
  BY DEF SourcesInit, SourcesTyped, SyncTyped, MaybeRow, NoSync, SourcesAssumption
<1>2. DocumentsInv /\ SourcesTyped /\ [SourcesNext]_sourcesVars => SourcesTyped'
  <2> SUFFICES ASSUME DocumentsInv, SourcesTyped, [SourcesNext]_sourcesVars PROVE SourcesTyped'
    OBVIOUS
  <2> QED  BY FlushKeepsRows, AdmitKeepsRows, CommitKeepsRows, OthersKeepRows DEF SourcesNext, SyncSteps
<1>3. DocumentsInv /\ SourcesTyped => SourcesTypeOK
  BY DEF DocumentsInv, Document, SourcesTyped, MaybeRow, CatalogueRow, SourcesTypeOK
<1> QED  BY <1>1, <1>2, <1>3, DocumentsInvHolds, PTL

-----------------------------------------------------------------------------
(* Tail: types, in whatever order the producer shows its rows.              *)

Marks == [at : 0..LastStamp, id : 0..MaxRows]

TailTyped ==
  /\ RowsInv /\ Cardinality(written) <= MaxRows
  /\ plugin \in Plugins /\ written \subseteq TailRow /\ stamp \in 1..LastStamp
  /\ mark \in Marks /\ got \subseteq Episodes /\ crashes \in 0..MaxCrashes
  /\ poll # NoPoll => poll.rows \subseteq written /\ poll.mark \in Marks

LEMMA RowsStandForEpisodes ==
  ASSUME NEW r \in TailRow
  PROVE  ItemsOf(r) \subseteq Episodes
<1>1. r.id \in 1..MaxRows /\ r.thing \in Things
  BY DEF TailRow
<1>2. RowItems(r) \subseteq Episodes
  BY <1>1 DEF RowItems, Episodes
<1>3. \A what \in {"created", "deployed", "stopped"} : <<r.thing, what>> \in Episodes
  BY <1>1 DEF Episodes
<1>4. AgentItems(r) \subseteq Episodes /\ ServerItems(r) \subseteq Episodes
  BY <1>3 DEF AgentItems, ServerItems
<1> QED  BY <1>2, <1>4 DEF ItemsOf

LEMMA ListedMarkIsTyped ==
  ASSUME TailTyped, NEW rows \in SUBSET written
  PROVE  MarkAfter(rows) \in Marks
<1>1. CASE rows = {}
  BY <1>1 DEF MarkAfter, TailTyped
<1>2. CASE rows # {}
  <2> DEFINE last == CHOOSE r \in rows : \A s \in rows : s = r \/ Precedes(s, r)
  <2>1. last \in rows
    BY <1>2, OneRowIsLast DEF TailTyped
  <2>2. MarkAfter(rows) = [at |-> last.at, id |-> last.id]
    BY <1>2 DEF MarkAfter
  <2> HIDE DEF last
  <2>3. last.at \in 0..LastStamp /\ last.id \in 0..MaxRows
    BY <2>1 DEF TailTyped, TailRow
  <2> QED  BY <2>2, <2>3 DEF Marks
<1> QED  BY <1>1, <1>2

LEMMA NextKeepsTailTyped ==
  ASSUME TailAssumption, TailTyped, [TailNext]_tailVars
  PROVE  TailTyped'
<1>0. /\ RowsInv /\ Cardinality(written) \in Nat /\ IsFiniteSet(written)
      /\ stamp \in 1..LastStamp /\ LastStamp \in Nat /\ MaxRows \in Nat /\ MaxCrashes \in Nat
  BY FS_CardinalityType DEF TailTyped, TailAssumption, RowsInv
<1>1. CASE WriteRow
  <2>1. RowsInv' /\ Cardinality(written') = Cardinality(written) + 1
    BY <1>0, <1>1, WriteKeepsRows
  <2>2. Cardinality(written') <= MaxRows
    BY <1>0, <1>1, <2>1 DEF WriteRow
  <2>3. PICK useful \in BOOLEAN, thing \in Things, up \in BOOLEAN :
          written' = written \cup {[id |-> Cardinality(written) + 1, at |-> stamp,
                                    useful |-> useful, thing |-> thing, up |-> up]}
    BY <1>1 DEF WriteRow
  <2>4. Cardinality(written) + 1 \in 1..MaxRows
    BY <1>0, <1>1 DEF WriteRow
  <2>5. written' \subseteq TailRow /\ written \subseteq written'
    BY <1>0, <2>3, <2>4 DEF TailTyped, TailRow
  <2>6. UNCHANGED <<plugin, stamp, mark, got, poll, crashes>>
    BY <1>1 DEF WriteRow
  <2> QED  BY <2>1, <2>2, <2>5, <2>6 DEF TailTyped
<1>2. CASE ProducerTick
  <2>1. UNCHANGED <<plugin, written, shown, gone, mark, got, poll, crashes>> /\ stamp' = stamp + 1
        /\ stamp < LastStamp
    BY <1>2 DEF ProducerTick
  <2>2. stamp' \in 1..LastStamp /\ stamp' \in Nat /\ \A n \in Nat : n <= stamp => n <= stamp'
    BY <1>0, <2>1
  <2>3. RowsInv'
    BY <1>0, <2>1, <2>2 DEF RowsInv, Seen
  <2> QED  BY <2>1, <2>2, <2>3 DEF TailTyped
<1>3. ASSUME NEW r \in written, ShowRow(r)
      PROVE  TailTyped'
  <2>1. /\ shown' = (shown \cup {r.id}) \ Replaced(r) /\ gone' = gone \cup Replaced(r)
        /\ UNCHANGED <<plugin, written, stamp, mark, got, poll, crashes>>
    BY <1>3 DEF ShowRow
  <2>2. Replaced(r) \subseteq {s.id : s \in written}
    BY DEF Replaced
  <2>3. Seen' \subseteq 1..Cardinality(written)
    BY <1>0, <2>1, <2>2 DEF Seen, RowsInv
  <2>4. RowsInv'
    BY <1>0, <2>1, <2>3 DEF RowsInv
  <2> QED  BY <2>1, <2>4 DEF TailTyped
<1>4. CASE ListItems
  <2> DEFINE p == [phase |-> "listed", rows |-> NextRows, mark |-> MarkAfter(NextRows)]
  <2>1. poll' = p /\ UNCHANGED <<plugin, written, shown, gone, stamp, mark, got, crashes>>
    BY <1>4 DEF ListItems
  <2>2. NextRows \subseteq written
    BY DEF NextRows, Rest
  <2>3. MarkAfter(NextRows) \in Marks
    BY <2>2, ListedMarkIsTyped
  <2>4. p.rows \subseteq written /\ p.mark \in Marks
    BY <2>2, <2>3
  <2> HIDE DEF p
  <2>5. RowsInv'
    BY <1>0, <2>1 DEF RowsInv, Seen
  <2> QED  BY <2>1, <2>4, <2>5 DEF TailTyped, Marks
<1>5. CASE CommitPoll
  <2>1. /\ poll # NoPoll /\ got' = got \cup UNION {ItemsOf(r) : r \in poll.rows} /\ mark' = poll.mark
        /\ poll' = NoPoll /\ UNCHANGED <<plugin, written, shown, gone, stamp, crashes>>
    BY <1>5 DEF CommitPoll, NoPoll
  <2>2. got' \subseteq Episodes
    BY <2>1, RowsStandForEpisodes DEF TailTyped
  <2>3. RowsInv'
    BY <1>0, <2>1 DEF RowsInv, Seen
  <2> QED  BY <2>1, <2>2, <2>3 DEF TailTyped, Marks
<1>6. CASE PollFails
  <2>1. poll' = NoPoll /\ crashes' \in 0..MaxCrashes
        /\ UNCHANGED <<plugin, written, shown, gone, stamp, mark, got>>
    BY <1>0, <1>6 DEF PollFails, TailTyped
  <2>2. RowsInv'
    BY <1>0, <2>1 DEF RowsInv, Seen
  <2> QED  BY <2>1, <2>2 DEF TailTyped
<1>7. CASE UNCHANGED tailVars
  BY <1>7 DEF tailVars, TailTyped, RowsInv, Seen, Marks
<1> QED  BY <1>1, <1>2, <1>3, <1>4, <1>5, <1>6, <1>7 DEF TailNext

\* ingest/plugins/_producer_tail.py: the watermark is a cursor of the producer's clock and ids, and
\* what is stored are episodes of its rows.
LEMMA TailTypeOKHolds ==
  ASSUME TailAssumption
  PROVE  TailSpec => []TailTypeOK
<1>1. TailInit => TailTyped
  <2> SUFFICES ASSUME TailInit PROVE TailTyped
    OBVIOUS
  <2>1. Cardinality({}) = 0 /\ IsFiniteSet({})
    BY FS_EmptySet
  <2>2. RowsInv
    BY <2>1 DEF TailInit, RowsInv, Seen
  <2>3. NoMark \in Marks
    BY DEF NoMark, Marks, TailAssumption
  <2> QED  BY <2>1, <2>2, <2>3 DEF TailInit, TailTyped, TailAssumption
<1>2. TailTyped /\ [TailNext]_tailVars => TailTyped'
  BY NextKeepsTailTyped
<1>3. TailTyped => TailTypeOK
  <2> SUFFICES ASSUME TailTyped PROVE TailTypeOK
    OBVIOUS
  <2>1. Seen \subseteq 1..MaxRows
    BY FS_CardinalityType DEF TailTyped, RowsInv, TailAssumption
  <2> QED  BY <2>1 DEF TailTyped, Marks, Seen, TailTypeOK
<1> QED  BY <1>1, <1>2, <1>3, PTL DEF TailSpec

-----------------------------------------------------------------------------
(* Passages, and the components whose invariant holds their types.          *)

\* Forgetting documents, in one transaction, only takes rows and passages away.
LEMMA ForgettingKeepsTypes ==
  ASSUME PassagesTypeOK, NEW docs, Forgotten(docs)
  PROVE  /\ (mode \in Modes /\ shelf \subseteq Doc /\ ingested \in 0..MaxStored)'
         /\ DOMAIN chunksOf' \subseteq Doc
         /\ purging' = purging /\ late' = late /\ Doc' = Doc
  BY DEF PassagesTypeOK, Forgotten, Restrict, Modes, Doc

\* services/direct.py: what is stored, proposed, or seen by a purge are documents.
LEMMA PassagesTypeOKHolds ==
  ASSUME PassagesAssumption
  PROVE  PassagesSpec => []PassagesTypeOK
<1>1. PassagesInit => PassagesTypeOK
  BY DEF PassagesInit, PassagesTypeOK, PassagesAssumption, NoPurge
<1>2. PassagesTypeOK /\ [PassagesNext]_passagesVars => PassagesTypeOK'
  <2> SUFFICES ASSUME PassagesTypeOK, [PassagesNext]_passagesVars
               PROVE  PassagesTypeOK'
    OBVIOUS
  <2> USE DEF PassagesTypeOK
  <2>1. ASSUME NEW d \in Doc, AddDocument(d)
        PROVE  PassagesTypeOK'
    BY <2>1 DEF AddDocument, PassagesAssumption, Modes, Doc
  <2>2. ASSUME NEW d \in shelf, ForgetDocument(d)
        PROVE  PassagesTypeOK'
    BY <2>2, ForgettingKeepsTypes DEF ForgetDocument
  <2>3. ASSUME NEW docs \in SUBSET shelf, CuratePreview(docs)
        PROVE  PassagesTypeOK'
    BY <2>3 DEF CuratePreview, Modes, Doc
  <2>4. CASE CurateConfirm
    BY <2>4, ForgettingKeepsTypes DEF CurateConfirm
  <2>5. ASSUME NEW owners \in SUBSET Owners, PurgeChunks(owners)
        PROVE  PassagesTypeOK'
    BY <2>5 DEF PurgeChunks, Modes, Doc
  <2>6. CASE PurgeDocuments
    BY <2>6 DEF PurgeDocuments, Restrict, Modes, Doc, NoPurge
  <2>7. ASSUME NEW o \in Owners, PurgeScope(o[1]) \/ PurgeWorkspace(o[2])
        PROVE  \E owners \in SUBSET Owners : PurgeChunks(owners)
    BY <2>7 DEF PurgeScope, PurgeWorkspace
  <2>8. CASE UNCHANGED passagesVars
    BY <2>8 DEF passagesVars, Modes, Doc
  <2> HIDE DEF PassagesTypeOK
  <2> QED  BY <2>1, <2>2, <2>3, <2>4, <2>5, <2>6, <2>7, <2>8 DEF PassagesNext
<1> QED  BY <1>1, <1>2, PTL DEF PassagesSpec

\* api/v1/memory.py, services/wiki.py: a note's versions, readers and transactions.
LEMMA NotesTypeOKHolds ==
  ASSUME NotesAssumption
  PROVE  NotesInit /\ [][NotesNext]_notesVars => []NotesTypeOK
<1>1. NotesInv => NotesTypeOK
  BY DEF NotesInv
<1> QED  BY <1>1, NotesInvHolds, PTL

\* pipeline/worker.py: the relations, the copies of nodes, what was told of them.
LEMMA PresenceTypeOKHolds ==
  ASSUME PresenceAssumption
  PROVE  PresenceSpec => []PresenceTypeOK
<1>1. PresenceInv => PresenceTypeOK
  BY DEF PresenceInv
<1> QED  BY <1>1, PresenceInvHolds, PTL

\* pipeline/state_lifecycle.py: the anchors, and those a fold knows.
LEMMA LifecycleTypeOKHolds == LifecycleSpec => []LifecycleTypeOK
<1>1. NamesInv => LifecycleTypeOK
  BY DEF NamesInv
<1> QED  BY <1>1, InitHasNoNames, StepsKeepNames, PTL DEF LifecycleSpec

-----------------------------------------------------------------------------
(* The composition: whichever component moves, every one of them behaves as *)
(* it does alone.                                                           *)

LEMMA FeedsAreTheirComponents ==
  Spec => /\ NotesInit /\ [][NotesNext]_notesVars
          /\ SourcesInit /\ [][SourcesNext]_sourcesVars
          /\ TailSpec /\ PresenceSpec /\ TopicTallySpec /\ LifecycleSpec
          /\ PassagesSpec /\ AnswerSpec /\ CallersSpec /\ JudgeSpec
<1>1. Init => /\ NotesInit /\ SourcesInit /\ TailInit /\ PresenceInit /\ TopicTallyInit
              /\ LifecycleInit /\ PassagesInit /\ AnswerInit /\ CallersInit /\ JudgeInit
  BY DEF Init
<1>2. [Next]_vars => /\ [NotesNext]_notesVars /\ [SourcesNext]_sourcesVars /\ [TailNext]_tailVars
                     /\ [PresenceNext]_presenceVars /\ [TopicTallyNext]_tallyVars
                     /\ [LifecycleNext]_lifecycleVars /\ [PassagesNext]_passagesVars
                     /\ [AnswerNext]_answerVars /\ [CallersNext]_callersVars
                     /\ [JudgeNext]_judgeVars
  BY DEF Next, NextOfTheKept, CallersNext, keptVars, vars
<1> QED  BY <1>1, <1>2, PTL DEF Spec, TailSpec, PresenceSpec, TopicTallySpec, LifecycleSpec,
                                PassagesSpec, AnswerSpec, CallersSpec, JudgeSpec

\* Of all that is brought in from outside and kept, whichever component moves, every variable
\* stays in its type, for any writers, files, rows, documents, questions, callers and facts.
THEOREM TypesOKHolds ==
  ASSUME FeedsAssumption
  PROVE  Spec => []TypesOK
<1>1. /\ NotesAssumption /\ SourcesAssumption /\ TailAssumption /\ PresenceAssumption
      /\ TopicTallyAssumption /\ PassagesAssumption /\ AnswerAssumption
      /\ CallersAssumption /\ JudgeAssumption
  BY DEF FeedsAssumption
<1>2. /\ NotesInit /\ [][NotesNext]_notesVars => []NotesTypeOK
      /\ SourcesInit /\ [][SourcesNext]_sourcesVars => []SourcesTypeOK
  BY <1>1, NotesTypeOKHolds, SourcesTypeOKHolds
<1>3. /\ TailSpec => []TailTypeOK
      /\ PresenceSpec => []PresenceTypeOK
      /\ TopicTallySpec => []TopicTallyTypeOK
      /\ LifecycleSpec => []LifecycleTypeOK
  BY <1>1, TailTypeOKHolds, PresenceTypeOKHolds, TopicTallyTypeOKHolds, LifecycleTypeOKHolds
<1>4. /\ PassagesSpec => []PassagesTypeOK
      /\ AnswerSpec => []AnswerTypeOK
      /\ CallersSpec => []CallersTypeOK
      /\ JudgeSpec => []JudgeTypeOK
  BY <1>1, PassagesTypeOKHolds, AnswerTypeOKHolds, CallersTypeOKHolds, JudgeTypeOKHolds
<1> QED  BY <1>2, <1>3, <1>4, FeedsAreTheirComponents, PTL DEF TypesOK
=============================================================================
