------------------------------ MODULE Passages ------------------------------
(***************************************************************************)
(* Direct memory: a document kept verbatim as passages.  chunk_text cuts   *)
(* its content into chunks within a cap, by paragraph, by line or by the   *)
(* turns of a transcript; a document and its chunks are stored and         *)
(* forgotten together, purged by scope or workspace in two statements, and *)
(* curated in two requests, a preview and a confirmation.  A character is  *)
(* its position in the content, and a chunk the list of the intervals of   *)
(* positions it shows, each of which may be preceded by the name of the    *)
(* speaker it continues.                                                   *)
(***************************************************************************)
EXTENDS Naturals, Sequences, FiniteSets, SequencesExt, Functions

CONSTANTS
  Contents,   \* paragraphs of lines, each with its length and its head, the text before a colon
  Cap,        \* DEFAULT_CHUNK_CHARS
  NameLen,    \* the length of "speaker: (continued) "
  Overlap,    \* chunk_overlap_lines: 0 or 1, the default
  Owners,     \* where documents are kept: pairs of a scope and a workspace
  OwnScope,   \* the caller's personal scope; the others are seen, not written
  MaxStored   \* bound: documents ingested

NoHead == "none"
TextLine == [len : Nat \ {0}, head : STRING \cup {NoHead}]

\* Neither a paragraph nor a line is blank.
PassagesAssumption ==
  /\ Cap \in Nat \ {0} /\ NameLen \in 0..(Cap - 1) /\ Overlap \in 0..1 /\ MaxStored \in Nat
  /\ \A content \in Contents : content \in Seq(Seq(TextLine) \ {<<>>})

VARIABLES
  mode,     \* settings.chunk_mode, which a running service does not change
  shelf,    \* the documents with a row
  chunksOf, \* the passages stored of each document
  purging,  \* a purge between its two statements: whose documents, and those it saw
  preview,  \* the documents a curation proposed to forget
  late,     \* ghost: documents committed while their owner was being purged
  ingested

passagesVars == <<mode, shelf, chunksOf, purging, preview, late, ingested>>

Modes == {"paragraph", "line", "turn"}
Roles == {"user", "assistant"}

-----------------------------------------------------------------------------
(* Positions: a separator of one between lines, of two between paragraphs. *)

\* Where the lines of a paragraph start that itself starts at a position, the next one too.
Starting(start, lines) ==
  LET at[i \in 0..Len(lines)] == IF i = 0 THEN start ELSE at[i - 1] + lines[i].len + 1
  IN at

\* The lines of a paragraph as intervals.
Placed(start, lines) ==
  [i \in DOMAIN lines |->
     [from |-> Starting(start, lines)[i - 1], to |-> Starting(start, lines)[i] - 1,
      head |-> lines[i].head]]

Opening(content) ==
  LET at[p \in 0..Len(content)] ==
        IF p = 0 THEN 0 ELSE Starting(at[p - 1], content[p])[Len(content[p])] + 1
  IN at

Placement(content) ==
  [p \in DOMAIN content |-> Placed(Opening(content)[p - 1], content[p])]

Span(line) == line.to - line.from
Shown(from, to, speaker) == [from |-> from, to |-> to, says |-> speaker]
Whole(line) == Shown(line.from, line.to, NoHead)
PieceLen(piece) == piece.to - piece.from + (IF piece.says = NoHead THEN 0 ELSE NameLen)

\* text[i : i + room] for every i.
CutEvery(from, to, room) ==
  [k \in 1..((to - from + room - 1) \div room) |->
     [from |-> from + (k - 1) * room,
      to |-> IF from + k * room > to THEN to ELSE from + k * room]]

Alone(cuts) == [k \in DOMAIN cuts |-> <<Shown(cuts[k].from, cuts[k].to, NoHead)>>]

\* What a loop over lines carries: chunks done, the one being packed, its size.
Packing == [chunks |-> <<>>, buf |-> <<>>, size |-> 0]
Flushed(st) ==
  [chunks |-> IF st.buf = <<>> THEN st.chunks ELSE Append(st.chunks, st.buf),
   buf |-> <<>>, size |-> 0]
With(st, piece, separator) ==
  [st EXCEPT !.buf = Append(@, piece), !.size = @ + PieceLen(piece) + separator]

-----------------------------------------------------------------------------
(* Line mode: whole lines, the tail of one chunk opening the next. *)

\* The chunk after a full one opens with its last line, if the next one fits beside it.
Reopened(st, line) ==
  LET last == st.buf[Len(st.buf)]
  IN IF Overlap = 1 /\ PieceLen(last) + Span(line) + 1 <= Cap THEN With(Flushed(st), last, 1)
     ELSE Flushed(st)

PackLine(st, line) ==
  IF Span(line) > Cap
  THEN [Flushed(st) EXCEPT !.chunks = @ \o Alone(CutEvery(line.from, line.to, Cap))]
  ELSE IF st.buf # <<>> /\ st.size + Span(line) + 1 > Cap
       THEN With(Reopened(st, line), Whole(line), 1)
       ELSE With(st, Whole(line), 1)

-----------------------------------------------------------------------------
(* Turn mode: whole turns, a long one cut with its speaker named again. *)

\* split_turns: role heads start a turn; without any, the names that recur do.
Starts(lines) ==
  IF \E i \in DOMAIN lines : lines[i].head \in Roles
  THEN {i \in DOMAIN lines : lines[i].head \in Roles}
  ELSE {i \in DOMAIN lines : lines[i].head # NoHead /\ \E j \in DOMAIN lines \ {i} :
                               lines[j].head = lines[i].head}

\* The turns so far and a line more: it starts one, or continues the last.
WithLine(lines, turns, i) ==
  IF i \in Starts(lines) \/ turns = <<>>
  THEN Append(turns, [speaker |-> IF i \in Starts(lines) THEN lines[i].head ELSE NoHead,
                      lines |-> <<lines[i]>>])
  ELSE [turns EXCEPT ![Len(turns)].lines = Append(@, lines[i])]

Turns(lines) ==
  FoldLeft(LAMBDA turns, i : WithLine(lines, turns, i), <<>>, [i \in DOMAIN lines |-> i])

Room(speaker) == IF speaker = NoHead THEN Cap ELSE Cap - NameLen

\* mutant: a continuation does not say who is talking
PackUnitUnnamed(speaker, st, unit) ==
  With(IF st.buf # <<>> /\ st.size + unit.to - unit.from + 1 > Cap THEN Flushed(st) ELSE st,
       Shown(unit.from, unit.to, NoHead), 1)

\* One unit of a long turn: a piece after the first opens with the name.
PackUnit(speaker, st, unit) ==
  LET full == st.buf # <<>> /\ st.size + unit.to - unit.from + 1 > Cap
      base == IF full THEN Flushed(st) ELSE st
      continues == base.buf = <<>> /\ base.chunks # <<>>
  IN With(base, Shown(unit.from, unit.to, IF continues THEN speaker ELSE NoHead), 1)

Units(speaker, line) ==
  IF Span(line) <= Room(speaker) THEN <<[from |-> line.from, to |-> line.to]>>
  ELSE CutEvery(line.from, line.to, Room(speaker))

PackUnits(speaker, st, line) ==
  FoldLeft(LAMBDA s, unit : PackUnit(speaker, s, unit), st, Units(speaker, line))

CutTurn(turn) ==
  Flushed(FoldLeft(LAMBDA s, line : PackUnits(turn.speaker, s, line), Packing, turn.lines)).chunks

PackTurn(st, turn) ==
  LET text == Shown(turn.lines[1].from, turn.lines[Len(turn.lines)].to, NoHead)
  IN IF PieceLen(text) <= Cap
     THEN With(IF st.buf # <<>> /\ st.size + PieceLen(text) + 1 > Cap THEN Flushed(st) ELSE st,
               text, 1)
     ELSE [Flushed(st) EXCEPT !.chunks = @ \o CutTurn(turn)]

-----------------------------------------------------------------------------
(* chunk_text: small paragraphs are joined, a large one is cut by the mode. *)

CutParagraph(how, lines) ==
  IF how = "line" THEN Flushed(FoldLeft(PackLine, Packing, lines)).chunks
  ELSE IF how = "turn" THEN Flushed(FoldLeft(PackTurn, Packing, Turns(lines))).chunks
  ELSE Alone(CutEvery(lines[1].from, lines[Len(lines)].to, Cap))

\* st.size: the length of the text joined so far and its separator.
AddParagraph(how, st, lines) ==
  LET text == Shown(lines[1].from, lines[Len(lines)].to, NoHead) IN
  IF PieceLen(text) > Cap
  THEN [Flushed(st) EXCEPT !.chunks = @ \o CutParagraph(how, lines)]
  ELSE With(IF st.buf # <<>> /\ st.size + PieceLen(text) > Cap THEN Flushed(st) ELSE st,
            text, 2)

ChunkText(how, content) ==
  Flushed(FoldLeft(LAMBDA st, lines : AddParagraph(how, st, lines),
                   Packing, Placement(content))).chunks

-----------------------------------------------------------------------------
(* The store: a document is a row of its own however often its text was    *)
(* ingested.                                                               *)

Doc == [id : 1..MaxStored, content : Contents, owner : Owners]
NoPurge == [of |-> {}, seen |-> {}]

AddDocument(doc) ==
  /\ ingested < MaxStored /\ ingested' = ingested + 1 /\ doc.id = ingested'
  /\ shelf' = shelf \cup {doc}
  /\ chunksOf' = [d \in DOMAIN chunksOf \cup {doc} |->
                  IF d = doc THEN ChunkText(mode, doc.content) ELSE chunksOf[d]]
  /\ late' = IF doc.owner \in purging.of THEN late \cup {doc} ELSE late
  /\ UNCHANGED <<mode, purging, preview>>

\* The rows of documents and their chunks, and only them, in one transaction.
Forgotten(docs) ==
  /\ shelf' = shelf \ docs
  /\ chunksOf' = Restrict(chunksOf, DOMAIN chunksOf \ docs)
  /\ UNCHANGED <<mode, purging, late, ingested>>

\* forget_document: authorized like a write of the document's scope.
Forgettable(doc) == doc \in shelf /\ doc.owner[1] = OwnScope

ForgetDocument(doc) == Forgettable(doc) /\ Forgotten({doc}) /\ UNCHANGED preview

\* The model names some of the workspace's visible documents; nothing is deleted.
CuratePreview(docs) ==
  /\ docs # {} /\ docs \subseteq shelf /\ preview' = docs
  /\ \A d, e \in docs : d.owner[2] = e.owner[2]
  /\ UNCHANGED <<mode, shelf, chunksOf, purging, late, ingested>>

\* Every id confirmed is forgotten, or the request fails and none is.
CurateConfirm ==
  /\ preview # {} /\ \A d \in preview : Forgettable(d)
  /\ Forgotten(preview) /\ preview' = {}

\* purge_scope and purge_workspace delete the chunks of the documents they see, then the
\* documents: the second statement sees what was committed since the first.
PurgeChunks(owners) ==
  /\ purging = NoPurge
  /\ purging' = [of |-> owners, seen |-> {d \in DOMAIN chunksOf : d.owner \in owners}]
  /\ UNCHANGED <<mode, shelf, chunksOf, preview, late, ingested>>

PurgeDocuments ==
  /\ purging # NoPurge /\ purging' = NoPurge
  /\ chunksOf' = Restrict(chunksOf, DOMAIN chunksOf \ purging.seen)
  /\ shelf' = {d \in shelf : d.owner \notin purging.of}
  /\ UNCHANGED <<mode, preview, late, ingested>>

PurgeScope(scope) == PurgeChunks({o \in Owners : o[1] = scope})
PurgeWorkspace(workspace) == PurgeChunks({<<OwnScope, workspace>>} \cap Owners)

PassagesInit ==
  /\ mode \in Modes /\ shelf = {} /\ ingested = 0 /\ chunksOf = <<>>
  /\ purging = NoPurge /\ preview = {} /\ late = {}

PassagesNext ==
  \/ \E d \in Doc : AddDocument(d)
  \/ \E d \in shelf : ForgetDocument(d)
  \/ \E docs \in SUBSET shelf : CuratePreview(docs)
  \/ CurateConfirm
  \/ \E o \in Owners : PurgeScope(o[1]) \/ PurgeWorkspace(o[2])
  \/ PurgeDocuments

PassagesSpec == PassagesInit /\ [][PassagesNext]_passagesVars

PassagesTypeOK ==
  /\ mode \in Modes /\ shelf \subseteq Doc /\ ingested \in 0..MaxStored /\ DOMAIN chunksOf \subseteq Doc
  /\ purging \in [of : SUBSET Owners, seen : SUBSET Doc] /\ preview \cup late \subseteq Doc

-----------------------------------------------------------------------------
(* What is kept of a document. *)

Separator(piece, next) == IF next.from = piece.to + 2 THEN 2 ELSE 1

ChunkLen(chunk) ==
  LET upto[i \in 0..Len(chunk)] ==
        IF i = 0 THEN 0
        ELSE upto[i - 1] + PieceLen(chunk[i])
               + (IF i = 1 THEN 0 ELSE Separator(chunk[i - 1], chunk[i]))
  IN upto[Len(chunk)]

\* Every character of every line is in some passage, and the passages follow the text.
ShowsAll(chunks, content) ==
  /\ \A p \in DOMAIN content : \A i \in DOMAIN content[p] :
       LET line == Placement(content)[p][i] IN
       \A at \in line.from..(line.to - 1) :
         \E k \in DOMAIN chunks : \E piece \in Range(chunks[k]) : piece.from <= at /\ at < piece.to
  /\ \A k \in 2..Len(chunks) : chunks[k - 1][1].from <= chunks[k][1].from

\* A passage that begins inside somebody's turn says whose.
SaysWho(chunks, content) ==
  \A p \in DOMAIN content : \A turn \in Range(Turns(Placement(content)[p])) :
    turn.speaker # NoHead =>
      \A k \in DOMAIN chunks :
        LET piece == chunks[k][1]
            inside == turn.lines[1].from < piece.from /\ piece.from < turn.lines[Len(turn.lines)].to
        IN inside => piece.says = turn.speaker

(* A stored document is whole in its passages, in order and each within the *)
(* cap, and in turn mode a passage cut out of a turn says who is talking;   *)
(* what was forgotten or purged leaves none, unless it was being ingested   *)
(* while its owner was purged (services/direct.py:101-200, 266-312, 588-599;*)
(* api/v1/memory.py:893-950).                                               *)
PassagesKeepTheText ==
  /\ shelf \subseteq DOMAIN chunksOf /\ DOMAIN chunksOf \ shelf \subseteq late
  /\ \A doc \in shelf :
       /\ \A k \in DOMAIN chunksOf[doc] : ChunkLen(chunksOf[doc][k]) <= Cap
       /\ ShowsAll(chunksOf[doc], doc.content)
       /\ mode = "turn" => SaysWho(chunksOf[doc], doc.content)
=============================================================================
