-------------------------------- MODULE Answer --------------------------------
(***************************************************************************)
(* A question answered from memory.  DirectMemory.search fetches a page of *)
(* passages by three legs; GET /answer returns the packet, or lets a model *)
(* compose from it, at once or after a bounded loop of further searches;   *)
(* GET /answer/stream runs that loop as a live stream.  Documents are      *)
(* forgotten meanwhile, and a question nothing answers admits cold ones.   *)
(* The order a leg ranks in is abstracted: a page is any the limits allow. *)
(***************************************************************************)
EXTENDS Naturals, FiniteSets

CONSTANTS
  Library,    \* passage -> its document, scope, dates, and the queries its text or title matches
  Cold,       \* passages a registered source lists and memory has not admitted
  ReaderScopes, \* accessible_scopes of the reader
  Searches,   \* the queries the question and the model put
  TheQuestion,
  PageSize,   \* limit
  PerDocument,\* per_document
  Overfetch,  \* rows the vector leg takes
  MaxHops,    \* max_hops
  AskedAsOf   \* the as_of values asked for

AnswerAssumption ==
  /\ Cold \subseteq DOMAIN Library /\ TheQuestion \in Searches
  /\ PageSize \in Nat \ {0} /\ PerDocument \in Nat \ {0} /\ Overfetch \in Nat \ {0}
  /\ MaxHops \in Nat \ {0} /\ AskedAsOf \subseteq Nat \ {0}

VARIABLES
  onHand,  \* the passages memory keeps
  counted, \* the passages mark_served has counted
  question \* the request: mode, as of when, phase, what it searched, was shown and cites

answerVars == <<onHand, counted, question>>

AllPassages == DOMAIN Library
DocOf(c) == Library[c].doc
Undated == 0      \* valid_at is null
CurrentView == 0  \* no as_of

-----------------------------------------------------------------------------
(* DirectMemory.search. *)

\* Not the future: event time, or ingest time for what is undated; system time, ingest time.
KnownAt(c, q) ==
  \/ q.at = CurrentView
  \/ Library[c].ingested <= q.at /\ (q.clock = "system" \/ Library[c].valid = Undated)
  \/ q.clock = "valid" /\ Library[c].valid # Undated /\ Library[c].valid <= q.at

Base(q) == {c \in onHand : Library[c].scope \in ReaderScopes /\ KnownAt(c, q)}

\* The nearest rows whatever their distance; none when the embedder fails.
VectorRows(q) ==
  LET base == Base(q)
      most == IF Cardinality(base) < Overfetch THEN Cardinality(base) ELSE Overfetch
  IN {{}} \cup {rows \in SUBSET base : Cardinality(rows) = most}

LexicalRows(q, words) == {c \in Base(q) : words \in Library[c].text}

TitledOf(words) == {DocOf(c) : c \in {x \in onHand : words \in Library[x].title
                                                   /\ Library[x].scope \in ReaderScopes}}

\* mutant: the passages of a titled document are not held to the instant
TitleRowsAnyTime(q, words) ==
  {c \in onHand : Library[c].scope \in ReaderScopes /\ DocOf(c) \in TitledOf(words)}

TitleRows(q, words) == {c \in Base(q) : DocOf(c) \in TitledOf(words)}

\* Best first, at most PerDocument of a document, until the page is full.
IsPage(page, found) ==
  LET of(c) == {e \in page : DocOf(e) = DocOf(c)} IN
  /\ page \subseteq found /\ Cardinality(page) <= PageSize
  /\ \A c \in page : Cardinality(of(c)) <= PerDocument
  /\ Cardinality(page) < PageSize => \A c \in found \ page : Cardinality(of(c)) = PerDocument

Pages(q, words) ==
  LET others == LexicalRows(q, words) \cup TitleRows(q, words)
  IN UNION {{page \in SUBSET (rows \cup others) : IsPage(page, rows \cup others)} :
              rows \in VectorRows(q)}

-----------------------------------------------------------------------------
(* The request. *)

AnswerModes == {"packet", "synthesized", "hybrid", "hop"}
At(phase) == question.phase = phase
To(q, phase) == [q EXCEPT !.phase = phase]
Ends(q, phase) == [To(q, phase) EXCEPT !.todo = {}, !.tried = {}, !.before = {}]

NoQuestion ==
  [mode |-> "packet", at |-> CurrentView, clock |-> "valid", phase |-> "none", promoted |-> FALSE,
   todo |-> {}, tried |-> {}, shown |-> {}, before |-> {}, calls |-> 0, cites |-> {},
   there |-> {}, stayed |-> {}]

Ask(mode, at, clock) ==
  /\ At("none") /\ at = CurrentView => clock = "valid"
  /\ question' = [NoQuestion EXCEPT !.mode = mode, !.at = at, !.clock = clock, !.phase = "first",
                                    !.tried = {TheQuestion}, !.there = onHand, !.stayed = onHand]
  /\ UNCHANGED <<onHand, counted>>

\* answer_memory: what the packet alone answers, and where the model layers go on.
AfterPacket(q, page) ==
  CASE q.mode = "stream" \/ (q.mode = "hop" /\ page # {}) -> To(q, "assess")
    [] q.mode \in {"synthesized", "hybrid"} /\ page # {} -> To(q, "compose")
    [] OTHER -> [Ends(q, "answered") EXCEPT !.cites = page]

ShowsPacket(page) ==
  /\ question' = AfterPacket([question EXCEPT !.shown = page], page)
  /\ counted' = counted \cup page
  /\ UNCHANGED onHand

MayPromote(page) ==
  /\ page = {} /\ ~question.promoted
  /\ question.mode # "stream" /\ question.at = CurrentView

FirstPacket ==
  /\ At("first")
  /\ \E page \in Pages(question, TheQuestion) :
       \/ ~MayPromote(page) /\ ShowsPacket(page)
       \/ /\ MayPromote(page)
          /\ question' = [To(question, "promote") EXCEPT !.promoted = TRUE]
          /\ UNCHANGED <<onHand, counted>>

\* Nothing answers: admit cold items whose titles match, then answer once more.
AdmitCold(admitted) ==
  /\ At("promote") /\ admitted \subseteq Cold
  /\ \A c \in admitted : TheQuestion \in Library[c].title
  /\ IF admitted = {} THEN ShowsPacket({})
     ELSE /\ onHand' = onHand \cup admitted
          /\ question' = [To(question, "first") EXCEPT !.there = @ \cup admitted]
          /\ UNCHANGED counted

-----------------------------------------------------------------------------
(* run_memory_hop and synthesize_answer. *)

\* enforce_citations: what was never retrieved is stripped.
Enforced(cited) == cited \cap question.shown

\* bound: an answer cites one passage, any there is, or none.
CitedByModel == {{}} \cup {{c} : c \in AllPassages}

Answers(cited) ==
  question' = [Ends(question, "answered") EXCEPT
                 !.calls = @ + 1,
                 !.cites = Enforced(cited) \cup (IF question.mode = "hybrid" THEN question.shown ELSE {})]

Assess ==
  /\ At("assess") /\ UNCHANGED <<onHand, counted>>
  /\ \/ \E cited \in CitedByModel : Answers(cited)
     \/ \E new \in SUBSET (Searches \ question.tried) :
          /\ Cardinality(new) <= 2
          /\ question' = [To(question, IF new = {} THEN "compose" ELSE "search") EXCEPT
                            !.calls = @ + 1, !.todo = new, !.before = question.shown]

\* A hop that surfaces nothing new, and the last hop, lead to the final call.
AfterSearch(q) ==
  IF q.todo # {} THEN q
  ELSE To([q EXCEPT !.before = {}],
          IF q.shown = q.before \/ q.calls = MaxHops THEN "compose" ELSE "assess")

SearchAgain ==
  /\ At("search") /\ UNCHANGED onHand
  /\ \E words \in question.todo : \E page \in Pages(question, words) :
       /\ question' = AfterSearch([question EXCEPT !.todo = @ \ {words}, !.tried = @ \cup {words},
                                                    !.shown = @ \cup page])
       /\ counted' = IF question.mode = "stream" THEN counted \cup page ELSE counted

Compose ==
  /\ At("compose") /\ UNCHANGED <<onHand, counted>>
  /\ \E cited \in CitedByModel : Answers(cited)

\* A model call or a statement fails: a 500, or the stream's error event.
Fails ==
  /\ question.phase \in {"first", "promote", "assess", "search", "compose"}
  /\ question' = Ends(question, "failed") /\ UNCHANGED <<onHand, counted>>

\* The reader of a stream goes away and the loop is cancelled.
Leaves ==
  /\ question.mode = "stream" /\ question.phase \in {"first", "assess", "search", "compose"}
  /\ question' = Ends(question, "left") /\ UNCHANGED <<onHand, counted>>

\* forget_document, from another request (bound: nothing moves after the last event).
Forgets(doc) ==
  /\ question.phase \notin {"answered", "failed", "left"}
  /\ \E c \in onHand : DocOf(c) = doc
  /\ onHand' = {c \in onHand : DocOf(c) # doc}
  /\ question' = [question EXCEPT !.stayed = @ \cap onHand']
  /\ UNCHANGED counted

AnswerInit == onHand = AllPassages \ Cold /\ counted = {} /\ question = NoQuestion

AnswerNext ==
  \/ \E m \in AnswerModes \cup {"stream"}, at \in AskedAsOf \cup {CurrentView}, k \in {"valid", "system"} :
       Ask(m, at, k)
  \/ FirstPacket \/ (\E some \in SUBSET Cold : AdmitCold(some))
  \/ Assess \/ SearchAgain \/ Compose \/ Fails \/ Leaves
  \/ \E c \in AllPassages : Forgets(DocOf(c))

AnswerSpec == AnswerInit /\ [][AnswerNext]_answerVars

AnswerTypeOK ==
  /\ onHand \subseteq AllPassages /\ counted \subseteq AllPassages
  /\ question.calls \in 0..(MaxHops + 1) /\ question.cites \subseteq AllPassages

-----------------------------------------------------------------------------
(* An answer cites only what its reader may read, what memory knew at the   *)
(* instant asked about, and what was still kept when it was asked, however  *)
(* many searches led to it and whatever the model cites; what it cites was  *)
(* counted as served, except after the first packet of the hop mode.  An    *)
(* empty one abstains truly: nothing kept throughout matches its words,     *)
(* embedder or not, and no model was paid for it unless it was streamed     *)
(* (services/direct.py:314-588, services/memory_hop.py:64-150,              *)
(* api/v1/memory.py:539-889).                                               *)
AnswerIsGrounded ==
  LET q == question IN
  /\ q.calls <= MaxHops + 1
  /\ q.shown = {} /\ q.mode # "stream" => q.calls = 0
  /\ q.phase = "answered" =>
       /\ \A c \in q.cites : /\ c \in q.there /\ KnownAt(c, q)
                             /\ Library[c].scope \in ReaderScopes
       /\ q.mode # "hop" => q.cites \subseteq counted
       /\ q.shown = {} => \A c \in q.stayed :
            Library[c].scope \in ReaderScopes /\ KnownAt(c, q) =>
              TheQuestion \notin Library[c].text
=============================================================================
