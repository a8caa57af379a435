------------------------------ MODULE ReadPath ------------------------------
(***************************************************************************)
(* A read of current memory beside the writes.  A question is answered in  *)
(* several queries: two legs search nodes, copies of one key merge to the  *)
(* narrowest scope, anchors expand to their live value, an answer looks up *)
(* watched anchors once more and the packet drops what is not current.     *)
(* Each query sees what is committed when it runs, and a row once read     *)
(* stays as it was read.  Ranking and page limits are abstracted: a leg    *)
(* returns any of the rows its predicate lets through.                     *)
(***************************************************************************)
EXTENDS Naturals, FiniteSets

CONSTANTS
  ScopeRank,   \* the scopes of the request's tenant -> how narrow
  ReadScopes,   \* accessible_scopes of the caller, narrowed as asked
  AnchorValues,\* the values the anchor has had
  LastHour,    \* bound: the clock stops here
  MaxChanges   \* bound: writes

ReadPathAssumption ==
  /\ ReadScopes \subseteq DOMAIN ScopeRank /\ \A s \in DOMAIN ScopeRank : ScopeRank[s] \in Nat
  /\ \A s, t \in DOMAIN ScopeRank : ScopeRank[s] = ScopeRank[t] => s = t
  /\ IsFiniteSet(AnchorValues) /\ LastHour \in Nat /\ MaxChanges \in Nat

VARIABLES
  anchorOf, \* the status of each scope's copy of the anchor
  valueOf,  \* each value node of each scope: its status, when it expires
  holds,    \* each HAS_VALUE edge: open, when it expires
  hour,     \* now
  read,     \* the request: its tool, its phase and what it holds so far
  wasLive,  \* ghost: the values that were live at some instant of the request
  orphaned, \* ghost: scopes whose anchor a person has retracted
  changes

readVars == <<anchorOf, valueOf, holds, hour, read, wasLive, orphaned, changes>>

AllScopes == DOMAIN ScopeRank
Never == LastHour + 1
Hours == 0..LastHour
ScopedValues == AllScopes \X AnchorValues
AnchorNode == "anchor"
Names == AnchorValues \cup {AnchorNode}

Unexpired(x) == hour < x.expires

\* A value is live while its edge is: valid now, and not past its end.
Live(s, v) == holds[<<s, v>>].open /\ Unexpired(holds[<<s, v>>])
LiveNow == {k \in ScopedValues : Live(k[1], k[2])}

StatusOf(n) == IF n[2] = AnchorNode THEN anchorOf[n[1]] ELSE valueOf[n].status

-----------------------------------------------------------------------------
(* The writes, each one transaction: a claim, a person's retraction, the   *)
(* worker's sweep.                                                         *)

Write ==
  /\ changes < MaxChanges /\ changes' = changes + 1
  /\ UNCHANGED <<hour, read>>

\* The claim's value holds from now on and supersedes the others of its anchor; a writer's
\* end is put on the node and on the edge, and stays on the node when the edge is new.
ClaimValue(s, v, end) ==
  LET k == <<s, v>>
      others == {<<s, w>> : w \in {x \in AnchorValues \ {v} : valueOf[<<s, x>>].status # "none"}}
  IN
  /\ Write /\ end > hour
  /\ anchorOf' = IF anchorOf[s] = "none" THEN [anchorOf EXCEPT ![s] = "committed"] ELSE anchorOf
  /\ valueOf' = [o \in ScopedValues |->
       IF o = k THEN [status |-> IF valueOf[k].status \in {"none", "superseded"} THEN "committed"
                                 ELSE valueOf[k].status,
                      expires |-> IF end # Never THEN end ELSE valueOf[k].expires]
       ELSE IF o \in others THEN [valueOf[o] EXCEPT !.status = "superseded"] ELSE valueOf[o]]
  /\ holds' = [o \in ScopedValues |->
       IF o = k THEN [open |-> TRUE,
                      expires |-> IF end # Never \/ ~holds[k].open THEN end ELSE holds[k].expires]
       ELSE IF o \in others THEN [holds[o] EXCEPT !.open = FALSE] ELSE holds[o]]
  /\ wasLive' = wasLive \cup LiveNow'
  /\ UNCHANGED orphaned

RetractValue(k) ==
  /\ Write /\ valueOf[k].status \notin {"none", "retracted"}
  /\ valueOf' = [valueOf EXCEPT ![k].status = "retracted"]
  /\ holds' = [holds EXCEPT ![k].open = FALSE]
  /\ UNCHANGED <<anchorOf, wasLive, orphaned>>

\* Every edge of the anchor closes, and its values keep their status.
RetractAnchor(s) ==
  /\ Write /\ anchorOf[s] \notin {"none", "retracted"}
  /\ anchorOf' = [anchorOf EXCEPT ![s] = "retracted"]
  /\ holds' = [k \in ScopedValues |-> IF k[1] = s THEN [holds[k] EXCEPT !.open = FALSE] ELSE holds[k]]
  /\ orphaned' = orphaned \cup {s}
  /\ UNCHANGED <<valueOf, wasLive>>

\* _close_expired_committed
Due == {k \in ScopedValues : valueOf[k].status = "committed" /\ valueOf[k].expires < hour}

SweepDue ==
  /\ Due # {} /\ Write
  /\ valueOf' = [k \in ScopedValues |->
                   IF k \in Due THEN [valueOf[k] EXCEPT !.status = "expired"] ELSE valueOf[k]]
  /\ holds' = [k \in ScopedValues |-> IF k \in Due THEN [holds[k] EXCEPT !.open = FALSE] ELSE holds[k]]
  /\ UNCHANGED <<anchorOf, wasLive, orphaned>>

HourPasses ==
  /\ hour < LastHour /\ hour' = hour + 1
  /\ UNCHANGED <<anchorOf, valueOf, holds, read, wasLive, orphaned, changes>>

-----------------------------------------------------------------------------
(* The request. *)

\* mutant: an expired row is found until the sweep has run
FoundUntilSwept ==
  {n \in ReadScopes \X Names : StatusOf(n) \notin {"none", "superseded", "ended"}}

\* search_nodes and lexical_search_nodes: the rows their predicate lets through.
Findable ==
  {n \in ReadScopes \X Names :
     /\ StatusOf(n) \notin {"none", "superseded", "ended"}
     /\ n[2] # AnchorNode => Unexpired(valueOf[n])}

\* The rows of this query, as the session keeps them: those it had read before stay as read.
RowRead(n) == [node |-> n, status |-> StatusOf(n)]
Cached(rows, ns) == rows \cup {RowRead(n) : n \in {m \in ns : \A r \in rows : r.node # m}}

NotCurrent == {"ended", "retracted", "expired"}

\* merge_scored: of the copies of a key the narrowest; then what is not current is dropped.
Narrowest(rows) ==
  {r \in rows :
     /\ \A o \in rows : o.node[2] = r.node[2] => ScopeRank[o.node[1]] <= ScopeRank[r.node[1]]
     /\ r.status \notin NotCurrent}

\* _expand_keyed_values: the anchor's values by a live edge, themselves not past their end.
LiveValues(s) == {<<s, v>> : v \in {x \in AnchorValues : Live(s, x) /\ Unexpired(valueOf[<<s, x>>])}}

Expanded(rows) ==
  LET anchors == {r \in rows : r.node[2] = AnchorNode}
      empty == {r \in anchors : LiveValues(r.node[1]) = {}}
  IN Cached(rows \ empty, UNION {LiveValues(r.node[1]) : r \in anchors \ empty})

\* _value_since_map: the values of the anchors the question names, by a live edge.
Watched(ss) ==
  {k \in LiveNow : k[1] \in ss /\ anchorOf[k[1]] # "none" /\ valueOf[k].status # "superseded"}

\* build_packet: what the current view does not serve.
PacketRows(rows) == {r \in rows : r.status \notin {"superseded", "retracted", "expired"}}

Request(phase, rows) == [read EXCEPT !.phase = phase, !.rows = rows]

ReadStep ==
  /\ wasLive' = wasLive
  /\ UNCHANGED <<anchorOf, valueOf, holds, hour, orphaned, changes>>

BeginRead(tool, grant) ==
  /\ read.phase = "none"
  /\ read' = [tool |-> tool, mayRead |-> grant, phase |-> "vector", rows |-> {}]
  /\ wasLive' = LiveNow
  /\ UNCHANGED <<anchorOf, valueOf, holds, hour, orphaned, changes>>

\* The vector leg; without an embedder it falls away.
VectorLeg ==
  /\ read.phase = "vector"
  /\ \E found \in SUBSET Findable : read' = Request("words", Cached({}, found))
  /\ ReadStep

LexicalLeg ==
  /\ read.phase = "words"
  /\ \E found \in SUBSET Findable : read' = Request("merged", Narrowest(Cached(read.rows, found)))
  /\ ReadStep

\* Keyed topics only inside the contract of the caller.
ExpandValues ==
  /\ read.phase = "merged"
  /\ read' = Request(IF read.tool = "answer" THEN "watched" ELSE "served",
                     IF read.mayRead THEN Expanded(read.rows) ELSE {})
  /\ ReadStep

LookUpWatched ==
  /\ read.phase = "watched"
  /\ \E ss \in SUBSET ReadScopes : read' = Request("packet", Cached(read.rows, Watched(ss)))
  /\ ReadStep

BuildPacket ==
  /\ read.phase = "packet"
  /\ read' = Request("served", PacketRows(read.rows))
  /\ ReadStep

-----------------------------------------------------------------------------
ReadPathInit ==
  /\ anchorOf = [s \in AllScopes |-> "none"]
  /\ valueOf = [k \in ScopedValues |-> [status |-> "none", expires |-> Never]]
  /\ holds = [k \in ScopedValues |-> [open |-> FALSE, expires |-> Never]]
  /\ hour = 0 /\ read = [tool |-> "none", mayRead |-> TRUE, phase |-> "none", rows |-> {}]
  /\ wasLive = {} /\ orphaned = {} /\ changes = 0

ReadPathNext ==
  \/ \E s \in AllScopes, v \in AnchorValues, end \in {1, Never} : ClaimValue(s, v, end)
  \/ \E k \in ScopedValues : RetractValue(k)
  \/ \E s \in AllScopes : RetractAnchor(s)
  \/ SweepDue \/ HourPasses
  \/ \E tool \in {"answer", "search"}, grant \in BOOLEAN : BeginRead(tool, grant)
  \/ VectorLeg \/ LexicalLeg \/ ExpandValues \/ LookUpWatched \/ BuildPacket

ReadPathSpec == ReadPathInit /\ [][ReadPathNext]_readVars

ReadPathTypeOK ==
  /\ anchorOf \in [AllScopes -> {"none", "committed", "retracted"}]
  /\ valueOf \in [ScopedValues -> [status : {"none", "committed", "superseded", "retracted", "expired"},
                                   expires : Hours \cup {Never}]]
  /\ holds \in [ScopedValues -> [open : BOOLEAN, expires : Hours \cup {Never}]]
  /\ hour \in Hours /\ changes \in 0..MaxChanges
  /\ wasLive \subseteq ScopedValues /\ orphaned \subseteq AllScopes
  /\ \A r \in read.rows : r.node \in ReadScopes \X Names

-----------------------------------------------------------------------------
(* Properties. *)

\* resolve, build_packet: "superseded value-facts never appear as CURRENT facts".  Whatever
\* is claimed, retracted, swept or runs out while the queries of a request run, a value it
\* serves was live at some instant of the request, and an anchor had a live value; only
\* the values of an anchor a person retracted are still found by their own name.
ServedWasLive ==
  read.phase = "served" =>
    \A r \in read.rows :
      \/ r.node[1] \in orphaned
      \/ IF r.node[2] = AnchorNode THEN \E v \in AnchorValues : <<r.node[1], v>> \in wasLive
         ELSE r.node \in wasLive
=============================================================================
