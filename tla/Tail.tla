-------------------------------- MODULE Tail ---------------------------------
(***************************************************************************)
(* A pull source: the scheduler tails a producer's table behind a          *)
(* watermark, a composite (timestamp, id) cursor.  A poll reads a batch    *)
(* after the cursor, maps rows to episodes, inserts those that are new and *)
(* moves the watermark, in one transaction.  The producer stamps a row     *)
(* when its transaction begins and shows it when that commits.             *)
(***************************************************************************)
EXTENDS Naturals, FiniteSets

CONSTANTS
  MaxRows,    \* bound: rows the producer writes; ids are a serial
  LastStamp,  \* bound: the producer's clock stops here
  Plugins,    \* the kinds of table tailed
  Things,     \* agents, servers: what a snapshot row is about
  Batch,      \* updater_batch_size
  InOrder,    \* the producer shows rows in the order of their cursors
  MaxCrashes  \* bound: polls that fail: the table, its schema, a stop of the worker

TailAssumption ==
  /\ MaxRows \in Nat /\ LastStamp \in Nat \ {0} /\ Batch \in Nat \ {0}
  /\ InOrder \in BOOLEAN /\ MaxCrashes \in Nat
  /\ Plugins \subseteq {"audit", "skills", "agents", "servers", "store"}

VARIABLES
  plugin,   \* the table's kind
  written,  \* rows of transactions that have begun
  shown,    \* the ids of those that have committed
  gone,     \* those a later version has replaced
  stamp,    \* the producer's clock
  mark,     \* last_processed_ref, or NoMark
  got,      \* the ids of the episodes stored
  poll,     \* the poll under way
  crashes

tailVars == <<plugin, written, shown, gone, stamp, mark, got, poll, crashes>>

\* Whether map_row has a use for the row (a mapped action, a use event, an owner), the
\* thing it is about, and whether the thing is up.
TailRow == [id : 1..MaxRows, at : 1..LastStamp, useful : BOOLEAN, thing : Things, up : BOOLEAN]
NoMark == [at |-> 0, id |-> 0]
NoPoll == [phase |-> "none"]

-----------------------------------------------------------------------------
(* map_row and source_item_to_envelope: the episodes a row stands for. *)

RowItems(r) == {<<"row", r.id>>}

\* backend_agents: an agent that runs stands for two episodes.
AgentItems(r) ==
  {<<r.thing, "created">>} \cup (IF r.up THEN {<<r.thing, "deployed">>} ELSE {})

\* mcp_servers: one episode of each status a server has been seen in.
ServerItems(r) == {<<r.thing, IF r.up THEN "deployed" ELSE "stopped">>}

ItemsOf(r) ==
  CASE ~r.useful -> {}
    [] r.useful /\ plugin = "agents" -> AgentItems(r)
    [] r.useful /\ plugin = "servers" -> ServerItems(r)
    [] OTHER -> RowItems(r)

Episodes == {<<"row", n>> : n \in 1..MaxRows}
              \cup (Things \X {"created", "deployed", "stopped"})

-----------------------------------------------------------------------------
(* The cursor. *)

AfterMark(r, m) == r.at > m.at \/ (r.at = m.at /\ r.id > m.id)

Precedes(r, s) == AfterMark(s, [at |-> r.at, id |-> r.id])

\* mutant: the timestamp alone
RestByStamp == {r \in written : r.id \in shown /\ r.at > mark.at}

Rest == {r \in written : r.id \in shown /\ AfterMark(r, mark)}

\* ORDER BY cursor, id LIMIT batch
NextRows == {r \in Rest : Cardinality({s \in Rest : Precedes(s, r)}) < Batch}

\* mutant: the watermark is the next tick of the clock
MarkOfClock(rows) == [at |-> stamp + 1, id |-> 0]

MarkAfter(rows) ==
  IF rows = {} THEN mark
  ELSE LET last == CHOOSE r \in rows : \A s \in rows : s = r \/ Precedes(s, r)
       IN [at |-> last.at, id |-> last.id]

-----------------------------------------------------------------------------
(* The producer. *)

WriteRow ==
  /\ Cardinality(written) < MaxRows
  /\ \E useful \in BOOLEAN, thing \in Things, up \in BOOLEAN :
       /\ plugin \in {"audit", "skills", "store"} => ~up
       /\ written' = written \cup {[id |-> Cardinality(written) + 1, at |-> stamp,
                                    useful |-> useful, thing |-> thing, up |-> up]}
  /\ UNCHANGED <<plugin, shown, gone, stamp, mark, got, poll, crashes>>

\* A row of a snapshot table is updated in place: its earlier version is gone.
Replaced(r) ==
  IF plugin \in {"agents", "servers"}
  THEN {s.id : s \in {o \in written : o.thing = r.thing /\ Precedes(o, r)}} ELSE {}

ShowRow(r) ==
  /\ r.id \notin shown \cup gone
  /\ InOrder => \A s \in written : Precedes(s, r) => s.id \in shown \cup gone
  /\ shown' = (shown \cup {r.id}) \ Replaced(r)
  /\ gone' = gone \cup Replaced(r)
  /\ UNCHANGED <<plugin, written, stamp, mark, got, poll, crashes>>

ProducerTick ==
  /\ stamp < LastStamp /\ stamp' = stamp + 1
  /\ UNCHANGED <<plugin, written, shown, gone, mark, got, poll, crashes>>

-----------------------------------------------------------------------------
(* poll_once, in a tick that holds the worker's lock. *)

ListItems ==
  /\ poll = NoPoll
  /\ poll' = [phase |-> "listed", rows |-> NextRows, mark |-> MarkAfter(NextRows)]
  /\ UNCHANGED <<plugin, written, shown, gone, stamp, mark, got, crashes>>

\* insert_episode passes over an id that is stored; the watermark moves with the rows.
CommitPoll ==
  /\ poll.phase = "listed"
  /\ got' = got \cup UNION {ItemsOf(r) : r \in poll.rows}
  /\ mark' = poll.mark
  /\ poll' = NoPoll
  /\ UNCHANGED <<plugin, written, shown, gone, stamp, crashes>>

PollFails ==
  /\ poll # NoPoll /\ crashes < MaxCrashes
  /\ poll' = NoPoll /\ crashes' = crashes + 1
  /\ UNCHANGED <<plugin, written, shown, gone, stamp, mark, got>>

-----------------------------------------------------------------------------
TailInit ==
  /\ plugin \in Plugins
  /\ written = {} /\ shown = {} /\ gone = {} /\ stamp = 1 /\ mark = NoMark
  /\ got = {} /\ poll = NoPoll /\ crashes = 0

TailNext ==
  \/ WriteRow \/ ProducerTick
  \/ \E r \in written : ShowRow(r)
  \/ ListItems \/ CommitPoll \/ PollFails

TailSpec == TailInit /\ [][TailNext]_tailVars

TailTypeOK ==
  /\ plugin \in Plugins /\ written \subseteq TailRow /\ shown \cup gone \subseteq 1..MaxRows
  /\ stamp \in 1..LastStamp /\ mark \in [at : 0..LastStamp, id : 0..MaxRows]
  /\ got \subseteq Episodes /\ crashes \in 0..MaxCrashes
  /\ poll # NoPoll => poll.rows \subseteq written

-----------------------------------------------------------------------------
(* Properties. *)

\* list_items, _drain_one: "composite keyset - never skip rows that share the cursor
\* timestamp".  Whatever polls fail, what lies behind the watermark has its episodes.
NothingSkipped ==
  \A r \in written : r.id \in shown /\ ~AfterMark(r, mark) => ItemsOf(r) \subseteq got
=============================================================================
