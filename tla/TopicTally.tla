----------------------------- MODULE TopicTally -----------------------------
(***************************************************************************)
(* A running total kept for a topic of a user's conversations.  A session  *)
(* is folded onto the state its topic has when the fold begins: the model  *)
(* extracts facts that add, remove or state a total, fold_topic applies    *)
(* them, and the new state is the value of the topic's anchor, superseding *)
(* the one before by the date of the session.  Folds may overlap, for the  *)
(* model is called between the read and the write, and sessions may come   *)
(* late or be folded again.                                                *)
(***************************************************************************)
EXTENDS Integers, FiniteSets, Sequences, TLC, SequencesExt, FiniteSetsExt

CONSTANTS
  Facts,      \* what a session can say of the topic, no two of one text and date
  LastDate,   \* bound: the dates of sessions and facts
  KeptItems,  \* MAX_ITEMS
  Folders,    \* the processes that fold: the worker and the inline path
  MaxTurns    \* bound: sessions folded

CountUnit == "items"
TallyFact ==
  [name : STRING, date : 1..LastDate, op : {"add", "remove", "set", "none"},
   qty : Nat, unit : STRING]

TopicTallyAssumption ==
  /\ LastDate \in Nat \ {0} /\ KeptItems \in Nat \ {0} /\ MaxTurns \in Nat
  /\ IsFiniteSet(Facts) /\ \A f \in Facts : f \in TallyFact

VARIABLES
  line,   \* the anchor's current value: the state in its props, the date it holds from
  work,   \* the folds under way: the state they read, their session
  told,   \* ghost: every fact folded
  fair,   \* ghost: so far every fold was one the tally is meant for (Meant)
  turns

tallyVars == <<line, work, told, fair, turns>>

\* The count, the total of each other unit, the items it is made of, the total last stated.
NoTotal == [name |-> "", date |-> 0, op |-> "set", qty |-> 0, unit |-> ""]
NoTally == [count |-> 0, sums |-> <<>>, items |-> <<>>, stated |-> NoTotal]
NoLine == [tally |-> NoTally, at |-> 0]
IsTally(st) ==
  /\ st.count \in Nat /\ \A u \in DOMAIN st.sums : st.sums[u] \in Int
  /\ st.items \in Seq(Facts) /\ Len(st.items) <= KeptItems
  /\ st.stated \in Facts \cup {NoTotal}
Resting == [phase |-> "resting"]

-----------------------------------------------------------------------------
(* fold_topic, of the facts of a session in the order of their dates. *)

Countish(f) == f.unit = CountUnit
Signed(f) == IF f.op = "add" THEN f.qty ELSE -f.qty
One(f) == IF f.op = "add" THEN 1 ELSE -1
SumOf(st, u) == IF u \in DOMAIN st.sums THEN st.sums[u] ELSE 0

WithSum(sums, u, n) == [v \in DOMAIN sums \cup {u} |-> IF v = u THEN n ELSE sums[v]]

\* An event on or before the day a total was stated is inside it.
Inside(st, f) ==
  /\ st.stated # NoTotal /\ f.date <= st.stated.date
  /\ Countish(f) \/ f.unit = st.stated.unit

WithTotal(st, f) ==
  IF Countish(f) THEN [st EXCEPT !.count = f.qty, !.stated = f]
  ELSE [st EXCEPT !.sums = WithSum(@, f.unit, f.qty), !.stated = f]

WithEvent(st, f) ==
  IF Inside(st, f) THEN st
  ELSE IF Countish(f) THEN [st EXCEPT !.count = @ + Signed(f)]
  ELSE [st EXCEPT !.count = @ + One(f),
                  !.sums = WithSum(@, f.unit, SumOf(st, f.unit) + Signed(f))]

Applied(st, f) ==
  IF f.op = "set" THEN WithTotal(st, f)
  ELSE IF f.op = "none" THEN st
  ELSE WithEvent(st, f)

\* mutant: a fact told again is counted again
CountedAgain(st, f) == [Applied(st, f) EXCEPT !.items = Append(@, f)]

\* `seen`: a fact among the items is passed over.
WithFact(st, f) ==
  IF \E i \in DOMAIN st.items : st.items[i] = f THEN st
  ELSE [Applied(st, f) EXCEPT !.items = Append(@, f)]

\* The items by date, those of one date in the order they came.
ByDate(items) ==
  LET UpTo(i) == {j \in DOMAIN items : \/ items[j].date < items[i].date
                                       \/ items[j].date = items[i].date /\ j <= i}
  IN [n \in DOMAIN items |-> items[CHOOSE i \in DOMAIN items : Cardinality(UpTo(i)) = n]]

\* The last MAX_ITEMS items by date, and no count below zero.
Trimmed(st) ==
  LET sorted == ByDate(st.items)
      n == Len(sorted)
  IN [st EXCEPT !.items = IF n > KeptItems THEN SubSeq(sorted, n - KeptItems + 1, n)
                          ELSE sorted,
                !.count = IF @ < 0 THEN 0 ELSE @]

FoldTopic(st, facts) == Trimmed(FoldLeft(WithFact, st, facts))

\* extract: a state with nothing in it is not emitted.
Emitted(st) == st.count # 0 \/ DOMAIN st.sums # {} \/ st.stated # NoTotal

-----------------------------------------------------------------------------
(* What was told amounts to: the last total stated and what came after it. *)

Stated(F, u) == {f \in F : f.op = "set" /\ f.unit = u}
Moves(F, u) == {f \in F : f.op \in {"add", "remove"} /\ f.unit = u}
UnitsOf(F) == {f.unit : f \in {g \in F : g.op # "none"}}

Truth(F, u) ==
  LET last == IF Stated(F, u) = {} THEN NoTotal
              ELSE CHOOSE f \in Stated(F, u) : \A g \in Stated(F, u) : g.date <= f.date
  IN last.qty + MapThenSumSet(Signed, {f \in Moves(F, u) : f.date > last.date})

\* A fold the tally is meant for: on the latest state, in the order of the sessions' dates,
\* of facts it still has among its items if it had them; no total stated as of a day
\* before something told, nor beside another unit; never down to nothing.
Meant(w) ==
  LET new == Range(w.facts) \ told
      all == told \cup new
  IN /\ w.read = line.tally /\ w.at >= line.at
     /\ \A f \in Range(w.facts) \cap told : f.op # "none" => f \in Range(line.tally.items)
     /\ \A f \in new : f.op = "set" =>
          \A g \in all \ {f} : g.date < f.date \/ (g.op # "set" /\ g.date = f.date)
     /\ (\E f \in all : f.op = "set") => \A u, v \in UnitsOf(all) : u = v
     /\ UnitsOf(all) # {} => FoldLeft(WithFact, w.read, w.facts).count > 0

-----------------------------------------------------------------------------
(* The folds. *)

\* load_topic_states, then the model.
BeginTopic(p, facts, d) ==
  /\ work[p] = Resting /\ turns < MaxTurns
  /\ work' = [work EXCEPT ![p] =
                [phase |-> "extracting", read |-> line.tally, at |-> d, facts |-> facts]]
  /\ turns' = turns + 1
  /\ UNCHANGED <<line, told, fair>>

\* The state emitted is a functional value: of two, that of the later date is current.
CommitTopic(p) ==
  LET w == work[p]
      st == FoldTopic(w.read, w.facts)
  IN
  /\ w # Resting
  /\ line' = IF Emitted(st) /\ w.at >= line.at THEN [tally |-> st, at |-> w.at] ELSE line
  /\ told' = told \cup Range(w.facts)
  /\ fair' = (fair /\ Meant(w))
  /\ work' = [work EXCEPT ![p] = Resting]
  /\ UNCHANGED turns

\* The model or the transaction fails: the episode is folded again later.
TopicFails(p) ==
  /\ work[p] # Resting
  /\ work' = [work EXCEPT ![p] = Resting]
  /\ UNCHANGED <<line, told, fair, turns>>

-----------------------------------------------------------------------------
\* A session says one or two things of the topic, in the order of their dates.
Sessions1 == {<<f>> : f \in Facts}
Sessions2 == {s \in Facts \X Facts : s[1] # s[2] /\ s[1].date <= s[2].date}

TopicTallyInit ==
  /\ line = NoLine /\ work = [p \in Folders |-> Resting]
  /\ told = {} /\ fair = TRUE /\ turns = 0

TopicTallyNext ==
  \E p \in Folders :
    \/ \E facts \in Sessions1 \cup Sessions2, d \in 1..LastDate : BeginTopic(p, facts, d)
    \/ CommitTopic(p) \/ TopicFails(p)

TopicTallySpec == TopicTallyInit /\ [][TopicTallyNext]_tallyVars

TopicTallyTypeOK ==
  /\ IsTally(line.tally) /\ line.at \in 0..LastDate
  /\ \A p \in Folders : work[p] # Resting => IsTally(work[p].read) /\ work[p].at \in 1..LastDate
  /\ told \subseteq Facts /\ fair \in BOOLEAN /\ turns \in 0..MaxTurns

-----------------------------------------------------------------------------
(* Properties. *)

\* topic_state: "one complete, current line per topic".  As long as the folds are those it
\* is meant for, the tally is the last total stated and what was told to have come after
\* it, whatever is told twice and in whatever order the totals and events of a session are.
TallyIsExact ==
  fair =>
    /\ UnitsOf(told) = {CountUnit} => line.tally.count = Truth(told, CountUnit)
    /\ \A u \in UnitsOf(told) \ {CountUnit} : SumOf(line.tally, u) = Truth(told, u)
=============================================================================
