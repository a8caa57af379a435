-------------------------------- MODULE Trust --------------------------------
(***************************************************************************)
(* One remembered fact and the sessions that read its row, change their    *)
(* copy and write it back: a fold that observes it again, people who       *)
(* endorse, withdraw or retract, the nightly trust join and a merge of     *)
(* identical knowledge.  No session locks the row it reads, a session      *)
(* writes the columns it changed, and props is one column.                 *)
(***************************************************************************)
EXTENDS Naturals, FiniteSets

CONSTANTS
  People,
  Sessions,
  MaxSessions,  \* bound: sessions begun
  MaxObserved   \* bound: observations

TrustAssumption == MaxSessions \in Nat /\ MaxObserved \in Nat \ {0}

VARIABLES
  row,       \* status, observed_count, and the trust part of props
  work,      \* session -> what it read and is about to write
  ledger,    \* the verdicts of the runs that saw the memory
  grounded,  \* props.grounded
  begun,     \* sessions begun
  observed,  \* history: observations and merges begun
  retired,   \* history: a person's retraction has committed
  promoted   \* history: a fold that read the memory as working has committed since

trustVars == <<row, work, ledger, grounded, begun, observed, retired, promoted>>

Verdicts == [passed : BOOLEAN, failed : BOOLEAN]  \* CORROBORATED_PASSES passes; a fail
Props == [endorsers : SUBSET People, tier : {"probation", "corroborated", "endorsed"},
          seen : Verdicts]
FactRows == [status : {"working", "committed", "retracted"}, count : 1..MaxObserved, props : Props]
NoWork == [kind |-> "none"]
Kinds == {"fold", "merge", "endorse", "withdraw", "retract", "join"}

\* tier_for.
TierOf(endorsed, count, runs) ==
  IF endorsed THEN "endorsed"
  ELSE IF grounded /\ ~runs.failed /\ (count >= 2 \/ runs.passed) THEN "corroborated"
  ELSE "probation"

\* mutant: the tier waits for the nightly join
ListedOnly(props, endorsers, count, runs) == [props EXCEPT !.endorsers = endorsers]

\* trust_record, stamped on a copy of the properties.
Scored(props, endorsers, count, runs) ==
  [props EXCEPT !.endorsers = endorsers, !.seen = runs,
                !.tier = TierOf(endorsers # {}, count, runs)]

-----------------------------------------------------------------------------
\* The columns a session's flush writes: the ones that differ from what it read,
\* and props, where last_observed_at, the retraction or the age in the trust record
\* differs every time.
Changed(kind, copy) ==
  {c \in DOMAIN row : copy[c] # row[c]} \cup (IF kind = "merge" THEN {} ELSE {"props"})

\* A session reads the row and has its changed copy in hand.
Begin(s, kind, copy) ==
  /\ work[s] = NoWork /\ begun < MaxSessions
  /\ work' = [work EXCEPT ![s] = [kind |-> kind, row |-> copy,
                                  columns |-> Changed(kind, copy)]]
  /\ begun' = begun + 1
  /\ observed' = IF kind \in {"fold", "merge"} THEN observed + 1 ELSE observed
  /\ UNCHANGED <<row, ledger, grounded, retired, promoted>>

\* Updater._stamp of a node it found: last_observed_at in props, one more
\* observation, and a durable episode promotes a working memory.
BeginFold(s) ==
  /\ observed < MaxObserved
  /\ Begin(s, "fold", [row EXCEPT !.count = @ + 1,
                                     !.status = IF @ = "working" THEN "committed" ELSE @])

\* publish_memory of the same name and summary.
BeginMerge(s) ==
  /\ observed < MaxObserved
  /\ Begin(s, "merge", [row EXCEPT !.count = @ + 1])

\* endorse_memory scores with the verdicts the node already carries.
BeginEndorse(s, u) ==
  Begin(s, "endorse",
        [row EXCEPT !.props = Scored(@, @.endorsers \cup {u}, row.count, @.seen)])

BeginWithdraw(s, u) ==
  Begin(s, "withdraw",
        [row EXCEPT !.props = Scored(@, @.endorsers \ {u}, row.count, @.seen)])

BeginRetract(s) ==
  /\ row.status # "retracted"
  /\ Begin(s, "retract", [row EXCEPT !.status = "retracted"])

\* hop_trust.compute: the verdicts of the window, every node, one commit.
BeginJoin(s) ==
  Begin(s, "join", [row EXCEPT !.props = Scored(@, @.endorsers, row.count, ledger)])

\* mutant: a session writes back every column it read
WrittenWhole(w) == w.row

Written(w) == [c \in DOMAIN row |-> IF c \in w.columns THEN w.row[c] ELSE row[c]]

CommitWork(s) ==
  LET w == work[s] IN
  /\ w # NoWork
  /\ row' = Written(w)
  /\ work' = [work EXCEPT ![s] = NoWork]
  /\ retired' = (retired \/ w.kind = "retract")
  /\ promoted' = (promoted \/ (retired /\ w.kind = "fold" /\ "status" \in w.columns))
  /\ UNCHANGED <<ledger, grounded, begun, observed>>

\* A run that saw the memory reports how it ended.
Verdict ==
  /\ \E v \in {"passed", "failed"} : ~ledger[v] /\ ledger' = [ledger EXCEPT ![v] = TRUE]
  /\ UNCHANGED <<row, work, grounded, begun, observed, retired, promoted>>

-----------------------------------------------------------------------------
TrustInit ==
  /\ grounded \in BOOLEAN
  /\ \E status \in {"working", "committed"} :
       row = [status |-> status, count |-> 1,
              props |-> [endorsers |-> {}, tier |-> "probation",
                         seen |-> [passed |-> FALSE, failed |-> FALSE]]]
  /\ work = [s \in Sessions |-> NoWork]
  /\ ledger = [passed |-> FALSE, failed |-> FALSE]
  /\ begun = 0 /\ observed = 1 /\ retired = FALSE /\ promoted = FALSE

TrustNext ==
  \/ \E s \in Sessions :
       \/ BeginFold(s) \/ BeginMerge(s) \/ BeginJoin(s) \/ BeginRetract(s)
       \/ \E u \in People : BeginEndorse(s, u) \/ BeginWithdraw(s, u)
       \/ CommitWork(s)
  \/ Verdict

TrustSpec == TrustInit /\ [][TrustNext]_trustVars

TrustTypeOK ==
  /\ row \in FactRows
  /\ \A s \in Sessions : work[s] # NoWork =>
       work[s].kind \in Kinds /\ work[s].row \in FactRows
  /\ ledger \in Verdicts /\ grounded \in BOOLEAN
  /\ begun \in 0..MaxSessions /\ observed \in 1..MaxObserved
  /\ retired \in BOOLEAN /\ promoted \in BOOLEAN

-----------------------------------------------------------------------------
(* Properties. *)

\* tier_for, trust_record: whatever sessions overlap, the label a packet shows is
\* earned: endorsed exactly while somebody is named, corroborated only of a
\* grounded memory that was observed twice or that runs passed with; lost updates
\* of the count only ever hide observations.
TierIsEarned ==
  /\ row.props.tier = "endorsed" <=> row.props.endorsers # {}
  /\ row.props.tier = "corroborated" =>
       grounded /\ (observed >= 2 \/ row.props.seen.passed)
  /\ row.count <= observed

\* retract_memory: a retraction outlives every fold, merge, endorsement and join in
\* flight; only a fold that had read the memory as working brings it back.
RetractionHolds == retired /\ ~promoted => row.status = "retracted"
=============================================================================
