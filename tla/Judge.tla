-------------------------------- MODULE Judge --------------------------------
(***************************************************************************)
(* The contradiction judge.  A relation that may have several objects at   *)
(* once is written; the open facts most like it are put to a judge, and of *)
(* two that cannot both be true the older is closed when the newer began.  *)
(* One subject and one relation: its node is locked from the moment a fold *)
(* writes it, so the folds about it come one after the other.              *)
(***************************************************************************)
EXTENDS Naturals, FiniteSets, SequencesExt

CONSTANTS
  Objects,       \* what the relation may hold of
  Incompatible,  \* pairs of objects the judge says cannot both be true
  Unlike,        \* pairs whose facts are less similar than the threshold
  JudgeLimit,    \* the candidates looked at, the new fact itself among them
  LastDay,       \* bound: the instants facts are dated with
  MaxFolds       \* bound: folds

JudgeAssumption ==
  /\ IsFiniteSet(Objects) /\ JudgeLimit \in Nat /\ LastDay \in Nat /\ MaxFolds \in Nat
  /\ \A pair \in Incompatible \cup Unlike : pair \subseteq Objects

VARIABLES relations, foldsDone

judgeVars == <<relations, foldsDone>>

StillOpen == LastDay + 1
Relation == [object : Objects, from : 1..LastDay, to : 1..StillOpen]
OpenOf(rs) == {r \in rs : r.to = StillOpen}

\* upsert_edge: an open edge to the same object is the one that is judged.
EdgeTo(object, day) ==
  LET open == {r \in OpenOf(relations) : r.object = object}
  IN IF open # {} THEN CHOOSE r \in open : TRUE
     ELSE [object |-> object, from |-> day, to |-> StillOpen]

\* search_fact_edges: the facts most similar, in any order the distances give.
CandidateLists(edge) ==
  LET others == OpenOf(relations) \ {edge}
      seen == IF Cardinality(others) < JudgeLimit THEN {others}
              ELSE {s \in SUBSET others : Cardinality(s) = JudgeLimit - 1}
  IN UNION {SetToSeqs(s) : s \in seen}

\* A fact about the same object is the fact told again.
Contradicts(a, b) == a.object # b.object /\ {a.object, b.object} \in Incompatible \ Unlike

\* invalidate_edge: of an object, what is open and began by then.
EndedAt(rs, object, day) ==
  LET hit == {r \in OpenOf(rs) : r.object = object /\ r.from <= day}
  IN (rs \ hit) \cup {[r EXCEPT !.to = day] : r \in hit}

\* mutant: the fact found is closed, whichever began first
CandidateClosed(rs, edge, candidate) == EndedAt(rs, candidate.object, edge.from)

OlderClosed(rs, edge, candidate) ==
  IF candidate.from <= edge.from THEN EndedAt(rs, candidate.object, edge.from)
  ELSE EndedAt(rs, edge.object, candidate.from)

\* The new fact's end is read afresh for each candidate, its beginning is not.
Judged(rs, edge, candidate) ==
  LET end == (CHOOSE r \in rs : r.object = edge.object /\ r.from = edge.from
                               /\ \A q \in rs : q.object = r.object /\ q.from = r.from => q.to <= r.to).to
  IN IF end > candidate.from /\ Contradicts(candidate, edge) THEN OlderClosed(rs, edge, candidate) ELSE rs

JudgedInTurn(rs, edge, candidates) ==
  LET after[n \in 0..Len(candidates)] ==
        IF n = 0 THEN rs ELSE Judged(after[n - 1], edge, candidates[n])
  IN after[Len(candidates)]

FoldRelation(object, day) ==
  LET edge == EdgeTo(object, day) IN
  /\ foldsDone < MaxFolds /\ foldsDone' = foldsDone + 1
  /\ \E candidates \in CandidateLists(edge) :
       relations' = JudgedInTurn(relations \cup {edge}, edge, candidates)

\* An event that says the relation is over.
EndRelation(object, day) ==
  /\ foldsDone < MaxFolds /\ foldsDone' = foldsDone + 1
  /\ relations' = EndedAt(relations, object, day)

JudgeInit == relations = {} /\ foldsDone = 0

JudgeNext == \E o \in Objects, d \in 1..LastDay : FoldRelation(o, d) \/ EndRelation(o, d)

JudgeSpec == JudgeInit /\ [][JudgeNext]_judgeVars

JudgeTypeOK == relations \subseteq Relation /\ foldsDone \in 0..MaxFolds

(* While the judge sees every open fact of the relation, two it calls        *)
(* contradictory are not both current, in whatever order they were told      *)
(* (pipeline/contradiction.py:106-124).                                      *)
FactsAgree ==
  Cardinality(Objects) <= JudgeLimit =>
    \A r, q \in OpenOf(relations) : ~Contradicts(r, q)
=============================================================================
