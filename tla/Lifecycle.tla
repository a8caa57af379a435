----------------------------- MODULE Lifecycle -----------------------------
(***************************************************************************)
(* The names under which the states of systems are kept.  A document that  *)
(* says what became of a system is folded onto an anchor named after it;   *)
(* a later document supersedes that state only if it lands on the same     *)
(* anchor, so a name just extracted is snapped onto a known anchor that    *)
(* names the same thing.  The known ones are read before the model is      *)
(* called and only the latest of them, and a fold adds its own when it     *)
(* commits.  A name is the set of its words; the state told is left out.   *)
(***************************************************************************)
EXTENDS Naturals, FiniteSets

CONSTANTS
  Subjects,   \* the names documents use, each a set of words
  KnownLimit, \* how many anchors _known_state_subjects reads
  Readers,    \* the processes that fold documents
  MaxTexts    \* bound: documents folded

LifecycleAssumption ==
  /\ {} \notin Subjects /\ \A s \in Subjects : IsFiniteSet(s)
  /\ KnownLimit \in Nat /\ MaxTexts \in Nat

VARIABLES
  updated, \* the anchors of the tenant -> when they were last updated
  reading, \* the folds under way: when they began, the anchors known to them
  sticky,  \* ghost: every new name so far was compared with all the anchors there were
  texts

lifecycleVars == <<updated, reading, sticky, texts>>

Idle == [phase |-> "idle"]
Names == DOMAIN updated

-----------------------------------------------------------------------------
(* canonical_subject *)

Comparable(s, k) == s \subseteq k \/ k \subseteq s

\* Jaccard >= 0.5, and which of two is the nearer.
Near(s, k) == 2 * Cardinality(s \cap k) >= Cardinality(s \cup k)
Nearer(s, k, l) ==
  Cardinality(s \cap k) * Cardinality(s \cup l) > Cardinality(s \cap l) * Cardinality(s \cup k)

SameThing(s, k) == Comparable(s, k) \/ Near(s, k)

\* The latest of them; those updated together come in any order.
LatestOf(K, known) == {k \in K : \A l \in K : known[l] <= known[k]}

\* mutant: a longer name of a known thing is taken for another thing
SnappedDown(s, known) ==
  LET hits == {k \in DOMAIN known : s \subseteq k}
  IN IF hits # {} THEN LatestOf(hits, known) ELSE {s}

\* What a name may become: the latest anchor that contains it or is contained in it, else
\* the nearest, else itself.
Snapped(s, known) ==
  LET hits == {k \in DOMAIN known : Comparable(s, k)}
      near == {k \in DOMAIN known : Near(s, k)}
      nearest == {k \in near : \A l \in near : ~Nearer(s, l, k)}
  IN IF hits # {} THEN LatestOf(hits, known)
     ELSE IF near # {} THEN LatestOf(nearest, known)
     ELSE {s}

-----------------------------------------------------------------------------
(* The folds. *)

\* _known_state_subjects, then the model is called.
ReadKnown(p) ==
  /\ reading[p] = Idle /\ texts < MaxTexts
  /\ \E K \in SUBSET Names :
       /\ Cardinality(K) <= KnownLimit
       /\ \A l \in Names \ K : Cardinality(K) = KnownLimit /\ \A k \in K : updated[l] <= updated[k]
       /\ reading' = [reading EXCEPT ![p] =
            [phase |-> "asking", began |-> texts, known |-> [k \in K |-> updated[k]]]]
  /\ texts' = texts + 1
  /\ UNCHANGED <<updated, sticky>>

\* llm_extract_state_specs, of the names the model answers: each is snapped onto what was
\* known when the fold began, and two that land on one anchor are one.  The rows bear the
\* time their transaction began.
FoldNames(p, said) ==
  LET known == reading[p].known IN
  /\ reading[p] # Idle
  /\ \E f \in [said -> said \cup DOMAIN known] : LET landed == {f[s] : s \in said} IN
       /\ \A s \in said : f[s] \in Snapped(s, known)
       /\ updated' = [k \in Names \cup landed |->
                        IF k \in landed THEN reading[p].began ELSE updated[k]]
       /\ sticky' = (sticky /\ (landed \subseteq Names \/ Names \subseteq DOMAIN known)
                            /\ \A s, k \in landed \ Names : SameThing(s, k) => s = k)
  /\ reading' = [reading EXCEPT ![p] = Idle]
  /\ UNCHANGED texts

\* The model fails, or no lifecycle word is in the text: no states.
NoStates(p) ==
  /\ reading[p] # Idle
  /\ reading' = [reading EXCEPT ![p] = Idle]
  /\ UNCHANGED <<updated, sticky, texts>>

-----------------------------------------------------------------------------
LifecycleInit ==
  /\ updated = [k \in {} |-> 0] /\ reading = [p \in Readers |-> Idle]
  /\ sticky = TRUE /\ texts = 0

\* A document names one or two systems.
Said == {{s, k} : s, k \in Subjects}

LifecycleNext ==
  \E p \in Readers :
    \/ ReadKnown(p) \/ NoStates(p)
    \/ \E said \in Said : FoldNames(p, said)

LifecycleSpec == LifecycleInit /\ [][LifecycleNext]_lifecycleVars

\* The anchors a fold knows are still there: nothing takes one away.
LifecycleTypeOK ==
  /\ Names \subseteq Subjects /\ updated \in [Names -> Nat]
  /\ DOMAIN reading = Readers
  /\ \A p \in Readers : reading[p] # Idle =>
       /\ DOMAIN reading[p].known \subseteq Names
       /\ reading[p].began \in Nat
  /\ sticky \in BOOLEAN /\ texts \in Nat

-----------------------------------------------------------------------------
(* Properties. *)

\* _known_state_subjects: "fragmented keys silently break supersession".  Whatever names
\* are used in whatever order, no two anchors name the same thing, unless folds overlapped,
\* one document introduced two names of a thing or an anchor fell off the list of the known.
OneAnchorPerThing ==
  sticky => \A s, k \in Names : SameThing(s, k) => s = k
=============================================================================
