------------------------------ MODULE MC_Feeds ------------------------------
(* Model-checking instance of Feeds: of the components that rest, one      *)
(* initial state is enough.                                                *)
EXTENDS Feeds, MC_TopicTally

CONSTANTS f, t1, A, B, C, D, me, repo, wa, wb,
  d1, d2, d3, d4, e1, e2, e3, e4, e5, org, q0, q1, q2

MCSubjects ==
  {{"status", "page"}, {"status", "page", "design"}, {"status", "page", "board"},
   {"design"}, {"console", "router"}}

\* A line of n characters, and one that opens h's turn.
Line(n) == [len |-> n, head |-> NoHead]
By(h, n) == [len |-> n, head |-> h]

MCContents == {
  << <<Line(2)>>, <<Line(3), Line(19), Line(4), Line(4)>> >>,
  << <<By("user", 3), Line(4), Line(6), Line(5), By("assistant", 3), By("user", 21)>>,
     <<Line(2)>> >>,
  << <<By("Ann", 4), By("Bob", 3), By("Ann", 5), Line(9), Line(2), By("Bob", 4)>> >>,
  << <<Line(5), Line(5), Line(4), By("Note", 8)>>, <<Line(3)>>, <<Line(2)>>, <<Line(4)>>, <<Line(1)>> >> }

\* The caller's own documents in two workspaces, and a repository's, seen only.
MCOwners == {<<me, wa>>, <<me, wb>>, <<repo, wa>>}

\* Two passages of an undated document of the reader's, one of the organisation that holds
\* later, one of somebody else's repository, and a cold one.
MCLibrary ==
  LET Kept(d, s, valid, at, text, title) ==
        [doc |-> d, scope |-> s, valid |-> valid, ingested |-> at, text |-> text, title |-> title]
  IN [c \in {e1, e2, e3, e4, e5} |->
        CASE c = e1 -> Kept(d1, me, Undated, 1, {q0, q1}, {q1})
          [] c = e2 -> Kept(d1, me, Undated, 1, {}, {q1})
          [] c = e3 -> Kept(d2, org, 2, 1, {q2}, {q0})
          [] c = e4 -> Kept(d3, repo, 1, 2, {q0}, {})
          [] c = e5 -> Kept(d4, me, 1, 3, {q0}, {q0})]

MCIncompatible == {{A, B}, {A, C}, {B, D}}
MCUnlike == {{B, D}}

ASSUME FeedsAssumption

\* Bound: at first the files of the tree differ, and one on disk is absent or worth reading.
FewFiles == world[1] # world[2] /\ \A p \in DiskPaths : world[p] \notin Low \cup Short

MCInit ==
  /\ Init
  /\ subject = "notes" \/ graph.state = CHOOSE b \in Blocks : TRUE
  /\ IF subject = "sources" THEN FewFiles ELSE world = [p \in AllPaths |-> NoBlob]
  /\ subject = "tail" \/ plugin = CHOOSE k \in Plugins : TRUE
  /\ subject = "passages" \/ mode = CHOOSE m \in Modes : TRUE

MCSpec == MCInit /\ [][Next]_vars /\ Fairness
=============================================================================
