-------------------------------- MODULE Feeds --------------------------------
(***************************************************************************)
(* The components that bring knowledge in from outside and keep a view of  *)
(* it: notes and their curation, registered sources, the tail of a         *)
(* producer's table, the relations events begin and end, the tally of a    *)
(* topic, the names of the things whose state is kept, the passages of a   *)
(* document, the answer composed from them, the callers known, the judge's *)
(* windows.  They have no variable in common: one of them moves and the    *)
(* others rest.                                                            *)
(***************************************************************************)
EXTENDS Notes, Sources, Tail, Presence, TopicTally, Lifecycle, Passages, Answer, Callers, Judge

VARIABLE subject

keptVars == <<presenceVars, tallyVars, lifecycleVars, passagesVars, answerVars, callersVars, judgeVars>>
vars == <<subject, notesVars, sourcesVars, tailVars, keptVars>>

FeedsAssumption ==
  /\ NotesAssumption /\ SourcesAssumption /\ TailAssumption /\ PresenceAssumption
  /\ TopicTallyAssumption /\ LifecycleAssumption /\ PassagesAssumption /\ AnswerAssumption
  /\ CallersAssumption /\ JudgeAssumption

Init ==
  /\ subject \in {"notes", "sources", "tail", "presence", "tally", "lifecycle", "passages",
                  "answer", "keys", "members", "judge"}
  /\ NotesInit /\ SourcesInit /\ TailInit /\ PresenceInit /\ TopicTallyInit
  /\ LifecycleInit /\ PassagesInit /\ AnswerInit /\ CallersInit /\ JudgeInit

NextOfTheKept ==
  \/ /\ subject = "presence" /\ PresenceNext
     /\ UNCHANGED <<tallyVars, lifecycleVars, passagesVars, answerVars, callersVars, judgeVars>>
  \/ /\ subject = "tally" /\ TopicTallyNext
     /\ UNCHANGED <<presenceVars, lifecycleVars, passagesVars, answerVars, callersVars, judgeVars>>
  \/ /\ subject = "lifecycle" /\ LifecycleNext
     /\ UNCHANGED <<presenceVars, tallyVars, passagesVars, answerVars, callersVars, judgeVars>>
  \/ /\ subject = "passages" /\ PassagesNext
     /\ UNCHANGED <<presenceVars, tallyVars, lifecycleVars, answerVars, callersVars, judgeVars>>
  \/ /\ subject = "answer" /\ AnswerNext
     /\ UNCHANGED <<presenceVars, tallyVars, lifecycleVars, passagesVars, callersVars, judgeVars>>
  \/ /\ subject = "keys" /\ KeyFileNext
     /\ UNCHANGED <<presenceVars, tallyVars, lifecycleVars, passagesVars, answerVars, judgeVars>>
  \/ /\ subject = "members" /\ MembershipNext
     /\ UNCHANGED <<presenceVars, tallyVars, lifecycleVars, passagesVars, answerVars, judgeVars>>
  \/ /\ subject = "judge" /\ JudgeNext
     /\ UNCHANGED <<presenceVars, tallyVars, lifecycleVars, passagesVars, answerVars, callersVars>>

Next ==
  /\ UNCHANGED subject
  /\ \/ subject = "notes" /\ NotesNext /\ UNCHANGED <<sourcesVars, tailVars, keptVars>>
     \/ subject = "sources" /\ SourcesNext /\ UNCHANGED <<notesVars, tailVars, keptVars>>
     \/ subject = "tail" /\ TailNext /\ UNCHANGED <<notesVars, sourcesVars, keptVars>>
     \/ NextOfTheKept /\ UNCHANGED <<notesVars, sourcesVars, tailVars>>

\* NightsGoOn and SyncsGoOn, of the component that moves.
notNotes == <<subject, sourcesVars, tailVars, keptVars>>
notSources == <<subject, notesVars, tailVars, keptVars>>

Fairness ==
  /\ WF_vars(subject = "notes" /\ CurationRuns /\ UNCHANGED notNotes)
  /\ \A w \in Writers :
       WF_vars(subject = "notes" /\ CommitNote(w) /\ UNCHANGED notNotes)
  /\ \A s \in Syncers :
       WF_vars(subject = "sources" /\ SyncSteps(s) /\ UNCHANGED notSources)

Spec == Init /\ [][Next]_vars /\ Fairness

\* Every component's state stays in its types.
TypesOK ==
  /\ NotesTypeOK /\ SourcesTypeOK /\ TailTypeOK
  /\ PresenceTypeOK /\ TopicTallyTypeOK /\ LifecycleTypeOK
  /\ PassagesTypeOK /\ AnswerTypeOK /\ CallersTypeOK /\ JudgeTypeOK
=============================================================================
