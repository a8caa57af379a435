--------------------------- MODULE EpisodeLedger ---------------------------
(***************************************************************************)
(* What the ingestion side of the service promises of one episode, without *)
(* workers, transactions or retries: it is accepted, then settled once -   *)
(* folded into memory, declined by the gate, or dead-lettered - and its    *)
(* effect on memory happens with the settling, never before or again.      *)
(* Retention forgets settled episodes, and only those that were processed. *)
(***************************************************************************)
EXTENDS Naturals

CONSTANT Events

VARIABLES
  status,   \* event -> where it stands
  effects   \* event -> how often it changed memory

ledger == <<status, effects>>

Processed == {"folded", "declined"}
Statuses == {"absent", "pending", "dead"} \union Processed

Init ==
  /\ status = [e \in Events |-> "absent"]
  /\ effects = [e \in Events |-> 0]

\* The events of E go from one of the statuses in From to what to[e] says, and
\* those that become folded have their effect.
Move(E, From, to) ==
  /\ \A e \in E : status[e] \in From
  /\ status' = [e \in Events |-> IF e \in E THEN to[e] ELSE status[e]]
  /\ effects' = [e \in Events |->
                   IF e \in E /\ to[e] = "folded" THEN effects[e] + 1 ELSE effects[e]]

Accept == \E E \in SUBSET Events : Move(E, {"absent"}, [e \in E |-> "pending"])

SettleAtOnce ==
  \E E \in SUBSET Events : \E to \in [E -> Processed] : Move(E, {"absent"}, to)

Settle ==
  \E e \in Events : \E end \in Processed \union {"dead"} :
    Move({e}, {"pending"}, [x \in {e} |-> end])

Forget == \E E \in SUBSET Events : Move(E, Processed, [e \in E |-> "absent"])

Next == Accept \/ SettleAtOnce \/ Settle \/ Forget

Spec == Init /\ [][Next]_ledger
=============================================================================
