--------------------------- MODULE MC_TopicTally ---------------------------
(* Model-checking instance of TopicTally: things got and given away, a      *)
(* total stated, money spent.                                               *)
EXTENDS TopicTally

Tells(name, date, op, qty, unit) ==
  [name |-> name, date |-> date, op |-> op, qty |-> qty, unit |-> unit]

MCFacts ==
  {Tells("got two", 1, "add", 2, "items"), Tells("now three", 1, "set", 3, "items"),
   Tells("gave one away", 2, "remove", 1, "items"), Tells("paid two", 2, "add", 2, "usd")}

ASSUME TopicTallyAssumption
=============================================================================
