--------------------------- MODULE MC_KeyedFacts ---------------------------
(* Model-checking instance of KeyedFacts. *)
EXTENDS KeyedFacts, TLC

CONSTANTS v1, v2, v3

MCValues2 == {v1, v2}
MCValues3 == {v1, v2, v3}

Durable == {"committed"}
AllLifecycles == {"committed", "working"}

NoHorizon == {}
OneHorizon == {2}

Symmetry == Permutations(Values)
=============================================================================
