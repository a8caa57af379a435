-------------------------- MODULE MC_EpisodeQueue --------------------------
(* Model-checking instance of EpisodeQueue. *)
EXTENDS EpisodeQueue

CONSTANTS a, b, none, c1, c2, r1, r2

TwoEvents == {a, b}
OnlyA == {a}
Nobody == {}
TwoClients == {c1, c2}
OneClient == {c1}
TwoReplicas == {r1, r2}
OneReplica == {r1}
=============================================================================
