--------------------------- MODULE MC_PooledLock ---------------------------
(* Model-checking instance of PooledLock. *)
EXTENDS PooledLock

CONSTANTS r1, r2

TwoReplicas == {r1, r2}
=============================================================================
