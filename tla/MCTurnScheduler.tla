-------------------------- MODULE MCTurnScheduler --------------------------
(* Symmetry of the small instances of TurnScheduler that TLC checks.       *)
EXTENDS TurnScheduler, TLC

Symmetry == Permutations(Threads) \union Permutations(Turns) \union Permutations(Callers)
=============================================================================
