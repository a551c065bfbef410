---------------------------- MODULE MCMultitask ----------------------------
(* Multitask for TLC: the idle task, the two kernel tasks and c1, c2.      *)
EXTENDS Multitask, TLC

CONSTANTS c1, c2

Symmetry == Permutations({c1, c2})
=============================================================================
