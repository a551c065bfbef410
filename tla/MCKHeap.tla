------------------------------ MODULE MCKHeap ------------------------------
(* KHeap for TLC: two tasks that do the same things, so that exchanging    *)
(* them changes nothing.                                                   *)
EXTENDS KHeap, TLC

CONSTANTS t1, t2

Symmetry == Permutations({t1, t2})
=============================================================================
