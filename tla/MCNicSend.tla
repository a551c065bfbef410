----------------------------- MODULE MCNicSend -----------------------------
(* NicSend for TLC: two tasks send four frames through two places of the  *)
(* queue and two descriptors.                                              *)
EXTENDS NicSend

CONSTANTS p1, p2, f1, f2, f3, f4
=============================================================================
