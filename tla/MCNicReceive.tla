---------------------------- MODULE MCNicReceive ----------------------------
(* NicReceive for TLC: a short and a long frame, whose lengths a word does *)
(* and does not divide, a ring of three to four frames and a queue of two. *)
EXTENDS NicReceive

Frames == {[size |-> 2], [size |-> 3], Torn}
=============================================================================
