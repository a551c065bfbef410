------------------------------- MODULE MCUdp -------------------------------
(* Udp for TLC: the tasks and the datagrams can be exchanged for others.   *)
EXTENDS Udp, TLC

CONSTANTS t1, t2, d1, d2, d3

Symmetry == Permutations({t1, t2}) \cup Permutations({d1, d2, d3})
=============================================================================
