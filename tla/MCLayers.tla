----------------------------- MODULE MCLayers -----------------------------
(* Layers for TLC: bytes of three bits, a table of three entries and three *)
(* other hosts, data of no, one, two and three bytes.                      *)
EXTENDS Layers, TLC

MCPayloads == {<<>>, <<5>>, <<7, 0>>, <<7, 7, 7>>}
Symmetry == Permutations(Macs)
=============================================================================
