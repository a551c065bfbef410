------------------------------- MODULE MCBoot -------------------------------
(* Boot for TLC: a screen of two rows of two columns, tables of three      *)
(* entries, eight pages; one scan code with a name.                        *)
EXTENDS Boot, TLC

MCWelcome == <<"w", NewLine>>
MCTexts == {<<"a", "b", "c">>, <<"d", NewLine>>}
MCNames == [k \in {0} |-> <<"k">>]
MCUnknown == <<"u">>
MCReleased == <<"r">>
MCSymmetry == Permutations(Printers \ {Entry0})
=============================================================================
