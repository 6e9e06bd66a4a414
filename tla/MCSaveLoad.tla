---------------------------- MODULE MCSaveLoad ----------------------------
(* SaveLoad for TLC: small sets of model values. *)
EXTENDS SaveLoad, TLC

CONSTANTS p1, p2, g1, g2, b1, b2

OnePath  == {p1}
TwoPaths == {p1, p2}
OneGen   == {g1}
TwoGens  == {g1, g2}
OneBase  == {b1}
TwoBases == {b1, b2}

Symmetry == Permutations(Paths) \cup Permutations(Gens) \cup Permutations(Bases)
=============================================================================
