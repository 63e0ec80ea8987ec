------------------------------- MODULE MCRoom -------------------------------
(* Model-checking instance of Room: client ids are model values.          *)
EXTENDS Room, TLC

CONSTANTS a, b, c

MCTwoIDs   == {a, b}
MCThreeIDs == {a, b, c}

MCSymmetry2 == Permutations(MCTwoIDs)
MCSymmetry3 == Permutations(MCThreeIDs)
=============================================================================
