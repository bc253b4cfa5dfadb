----------------------------- MODULE MCTerminal -----------------------------
(* Instances of Terminal for TLC.                                           *)
EXTENDS Terminal, TLC

CONSTANTS u1, p1, p2, b1, s1, s2

OneRow   == {<<u1, p1>>}
OtherRow == {<<u1, p2>>}

SlotSymmetry == Permutations({s1, s2})

=============================================================================
