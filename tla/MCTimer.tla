------------------------------ MODULE MCTimer -------------------------------
(* Three items, once or scheduled.                                         *)
EXTENDS Timer, TLC

CONSTANTS i1, i2, i3

MCItems == {i1, i2, i3}
MCDelays == {0, 2}
MCIntervals == {1}

\* No definition tells one item from another.
Symmetry == Permutations(MCItems)
=============================================================================
