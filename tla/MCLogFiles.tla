----------------------------- MODULE MCLogFiles -----------------------------
(* Two goroutines that log across a midnight.                              *)
EXTENDS LogFiles, TLC

CONSTANTS g1, g2

MCGoroutines == {g1, g2}

\* No definition tells one goroutine from the other.
Symmetry == Permutations(MCGoroutines)
=============================================================================
