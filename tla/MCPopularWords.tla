-------------------------- MODULE MCPopularWords --------------------------
(* Two goroutines that add, one that asks, two words, a window of two      *)
(* seconds on a clock of five.                                             *)
EXTENDS PopularWords, TLC

CONSTANTS a1, a2, g1, w1, w2

MCAdders == {a1, a2}
MCGetters == {g1}
MCWords == {w1, w2}

\* No definition tells one goroutine or one word from another.
Symmetry == Permutations(MCAdders) \cup Permutations(MCWords)
=============================================================================
