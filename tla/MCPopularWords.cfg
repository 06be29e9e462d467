\* Counting, clearing and asking, all interleavings.
CONSTANTS
  a1 = a1
  a2 = a2
  g1 = g1
  w1 = w1
  w2 = w2
  Adders <- MCAdders
  Getters <- MCGetters
  SaidWords <- MCWords
  HoldTime = 2
  TopSize = 1
  MaxTime = 4
  MaxAdds = 4
SPECIFICATION PopularSpec
SYMMETRY Symmetry
INVARIANTS
  CurrentSecondCounted
  NothingInvented
  AnswersAreRecent
\* The bounds on time and words stop it.
CHECK_DEADLOCK FALSE
