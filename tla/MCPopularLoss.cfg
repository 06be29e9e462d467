\* Words of the last seconds that are not counted.
CONSTANTS
  a1 = a1
  a2 = a2
  g1 = g1
  w1 = w1
  w2 = w2
  Adders <- MCAdders
  Getters <- MCGetters
  SaidWords <- MCWords
  HoldTime = 2
  TopSize = 1
  MaxTime = 4
  MaxAdds = 5
SPECIFICATION PopularSpec
INVARIANTS
  HoldTimeCounted
CHECK_DEADLOCK FALSE
