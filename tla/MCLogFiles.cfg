\* Rotation by day and by size, with and without a buffer, across a restart.
CONSTANTS
  g1 = g1
  g2 = g2
  Goroutines <- MCGoroutines
  MaxFileSize = 2
  Lengths = {1, 3}
  MaxDay = 1
  MaxLines = 4
  MaxStarts = 2
SPECIFICATION Spec
SYMMETRY Symmetry
INVARIANTS
  RightDay
  KeptOnce
  LimitKept
\* The bounds stop it.
CHECK_DEADLOCK FALSE
