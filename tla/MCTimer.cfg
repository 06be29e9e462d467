\* The heap, its signal and the firing goroutine implement alarms.
CONSTANTS
  i1 = i1
  i2 = i2
  i3 = i3
  Items <- MCItems
  NoItem = NoItem
  Delays <- MCDelays
  Intervals <- MCIntervals
  MaxTime = 2
SPECIFICATION Spec
SYMMETRY Symmetry
INVARIANTS
  TypeOK
  IndexTrue
  NotForgotten
PROPERTIES
  ImplementsAlarms
\* The bound on the clock stops it.
CHECK_DEADLOCK FALSE
