\* The history's slices implement a list of the newest messages.
CONSTANTS
  r1 = r1
  r2 = r2
  Readers <- MCReaders
  HistorySize = 3
  MaxAdds = 7
SPECIFICATION Spec
INVARIANTS
  TypeOK
  HoldsTheNewest
PROPERTIES
  ImplementsLog
\* The bound on messages stops it.
CHECK_DEADLOCK FALSE
