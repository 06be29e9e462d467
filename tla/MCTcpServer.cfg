\* Accept loop, connections and shutdown, all interleavings.
CONSTANTS
  c1 = c1
  c2 = c2
  c3 = c3
  Conns <- MCConns
  Talkers <- MCTalkers
  NoConn = NoConn
  MaxLoad = 2
SPECIFICATION FairSpec
INVARIANTS
  LoadCounts
  StaleOnlyIfUnregistered
  DrainedMeansQuiet
  StopReachesAll
  StuckOnlyOnLastAccepted
PROPERTIES
  SignalEndsProcess
  KeepsConnections
\* The process ends.
CHECK_DEADLOCK FALSE
