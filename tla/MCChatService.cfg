\* The chat service: logins, broadcasts, error replies, all interleavings.
CONSTANTS
  c1 = c1
  c2 = c2
  c3 = c3
  Clients <- MCClients
  Nobody = Nobody
  HistorySize = 1
  Kinds <- AllKinds
  MaxRequests = 3
  Slow = {}
SPECIFICATION Spec
SYMMETRY Symmetry
INVARIANTS
  BroadcastOrder
  MissedOnlyIfPending
PROPERTIES
  KeepsConnections
\* Peers may stop sending; a reader may lose its mutex.
CHECK_DEADLOCK FALSE
