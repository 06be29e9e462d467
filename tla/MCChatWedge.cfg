\* A broadcast that never comes to its end.
CONSTANTS
  c1 = c1
  c2 = c2
  c3 = c3
  Clients <- TwoClients
  Nobody = Nobody
  HistorySize = 1
  Kinds <- NoHistory
  MaxRequests = 4
  Slow = {}
SPECIFICATION FairSpec
PROPERTIES
  BroadcastReachesAll
CHECK_DEADLOCK FALSE
