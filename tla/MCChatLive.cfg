\* Broadcasts and logins come to an end: two connections, fairness.
CONSTANTS
  c1 = c1
  c2 = c2
  c3 = c3
  Clients <- TwoClients
  Nobody = Nobody
  HistorySize = 1
  Kinds <- NoHistory
  MaxRequests = 4
  Slow <- TwoClients
SPECIFICATION FairSpec
PROPERTIES
  BroadcastEnds
  LoginEnds
CHECK_DEADLOCK FALSE
