\* A connection with two senders and a stopper: all interleavings.
CONSTANTS
  s1 = s1
  s2 = s2
  k1 = k1
  Senders <- MCSenders
  Stoppers <- MCStoppers
  Reader = Reader
  Writer = Writer
  NoThread = NoThread
  QueueSize = 2
  MaxCalls = 3
SPECIFICATION FairSpec
INVARIANTS
  TeardownOnce
  NoSendOnClosedChannel
  OnlyCallbackWedges
  WireOrder
  NothingLeftBehind
PROPERTIES
  ErrorReplyStops
  StopCompletes
  ImplementsConnection
\* The system stops when the connection is torn down.
CHECK_DEADLOCK FALSE
