\* Both coders at full width, with failing writes, a message beyond the coder's
\* limit and a reconnection.
CONSTANTS
  Messages <- MCMessages
  Randoms <- MCRandoms
  SOCKET_PACKET = 92
  MaxSends = 3
  MaxReplies = 2
  MaxConnects = 2
SPECIFICATION Spec
INVARIANTS
  TypeOK
  ReceivedAsSent
  NeverInTheClear
\* The bounds on messages and connections stop it.
CHECK_DEADLOCK FALSE
