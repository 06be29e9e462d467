--------------------------- MODULE MCChatService ---------------------------
(* Three connections, or two for the liveness properties.                  *)
EXTENDS ChatService, TLC

CONSTANTS c1, c2, c3

MCClients == {c1, c2, c3}
TwoClients == {c1, c2}

AllKinds == {"bad", "auth", "clean", "dirty"}
\* The history has no part in what blocks a handler.
NoHistory == {"bad", "auth", "dirty"}

\* No definition tells one connection from another.
Symmetry == Permutations(MCClients)
=============================================================================
