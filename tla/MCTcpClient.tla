---------------------------- MODULE MCTcpClient ----------------------------
(* One connection, two senders, one outside stopper, a channel of two.      *)
EXTENDS TcpClient

CONSTANTS s1, s2, k1

MCSenders == {s1, s2}
MCStoppers == {k1}
=============================================================================
