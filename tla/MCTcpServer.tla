---------------------------- MODULE MCTcpServer ----------------------------
(* A server with a limit of two connections and three peers, one of which  *)
(* sends requests.                                                         *)
EXTENDS TcpServer

CONSTANTS c1, c2, c3

MCConns == {c1, c2, c3}
MCTalkers == {c1}
=============================================================================
