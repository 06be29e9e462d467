----------------------------- MODULE Connection -----------------------------
(***************************************************************************)
(* What a connection of the server promises to whoever uses it: the life   *)
(* of one connection as service.go and tcpserver.go see it, without the    *)
(* goroutines, the channel and the mutex that tcpclient.go makes it of.    *)
(*                                                                         *)
(* TcpClient implements this module. ChatService and TcpServer know their  *)
(* connections by it only: each of their steps is, for each connection, a  *)
(* step of this module or none.                                            *)
(***************************************************************************)
EXTENDS Naturals

CONSTANT Outside  \* somebody outside the connection may stop it

VARIABLES
  phase,     \* how far the connection's life has come
  handling,  \* its reader is in a handler
  stopDue,   \* a message whose callback stops the connection is on its way
  wedged,    \* its mutex is lost
  accepted   \* how many messages it accepted, of those that its user counts

vars == <<phase, handling, stopDue, wedged, accepted>>

\* A connection is new until Start; up while Running; down from Stop's critical
\* section to the close of the socket; shut until the close callbacks have run.
Phases == {"new", "up", "down", "shut", "closed"}

Init ==
  /\ phase \in {"new", "up"}
  /\ handling = FALSE
  /\ stopDue = FALSE
  /\ wedged = FALSE
  /\ accepted = 0

\* Start runs the reader and the writer, or the socket is closed unused.
Start ==
  /\ phase = "new"
  /\ phase' \in {"up", "closed"}
  /\ UNCHANGED <<handling, stopDue, wedged, accepted>>

\* The reader takes a packet: as long as the socket is open, which is longer
\* than the connection is up.
Receive ==
  /\ phase \in {"up", "down"}
  /\ ~handling
  /\ handling' = TRUE
  /\ UNCHANGED <<phase, stopDue, wedged, accepted>>

\* A reader that has lost the mutex does not come back from its handler.
HandlerReturns ==
  /\ handling
  /\ ~wedged
  /\ handling' = FALSE
  /\ UNCHANGED <<phase, stopDue, wedged, accepted>>

\* SendAsync puts a message in the channel, only while the connection is up.
\* Only a handler passes a callback; its answer can be the last thing it does.
Accept(counted, callback) ==
  /\ phase = "up"
  /\ accepted' = IF counted THEN accepted + 1 ELSE accepted
  /\ stopDue' = (stopDue \/ callback)
  /\ callback => handling
  /\ handling' \in {handling, FALSE}
  /\ UNCHANGED <<phase, wedged>>

\* Stop's critical section: by the reader, which is then in no handler, by the
\* writer, for the callback of a message, or by somebody outside. A user may
\* see more of Stop in one step.
Stop ==
  /\ phase = "up"
  /\ ~handling \/ stopDue \/ Outside
  /\ phase' \in {"down", "shut", "closed"}
  /\ stopDue' = FALSE
  /\ UNCHANGED <<handling, wedged, accepted>>

\* The rest of Stop, once: the socket is closed, then the callbacks run.
Teardown ==
  /\ \/ phase = "down" /\ phase' \in {"shut", "closed"}
     \/ phase = "shut" /\ phase' = "closed"
  /\ UNCHANGED <<handling, stopDue, wedged, accepted>>

\* The handler answers a bad request on a connection that is no longer up:
\* Stop waits for the mutex under which SendAsync calls it.
Wedge ==
  /\ phase \in {"down", "shut", "closed"}
  /\ handling
  /\ ~wedged
  /\ wedged' = TRUE
  /\ UNCHANGED <<phase, handling, stopDue, accepted>>

Next ==
  \/ Start \/ Receive \/ HandlerReturns
  \/ \E counted, callback \in BOOLEAN : Accept(counted, callback)
  \/ Stop \/ Teardown \/ Wedge

Spec == Init /\ [][Next]_vars

-----------------------------------------------------------------------------

\* A connection that was stopped never comes back: it accepts nothing more, its
\* socket is not opened again, and a mutex that is lost stays lost, with the
\* reader that lost it in its handler (tcpclient.go:171-201, :289, :334-342).
StoppedForGood ==
  [][phase \notin {"new", "up"} =>
       /\ phase' \notin {"new", "up"}
       /\ phase \in {"shut", "closed"} => phase' \in {"shut", "closed"}
       /\ accepted' = accepted
       /\ wedged => wedged' /\ handling']_vars
=============================================================================
