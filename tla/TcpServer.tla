----------------------------- MODULE TcpServer -----------------------------
(***************************************************************************)
(* The server's life: tcp/tcpserver.go with the parts of netdelegate.go    *)
(* and tcpclient.go that share state with it. Goroutines:                  *)
(*   the acceptor   Start and its accept loop;                             *)
(*   the signaller  main, which on SIGINT or SIGTERM runs Stop and exits;  *)
(*   the stop timer time.AfterFunc(stopTimeout), which exits with -1;      *)
(*   per connection its reader (RecvMsg, HandleMsg) and whichever of its   *)
(*                  goroutines runs TcpClient.Stop first.                  *)
(* TcpClient.tla opens up one connection; here it is live, then closing    *)
(* (Running cleared, callbacks not yet run), then closed, or held up in    *)
(* its deleClient callback.                                                *)
(***************************************************************************)
EXTENDS Integers, FiniteSets

CONSTANTS
  Conns,    \* connections that peers may open
  Talkers,  \* bound: those whose peers send requests
  NoConn,   \* no connection
  MaxLoad   \* server.maxLoad; 0 is no limit

ASSUME ConnsAssumption == 
  NoConn \notin Conns /\ IsFiniteSet(Conns) /\ Talkers \subseteq Conns
ASSUME LoadAssumption == MaxLoad \in Nat

VARIABLES
  Running,   \* server.Running
  listener,  \* server.listener
  wg,        \* counter of the embedded sync.WaitGroup
  clients,   \* keys of server.clients
  currLoad,  \* server.currLoad
  apc,       \* where the acceptor is
  acur,      \* the connection the acceptor handles or handled last
  spc,       \* where the signaller is
  scur,      \* the client that stopClients handles
  todo,      \* the clients that stopClients has not come to
  armed,     \* the stop timer is set
  conn,      \* conn[c]: the life of a connection
  cb,        \* clients whose closeCB holds server.deleClient
  wedged,    \* clients whose mutex is held for ever (TcpClient!Wedged)
  rpc,       \* rpc[c]: where the reader of c is
  exited     \* how the process ended

aVars == <<listener, apc, acur>>
sVars == <<spc, scur, todo, armed>>
cVars == <<conn, wedged, rpc>>
vars == <<Running, listener, wg, clients, currLoad, apc, acur, spc, scur, todo,
          armed, conn, cb, wedged, rpc, exited>>

TypeOK ==
  /\ Running \in BOOLEAN
  /\ listener \in {"nil", "open", "closed"}
  /\ wg \in Nat \cup {-1}
  /\ clients \subseteq Conns
  /\ currLoad \in Nat
  /\ apc \in {"start", "add", "listen", "setRunning", "loop", "accept", "load",
              "startClient", "addClient", "addCB", "ended"}
  /\ acur \in Conns \cup {NoConn}
  /\ spc \in {"run", "swap", "close", "done", "arm", "wait", "woken", "lock",
              "next", "remove", "stop", "closeConn", "stuck", "stopped", "quit"}
  /\ scur \in Conns \cup {NoConn}
  /\ todo \subseteq Conns
  /\ armed \in BOOLEAN
  /\ conn \in [Conns -> {"none", "live", "closing", "dele", "closed"}]
  /\ cb \subseteq Conns
  /\ wedged \subseteq Conns
  /\ rpc \in [Conns -> {"recv", "add", "check", "callback", "leave"}]
  /\ exited \in {"no", "0", "-1", "abort"}

Init ==
  /\ Running = FALSE
  /\ listener = "nil"
  /\ wg = 0
  /\ clients = {}
  /\ currLoad = 0
  /\ apc = "start" /\ acur = NoConn
  /\ spc = "run" /\ scur = NoConn /\ todo = {} /\ armed = FALSE
  /\ conn = [c \in Conns |-> "none"]
  /\ cb = {}
  /\ wedged = {}
  /\ rpc = [c \in Conns |-> "recv"]
  /\ exited = "no"

\* stopClients holds server's mutex from its first step to its last; addClient
\* and deleClient take it for one step.
ServerLocked == spc \in {"next", "remove", "stop", "closeConn", "stuck"}

-----------------------------------------------------------------------------
(* The acceptor: Start, startListener.                                     *)

Start ==
  /\ apc = "start"
  /\ Running' = TRUE
  /\ apc' = "add"
  /\ UNCHANGED <<listener, wg, clients, currLoad, acur, sVars, cVars, cb, exited>>

StartAdds ==
  /\ apc = "add"
  /\ wg' = wg + 1
  /\ apc' = "listen"
  /\ UNCHANGED <<Running, listener, clients, currLoad, acur, sVars, cVars, cb, exited>>

\* The address is taken or cannot be resolved: Start returns, with Running set.
Listen ==
  /\ apc = "listen"
  /\ \/ listener' = "open" /\ apc' = "setRunning"
     \/ listener' = "nil" /\ apc' = "ended"
  /\ UNCHANGED <<Running, wg, clients, currLoad, acur, sVars, cVars, cb, exited>>

\* An assignment without the mutex: it undoes a Stop that came before it.
SetRunning ==
  /\ apc = "setRunning"
  /\ Running' = TRUE
  /\ apc' = "loop"
  /\ UNCHANGED <<listener, wg, clients, currLoad, acur, sVars, cVars, cb, exited>>

\* The loop's condition; the deferred Close runs when the loop ends.
LoopTest ==
  /\ apc = "loop"
  /\ \/ Running /\ apc' = "accept" /\ UNCHANGED listener
     \/ ~Running /\ apc' = "ended" /\ listener' = "closed"
  /\ UNCHANGED <<Running, wg, clients, currLoad, acur, sVars, cVars, cb, exited>>

Accept(c) ==
  /\ apc = "accept"
  /\ listener = "open"
  /\ conn[c] = "none"
  /\ acur' = c
  /\ apc' = "load"
  /\ UNCHANGED <<Running, listener, wg, clients, currLoad, sVars, cVars, cb, exited>>

\* A temporary error is retried after a pause; any other ends the loop.
AcceptFails ==
  /\ apc = "accept"
  /\ \/ listener = "open" /\ apc' = "loop" /\ UNCHANGED listener
     \/ apc' = "ended" /\ listener' = "closed"
  /\ UNCHANGED <<Running, wg, clients, currLoad, acur, sVars, cVars, cb, exited>>

UnderLoad == MaxLoad = 0 \/ currLoad < MaxLoad

TestLoad ==
  /\ apc = "load"
  /\ \/ UnderLoad /\ apc' = "startClient" /\ UNCHANGED conn
     \/ ~UnderLoad /\ apc' = "loop" /\ conn' = [conn EXCEPT ![acur] = "closed"]
  /\ UNCHANGED <<Running, listener, wg, clients, currLoad, acur, sVars, cb,
                 wedged, rpc, exited>>

\* client.Start() starts the reader and the writer, or fails on a socket that
\* the peer has already reset.
StartClient ==
  /\ apc = "startClient"
  /\ \/ conn' = [conn EXCEPT ![acur] = "live"] /\ apc' = "addClient"
     \/ conn' = [conn EXCEPT ![acur] = "closed"] /\ apc' = "loop"
  /\ UNCHANGED <<Running, listener, wg, clients, currLoad, acur, sVars, cb,
                 wedged, rpc, exited>>

AddClient ==
  /\ apc = "addClient"
  /\ ~ServerLocked
  /\ clients' = clients \cup {acur}
  /\ currLoad' = currLoad + 1
  /\ apc' = "addCB"
  /\ UNCHANGED <<Running, listener, wg, acur, sVars, cVars, cb, exited>>

\* AddCloseCB registers deleClient only on a client that still runs.
AnyClient == TRUE  \* mutant
StillRuns == conn[acur] = "live"

AddCloseCB ==
  /\ apc = "addCB"
  /\ acur \notin wedged
  /\ cb' = IF StillRuns THEN cb \cup {acur} ELSE cb
  /\ apc' = "loop"
  /\ UNCHANGED <<Running, listener, wg, clients, currLoad, acur, sVars, cVars, exited>>

Acceptor ==
  \/ Start \/ StartAdds \/ Listen \/ SetRunning \/ LoopTest
  \/ \E c \in Conns : Accept(c)
  \/ AcceptFails \/ TestLoad \/ StartClient \/ AddClient \/ AddCloseCB

-----------------------------------------------------------------------------
(* A connection: RecvMsg, HandleMsg, Stop.                                 *)

ReaderGoto(c, label) == rpc' = [rpc EXCEPT ![c] = label]

ReceiveUntilClosed(c) ==  \* mutant: the callbacks run before the socket is closed
  /\ c \in Talkers
  /\ conn[c] \in {"live", "closing", "dele"}
  /\ rpc[c] = "recv"
  /\ ReaderGoto(c, "add")
  /\ UNCHANGED <<Running, wg, clients, currLoad, aVars, sVars, conn, cb, wedged, exited>>
\* Stop closes the socket some time after it has cleared Running.
Receive(c) ==
  /\ c \in Talkers
  /\ conn[c] \in {"live", "closing"}
  /\ rpc[c] = "recv"
  /\ ReaderGoto(c, "add")
  /\ UNCHANGED <<Running, wg, clients, currLoad, aVars, sVars, conn, cb, wedged, exited>>

HandlerAdds(c) ==
  /\ rpc[c] = "add"
  /\ wg' = wg + 1
  /\ ReaderGoto(c, "check")
  /\ UNCHANGED <<Running, clients, currLoad, aVars, sVars, conn, cb, wedged, exited>>

\* HandleMsg: no handler is called once the server is stopped.
HandlerChecks(c) ==
  /\ rpc[c] = "check"
  /\ ReaderGoto(c, IF Running THEN "callback" ELSE "leave")
  /\ UNCHANGED <<Running, wg, clients, currLoad, aVars, sVars, conn, cb, wedged, exited>>

\* The handler returns or panics; it may also never do either.
HandlerReturns(c) ==
  /\ rpc[c] = "callback"
  /\ ReaderGoto(c, "leave")
  /\ UNCHANGED <<Running, wg, clients, currLoad, aVars, sVars, conn, cb, wedged, exited>>

HandlerLeaves(c) ==
  /\ rpc[c] = "leave"
  /\ wg' = wg - 1
  /\ ReaderGoto(c, "recv")
  /\ UNCHANGED <<Running, clients, currLoad, aVars, sVars, conn, cb, wedged, exited>>

\* Stop by a goroutine of the connection: its critical section.
ClientStops(c) ==
  /\ conn[c] = "live"
  /\ conn' = [conn EXCEPT ![c] = "closing"]
  /\ UNCHANGED <<Running, wg, clients, currLoad, aVars, sVars, cb, wedged, rpc, exited>>

\* Conn.Close() and Stop's loop over client.closeCB, read without the client's
\* mutex; it may wait for ever, as in CloseReturns.
RunCloseCB(c) ==
  /\ conn[c] = "closing"
  /\ ~(spc = "closeConn" /\ scur = c)
  /\ conn' = [conn EXCEPT ![c] = IF c \in cb THEN "dele" ELSE "closed"]
  /\ UNCHANGED <<Running, wg, clients, currLoad, aVars, sVars, cb, wedged, rpc, exited>>

DeleClientKeepsLoad(c) ==  \* mutant: currLoad is not given back
  /\ conn[c] = "dele"
  /\ ~ServerLocked
  /\ clients' = clients \ {c}
  /\ conn' = [conn EXCEPT ![c] = "closed"]
  /\ UNCHANGED <<Running, wg, currLoad, aVars, sVars, cb, wedged, rpc, exited>>
DeleClient(c) ==
  /\ conn[c] = "dele"
  /\ ~ServerLocked
  /\ clients' = clients \ {c}
  /\ currLoad' = currLoad - 1
  /\ conn' = [conn EXCEPT ![c] = "closed"]
  /\ UNCHANGED <<Running, wg, aVars, sVars, cb, wedged, rpc, exited>>

\* The reader answers a bad request on a connection that was stopped and locks
\* itself out (TcpClient!SendRunsCallback): the client's mutex is lost.
Wedge(c) ==
  /\ conn[c] \notin {"none", "live"}
  /\ rpc[c] = "callback"
  /\ c \notin wedged
  /\ wedged' = wedged \cup {c}
  /\ UNCHANGED <<Running, wg, clients, currLoad, aVars, sVars, conn, cb, rpc, exited>>

Connection(c) ==
  \/ Receive(c) \/ HandlerAdds(c) \/ HandlerChecks(c)
  \/ c \notin wedged /\ HandlerReturns(c)
  \/ HandlerLeaves(c) \/ ClientStops(c) \/ RunCloseCB(c) \/ DeleClient(c)
  \/ Wedge(c)

-----------------------------------------------------------------------------
(* The signaller: Serve's signal handler, Stop, stopClients, os.Exit(0).   *)

Signal ==
  /\ spc = "run"
  /\ spc' = "swap"
  /\ UNCHANGED <<Running, wg, clients, currLoad, aVars, scur, todo, armed, cVars, cb,
                 exited>>

StopSwap ==
  /\ spc = "swap"
  /\ Running' = FALSE
  /\ spc' = IF Running THEN "close" ELSE "quit"
  /\ UNCHANGED <<wg, clients, currLoad, aVars, scur, todo, armed, cVars, cb, exited>>

\* Closing a nil listener is an error that nobody looks at.
CloseListener ==
  /\ spc = "close"
  /\ listener' = IF listener = "open" THEN "closed" ELSE listener
  /\ spc' = "done"
  /\ UNCHANGED <<Running, wg, clients, currLoad, apc, acur, scur, todo, armed, cVars,
                 cb, exited>>

\* server.Done(): a counter that becomes negative panics and ends Stop.
StopDone ==
  /\ spc = "done"
  /\ wg' = wg - 1
  /\ spc' = IF wg > 0 THEN "arm" ELSE "quit"
  /\ UNCHANGED <<Running, clients, currLoad, aVars, scur, todo, armed, cVars, cb, exited>>

ArmLate ==  \* mutant: no timer
  /\ spc = "arm"
  /\ spc' = "wait"
  /\ UNCHANGED <<Running, wg, clients, currLoad, aVars, scur, todo, armed, cVars, cb,
                 exited>>
ArmTimer ==
  /\ spc = "arm"
  /\ armed' = TRUE
  /\ spc' = "wait"
  /\ UNCHANGED <<Running, wg, clients, currLoad, aVars, scur, todo, cVars, cb, exited>>

Impatient == TRUE  \* mutant
NoHandlers == wg = 0

Wait ==
  /\ spc = "wait"
  /\ NoHandlers
  /\ spc' = "woken"
  /\ UNCHANGED <<Running, wg, clients, currLoad, aVars, scur, todo, armed, cVars, cb,
                 exited>>

\* sync.WaitGroup panics when its counter has moved again before Wait returns;
\* Stop recovers and returns without stopClients.
WaitReturns ==
  /\ spc = "woken"
  /\ spc' \in {"lock", IF wg = 0 THEN "lock" ELSE "quit"}
  /\ UNCHANGED <<Running, wg, clients, currLoad, aVars, scur, todo, armed, cVars, cb,
                 exited>>

StopClients ==
  /\ spc = "lock"
  /\ todo' = clients
  /\ spc' = "next"
  /\ UNCHANGED <<Running, wg, clients, currLoad, aVars, scur, armed, cVars, cb, exited>>

NextClient(c) ==
  /\ spc = "next"
  /\ c \in todo
  /\ scur' = c
  /\ todo' = todo \ {c}
  /\ spc' = "remove"
  /\ UNCHANGED <<Running, wg, clients, currLoad, aVars, armed, cVars, cb, exited>>

RemoveNothing ==  \* mutant: the callback stays
  /\ spc = "remove"
  /\ scur \notin wedged
  /\ spc' = "stop"
  /\ UNCHANGED <<Running, wg, clients, currLoad, aVars, scur, todo, armed, cVars, cb,
                 exited>>
RemoveCloseCB ==
  /\ spc = "remove"
  /\ scur \notin wedged
  /\ cb' = cb \ {scur}
  /\ spc' = "stop"
  /\ UNCHANGED <<Running, wg, clients, currLoad, aVars, scur, todo, armed, cVars, exited>>

\* The delete of RemoveCloseCB meets the loop of a Stop over the same map: the
\* runtime may end the process (concurrent map iteration and map write).
MapRaceAborts ==
  /\ spc = "remove"
  /\ scur \notin wedged
  /\ conn[scur] = "closing"
  /\ exited' = "abort"
  /\ UNCHANGED <<Running, wg, clients, currLoad, aVars, sVars, cVars, cb>>

\* client.Stop(): its critical section.
StopClient ==
  /\ spc = "stop"
  /\ scur \notin wedged
  /\ IF conn[scur] = "live"
       THEN spc' = "closeConn" /\ conn' = [conn EXCEPT ![scur] = "closing"]
       ELSE spc' = "next" /\ UNCHANGED conn
  /\ UNCHANGED <<Running, wg, clients, currLoad, aVars, scur, todo, armed, wedged, rpc,
                 cb, exited>>

\* Conn.Close() returns, when the peer lets the reader's call on the socket end
\* (TcpClient!CloseChannel). When deleClient was registered since RemoveCloseCB,
\* the callback waits for the mutex its own goroutine holds.
CloseReturns ==
  /\ spc = "closeConn"
  /\ IF scur \in cb
       THEN spc' = "stuck" /\ conn' = [conn EXCEPT ![scur] = "dele"]
       ELSE spc' = "next" /\ conn' = [conn EXCEPT ![scur] = "closed"]
  /\ UNCHANGED <<Running, wg, clients, currLoad, aVars, scur, todo, armed, wedged, rpc,
                 cb, exited>>

AnyLeft == TRUE  \* mutant
NoneLeft == todo = {}

StopClientsEnds ==
  /\ spc = "next"
  /\ NoneLeft
  /\ clients' = {}
  /\ spc' = "stopped"
  /\ UNCHANGED <<Running, wg, currLoad, aVars, scur, todo, armed, cVars, cb, exited>>

Exit ==
  /\ spc \in {"stopped", "quit"}
  /\ exited' = "0"
  /\ UNCHANGED <<Running, wg, clients, currLoad, aVars, sVars, cVars, cb>>

TimerFires ==
  /\ armed
  /\ exited' = "-1"
  /\ UNCHANGED <<Running, wg, clients, currLoad, aVars, sVars, cVars, cb>>

Signaller ==
  \/ Signal \/ StopSwap \/ CloseListener \/ StopDone \/ ArmTimer \/ Wait
  \/ WaitReturns \/ StopClients
  \/ \E c \in Conns : NextClient(c)
  \/ RemoveCloseCB \/ MapRaceAborts \/ StopClient \/ StopClientsEnds \/ Exit

-----------------------------------------------------------------------------

Next ==
  /\ exited = "no"
  /\ \/ Acceptor \/ Signaller \/ CloseReturns \/ TimerFires
     \/ \E c \in Conns : Connection(c)

Spec == Init /\ [][Next]_vars

\* The signaller and the timer run when they can. A signal, a peer, a handler's
\* return and that of Conn.Close() are nobody's duty.
Fairness ==
  /\ WF_vars(exited = "no" /\ spc # "run" /\ Signaller)
  /\ WF_vars(exited = "no" /\ TimerFires)

FairSpec == Spec /\ Fairness

-----------------------------------------------------------------------------
(* Properties.                                                             *)

Live == {c \in Conns : conn[c] = "live"}

\* currLoad is the number of clients in the map, whatever accepts and closes
\* interleave, until stopClients drops the map without giving the load back
\* (tcpserver.go:40, :47, :59).
LoadCounts ==
  IF spc = "stopped" THEN currLoad >= Cardinality(clients)
                     ELSE currLoad = Cardinality(clients)

\* A closed connection stays in the server's map, and in its load, only when
\* it was stopped before AddCloseCB or is in the hands of stopClients: once
\* registered, deleClient is never missed (tcpserver.go:107-109).
StaleOnlyIfUnregistered ==
  \A c \in clients : conn[c] = "closed" => c \notin cb

\* startListener has set Running after Stop had cleared it: its listen was under
\* way while Stop closed the listener of before, if any (tcpserver.go:74-89, :168).
\* The acceptor then goes on as if nothing had happened.
RunsAgain == Running

\* When Wait has let Stop go on, no handler is running any more, unless the
\* acceptor set Running again after Stop had cleared it (tcpserver.go:89,
\* netdelegate.go:352-356).
PastWait == {"woken", "lock", "next", "remove", "stop", "closeConn", "stuck", "stopped"}
DrainedMeansQuiet ==
  spc \in PastWait => RunsAgain \/ \A c \in Conns : rpc[c] # "callback"

\* After stopClients at most one connection is still live, the one that the
\* acceptor had in its hands when the listener was closed; unless the acceptor
\* set Running again, and accepts further connections, any number of which stay
\* live (tcpserver.go:53-59, :89).
StopReachesAll == spc = "stopped" => RunsAgain \/ Live \subseteq {acur}

\* stopClients waits for its own mutex only on the connection that was accepted
\* last, for which the acceptor registered deleClient between RemoveCloseCB and
\* Stop; unless the acceptor set Running again, when it may have gone on to
\* another connection since (tcpserver.go:55-56, :89, :109).
StuckOnlyOnLastAccepted == spc = "stuck" => RunsAgain \/ scur = acur

\* A signal ends the process, whatever hangs: a handler that never returns, a
\* mutex that is lost, stopClients waiting for itself or for a silent peer's
\* connection to close (tcpserver.go:56, :172).
SignalEndsProcess == spc # "run" ~> exited # "no"

-----------------------------------------------------------------------------
(* The connections, as Connection.tla says what they are. The server does  *)
(* not look at what they send.                                             *)

Phase(c) == [none |-> "new", live |-> "up", closing |-> "down", dele |-> "shut",
             closed |-> "closed"][conn[c]]

Conn(c) == INSTANCE Connection WITH
  Outside <- TRUE,
  phase <- Phase(c),
  handling <- rpc[c] # "recv",
  stopDue <- FALSE,
  wedged <- c \in wedged,
  accepted <- 0

\* Whatever the acceptor, the shutdown and the readers do, each connection does
\* only what a TcpClient does: nobody starts one twice, runs its callbacks
\* twice or brings back one that is down (tcpserver.go:53-57, :101-109).
KeepsConnections ==
  /\ \A c \in Conns : Conn(c)!Init
  /\ [][\A c \in Conns : [Conn(c)!Next]_(Conn(c)!vars)]_vars
=============================================================================
