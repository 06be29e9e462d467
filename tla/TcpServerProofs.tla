--------------------------- MODULE TcpServerProofs ---------------------------
(***************************************************************************)
(* What the runs of TcpServer check, for any finite set of connections and *)
(* any load limit: the server's books while connections come and go, and   *)
(* what a shutdown reaches.                                                *)
(***************************************************************************)
EXTENDS TcpServer, FiniteSetTheorems, TLAPS

-----------------------------------------------------------------------------
(* The parts of the inductive invariant.                                   *)

\* Before the accept loop there is no connection, a connection that nobody has
\* started has left no trace, and what the acceptor has in its hands is a
\* connection that has got as far as the acceptor has.
Fresh(c) == c \notin clients /\ c \notin cb /\ rpc[c] = "recv"

PlaceInv ==
  /\ apc \in {"start", "add", "listen", "setRunning"} =>
       \A c \in Conns : conn[c] = "none"
  /\ \A c \in Conns : conn[c] = "none" => Fresh(c)
  /\ apc \in {"load", "startClient", "addClient", "addCB"} => acur \in Conns
  /\ apc \in {"load", "startClient"} => conn[acur] = "none"
  /\ apc = "addClient" => acur \notin clients
  /\ apc \in {"addClient", "addCB"} =>
       acur \notin cb /\ conn[acur] \in {"live", "closing", "closed"}
  /\ spc \in {"remove", "stop", "closeConn", "stuck"} => scur \in Conns
  /\ spc = "closeConn" => conn[scur] = "closing"

\* The connections whose deleClient may still run and give load back.
Owing ==
  {c \in Conns : \/ conn[c] = "dele"
                 \/ c \in cb /\ conn[c] \in {"live", "closing"}
                 \/ c = acur /\ apc = "addCB"}

\* They are in the map until stopClients drops it. After that the load still
\* has what they and the clients that came since will give back.
LoadInv ==
  /\ spc # "stopped" => Owing \subseteq clients /\ currLoad = Cardinality(clients)
  /\ spc = "stopped" => currLoad >= Cardinality(clients \cup Owing)

\* The WaitGroup counts Start, until Stop's Done, and the handlers.
Busy == {c \in Conns : rpc[c] \in {"check", "callback", "leave"}}
Begun == IF apc \in {"start", "add"} THEN 0 ELSE 1
Stopping == {"wait"} \cup PastWait

WgInv ==
  /\ \/ spc \notin {"arm"} \cup Stopping /\ wg = Begun + Cardinality(Busy)
     \/ spc \in {"arm", "quit"} \cup Stopping /\ wg = Begun + Cardinality(Busy) - 1
  /\ spc \in {"arm"} \cup Stopping => apc \notin {"start", "add"}

\* Once Stop has closed the listener and as long as nobody has set Running again
\* nothing is accepted.
ShutInv ==
  spc \in {"done", "arm"} \cup Stopping /\ ~Running /\ listener = "open"
    => apc = "setRunning"

\* Who is live is in the map, or the acceptor is about to add it.
LiveInv ==
  spc # "stopped" =>
    \A c \in Live : c \in clients \/ (c = acur /\ apc = "addClient")

\* What stopClients has come to is not live, but for what the acceptor has.
ReachInv ==
  /\ spc \in {"next", "remove", "stop", "closeConn"} /\ ~Running =>
       \A c \in Live : c \in todo \/ c = acur \/ (c = scur /\ spc \in {"remove", "stop"})
  /\ StopReachesAll

\* Its callback, once removed, is back only if the acceptor has registered it.
StuckInv ==
  /\ spc \in {"stop", "closeConn", "stuck"} /\ scur \in cb => Running \/ scur = acur
  /\ spc = "stuck" => scur \in cb

IInv ==
  /\ PlaceInv /\ LoadInv /\ WgInv /\ ShutInv /\ LiveInv /\ ReachInv /\ StuckInv
  /\ StaleOnlyIfUnregistered /\ DrainedMeansQuiet

-----------------------------------------------------------------------------

LEMMA InitInv == Init => TypeOK /\ IInv
<1> SUFFICES ASSUME Init PROVE TypeOK /\ IInv
  OBVIOUS
<1>1. TypeOK
  BY DEF Init, TypeOK
<1>2. Owing = {} /\ Busy = {} /\ clients = {} /\ Cardinality({}) = 0
  BY FS_EmptySet DEF Init, Owing, Busy
<1>3. PlaceInv
  BY DEF Init, PlaceInv, Fresh
<1>4. LoadInv
  BY <1>2 DEF Init, LoadInv
<1>5. WgInv
  BY <1>2 DEF Init, WgInv, Begun, Stopping, PastWait
<1>6. ShutInv /\ LiveInv /\ ReachInv /\ StuckInv
  BY DEF Init, ShutInv, LiveInv, ReachInv, StuckInv, StopReachesAll, RunsAgain, Live,
         Stopping, PastWait
<1>7. StaleOnlyIfUnregistered /\ DrainedMeansQuiet
  BY DEF Init, StaleOnlyIfUnregistered, DrainedMeansQuiet, PastWait
<1> QED
  BY <1>1, <1>3, <1>4, <1>5, <1>6, <1>7 DEF IInv

LEMMA NextPlace == TypeOK /\ PlaceInv /\ Next => PlaceInv'
<1> SUFFICES ASSUME TypeOK, PlaceInv, Next PROVE PlaceInv'
  OBVIOUS
<1> USE DEF PlaceInv, Fresh, TypeOK
<1>1. CASE Acceptor
  <2>1. CASE Start \/ StartAdds \/ Listen \/ SetRunning \/ LoopTest \/ AcceptFails
    BY <2>1 DEF Start, StartAdds, Listen, SetRunning, LoopTest, AcceptFails, sVars, cVars
  <2>2. ASSUME NEW c \in Conns, Accept(c) PROVE PlaceInv'
    BY <2>2 DEF Accept, sVars, cVars
  <2>3. CASE TestLoad
    BY <2>3 DEF TestLoad, sVars
  <2>4. CASE StartClient
    BY <2>4 DEF StartClient, sVars
  <2>5. CASE AddClient
    BY <2>5 DEF AddClient, sVars, cVars
  <2>6. CASE AddCloseCB
    BY <2>6 DEF AddCloseCB, StillRuns, sVars, cVars
  <2> QED
    BY <1>1, <2>1, <2>2, <2>3, <2>4, <2>5, <2>6, Zenon DEF Acceptor
<1>2. ASSUME NEW c \in Conns, Connection(c) PROVE PlaceInv'
  <2>1. CASE Receive(c)
    BY <2>1 DEF Receive, ReaderGoto, sVars, aVars
  <2>2. CASE HandlerAdds(c) \/ HandlerChecks(c) \/ HandlerReturns(c) \/ HandlerLeaves(c)
    BY <2>2 DEF HandlerAdds, HandlerChecks, HandlerReturns, HandlerLeaves, ReaderGoto,
                sVars, aVars
  <2>3. CASE ClientStops(c) \/ RunCloseCB(c)
    BY <2>3 DEF ClientStops, RunCloseCB, sVars, aVars
  <2>4. CASE DeleClient(c)
    BY <2>4 DEF DeleClient, sVars, aVars
  <2>5. CASE Wedge(c)
    BY <2>5 DEF Wedge, sVars, aVars
  <2> QED
    BY <1>2, <2>1, <2>2, <2>3, <2>4, <2>5, Zenon DEF Connection
<1>3. CASE Signaller \/ CloseReturns \/ TimerFires
  <2>1. CASE Signal \/ StopSwap \/ CloseListener \/ StopDone \/ ArmTimer \/ Wait
    BY <2>1 DEF Signal, StopSwap, CloseListener, StopDone, ArmTimer, Wait, aVars, cVars
  <2>2. CASE WaitReturns \/ StopClients \/ MapRaceAborts \/ Exit \/ TimerFires
    BY <2>2 DEF WaitReturns, StopClients, MapRaceAborts, Exit, TimerFires, aVars, sVars,
                cVars
  <2>3. ASSUME NEW c \in Conns, NextClient(c) PROVE PlaceInv'
    BY <2>3 DEF NextClient, aVars, cVars
  <2>4. CASE RemoveCloseCB
    BY <2>4 DEF RemoveCloseCB, aVars, cVars
  <2>5. CASE StopClient
    BY <2>5 DEF StopClient, aVars
  <2>6. CASE StopClientsEnds
    BY <2>6 DEF StopClientsEnds, aVars, cVars
  <2>7. CASE CloseReturns
    BY <2>7 DEF CloseReturns, aVars
  <2> QED
    BY <1>3, <2>1, <2>2, <2>3, <2>4, <2>5, <2>6, <2>7, Zenon DEF Signaller
<1> QED
  BY <1>1, <1>2, <1>3, Zenon DEF Next

-----------------------------------------------------------------------------
(* The load.                                                               *)

LEMMA Counted ==
  ASSUME NEW S \in SUBSET Conns
  PROVE  /\ IsFiniteSet(S) /\ Cardinality(S) \in Nat
         /\ \A c \in Conns \ S : Cardinality(S \cup {c}) = Cardinality(S) + 1
         /\ \A c \in S : Cardinality(S \ {c}) = Cardinality(S) - 1
         /\ \A T \in SUBSET S : Cardinality(T) \in Nat /\ Cardinality(T) <= Cardinality(S)
<1>1. IsFiniteSet(S)
  BY ConnsAssumption, FS_Subset
<1> QED
  BY <1>1, FS_CardinalityType, FS_AddElement, FS_RemoveElement, FS_Subset

\* A step that owes no more and neither adds to the map nor to the load.
LEMMA LoadKept ==
  ASSUME TypeOK, LoadInv, Owing' \subseteq Owing, UNCHANGED <<clients, currLoad>>,
         spc' = "stopped" <=> spc = "stopped"
  PROVE  LoadInv' /\ currLoad' \in Nat
<1>1. clients \cup Owing \in SUBSET Conns /\ clients' \cup Owing' \in SUBSET (clients \cup Owing)
  BY DEF TypeOK, Owing
<1>2. /\ Cardinality(clients \cup Owing) \in Nat
      /\ Cardinality(clients' \cup Owing') \in Nat
      /\ Cardinality(clients' \cup Owing') <= Cardinality(clients \cup Owing)
  BY <1>1, Counted
<1> QED
  BY <1>2 DEF LoadInv, TypeOK

LEMMA NextLoad == TypeOK /\ PlaceInv /\ LoadInv /\ Next => LoadInv' /\ currLoad' \in Nat
<1> SUFFICES ASSUME TypeOK, PlaceInv, LoadInv, Next PROVE LoadInv' /\ currLoad' \in Nat
  OBVIOUS
<1>1. CASE Acceptor
  <2>1. CASE Start \/ StartAdds \/ Listen \/ SetRunning \/ LoopTest \/ AcceptFails
    <3>1. /\ Owing' \subseteq Owing /\ UNCHANGED <<clients, currLoad>>
          /\ spc' = "stopped" <=> spc = "stopped"
      BY <2>1 DEF Start, StartAdds, Listen, SetRunning, LoopTest, AcceptFails, sVars,
                  cVars, Owing
    <3> QED
      BY <3>1, LoadKept
  <2>2. ASSUME NEW c \in Conns, Accept(c) PROVE LoadInv' /\ currLoad' \in Nat
    <3>1. /\ Owing' \subseteq Owing /\ UNCHANGED <<clients, currLoad>>
          /\ spc' = "stopped" <=> spc = "stopped"
      BY <2>2 DEF Accept, sVars, cVars, Owing
    <3> QED
      BY <3>1, LoadKept
  <2>3. CASE TestLoad \/ StartClient
    <3>1. /\ Owing' \subseteq Owing /\ UNCHANGED <<clients, currLoad>>
          /\ spc' = "stopped" <=> spc = "stopped"
      BY <2>3 DEF TestLoad, StartClient, sVars, Owing, PlaceInv, Fresh, TypeOK
    <3> QED
      BY <3>1, LoadKept
  <2>4. CASE AddClient
    <3>1. /\ clients' = clients \cup {acur} /\ currLoad' = currLoad + 1
          /\ Owing' \subseteq Owing \cup {acur} /\ acur \in Conns \ clients /\ spc' = spc
      BY <2>4 DEF AddClient, sVars, cVars, Owing, PlaceInv
    <3>2. /\ clients \in SUBSET Conns /\ clients \cup Owing \in SUBSET Conns /\ currLoad \in Nat
          /\ acur \in clients \cup Owing \/ acur \in Conns \ (clients \cup Owing)
      BY <3>1 DEF TypeOK, Owing
    <3>3. /\ Cardinality(clients') = Cardinality(clients) + 1
          /\ Cardinality(clients) \in Nat
      BY <3>1, <3>2, Counted
    <3>4. /\ Cardinality((clients \cup Owing) \cup {acur}) <= Cardinality(clients \cup Owing) + 1
          /\ Cardinality((clients \cup Owing) \cup {acur}) \in Nat
          /\ Cardinality(clients \cup Owing) \in Nat
      <4>1. CASE acur \in clients \cup Owing
        <5>1. (clients \cup Owing) \cup {acur} = clients \cup Owing
          BY <4>1
        <5> QED
          BY <3>2, <5>1, Counted
      <4>2. CASE acur \in Conns \ (clients \cup Owing)
        BY <3>2, <4>2, Counted
      <4> QED
        BY <3>2, <4>1, <4>2
    <3>5. (clients \cup Owing) \cup {acur} \in SUBSET Conns
          /\ clients' \cup Owing' \in SUBSET ((clients \cup Owing) \cup {acur})
      BY <3>1, <3>2
    <3>6. /\ Cardinality(clients' \cup Owing') \in Nat
          /\ Cardinality(clients' \cup Owing') <= Cardinality((clients \cup Owing) \cup {acur})
      BY <3>5, Counted
    <3> QED
      BY <3>1, <3>2, <3>3, <3>4, <3>6 DEF LoadInv
  <2>5. CASE AddCloseCB
    <3>1. /\ Owing' \subseteq Owing /\ UNCHANGED <<clients, currLoad>>
          /\ spc' = "stopped" <=> spc = "stopped"
      BY <2>5 DEF AddCloseCB, sVars, cVars, Owing
    <3> QED
      BY <3>1, LoadKept
  <2> QED
    BY <1>1, <2>1, <2>2, <2>3, <2>4, <2>5, Zenon DEF Acceptor
<1>2. ASSUME NEW c \in Conns, Connection(c) PROVE LoadInv' /\ currLoad' \in Nat
  <2>1. CASE Receive(c) \/ HandlerAdds(c) \/ HandlerChecks(c) \/ HandlerReturns(c)
             \/ HandlerLeaves(c) \/ Wedge(c)
    <3>1. UNCHANGED <<conn, cb, acur, apc, clients, currLoad, spc>>
      BY <2>1 DEF Receive, HandlerAdds, HandlerChecks, HandlerReturns, HandlerLeaves, Wedge,
                  aVars, sVars
    <3>2. Owing' \subseteq Owing
      BY <3>1 DEF Owing
    <3> QED
      BY <3>1, <3>2, LoadKept
  <2>2. CASE ClientStops(c) \/ RunCloseCB(c)
    <3>1. /\ Owing' \subseteq Owing /\ UNCHANGED <<clients, currLoad>>
          /\ spc' = "stopped" <=> spc = "stopped"
      BY <2>2 DEF ClientStops, RunCloseCB, sVars, aVars, Owing, TypeOK
    <3> QED
      BY <3>1, LoadKept
  <2>3. CASE DeleClient(c)
    <3>1. /\ clients' = clients \ {c} /\ currLoad' = currLoad - 1 /\ spc' = spc
          /\ c \in Owing /\ Owing' \subseteq Owing \ {c}
      BY <2>3 DEF DeleClient, sVars, aVars, Owing, PlaceInv, TypeOK
    <3>2. /\ clients \in SUBSET Conns /\ clients \cup Owing \in SUBSET Conns /\ currLoad \in Nat
          /\ c \in clients \cup Owing
      BY <3>1 DEF TypeOK, Owing
    <3>3. /\ Cardinality(clients) \in Nat
          /\ c \in clients => Cardinality(clients') = Cardinality(clients) - 1
          /\ Cardinality(clients') \in Nat
      <4>1. clients \ {c} \in SUBSET Conns
        BY <3>2
      <4> QED
        BY <3>1, <3>2, <4>1, Counted
    <3>4. /\ Cardinality(clients \cup Owing) \in Nat
          /\ Cardinality((clients \cup Owing) \ {c}) = Cardinality(clients \cup Owing) - 1
      BY <3>2, Counted
    <3>5. (clients \cup Owing) \ {c} \in SUBSET Conns
          /\ clients' \cup Owing' \in SUBSET ((clients \cup Owing) \ {c})
      BY <3>1, <3>2
    <3>6. /\ Cardinality(clients' \cup Owing') \in Nat
          /\ Cardinality(clients' \cup Owing') <= Cardinality((clients \cup Owing) \ {c})
      BY <3>5, Counted
    <3> QED
      BY <3>1, <3>2, <3>3, <3>4, <3>6 DEF LoadInv
  <2> QED
    BY <1>2, <2>1, <2>2, <2>3, Zenon DEF Connection
<1>3. CASE Signaller \/ CloseReturns \/ TimerFires
  <2>1. CASE \/ Signal \/ StopSwap \/ CloseListener \/ StopDone \/ ArmTimer \/ Wait \/ WaitReturns
             \/ StopClients \/ (\E c \in Conns : NextClient(c))
             \/ MapRaceAborts \/ Exit \/ TimerFires
    <3>1. /\ UNCHANGED <<conn, cb, acur, apc, clients, currLoad>>
          /\ spc' = "stopped" <=> spc = "stopped"
      BY <2>1 DEF Signal, StopSwap, CloseListener, StopDone, ArmTimer, Wait, WaitReturns,
                  StopClients, NextClient, MapRaceAborts, Exit, TimerFires, aVars, sVars, cVars
    <3>2. Owing' \subseteq Owing
      BY <3>1 DEF Owing
    <3> QED
      BY <3>1, <3>2, LoadKept
  <2>2. CASE RemoveCloseCB \/ StopClient \/ CloseReturns
    <3>1. /\ Owing' \subseteq Owing /\ UNCHANGED <<clients, currLoad>>
          /\ spc' = "stopped" <=> spc = "stopped"
      BY <2>2 DEF RemoveCloseCB, StopClient, CloseReturns, aVars, cVars, Owing, PlaceInv,
                  TypeOK
    <3> QED
      BY <3>1, LoadKept
  <2>3. CASE StopClientsEnds
    <3>1. clients' = {} /\ currLoad' = currLoad /\ spc = "next" /\ spc' = "stopped" /\ Owing' = Owing
      BY <2>3 DEF StopClientsEnds, aVars, cVars, Owing
    <3>2. clients \in SUBSET Conns /\ Owing \in SUBSET clients /\ {} \cup Owing = Owing
      BY <3>1 DEF TypeOK, LoadInv
    <3>3. /\ Cardinality(Owing) <= Cardinality(clients) /\ Cardinality(Owing) \in Nat
          /\ Cardinality(clients) \in Nat
      BY <3>2, Counted
    <3> QED
      BY <3>1, <3>2, <3>3 DEF LoadInv, TypeOK
  <2> QED
    BY <1>3, <2>1, <2>2, <2>3, Zenon DEF Signaller
<1> QED
  BY <1>1, <1>2, <1>3, Zenon DEF Next

-----------------------------------------------------------------------------
(* The WaitGroup.                                                          *)

LEMMA BusyCounted == TypeOK => Busy \in SUBSET Conns /\ Cardinality(Busy) \in Nat
BY Counted DEF Busy

LEMMA NextBusy ==
  ASSUME TypeOK, PlaceInv, WgInv, Next
  PROVE  WgInv'
<1> USE BusyCounted
<1>1. CASE Acceptor
  <2>1. rpc' = rpc /\ spc' = spc
    BY <1>1 DEF Acceptor, Start, StartAdds, Listen, SetRunning, LoopTest, AcceptFails,
                Accept, TestLoad, StartClient, AddClient, AddCloseCB, sVars, cVars
  <2>2. Cardinality(Busy') = Cardinality(Busy)
    BY <2>1 DEF Busy
  <2>3. CASE StartAdds
    BY <2>1, <2>2, <2>3 DEF StartAdds, WgInv, Begun, TypeOK
  <2>4. CASE ~StartAdds
    <3>1. wg' = wg /\ (apc' \in {"start", "add"} <=> apc \in {"start", "add"})
      BY <1>1, <2>4 DEF Acceptor, Start, StartAdds, Listen, SetRunning, LoopTest,
                        AcceptFails,
                  Accept, TestLoad, StartClient, AddClient, AddCloseCB, sVars, cVars
    <3> QED
      BY <2>1, <2>2, <3>1 DEF WgInv, Begun
  <2> QED
    BY <2>3, <2>4
<1>2. ASSUME NEW c \in Conns, Connection(c) PROVE WgInv'
  <2>1. apc' = apc /\ spc' = spc
    BY <1>2 DEF Connection, Receive, HandlerAdds, HandlerChecks, HandlerReturns,
                HandlerLeaves,
                ClientStops, RunCloseCB, DeleClient, Wedge, aVars, sVars
  <2>2. CASE HandlerAdds(c)
    <3>1. c \in Conns \ Busy /\ Busy' = Busy \cup {c} /\ wg' = wg + 1
      BY <2>2 DEF HandlerAdds, ReaderGoto, Busy, TypeOK
    <3>2. Cardinality(Busy') = Cardinality(Busy) + 1
      BY <3>1, Counted
    <3> QED
      BY <2>1, <3>1, <3>2 DEF WgInv, Begun, TypeOK
  <2>3. CASE HandlerLeaves(c)
    <3>1. c \in Busy /\ Busy' = Busy \ {c} /\ wg' = wg - 1
      BY <2>3 DEF HandlerLeaves, ReaderGoto, Busy, TypeOK
    <3>2. Cardinality(Busy') = Cardinality(Busy) - 1
      BY <3>1, Counted
    <3> QED
      BY <2>1, <3>1, <3>2 DEF WgInv, Begun, TypeOK
  <2>4. CASE ~HandlerAdds(c) /\ ~HandlerLeaves(c)
    <3>1. Busy' = Busy /\ wg' = wg
      BY <1>2, <2>4 DEF Connection, Receive, HandlerChecks, HandlerReturns, ClientStops,
                        RunCloseCB, DeleClient, Wedge, ReaderGoto, Busy, TypeOK
    <3> QED
      BY <2>1, <3>1 DEF WgInv, Begun
  <2> QED
    BY <2>2, <2>3, <2>4
<1>3. CASE Signaller \/ CloseReturns \/ TimerFires
  <2>1. rpc' = rpc /\ apc' = apc
    BY <1>3 DEF Signaller, Signal, StopSwap, CloseListener, StopDone, ArmTimer, Wait,
                WaitReturns, StopClients, NextClient, RemoveCloseCB, MapRaceAborts, StopClient,
                CloseReturns, StopClientsEnds, Exit, TimerFires, aVars, sVars, cVars
  <2>2. Cardinality(Busy') = Cardinality(Busy) /\ Begun' = Begun
    BY <2>1 DEF Busy, Begun
  <2>3. CASE StopDone
    <3>1. spc = "done" /\ wg' = wg - 1 /\ wg = Begun + Cardinality(Busy)
          /\ spc' = IF wg > 0 THEN "arm" ELSE "quit"
      BY <2>3 DEF StopDone, WgInv, Stopping, PastWait
    <3>2. apc \in {"start", "add"} => wg = 0
      <4>1. apc \in {"start", "add"} => Busy = {}
        BY DEF PlaceInv, Fresh, Busy
      <4> QED
        BY <3>1, <4>1, FS_EmptySet DEF Begun
    <3> QED
      BY <2>1, <2>2, <3>1, <3>2 DEF WgInv, Begun, TypeOK, Stopping, PastWait
  <2>4. CASE Signal \/ StopSwap \/ CloseListener
    <3>1. /\ wg' = wg /\ spc \notin {"arm", "quit"} \cup Stopping
          /\ spc' \notin {"arm"} \cup Stopping
      BY <2>4 DEF Signal, StopSwap, CloseListener, Stopping, PastWait
    <3> QED
      BY <2>1, <2>2, <3>1 DEF WgInv
  <2>5. CASE ArmTimer \/ Wait \/ WaitReturns \/ StopClients \/ (\E c \in Conns : NextClient(c))
             \/ RemoveCloseCB \/ StopClient \/ CloseReturns \/ StopClientsEnds
    <3>1. /\ wg' = wg /\ spc \in {"arm"} \cup Stopping /\ spc' \in {"quit"} \cup Stopping
      BY <2>5 DEF ArmTimer, Wait, WaitReturns, StopClients, NextClient, RemoveCloseCB,
                  StopClient, CloseReturns, StopClientsEnds, Stopping, PastWait
    <3> QED
      BY <2>1, <2>2, <3>1 DEF WgInv, Stopping, PastWait
  <2>6. CASE MapRaceAborts \/ Exit \/ TimerFires
    <3>1. wg' = wg /\ spc' = spc
      BY <2>6 DEF MapRaceAborts, Exit, TimerFires, sVars
    <3> QED
      BY <2>1, <2>2, <3>1 DEF WgInv
  <2> QED
    BY <1>3, <2>3, <2>4, <2>5, <2>6, Zenon DEF Signaller
<1> QED
  BY <1>1, <1>2, <1>3, Zenon DEF Next

LEMMA NextWg == TypeOK /\ PlaceInv /\ WgInv /\ Next => WgInv' /\ wg' \in Nat \cup {-1}
<1> SUFFICES ASSUME TypeOK, PlaceInv, WgInv, Next PROVE WgInv' /\ wg' \in Nat \cup {-1}
  OBVIOUS
<1>1. WgInv'
  BY NextBusy
<1>2. Busy' \in SUBSET Conns
  BY DEF Busy
<1>3. Cardinality(Busy') \in Nat
  BY <1>2, Counted
<1> QED
  BY <1>1, <1>3 DEF WgInv, Begun

-----------------------------------------------------------------------------
(* Types.                                                                  *)

LEMMA NextType ==
  TypeOK /\ PlaceInv /\ Next /\ wg' \in Nat \cup {-1} /\ currLoad' \in Nat => TypeOK'
<1> SUFFICES ASSUME TypeOK, PlaceInv, Next, wg' \in Nat \cup {-1}, currLoad' \in Nat
             PROVE  TypeOK'
  OBVIOUS
<1> USE DEF TypeOK
<1>1. CASE Acceptor
  <2>1. CASE Start \/ StartAdds \/ Listen \/ SetRunning
    <3>1. UNCHANGED <<clients, acur, conn, wedged, rpc, cb, spc, scur, todo, armed, exited>>
      BY <2>1 DEF Start, StartAdds, Listen, SetRunning, sVars, cVars
    <3>2. Running' \in BOOLEAN /\ listener' \in {"nil", "open", "closed"}
      BY <2>1, Zenon DEF Start, StartAdds, Listen, SetRunning
    <3>3. apc' \in {"add", "listen", "setRunning", "ended", "loop"}
      BY <2>1, Zenon DEF Start, StartAdds, Listen, SetRunning
    <3> QED
      BY <3>1, <3>2, <3>3
  <2>2. CASE LoopTest \/ AcceptFails
    BY <2>2 DEF LoopTest, AcceptFails, sVars, cVars
  <2>3. ASSUME NEW c \in Conns, Accept(c) PROVE TypeOK'
    BY <2>3 DEF Accept, sVars, cVars
  <2>4. CASE TestLoad \/ StartClient
    <3>1. conn' \in [Conns -> {"none", "live", "closing", "dele", "closed"}]
      <4>1. \/ conn' = conn \/ conn' = [conn EXCEPT ![acur] = "live"]
            \/ conn' = [conn EXCEPT ![acur] = "closed"]
        BY <2>4, Zenon DEF TestLoad, StartClient
      <4> QED
        BY <4>1
    <3> QED
      BY <2>4, <3>1 DEF TestLoad, StartClient, sVars
  <2>5. CASE AddClient \/ AddCloseCB
    BY <2>5 DEF AddClient, AddCloseCB, sVars, cVars, PlaceInv
  <2> QED
    BY <1>1, <2>1, <2>2, <2>3, <2>4, <2>5, Zenon DEF Acceptor
<1>2. ASSUME NEW c \in Conns, Connection(c) PROVE TypeOK'
  BY <1>2 DEF Connection, Receive, HandlerAdds, HandlerChecks, HandlerReturns,
              HandlerLeaves,
              ClientStops, RunCloseCB, DeleClient, Wedge, ReaderGoto, aVars, sVars
<1>3. CASE Signaller \/ CloseReturns \/ TimerFires
  <2>1. CASE Signal \/ StopSwap \/ CloseListener \/ StopDone
    <3>1. UNCHANGED <<clients, apc, acur, conn, wedged, rpc, cb, scur, todo, armed, exited>>
      BY <2>1 DEF Signal, StopSwap, CloseListener, StopDone, aVars, cVars
    <3>2. Running' \in BOOLEAN /\ listener' \in {"nil", "open", "closed"}
      BY <2>1 DEF Signal, StopSwap, CloseListener, StopDone, aVars
    <3>3. spc' \in {"swap", "close", "quit", "done", "arm"}
      BY <2>1 DEF Signal, StopSwap, CloseListener, StopDone
    <3> QED
      BY <3>1, <3>2, <3>3
  <2>2. CASE ArmTimer \/ Wait \/ WaitReturns
    <3>1. UNCHANGED <<Running, listener, clients, apc, acur, conn, wedged, rpc, cb, scur,
                      todo, exited>> /\ armed' \in BOOLEAN
      BY <2>2 DEF ArmTimer, Wait, WaitReturns, aVars, cVars
    <3>2. spc' \in {"wait", "woken", "lock", "quit"}
      BY <2>2 DEF ArmTimer, Wait, WaitReturns
    <3> QED
      BY <3>1, <3>2
  <2>3. CASE StopClients \/ (\E c \in Conns : NextClient(c)) \/ RemoveCloseCB
             \/ StopClientsEnds
    <3>1. UNCHANGED <<Running, listener, apc, acur, conn, wedged, rpc, armed, exited>>
      BY <2>3 DEF StopClients, NextClient, RemoveCloseCB, StopClientsEnds, aVars, cVars
    <3>2. clients' \subseteq Conns /\ todo' \subseteq Conns /\ cb' \subseteq Conns
      BY <2>3 DEF StopClients, NextClient, RemoveCloseCB, StopClientsEnds
    <3>3. spc' \in {"next", "remove", "stop", "stopped"} /\ scur' \in Conns \cup {NoConn}
      BY <2>3 DEF StopClients, NextClient, RemoveCloseCB, StopClientsEnds
    <3> QED
      BY <3>1, <3>2, <3>3
  <2>4. CASE StopClient \/ CloseReturns
    <3>1. conn' \in [Conns -> {"none", "live", "closing", "dele", "closed"}]
      <4>1. \/ conn' = conn \/ conn' = [conn EXCEPT ![scur] = "closed"]
            \/ conn' = [conn EXCEPT ![scur] = "dele"]
            \/ conn' = [conn EXCEPT ![scur] = "closing"]
        BY <2>4, Zenon DEF StopClient, CloseReturns
      <4> QED
        BY <4>1
    <3> QED
      BY <2>4, <3>1 DEF StopClient, CloseReturns, aVars
  <2>5. CASE MapRaceAborts \/ Exit \/ TimerFires
    BY <2>5 DEF MapRaceAborts, Exit, TimerFires, aVars, sVars, cVars
  <2> QED
    BY <1>3, <2>1, <2>2, <2>3, <2>4, <2>5, Zenon DEF Signaller
<1> QED
  BY <1>1, <1>2, <1>3, Zenon DEF Next

-----------------------------------------------------------------------------
(* The shutdown.                                                           *)

\* As long as Running is not set again after Stop has closed the listener, the
\* acceptor takes no further connection.
LEMMA NextShut == TypeOK /\ ShutInv /\ Next => ShutInv'
<1> SUFFICES ASSUME TypeOK, ShutInv, Next PROVE ShutInv'
  OBVIOUS
<1> USE DEF ShutInv, Stopping, PastWait, TypeOK
<1>1. CASE Acceptor
  BY <1>1 DEF Acceptor, Start, StartAdds, Listen, SetRunning, LoopTest, AcceptFails, Accept,
              TestLoad, StartClient, AddClient, AddCloseCB, sVars, cVars
<1>2. ASSUME NEW c \in Conns, Connection(c) PROVE ShutInv'
  BY <1>2 DEF Connection, Receive, HandlerAdds, HandlerChecks, HandlerReturns,
              HandlerLeaves,
              ClientStops, RunCloseCB, DeleClient, Wedge, aVars, sVars
<1>3. CASE Signaller \/ CloseReturns \/ TimerFires
  BY <1>3 DEF Signaller, Signal, StopSwap, CloseListener, StopDone, ArmTimer, Wait,
              WaitReturns, StopClients, NextClient, RemoveCloseCB, MapRaceAborts, StopClient,
              CloseReturns, StopClientsEnds, Exit, TimerFires, aVars, sVars, cVars
<1> QED
  BY <1>1, <1>2, <1>3, Zenon DEF Next

\* What the handlers have left stays quiet.
LEMMA NextQuiet == TypeOK /\ WgInv /\ DrainedMeansQuiet /\ Next => DrainedMeansQuiet'
<1> SUFFICES ASSUME TypeOK, WgInv, DrainedMeansQuiet, Next PROVE DrainedMeansQuiet'
  OBVIOUS
<1> USE DEF DrainedMeansQuiet, RunsAgain, PastWait, TypeOK
<1>1. CASE Acceptor
  BY <1>1 DEF Acceptor, Start, StartAdds, Listen, SetRunning, LoopTest, AcceptFails, Accept,
              TestLoad, StartClient, AddClient, AddCloseCB, sVars, cVars
<1>2. ASSUME NEW c \in Conns, Connection(c) PROVE DrainedMeansQuiet'
  BY <1>2 DEF Connection, Receive, HandlerAdds, HandlerChecks, HandlerReturns,
              HandlerLeaves,
              ClientStops, RunCloseCB, DeleClient, Wedge, ReaderGoto, aVars, sVars
<1>3. CASE Wait
  <2>1. wg = 0 /\ spc = "wait" /\ rpc' = rpc
    BY <1>3 DEF Wait, NoHandlers, cVars
  <2>2. Cardinality(Busy) = 0
    BY <2>1, BusyCounted DEF WgInv, Stopping, PastWait, Begun
  <2>3. Busy = {}
    BY <2>2, BusyCounted, Counted, FS_EmptySet
  <2> QED
    BY <2>1, <2>3 DEF Busy
<1>4. CASE (Signaller /\ ~Wait) \/ CloseReturns \/ TimerFires
  BY <1>4 DEF Signaller, Signal, StopSwap, CloseListener, StopDone, ArmTimer,
              WaitReturns, StopClients, NextClient, RemoveCloseCB, MapRaceAborts, StopClient,
              CloseReturns, StopClientsEnds, Exit, TimerFires, aVars, sVars, cVars
<1> QED
  BY <1>1, <1>2, <1>3, <1>4, Zenon DEF Next

\* Who is live is in the map, or about to be.
LEMMA NextLive == TypeOK /\ PlaceInv /\ LiveInv /\ Next => LiveInv'
<1> SUFFICES ASSUME TypeOK, PlaceInv, LiveInv, Next PROVE LiveInv'
  OBVIOUS
<1> USE DEF LiveInv, Live, TypeOK
<1>1. CASE Acceptor
  <2>1. CASE Start \/ StartAdds \/ Listen \/ SetRunning \/ LoopTest \/ AcceptFails
    BY <2>1 DEF Start, StartAdds, Listen, SetRunning, LoopTest, AcceptFails, sVars, cVars
  <2>2. ASSUME NEW c \in Conns, Accept(c) PROVE LiveInv'
    BY <2>2 DEF Accept, sVars, cVars
  <2>3. CASE TestLoad \/ StartClient
    BY <2>3 DEF TestLoad, StartClient, sVars
  <2>4. CASE AddClient \/ AddCloseCB
    BY <2>4 DEF AddClient, AddCloseCB, sVars, cVars
  <2> QED
    BY <1>1, <2>1, <2>2, <2>3, <2>4, Zenon DEF Acceptor
<1>2. ASSUME NEW c \in Conns, Connection(c) PROVE LiveInv'
  BY <1>2 DEF Connection, Receive, HandlerAdds, HandlerChecks, HandlerReturns,
              HandlerLeaves,
              ClientStops, RunCloseCB, DeleClient, Wedge, ReaderGoto, aVars, sVars
<1>3. CASE Signaller \/ CloseReturns \/ TimerFires
  BY <1>3 DEF Signaller, Signal, StopSwap, CloseListener, StopDone, ArmTimer, Wait,
              WaitReturns, StopClients, NextClient, RemoveCloseCB, MapRaceAborts, StopClient,
              CloseReturns, StopClientsEnds, Exit, TimerFires, aVars, sVars, cVars
<1> QED
  BY <1>1, <1>2, <1>3, Zenon DEF Next

\* A closed connection that is in the map has no callback.
LEMMA NextStale ==
  TypeOK /\ PlaceInv /\ StaleOnlyIfUnregistered /\ Next => StaleOnlyIfUnregistered'
<1> SUFFICES ASSUME TypeOK, PlaceInv, StaleOnlyIfUnregistered, Next
             PROVE  StaleOnlyIfUnregistered'
  OBVIOUS
<1> USE DEF StaleOnlyIfUnregistered, TypeOK
<1>1. CASE Acceptor
  BY <1>1 DEF Acceptor, Start, StartAdds, Listen, SetRunning, LoopTest, AcceptFails, Accept,
              TestLoad, StartClient, AddClient, AddCloseCB, StillRuns, sVars, cVars, PlaceInv, Fresh
<1>2. ASSUME NEW c \in Conns, Connection(c) PROVE StaleOnlyIfUnregistered'
  BY <1>2 DEF Connection, Receive, HandlerAdds, HandlerChecks, HandlerReturns,
              HandlerLeaves,
              ClientStops, RunCloseCB, DeleClient, Wedge, ReaderGoto, aVars, sVars
<1>3. CASE Signaller \/ CloseReturns \/ TimerFires
  BY <1>3 DEF Signaller, Signal, StopSwap, CloseListener, StopDone, ArmTimer, Wait,
              WaitReturns, StopClients, NextClient, RemoveCloseCB, MapRaceAborts, StopClient,
              CloseReturns, StopClientsEnds, Exit, TimerFires, aVars, sVars, cVars
<1> QED
  BY <1>1, <1>2, <1>3, Zenon DEF Next

\* Once Stop has closed the listener, who the acceptor has stays the same.
LEMMA AcceptorFrozen ==
  ASSUME TypeOK, ShutInv, Next, spc \in {"done", "arm"} \cup Stopping, ~Running, ~Running'
  PROVE  /\ acur' = acur
         /\ \A c \in Conns : conn'[c] = "live" => conn[c] = "live" \/ c = acur
         /\ \A c \in cb' : c \in cb \/ c = acur
<1>1. CASE Acceptor
  BY <1>1 DEF Acceptor, Start, StartAdds, Listen, SetRunning, LoopTest, AcceptFails, Accept,
              TestLoad, StartClient, AddClient, AddCloseCB, sVars, cVars, ShutInv, TypeOK
<1>2. ASSUME NEW c \in Conns, Connection(c)
      PROVE  UNCHANGED <<acur, cb>> /\ \A d \in Conns : conn'[d] = "live" => conn[d] = "live"
  BY <1>2 DEF Connection, Receive, HandlerAdds, HandlerChecks, HandlerReturns,
              HandlerLeaves,
              ClientStops, RunCloseCB, DeleClient, Wedge, aVars, sVars, TypeOK
<1>3. CASE Signaller \/ CloseReturns \/ TimerFires
  BY <1>3 DEF Signaller, Signal, StopSwap, CloseListener, StopDone, ArmTimer, Wait,
              WaitReturns, StopClients, NextClient, RemoveCloseCB, MapRaceAborts, StopClient,
              CloseReturns, StopClientsEnds, Exit, TimerFires, aVars, sVars, cVars, TypeOK
<1> QED
  BY <1>1, <1>2, <1>3, Zenon DEF Next

\* What stopClients has come to is not live.
LEMMA NextReach ==
  TypeOK /\ ShutInv /\ LiveInv /\ ReachInv /\ Next => ReachInv'
<1> SUFFICES ASSUME TypeOK, ShutInv, LiveInv, ReachInv, Next PROVE ReachInv'
  OBVIOUS
<1>1. CASE Acceptor \/ \E c \in Conns : Connection(c)
  <2>1. UNCHANGED <<spc, scur, todo>>
    BY <1>1 DEF Acceptor, Start, StartAdds, Listen, SetRunning, LoopTest, AcceptFails,
                Accept,
                TestLoad, StartClient, AddClient, AddCloseCB, Connection, Receive, HandlerAdds,
                HandlerChecks, HandlerReturns, HandlerLeaves, ClientStops, RunCloseCB,
                DeleClient, Wedge, sVars
  <2>2. Running => Running'
    BY <1>1 DEF Acceptor, Start, StartAdds, Listen, SetRunning, LoopTest, AcceptFails,
                Accept,
                TestLoad, StartClient, AddClient, AddCloseCB, Connection, Receive, HandlerAdds,
                HandlerChecks, HandlerReturns, HandlerLeaves, ClientStops, RunCloseCB,
                DeleClient, Wedge
  <2>3. CASE spc \in {"next", "remove", "stop", "closeConn", "stopped"} /\ ~Running'
    <3>1. /\ acur' = acur
          /\ \A c \in Conns : conn'[c] = "live" => conn[c] = "live" \/ c = acur
      BY <2>2, <2>3, AcceptorFrozen DEF Stopping, PastWait
    <3> QED
      BY <2>1, <2>2, <2>3, <3>1 DEF ReachInv, StopReachesAll, RunsAgain, Live
  <2>4. CASE ~(spc \in {"next", "remove", "stop", "closeConn", "stopped"} /\ ~Running')
    BY <2>1, <2>4 DEF ReachInv, StopReachesAll, RunsAgain
  <2> QED
    BY <2>3, <2>4
<1>2. CASE Signaller \/ CloseReturns \/ TimerFires
  <2> USE DEF ReachInv, StopReachesAll, RunsAgain, Live, TypeOK
  <2>1. CASE Signal \/ StopSwap \/ CloseListener \/ StopDone \/ ArmTimer \/ Wait \/ WaitReturns
    BY <2>1 DEF Signal, StopSwap, CloseListener, StopDone, ArmTimer, Wait, WaitReturns,
                aVars, cVars
  <2>2. CASE StopClients
    BY <2>2 DEF StopClients, aVars, cVars, LiveInv
  <2>3. ASSUME NEW c \in Conns, NextClient(c) PROVE ReachInv'
    BY <2>3 DEF NextClient, aVars, cVars
  <2>4. CASE RemoveCloseCB \/ MapRaceAborts \/ Exit \/ TimerFires
    BY <2>4 DEF RemoveCloseCB, MapRaceAborts, Exit, TimerFires, aVars, sVars, cVars
  <2>5. CASE StopClient \/ CloseReturns
    BY <2>5 DEF StopClient, CloseReturns, aVars
  <2>6. CASE StopClientsEnds
    BY <2>6 DEF StopClientsEnds, NoneLeft, aVars, cVars
  <2> QED
    BY <1>2, <2>1, <2>2, <2>3, <2>4, <2>5, <2>6, Zenon DEF Signaller
<1> QED
  BY <1>1, <1>2, Zenon DEF Next

\* Who stopClients gets stuck on.
LEMMA NextStuck == TypeOK /\ ShutInv /\ StuckInv /\ Next => StuckInv'
<1> SUFFICES ASSUME TypeOK, ShutInv, StuckInv, Next PROVE StuckInv'
  OBVIOUS
<1>1. CASE Acceptor \/ \E c \in Conns : Connection(c)
  <2>1. UNCHANGED <<spc, scur>> /\ (Running => Running') /\ cb \subseteq cb'
    BY <1>1 DEF Acceptor, Start, StartAdds, Listen, SetRunning, LoopTest, AcceptFails,
                Accept,
                TestLoad, StartClient, AddClient, AddCloseCB, Connection, Receive, HandlerAdds,
                HandlerChecks, HandlerReturns, HandlerLeaves, ClientStops, RunCloseCB,
                DeleClient, Wedge, sVars
  <2>2. CASE spc \in {"stop", "closeConn", "stuck"} /\ ~Running'
    <3>1. acur' = acur /\ \A c \in cb' : c \in cb \/ c = acur
      BY <2>1, <2>2, AcceptorFrozen DEF Stopping, PastWait
    <3> QED
      BY <2>1, <2>2, <3>1 DEF StuckInv
  <2>3. CASE ~(spc \in {"stop", "closeConn", "stuck"} /\ ~Running')
    BY <2>1, <2>3 DEF StuckInv
  <2> QED
    BY <2>2, <2>3
<1>2. CASE Signaller \/ CloseReturns \/ TimerFires
  BY <1>2 DEF Signaller, Signal, StopSwap, CloseListener, StopDone, ArmTimer, Wait,
              WaitReturns, StopClients, NextClient, RemoveCloseCB, MapRaceAborts, StopClient,
              CloseReturns, StopClientsEnds, Exit, TimerFires, aVars, sVars, cVars, StuckInv
<1> QED
  BY <1>1, <1>2, Zenon DEF Next

-----------------------------------------------------------------------------

LEMMA NextInv == TypeOK /\ IInv /\ [Next]_vars => TypeOK' /\ IInv'
<1> SUFFICES ASSUME TypeOK, IInv, [Next]_vars PROVE TypeOK' /\ IInv'
  OBVIOUS
<1>0. /\ PlaceInv /\ LoadInv /\ WgInv /\ ShutInv /\ LiveInv /\ ReachInv /\ StuckInv
      /\ StaleOnlyIfUnregistered /\ DrainedMeansQuiet
  BY DEF IInv
<1>1. CASE Next
  <2>1. PlaceInv' /\ LoadInv' /\ WgInv'
    BY <1>0, <1>1, NextPlace, NextLoad, NextWg
  <2>2. TypeOK'
    BY <1>0, <1>1, NextLoad, NextWg, NextType
  <2>3. ShutInv' /\ LiveInv' /\ ReachInv' /\ StuckInv'
    BY <1>0, <1>1, NextShut, NextLive, NextReach, NextStuck
  <2>4. StaleOnlyIfUnregistered' /\ DrainedMeansQuiet'
    BY <1>0, <1>1, NextStale, NextQuiet
  <2> QED
    BY <2>1, <2>2, <2>3, <2>4 DEF IInv
<1>2. CASE UNCHANGED vars
  <2> USE <1>2 DEF vars, aVars, sVars, cVars
  <2>1. TypeOK' /\ PlaceInv' /\ ShutInv' /\ LiveInv'
    BY <1>0 DEF TypeOK, PlaceInv, Fresh, ShutInv, LiveInv, Live, Stopping, PastWait
  <2>2. Owing' = Owing /\ Busy' = Busy
    BY DEF Owing, Busy
  <2>3. LoadInv' /\ WgInv'
    BY <1>0, <2>2 DEF LoadInv, WgInv, Begun
  <2>4. ReachInv' /\ StuckInv' /\ StaleOnlyIfUnregistered' /\ DrainedMeansQuiet'
    BY <1>0 DEF ReachInv, StopReachesAll, RunsAgain, Live, StuckInv, StaleOnlyIfUnregistered,
                DrainedMeansQuiet
  <2> QED
    BY <2>1, <2>3, <2>4 DEF IInv
<1> QED
  BY <1>1, <1>2

LEMMA Invariant == Spec => [](TypeOK /\ IInv)
BY InitInv, NextInv, PTL DEF Spec

\* The server's state keeps its types; in particular its load is never negative
\* and the WaitGroup falls below zero only when Stop comes before Start has
\* added to it (tcpserver.go:148, :170).
THEOREM TypeCorrect == Spec => []TypeOK
BY Invariant, PTL

\* currLoad is the size of the map, whatever accepts and closes interleave, and
\* is no smaller once stopClients has dropped the map (tcpserver.go:40, :47, :59).
THEOREM LoadIsClients == Spec => []LoadCounts
<1>1. TypeOK /\ IInv => LoadCounts
  <2> SUFFICES ASSUME TypeOK, IInv PROVE LoadCounts
    OBVIOUS
  <2>1. clients \cup Owing \in SUBSET Conns /\ clients \in SUBSET (clients \cup Owing)
    BY DEF TypeOK, Owing
  <2>2. /\ Cardinality(clients) <= Cardinality(clients \cup Owing)
        /\ Cardinality(clients) \in Nat /\ Cardinality(clients \cup Owing) \in Nat
    BY <2>1, Counted
  <2> QED
    BY <2>2 DEF IInv, LoadInv, LoadCounts, TypeOK
<1> QED
  BY <1>1, Invariant, PTL

\* A closed connection is left in the map only when its callback was never
\* registered or stopClients has removed it (tcpserver.go:107-109).
THEOREM RegisteredIsDeleted == Spec => []StaleOnlyIfUnregistered
BY Invariant, PTL DEF IInv

\* When Wait lets Stop go on, no handler runs, unless the acceptor set Running
\* again after Stop had cleared it (tcpserver.go:89, netdelegate.go:352-356).
THEOREM WaitDrains == Spec => []DrainedMeansQuiet
BY Invariant, PTL DEF IInv

\* stopClients leaves at most the connection that the acceptor had in its hands,
\* unless the acceptor set Running again after Stop had cleared it, and so goes on
\* accepting; then nothing is claimed (tcpserver.go:53-59, :89).
THEOREM ShutdownReaches == Spec => []StopReachesAll
BY Invariant, PTL DEF IInv, ReachInv

\* It waits for its own mutex only on that connection, with the same exception
\* (tcpserver.go:55-56, :89, :109).
THEOREM StuckOnLast == Spec => []StuckOnlyOnLastAccepted
<1>1. IInv => StuckOnlyOnLastAccepted
  BY DEF IInv, StuckInv, StuckOnlyOnLastAccepted, RunsAgain
<1> QED
  BY <1>1, Invariant, PTL

-----------------------------------------------------------------------------
(* The connections.                                                        *)

\* Who has lost its mutex is in a handler, and down.
WedgeInv ==
  \A c \in Conns : c \in wedged =>
    rpc[c] = "callback" /\ conn[c] \in {"closing", "dele", "closed"}

\* What a step of somebody else, or of the shutdown's books, does to c.
Untouched(c) ==
  /\ conn'[c] = conn[c]
  /\ rpc'[c] = "recv" <=> rpc[c] = "recv"
  /\ c \in wedged' <=> c \in wedged

ConnStep(c) == Conn(c)!Next \/ Untouched(c)

\* A step of the acceptor starts or refuses the connection it has in its hands.
LEMMA AcceptorConn ==
  ASSUME TypeOK, PlaceInv, Acceptor, NEW c \in Conns
  PROVE  /\ ConnStep(c) /\ rpc' = rpc /\ wedged' = wedged
         /\ conn[c] # "none" => conn'[c] = conn[c]
<1>1. CASE TestLoad \/ StartClient
  <2>1. /\ acur \in Conns /\ conn[acur] = "none" /\ rpc' = rpc /\ wedged' = wedged
        /\ conn' = conn \/ \E l \in {"live", "closed"} : conn' = [conn EXCEPT ![acur] = l]
    BY <1>1 DEF TestLoad, StartClient, PlaceInv
  <2>2. CASE conn'[c] = conn[c]
    BY <2>1, <2>2 DEF ConnStep, Untouched
  <2>3. CASE conn'[c] # conn[c]
    <3>1. c = acur /\ conn[c] = "none" /\ conn'[c] \in {"live", "closed"}
      BY <2>1, <2>3 DEF TypeOK
    <3>2. Conn(c)!Start
      BY <2>1, <3>1 DEF Conn!Start, Phase
    <3> QED
      BY <2>1, <3>1, <3>2 DEF ConnStep, Conn!Next
  <2> QED
    BY <2>2, <2>3
<1>2. CASE UNCHANGED cVars
  BY <1>2 DEF cVars, ConnStep, Untouched
<1>3. TestLoad \/ StartClient \/ UNCHANGED cVars
  BY DEF Acceptor, Start, StartAdds, Listen, SetRunning, LoopTest, Accept, AcceptFails,
         AddClient, AddCloseCB
<1> QED
  BY <1>1, <1>2, <1>3

\* The shutdown stops live connections, one in a step, and tears down the one it
\* has stopped, or leaves it in the callback that waits for the shutdown's mutex.
LEMMA SignallerConn ==
  ASSUME TypeOK, PlaceInv, Signaller \/ CloseReturns \/ TimerFires, NEW c \in Conns
  PROVE  /\ ConnStep(c) /\ rpc' = rpc /\ wedged' = wedged
         /\ conn'[c] # conn[c] => /\ conn[c] \in {"live", "closing"}
                                 /\ conn'[c] \in {"closing", "dele", "closed"}
<1>1. CASE StopClient \/ CloseReturns
  <2>1. /\ rpc' = rpc /\ wedged' = wedged
        /\ \/ conn' = conn
           \/ conn[scur] = "live" /\ conn' = [conn EXCEPT ![scur] = "closing"]
           \/ /\ conn[scur] = "closing"
              /\ \E l \in {"dele", "closed"} : conn' = [conn EXCEPT ![scur] = l]
    BY <1>1 DEF StopClient, CloseReturns, PlaceInv
  <2>2. CASE conn'[c] = conn[c]
    BY <2>1, <2>2 DEF ConnStep, Untouched
  <2>3. CASE conn'[c] # conn[c]
    <3>1. \/ conn[c] = "live" /\ conn'[c] = "closing"
          \/ conn[c] = "closing" /\ conn'[c] \in {"dele", "closed"}
      BY <2>1, <2>3 DEF TypeOK
    <3>2. Conn(c)!Stop \/ Conn(c)!Teardown
      BY <2>1, <3>1 DEF Conn!Stop, Conn!Teardown, Phase
    <3> QED
      BY <2>1, <3>1, <3>2 DEF ConnStep, Conn!Next
  <2> QED
    BY <2>2, <2>3
<1>2. CASE UNCHANGED cVars
  BY <1>2 DEF cVars, ConnStep, Untouched
<1>3. StopClient \/ CloseReturns \/ UNCHANGED cVars
  BY DEF Signaller, Signal, StopSwap, CloseListener, StopDone, ArmTimer, Wait, WaitReturns,
         StopClients, NextClient, RemoveCloseCB, MapRaceAborts, StopClientsEnds, Exit,
         TimerFires, cVars, sVars
<1> QED
  BY <1>1, <1>2, <1>3

\* A step of a connection's goroutines is a step of that connection, and of no
\* other.
LEMMA ConnectionConn ==
  ASSUME TypeOK, WedgeInv, NEW d \in Conns, Connection(d), NEW c \in Conns
  PROVE  ConnStep(c)
<1>1. CASE c # d
  <2>1. Untouched(c)
    BY <1>1 DEF Connection, Receive, HandlerAdds, HandlerChecks, HandlerReturns,
                HandlerLeaves, ClientStops, RunCloseCB, DeleClient, Wedge, ReaderGoto,
                Untouched, TypeOK
  <2> QED
    BY <2>1 DEF ConnStep
<1>2. CASE c = d
  <2> USE <1>2 DEF Phase, TypeOK
  <2>1. CASE Receive(d)
    <3>1. Conn(c)!Receive
      BY <2>1 DEF Receive, ReaderGoto, Conn!Receive
    <3> QED
      BY <3>1 DEF ConnStep, Conn!Next
  <2>2. CASE HandlerAdds(d) \/ HandlerChecks(d) \/ (c \notin wedged /\ HandlerReturns(d))
    <3>1. /\ rpc[c] # "recv" /\ rpc'[c] # "recv" /\ conn' = conn /\ wedged' = wedged
      BY <2>2 DEF HandlerAdds, HandlerChecks, HandlerReturns, ReaderGoto
    <3> QED
      BY <3>1 DEF ConnStep, Untouched
  <2>3. CASE HandlerLeaves(d)
    <3>1. c \notin wedged
      BY <2>3 DEF HandlerLeaves, WedgeInv
    <3>2. Conn(c)!HandlerReturns
      BY <2>3, <3>1 DEF HandlerLeaves, ReaderGoto, Conn!HandlerReturns
    <3> QED
      BY <3>2 DEF ConnStep, Conn!Next
  <2>4. CASE ClientStops(d)
    <3>1. Conn(c)!Stop
      BY <2>4 DEF ClientStops, Conn!Stop
    <3> QED
      BY <3>1 DEF ConnStep, Conn!Next
  <2>5. CASE RunCloseCB(d) \/ DeleClient(d)
    <3>1. Conn(c)!Teardown
      BY <2>5 DEF RunCloseCB, DeleClient, Conn!Teardown
    <3> QED
      BY <3>1 DEF ConnStep, Conn!Next
  <2>6. CASE Wedge(d)
    <3>1. Conn(c)!Wedge
      BY <2>6 DEF Wedge, Conn!Wedge
    <3> QED
      BY <3>1 DEF ConnStep, Conn!Next
  <2> QED
    BY <2>1, <2>2, <2>3, <2>4, <2>5, <2>6 DEF Connection
<1> QED
  BY <1>1, <1>2

LEMMA NextWedge == TypeOK /\ PlaceInv /\ WedgeInv /\ Next => WedgeInv'
<1> SUFFICES ASSUME TypeOK, PlaceInv, WedgeInv, Next, NEW c \in Conns, c \in wedged'
             PROVE  rpc'[c] = "callback" /\ conn'[c] \in {"closing", "dele", "closed"}
  BY DEF WedgeInv
<1>1. CASE Acceptor
  BY <1>1, AcceptorConn DEF WedgeInv
<1>2. CASE Signaller \/ CloseReturns \/ TimerFires
  BY <1>2, SignallerConn DEF WedgeInv
<1>3. ASSUME NEW d \in Conns, Connection(d)
      PROVE  rpc'[c] = "callback" /\ conn'[c] \in {"closing", "dele", "closed"}
  <2> USE DEF WedgeInv, TypeOK
  <2>1. CASE Wedge(d)
    BY <2>1 DEF Wedge
  <2>2. CASE Receive(d) \/ HandlerAdds(d) \/ HandlerChecks(d) \/ HandlerLeaves(d)
             \/ (d \notin wedged /\ HandlerReturns(d))
    BY <2>2 DEF Receive, HandlerAdds, HandlerChecks, HandlerReturns, HandlerLeaves,
                ReaderGoto
  <2>3. CASE ClientStops(d) \/ RunCloseCB(d) \/ DeleClient(d)
    BY <2>3 DEF ClientStops, RunCloseCB, DeleClient
  <2> QED
    BY <1>3, <2>1, <2>2, <2>3 DEF Connection
<1> QED
  BY <1>1, <1>2, <1>3 DEF Next

LEMMA InitConn == Init => WedgeInv /\ \A c \in Conns : Conn(c)!Init
BY DEF Init, WedgeInv, Conn!Init, Phase

LEMMA NextConn ==
  TypeOK /\ PlaceInv /\ WedgeInv /\ [Next]_vars
    => \A c \in Conns : [Conn(c)!Next]_(Conn(c)!vars)
<1> SUFFICES ASSUME TypeOK, PlaceInv, WedgeInv, [Next]_vars, NEW c \in Conns
             PROVE  [Conn(c)!Next]_(Conn(c)!vars)
  OBVIOUS
<1>1. ConnStep(c)
  <2>1. CASE Next
    BY <2>1, AcceptorConn, SignallerConn, ConnectionConn DEF Next
  <2>2. CASE UNCHANGED vars
    BY <2>2 DEF vars, cVars, ConnStep, Untouched
  <2> QED
    BY <2>1, <2>2
<1>2. Untouched(c) => UNCHANGED Conn(c)!vars
  BY DEF Untouched, Conn!vars, Phase
<1> QED
  BY <1>1, <1>2 DEF ConnStep

\* The server as a whole, with any number of connections, never does to one of
\* them what the module Connection does not allow: it starts each once, brings
\* none back, and lets its callbacks run once (tcpserver.go:53-57, :101-109).
THEOREM ServerKeepsConnections == Spec => KeepsConnections
<1>1. Spec => [](TypeOK /\ PlaceInv)
  BY Invariant, PTL DEF IInv
<1>2. TypeOK /\ PlaceInv /\ WedgeInv /\ [Next]_vars => WedgeInv'
  <2>1. UNCHANGED vars /\ WedgeInv => WedgeInv'
    BY DEF WedgeInv, vars, cVars
  <2> QED
    BY <2>1, NextWedge
<1> QED
  BY <1>1, <1>2, InitConn, NextConn, PTL DEF Spec, KeepsConnections
=============================================================================
