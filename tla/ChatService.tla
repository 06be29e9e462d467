---------------------------- MODULE ChatService ----------------------------
(***************************************************************************)
(* service.go: the handlers of the chat service and what they share, the   *)
(* client list under its RWMutex and the history.                          *)
(*                                                                         *)
(* Every connection has a reader that runs one handler at a time. The      *)
(* handlers of different connections, and the goroutines that onChat       *)
(* starts for addHistory, interleave. A connection is what Connection.tla  *)
(* says and TcpClient.tla implements: SendAsync accepts a message, refuses *)
(* it when the queue is full, or drops it once the connection is stopped;  *)
(* the reader of a stopped connection can still receive a request until    *)
(* the socket is closed, and can lose the connection's mutex for ever,     *)
(* after which whoever sends to it waits for ever. Whoever sends waits too *)
(* while the writer of that connection is in a write, which lasts as long  *)
(* as the peer does not read.                                              *)
(*                                                                         *)
(* A chat message is its sender and the number of the request. onEcho,     *)
(* onPopular, onStats and the replies to one client change nothing that is *)
(* modelled here.                                                          *)
(***************************************************************************)
EXTENDS Integers, Sequences, FiniteSets

CONSTANTS
  Clients,     \* the connections
  Nobody,      \* no connection
  HistorySize, \* historyRecordCount, 50 in the program
  MaxRequests, \* bound: requests that all connections send together
  Kinds,       \* bound: what they request
  Slow         \* bound: the connections whose writes take time

ASSUME ClientsAssumption == Nobody \notin Clients /\ IsFiniteSet(Clients)
ASSUME KindsAssumption == Kinds \subseteq {"bad", "auth", "clean", "dirty"}
ASSUME SlowAssumption == Slow \subseteq Clients
ASSUME SizeAssumption == HistorySize \in Nat \ {0} /\ MaxRequests \in Nat

VARIABLES
  running,   \* the connections that are not stopped
  open,      \* the connections whose socket this side has not closed
  stopDue,   \* the connections that accepted a message whose callback stops them
  wedged,    \* the connections whose mutex is lost (TcpClient!Wedged)
  writing,   \* the connections whose writer is in a write, with the mutex
  clients,   \* keys of TcpService.clients
  announced, \* the reader whose Lock bars new readers from the RWMutex
  readers,   \* the readers that hold RLock
  pc,        \* pc[c]: where the handler of c is
  requests,  \* how many requests were sent so far
  cur,       \* cur[c]: the message c broadcasts
  todo,      \* todo[c]: the clients its broadcast has not come to
  pending,   \* messages whose addHistory goroutine has not run
  history,   \* historyRecord.history
  snapshot,  \* snapshot[c]: the history read for c, and then what it was given
  inbox,     \* inbox[c]: the broadcasts accepted for c, in order
  refused,   \* refused[c]: the messages c gets nothing of, because the queue was
             \* full or a packet could not hold the body
  added,     \* history variable: all messages ever added to the history
  excused    \* history variable: excused[c], see MissedOnlyIfPending

connVars == <<running, open, stopDue, wedged, writing>>
lockVars == <<announced, readers>>
chatVars == <<cur, todo, inbox, refused>>
historyVars == <<pending, history, snapshot, added, excused>>
vars == <<running, open, stopDue, wedged, writing, clients, announced, readers,
          pc, requests, cur, todo, pending, history, snapshot, inbox, refused,
          added, excused>>

Msg == Clients \X (1..MaxRequests)
NoMsg == <<>>

Elements(s) == {s[i] : i \in DOMAIN s}

TypeOK ==
  /\ open \subseteq Clients
  /\ running \subseteq open
  /\ stopDue \subseteq Clients
  /\ wedged \subseteq Clients \ running
  /\ writing \subseteq Slow
  /\ clients \subseteq Clients
  /\ announced \in Clients \cup {Nobody}
  /\ readers \subseteq Clients
  /\ pc \in [Clients -> {"idle", "bad", "auth", "lock", "snap", "reply",
                         "chat", "bcast"}]
  /\ requests \in 0..MaxRequests
  /\ cur \in [Clients -> Msg \cup {NoMsg}]
  /\ todo \in [Clients -> SUBSET Clients]
  /\ pending \subseteq Msg
  /\ history \in Seq(Msg) /\ Len(history) <= HistorySize
  /\ snapshot \in [Clients -> Seq(Msg)]
  /\ inbox \in [Clients -> Seq(Msg)]
  /\ refused \in [Clients -> SUBSET Msg]
  /\ added \subseteq Msg
  /\ excused \in [Clients -> SUBSET Msg]

Init ==
  /\ running = Clients
  /\ open = Clients
  /\ stopDue = {}
  /\ wedged = {}
  /\ writing = {}
  /\ clients = {}
  /\ announced = Nobody
  /\ readers = {}
  /\ pc = [c \in Clients |-> "idle"]
  /\ requests = 0
  /\ cur = [c \in Clients |-> NoMsg]
  /\ todo = [c \in Clients |-> {}]
  /\ pending = {}
  /\ history = <<>>
  /\ snapshot = [c \in Clients |-> <<>>]
  /\ inbox = [c \in Clients |-> <<>>]
  /\ refused = [c \in Clients |-> {}]
  /\ added = {}
  /\ excused = [c \in Clients |-> {}]

Goto(c, label) == pc' = [pc EXCEPT ![c] = label]

\* The mutex of connection c can be had.
Free(c) == c \notin wedged \cup writing

-----------------------------------------------------------------------------
(* The reader of c takes a request.                                        *)

Request(c, kind) ==
  /\ kind \in Kinds
  /\ pc[c] = "idle"
  /\ c \in open
  /\ requests < MaxRequests
  /\ requests' = requests + 1

\* A body that is not JSON, or an empty user name.
BadRequest(c) ==
  /\ Request(c, "bad")
  /\ Goto(c, "bad")
  /\ UNCHANGED <<connVars, clients, lockVars, chatVars, historyVars>>

\* The order in which onAuth takes its steps: it enters the list of clients,
\* then reads the history, then sends it.
HistoryFirst == [begin |-> "snap", listed |-> "reply", read |-> "auth"]  \* mutant
OnAuth == [begin |-> "auth", listed |-> "snap", read |-> "reply"]

Auth(c) ==
  /\ Request(c, "auth")
  /\ Goto(c, OnAuth.begin)
  /\ UNCHANGED <<connVars, clients, lockVars, chatVars, historyVars>>

\* onChat starts addHistory in a goroutine for a clean message, and none for
\* one with a bad word; both are then broadcast by the handler itself.
Chat(c) ==
  /\ cur' = [cur EXCEPT ![c] = <<c, requests + 1>>]
  /\ \/ Request(c, "clean") /\ pending' = pending \cup {<<c, requests + 1>>}
     \/ Request(c, "dirty") /\ UNCHANGED pending
  /\ Goto(c, "chat")
  /\ UNCHANGED <<connVars, clients, lockVars, todo, inbox, refused,
                 history, snapshot, added, excused>>

-----------------------------------------------------------------------------
(* Connections.                                                            *)

\* Stop by the reader, when RecvMsg fails: nothing is received after that.
ReaderStops(c) ==
  /\ pc[c] = "idle"
  /\ c \in running
  /\ Free(c)
  /\ running' = running \ {c}
  /\ open' = open \ {c}
  /\ UNCHANGED <<stopDue, wedged, writing, clients, lockVars, pc, requests, chatVars,
                 historyVars>>

\* Stop by the writer, for an error reply that it has taken from the queue. The
\* reader can take a request until the socket is closed.
WriterStops(c) ==
  /\ c \in stopDue
  /\ c \in running
  /\ Free(c)
  /\ running' = running \ {c}
  /\ UNCHANGED <<open, stopDue, wedged, writing, clients, lockVars, pc, requests,
                 chatVars, historyVars>>

CloseConn(c) ==
  /\ c \in open \ running
  /\ open' = open \ {c}
  /\ UNCHANGED <<running, stopDue, wedged, writing, clients, lockVars, pc, requests,
                 chatVars, historyVars>>

ConnStops(c) == ReaderStops(c) \/ WriterStops(c) \/ CloseConn(c)

\* A write of the connection's writer, with the mutex held. That there is
\* something to write is left out; it ends when the peer has read or is gone.
WriteStarts(c) ==
  /\ c \in Slow \cap open
  /\ Free(c)
  /\ writing' = writing \cup {c}
  /\ UNCHANGED <<running, open, stopDue, wedged, clients, lockVars, pc, requests,
                 chatVars, historyVars>>

WriteEnds(c) ==
  /\ c \in writing
  /\ writing' = writing \ {c}
  /\ UNCHANGED <<running, open, stopDue, wedged, clients, lockVars, pc, requests,
                 chatVars, historyVars>>

\* The error reply: SendAsync(rsp, func() { client.Stop() }). A full queue drops
\* it with its callback. On a stopped connection the callback runs under the
\* mutex that Stop locks: this reader and the mutex never come back.
ErrorReply(c) ==
  /\ pc[c] = "bad"
  /\ Free(c)
  /\ \/ /\ c \in running
        /\ stopDue' \in {stopDue, stopDue \cup {c}}
        /\ Goto(c, "idle")
        /\ UNCHANGED wedged
     \/ /\ c \notin running
        /\ wedged' = wedged \cup {c}
        /\ UNCHANGED <<stopDue, pc>>
  /\ UNCHANGED <<running, open, writing, clients, lockVars, requests, chatVars,
                 historyVars>>

-----------------------------------------------------------------------------
(* onAuth: addClient under the write lock, getHistory, SendMsg.            *)

\* RWMutex.Lock bars new readers, then waits for the old ones.
AnnounceLock(c) ==
  /\ pc[c] = "auth"
  /\ announced = Nobody
  /\ announced' = c
  /\ Goto(c, "lock")
  /\ UNCHANGED <<connVars, clients, readers, requests, chatVars, historyVars>>

AddClient(c) ==
  /\ pc[c] = "lock"
  /\ readers = {}
  /\ clients' = clients \cup {c}
  /\ announced' = Nobody
  /\ Goto(c, OnAuth.listed)
  /\ UNCHANGED <<connVars, readers, requests, chatVars, historyVars>>

GetHistory(c) ==
  /\ pc[c] = "snap"
  /\ snapshot' = [snapshot EXCEPT ![c] = history]
  /\ excused' = [excused EXCEPT ![c] = pending \cup (added \ Elements(history))]
  /\ Goto(c, OnAuth.read)
  /\ UNCHANGED <<connVars, clients, lockVars, requests, chatVars, pending,
                 history, added>>

\* The answer is accepted with what the history held, or c gets nothing of it:
\* the queue is full, the connection is stopped, or NewNetMsg finds the body too
\* long for a packet and leaves it out.
SendHistory(c) ==
  /\ pc[c] = "reply"
  /\ Free(c)
  /\ \/ c \in running /\ UNCHANGED <<snapshot, refused>>
     \/ /\ snapshot' = [snapshot EXCEPT ![c] = <<>>]
        /\ refused' = [refused EXCEPT ![c] = @ \cup Elements(snapshot[c])]
  /\ Goto(c, "idle")
  /\ UNCHANGED <<connVars, clients, lockVars, requests, cur, todo, inbox, pending,
                 history, added, excused>>

-----------------------------------------------------------------------------
(* broadcast.                                                              *)

RLock(c) ==
  /\ pc[c] = "chat"
  /\ announced = Nobody
  /\ readers' = readers \cup {c}
  /\ todo' = [todo EXCEPT ![c] = clients]
  /\ Goto(c, "bcast")
  /\ UNCHANGED <<connVars, clients, announced, requests, cur, inbox, refused,
                 historyVars>>

\* client.SendMsg(msg) for the clients in any order: it is accepted, refused by
\* a full queue (or accepted, but with a body that NewNetMsg left out), or
\* dropped; it waits while the mutex cannot be had.
SendToAgain(c, d) ==  \* mutant: a message that was accepted is sent again
  /\ pc[c] = "bcast"
  /\ d \in todo[c]
  /\ d \in running
  /\ Len(inbox[d]) < MaxRequests
  /\ inbox' = [inbox EXCEPT ![d] = Append(@, cur[c])]
  /\ UNCHANGED <<connVars, clients, lockVars, pc, requests, cur, todo,
                 refused, historyVars>>
SendToAny(c, d) ==  \* mutant: a stopped connection accepts messages
  /\ pc[c] = "bcast"
  /\ d \in todo[c]
  /\ Free(d)
  /\ todo' = [todo EXCEPT ![c] = @ \ {d}]
  /\ \/ inbox' = [inbox EXCEPT ![d] = Append(@, cur[c])] /\ UNCHANGED refused
     \/ refused' = [refused EXCEPT ![d] = @ \cup {cur[c]}] /\ UNCHANGED inbox
  /\ UNCHANGED <<connVars, clients, lockVars, pc, requests, cur, historyVars>>
SendToRunning(c, d) ==  \* mutant: waits for a stopped connection
  /\ pc[c] = "bcast"
  /\ d \in todo[c]
  /\ Free(d)
  /\ d \in running
  /\ todo' = [todo EXCEPT ![c] = @ \ {d}]
  /\ inbox' = [inbox EXCEPT ![d] = Append(@, cur[c])]
  /\ UNCHANGED <<connVars, clients, lockVars, pc, requests, cur, refused,
                 historyVars>>
SendTo(c, d) ==
  /\ pc[c] = "bcast"
  /\ d \in todo[c]
  /\ Free(d)
  /\ todo' = [todo EXCEPT ![c] = @ \ {d}]
  /\ \/ /\ d \in running
        /\ inbox' = [inbox EXCEPT ![d] = Append(@, cur[c])]
        /\ UNCHANGED refused
     \/ /\ d \in running
        /\ refused' = [refused EXCEPT ![d] = @ \cup {cur[c]}]
        /\ UNCHANGED inbox
     \/ d \notin running /\ UNCHANGED <<inbox, refused>>
  /\ UNCHANGED <<connVars, clients, lockVars, pc, requests, cur, historyVars>>

ReturnLocked(c) ==  \* mutant: RUnlock is missing
  /\ pc[c] = "bcast"
  /\ todo[c] = {}
  /\ Goto(c, "idle")
  /\ UNCHANGED <<connVars, clients, lockVars, requests, chatVars, historyVars>>
RUnlock(c) ==
  /\ pc[c] = "bcast"
  /\ todo[c] = {}
  /\ readers' = readers \ {c}
  /\ Goto(c, "idle")
  /\ UNCHANGED <<connVars, clients, announced, requests, chatVars, historyVars>>

-----------------------------------------------------------------------------
(* The goroutine that onChat starts for a clean message.                   *)

Newest(s) == SubSeq(s, IF Len(s) > HistorySize THEN Len(s) - HistorySize + 1 ELSE 1,
                    Len(s))

AddHistory(m) ==
  /\ m \in pending
  /\ pending' = pending \ {m}
  /\ history' = Newest(Append(history, m))
  /\ added' = added \cup {m}
  /\ UNCHANGED <<connVars, clients, lockVars, pc, requests, chatVars, snapshot,
                 excused>>

-----------------------------------------------------------------------------

Handler(c) ==
  \/ ErrorReply(c)
  \/ AnnounceLock(c) \/ AddClient(c) \/ GetHistory(c) \/ SendHistory(c)
  \/ RLock(c) \/ (\E d \in Clients : SendTo(c, d)) \/ RUnlock(c)

Next ==
  \/ \E c \in Clients :
       \/ BadRequest(c) \/ Auth(c) \/ Chat(c)
       \/ ConnStops(c) \/ WriteStarts(c) \/ WriteEnds(c)
       \/ Handler(c)
  \/ \E m \in pending : AddHistory(m)

Spec == Init /\ [][Next]_vars

\* A handler that can take a step takes it. One that waits for a mutex, or for
\* the RWMutex, can take it only from time to time: both let nobody starve,
\* hence strong fairness. Requests, disconnections and the end of a write are
\* up to the peers.
Fairness == \A c \in Clients : SF_vars(Handler(c))

FairSpec == Spec /\ Fairness

-----------------------------------------------------------------------------
(* Properties.                                                             *)

\* No connection is sent the broadcasts of one sender in another order than that
\* sender wrote them. This is said of broadcasts alone: a login is also sent the
\* history, where the goroutines of onChat may have put two messages of one
\* sender the other way round, and which may come after newer broadcasts
\* (service.go:130, :200).
BroadcastOrder ==
  \A c \in Clients : \A i, j \in DOMAIN inbox[c] :
    i < j /\ inbox[c][i][1] = inbox[c][j][1] => inbox[c][i][2] < inbox[c][j][2]

\* The messages that c asked to broadcast and that have been.
Broadcast(m) == cur[m[1]] # NoMsg /\ \/ m[2] < cur[m[1]][2]
                                     \/ m = cur[m[1]] /\ pc[m[1]] = "idle"

\* A user who has logged in misses a clean message only
\*   - when the goroutine that adds it to the history had not run when the
\*     history was read, or newer messages had displaced it by then (excused); or
\*   - when what would have brought it, the broadcast or the answer to the
\*     login, met a full queue or had its body left out (refused).
\* addClient comes before getHistory, so no message falls between the list of
\* clients and the history (service.go:118).
MissedOnlyIfPending ==
  \A c \in Clients : pc[c] \notin {"snap", "reply"} /\ c \in clients \cap running =>
    \A m \in added : Broadcast(m) =>
      m \in Elements(inbox[c]) \cup refused[c] \cup Elements(snapshot[c]) \cup excused[c]

\* No connection is in a write for ever.
WritesEnd == \A c \in Clients : []<>(c \notin writing)

\* If no write lasts for ever, a broadcast comes to its end unless some
\* connection has lost its mutex.
BroadcastEnds ==
  WritesEnd => \A c \in Clients : pc[c] = "bcast" ~> pc[c] # "bcast" \/ wedged # {}

\* So does a login, however many broadcasts run at the same time.
LoginEnds ==
  WritesEnd => \A c \in Clients : pc[c] = "auth" ~> pc[c] = "idle" \/ wedged # {}

\* What the comment on broadcast says, "to all clients" (service.go:57): it is
\* not so, even when every write ends. A listed connection that has lost its
\* mutex stops every broadcast that comes to it, and with the read lock it holds
\* every later login.
BroadcastReachesAll ==
  WritesEnd => \A c \in Clients : pc[c] = "bcast" ~> pc[c] # "bcast"

-----------------------------------------------------------------------------
(* The connections, as Connection.tla says what they are. The close        *)
(* callbacks are the server's, and what is counted is the broadcasts.      *)

Phase(c) ==
  CASE c \in running -> "up"
    [] c \in open \ running -> "down"
    [] OTHER -> "shut"

Conn(c) == INSTANCE Connection WITH
  Outside <- FALSE,
  phase <- Phase(c),
  handling <- pc[c] # "idle",
  stopDue <- c \in stopDue \cap running,
  wedged <- c \in wedged,
  accepted <- Len(inbox[c])

\* The handlers of all connections together, and the broadcasts that cross from
\* one to the other, use each connection only as a TcpClient can be used: what
\* is assumed of connections here is what TcpClient implements
\* (service.go:55-64, :101, :113, :172).
KeepsConnections ==
  /\ \A c \in Clients : Conn(c)!Init
  /\ [][\A c \in Clients : [Conn(c)!Next]_(Conn(c)!vars)]_vars
=============================================================================
