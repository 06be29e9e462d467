----------------------------- MODULE TcpClient -----------------------------
(***************************************************************************)
(* One accepted connection of the chat server: tcp/tcpclient.go with       *)
(* EnableReconnect = false, as newTcpClient builds it in                   *)
(* DefaultNetDelegate.NewTcpClient.                                        *)
(*                                                                         *)
(* Four kinds of goroutine share the connection:                           *)
(*   Reader    TcpClient.reader: receives a packet, runs its handler,      *)
(*             which may answer with SendAsync, and calls Stop at the end; *)
(*   Writer    TcpClient.writer: drains the send channel into the socket;  *)
(*   Senders   the other goroutines that call SendMsg: broadcasts run by   *)
(*             other connections' readers, and the goroutines of onPopular *)
(*             and onStats;                                                *)
(*   Stoppers  the goroutines that call Stop from outside, such as         *)
(*             TcpServer.stopClients.                                      *)
(*                                                                         *)
(* A message is its number of acceptance and whether it carries a callback *)
(* (argv[0]); the only callback of the program is func() { client.Stop() } *)
(* (service.go, onAuth and onChat), always given by the Reader's handler.  *)
(*                                                                         *)
(* newTcpClient takes conn.File().Fd(), except on Windows, which puts the  *)
(* socket in blocking mode: the read and write deadlines do not end a call *)
(* that is under way, and Conn.Close() waits for it. A peer that does not  *)
(* send, or not read, keeps such a call for as long as it likes.           *)
(***************************************************************************)
EXTENDS Integers, Sequences

CONSTANTS
  Senders,    \* goroutines that send and never pass a callback
  Stoppers,   \* goroutines that call Stop once
  Reader,     \* the reader goroutine
  Writer,     \* the writer goroutine
  NoThread,   \* holder of a free mutex
  QueueSize,  \* capacity of chSend (DEFAULT_SEND_Q_SIZE, 256 in the program)
  MaxCalls    \* bound: how many SendAsync calls a behaviour makes

Threads == Senders \cup Stoppers \cup {Reader, Writer}

ASSUME ThreadsAssumption ==
  /\ Reader # Writer
  /\ {Reader, Writer} \cap (Senders \cup Stoppers) = {}
  /\ Senders \cap Stoppers = {}
  /\ NoThread \notin Threads

ASSUME BoundsAssumption ==
  /\ QueueSize \in Nat \ {0}
  /\ MaxCalls \in Nat

VARIABLES
  lock,       \* holder of the embedded sync.Mutex
  Running,    \* client.Running
  connOpen,   \* Close was not called on client.Conn
  inside,     \* the goroutines that are in a system call on the socket
  chSend,     \* client.chSend: an open channel, a closed one, or nil
  queue,      \* what the channel's buffer holds
  inflight,   \* the writer's pkt.asyncMsg, as a sequence of at most one
  wire,       \* numbers of the messages written to the socket, in order
  accepted,   \* how many messages SendAsync has put in the channel
  calls,      \* how many SendAsync calls were made
  teardowns,  \* how many times Stop ran the close callbacks
  pc          \* where each goroutine is

vars == <<lock, Running, connOpen, inside, chSend, queue, inflight, wire,
          accepted, calls, teardowns, pc>>

Message == [id : Nat, cb : BOOLEAN]

\* The steps of Stop after its critical section.
TeardownSteps == {"close", "closeCh", "nilCh", "runCB"}

Labels == {"idle", "recv", "handle", "start", "wait", "lock", "write", "stop",
           "done"} \cup TeardownSteps

TypeOK ==
  /\ lock \in Threads \cup {NoThread}
  /\ Running \in BOOLEAN
  /\ connOpen \in BOOLEAN
  /\ inside \subseteq {Reader, Writer}
  /\ chSend \in {"open", "closed", "nil"}
  /\ queue \in Seq(Message)
  /\ Len(queue) <= QueueSize
  /\ inflight \in Seq(Message)
  /\ Len(inflight) <= 1
  /\ wire \in Seq(Nat)
  /\ accepted \in Nat
  /\ calls \in Nat
  /\ teardowns \in Nat
  /\ pc \in [Threads -> Labels]

Init ==
  /\ lock = NoThread
  /\ Running = TRUE
  /\ connOpen = TRUE
  /\ inside = {}
  /\ chSend = "open"
  /\ queue = <<>>
  /\ inflight = <<>>
  /\ wire = <<>>
  /\ accepted = 0
  /\ calls = 0
  /\ teardowns = 0
  /\ pc = [t \in Threads |-> CASE t = Reader -> "recv"
                               [] t = Writer -> "start"
                               [] OTHER -> "idle"]

Goto(t, label) == pc' = [pc EXCEPT ![t] = label]

-----------------------------------------------------------------------------
(* The reader: RecvMsg returns a packet, or fails (peer gone, packet       *)
(* refused, connection closed here). No deadline is sure to end its read.  *)

StartRead ==
  /\ pc[Reader] = "recv"
  /\ Reader \notin inside
  /\ connOpen
  /\ inside' = inside \cup {Reader}
  /\ UNCHANGED <<lock, Running, connOpen, chSend, queue, inflight, wire,
                 accepted, calls, teardowns, pc>>

\* Also when Close was called meanwhile.
Receive ==
  /\ pc[Reader] = "recv"
  /\ Reader \in inside
  /\ inside' = inside \ {Reader}
  /\ Goto(Reader, "handle")
  /\ UNCHANGED <<lock, Running, connOpen, chSend, queue, inflight, wire,
                 accepted, calls, teardowns>>

ReceiveFails ==
  /\ pc[Reader] = "recv"
  /\ inside' = inside \ {Reader}
  /\ Goto(Reader, "stop")
  /\ UNCHANGED <<lock, Running, connOpen, chSend, queue, inflight, wire,
                 accepted, calls, teardowns>>

\* A handler that answers from another goroutine (or not at all).
HandlerReturns ==
  /\ pc[Reader] = "handle"
  /\ Goto(Reader, "recv")
  /\ UNCHANGED <<lock, Running, connOpen, inside, chSend, queue, inflight, wire,
                 accepted, calls, teardowns>>

-----------------------------------------------------------------------------
(* SendAsync(msg) and SendAsync(msg, func() { client.Stop() }).            *)

\* Where t is when it calls SendAsync, and where it is once that returns.
Calling(t) == IF t = Reader THEN pc[t] = "handle" ELSE pc[t] = "idle"
AfterSend(t) == IF t = Reader THEN "recv" ELSE "idle"

\* The select of SendAsync finds room in the channel's buffer.
HasRoom == Len(queue) < QueueSize

\* Running, and the channel takes the message. (The code also tests chSend for
\* nil; NoSendOnClosedChannel shows that it never is while Running.)
SendAccepted(t, cb) ==
  /\ Running
  /\ HasRoom
  /\ queue' = Append(queue, [id |-> accepted + 1, cb |-> cb])
  /\ accepted' = accepted + 1
  /\ Goto(t, AfterSend(t))
  /\ UNCHANGED lock

\* Running and the buffer is full: select takes its default, SendAsync returns
\* an error that no caller looks at, and the callback is dropped with the message.
SendRefusedLocked(t) ==  \* mutant: returns without unlocking
  /\ Running
  /\ ~HasRoom
  /\ lock' = t
  /\ Goto(t, AfterSend(t))
  /\ UNCHANGED <<queue, accepted>>
SendRefused(t) ==
  /\ Running
  /\ ~HasRoom
  /\ Goto(t, AfterSend(t))
  /\ UNCHANGED <<queue, accepted, lock>>

\* Not running: a message without callback is dropped silently.
SendDropped(t, cb) ==
  /\ ~Running
  /\ ~cb
  /\ Goto(t, AfterSend(t))
  /\ UNCHANGED <<queue, accepted, lock>>

\* Not running: the callback is called while SendAsync still holds the
\* mutex, so t enters Stop as the holder of the mutex that Stop locks.
SendRunsCallback(t, cb) ==
  /\ ~Running
  /\ cb
  /\ lock' = t
  /\ Goto(t, "stop")
  /\ UNCHANGED <<queue, accepted>>

SendAsync(t, cb) ==
  /\ Calling(t)
  /\ lock = NoThread
  /\ calls < MaxCalls
  /\ calls' = calls + 1
  /\ \/ SendAccepted(t, cb)
     \/ SendRefused(t)
     \/ SendDropped(t, cb)
     \/ SendRunsCallback(t, cb)
  /\ UNCHANGED <<Running, connOpen, inside, chSend, inflight, wire, teardowns>>

-----------------------------------------------------------------------------
(* Stop.                                                                   *)

CallStop(t) ==
  /\ pc[t] = "idle"
  /\ Goto(t, "stop")
  /\ UNCHANGED <<lock, Running, connOpen, inside, chSend, queue, inflight, wire,
                 accepted, calls, teardowns>>

\* The writer's callback returns to the writer's loop; every other caller
\* of Stop is at its end.
AfterStop(t) == IF t = Writer THEN "wait" ELSE "done"

\* Stop's critical section: it reads Running and clears it. Only the call that
\* read TRUE goes on.
AnyCall == TRUE  \* mutant
GoesOn == Running

StopSwapNoClear(t) ==  \* mutant: Running is left set
  /\ pc[t] = "stop"
  /\ lock = NoThread
  /\ Goto(t, IF GoesOn THEN "close" ELSE AfterStop(t))
  /\ UNCHANGED <<lock, Running, connOpen, inside, chSend, queue, inflight, wire,
                 accepted, calls, teardowns>>
StopSwap(t) ==
  /\ pc[t] = "stop"
  /\ lock = NoThread
  /\ Running' = FALSE
  /\ Goto(t, IF GoesOn THEN "close" ELSE AfterStop(t))
  /\ UNCHANGED <<lock, connOpen, inside, chSend, queue, inflight, wire, accepted,
                 calls, teardowns>>

CloseConnOnly(t) ==  \* mutant: the channel is not closed
  /\ pc[t] = "close"
  /\ connOpen' = FALSE
  /\ Goto(t, "runCB")
  /\ UNCHANGED <<lock, Running, inside, chSend, queue, inflight, wire, accepted,
                 calls, teardowns>>
CloseConn(t) ==
  /\ pc[t] = "close"
  /\ connOpen' = FALSE
  /\ Goto(t, "closeCh")
  /\ UNCHANGED <<lock, Running, inside, chSend, queue, inflight, wire, accepted,
                 calls, teardowns>>

\* Conn.Close() returns when no call is under way, then close(client.chSend): the
\* buffer stays readable.
CloseChannel(t) ==
  /\ pc[t] = "closeCh"
  /\ inside = {}
  /\ chSend' = "closed"
  /\ Goto(t, "nilCh")
  /\ UNCHANGED <<lock, Running, connOpen, inside, queue, inflight, wire, accepted,
                 calls, teardowns>>

NilChannel(t) ==
  /\ pc[t] = "nilCh"
  /\ chSend' = "nil"
  /\ Goto(t, "runCB")
  /\ UNCHANGED <<lock, Running, connOpen, inside, queue, inflight, wire, accepted,
                 calls, teardowns>>

\* The close callbacks and Delegate.OnDisconnected (TcpServer models the
\* callback that stopClients and the accept loop care about).
RunCloseCBs(t) ==
  /\ pc[t] = "runCB"
  /\ teardowns' = teardowns + 1
  /\ Goto(t, AfterStop(t))
  /\ UNCHANGED <<lock, Running, connOpen, inside, chSend, queue, inflight, wire,
                 accepted, calls>>

StopStep(t) ==
  StopSwap(t) \/ CloseConn(t) \/ CloseChannel(t) \/ NilChannel(t) \/ RunCloseCBs(t)

-----------------------------------------------------------------------------
(* The writer.                                                             *)

\* It reads client.chSend once; a connection stopped before that leaves nil.
WriterStart ==
  /\ pc[Writer] = "start"
  /\ Goto(Writer, IF chSend = "nil" THEN "done" ELSE "wait")
  /\ UNCHANGED <<lock, Running, connOpen, inside, chSend, queue, inflight, wire,
                 accepted, calls, teardowns>>

\* A closed channel still delivers what its buffer holds.
WriterReceive ==
  /\ pc[Writer] = "wait"
  /\ queue # <<>>
  /\ inflight' = <<Head(queue)>>
  /\ queue' = Tail(queue)
  /\ Goto(Writer, "lock")
  /\ UNCHANGED <<lock, Running, connOpen, inside, chSend, wire, accepted, calls,
                 teardowns>>

Undrained == TRUE  \* mutant: a closed channel ends the loop at once
Drained == queue = <<>>

WriterEnds ==
  /\ pc[Writer] = "wait"
  /\ Drained
  /\ chSend # "open"
  /\ Goto(Writer, "done")
  /\ UNCHANGED <<lock, Running, connOpen, inside, chSend, queue, inflight, wire,
                 accepted, calls, teardowns>>

WriterLock ==
  /\ pc[Writer] = "lock"
  /\ lock = NoThread
  /\ lock' = Writer
  /\ Goto(Writer, "write")
  /\ UNCHANGED <<Running, connOpen, inside, chSend, queue, inflight, wire, accepted,
                 calls, teardowns>>

\* Delegate.SendMsg, with the mutex held throughout. Once in the system call it
\* ends when the peer has read enough or is gone.
StartWrite ==
  /\ pc[Writer] = "write"
  /\ Writer \notin inside
  /\ connOpen
  /\ inside' = inside \cup {Writer}
  /\ UNCHANGED <<lock, Running, connOpen, chSend, queue, inflight, wire,
                 accepted, calls, teardowns, pc>>

\* The callback of the message runs whether it was written or not.
AfterWriteIfSent(written) ==  \* mutant
  IF written /\ inflight[1].cb THEN "stop" ELSE "wait"
AfterWrite(written) == IF inflight[1].cb THEN "stop" ELSE "wait"

\* The write succeeds, or fails (closed connection, peer gone) with an error the
\* writer ignores. The mutex is released before the callback runs.
WriterWriteRetry ==  \* mutant: a message that failed goes back in the queue
  /\ pc[Writer] = "write"
  /\ \/ /\ Writer \in inside
        /\ wire' = Append(wire, inflight[1].id)
        /\ UNCHANGED queue
     \/ /\ queue' = queue \o inflight
        /\ UNCHANGED wire
  /\ lock' = NoThread
  /\ inside' = inside \ {Writer}
  /\ inflight' = <<>>
  /\ Goto(Writer, "wait")
  /\ UNCHANGED <<Running, connOpen, chSend, accepted, calls, teardowns>>
WriterWrite ==
  /\ pc[Writer] = "write"
  /\ \E written \in BOOLEAN :
        /\ written => Writer \in inside
        /\ wire' = IF written THEN Append(wire, inflight[1].id) ELSE wire
        /\ Goto(Writer, AfterWrite(written))
  /\ lock' = NoThread
  /\ inside' = inside \ {Writer}
  /\ inflight' = <<>>
  /\ UNCHANGED <<Running, connOpen, chSend, queue, accepted, calls, teardowns>>

-----------------------------------------------------------------------------

Next ==
  \/ StartRead \/ Receive \/ ReceiveFails \/ HandlerReturns
  \/ \E t \in Senders : SendAsync(t, FALSE)
  \/ \E cb \in BOOLEAN : SendAsync(Reader, cb)
  \/ \E t \in Stoppers : CallStop(t)
  \/ \E t \in Threads : StopStep(t)
  \/ WriterStart \/ WriterReceive \/ WriterEnds
  \/ WriterLock \/ StartWrite \/ WriterWrite

Spec == Init /\ [][Next]_vars

(***************************************************************************)
(* Goroutines that can run do run; sync.Mutex hands itself to a waiter     *)
(* that starves, so the two steps that lock it under contention are        *)
(* strongly fair. Nothing makes a peer send or read, a handler return, a   *)
(* sender call or a stopper stop; a call on the socket may last for ever.  *)
(***************************************************************************)
Fairness ==
  /\ \A t \in Threads : /\ SF_vars(StopSwap(t))
                        /\ WF_vars(StopStep(t))
  /\ WF_vars(WriterStart \/ WriterReceive \/ WriterEnds \/ StartWrite)
  /\ WF_vars(Writer \notin inside /\ WriterWrite)
  /\ SF_vars(WriterLock)

FairSpec == Spec /\ Fairness

-----------------------------------------------------------------------------
(* Properties.                                                             *)

Tearing(t) == pc[t] \in TeardownSteps

\* The Reader holds the mutex and waits for it: its handler's answer found
\* the connection stopped and SendAsync called Stop under the lock.
Wedged == lock = Reader /\ pc[Reader] = "stop"

\* However many goroutines call Stop at once (the reader at its end, the
\* writer's callback, stopClients), one of them closes the socket and the
\* channel and runs the callbacks, once: close(chSend) never runs twice and
\* a send callback can never remove the client twice (tcpclient.go:171).
TeardownOnce ==
  /\ \A t, u \in Threads : Tearing(t) /\ Tearing(u) => t = u
  /\ \A t \in Threads : Tearing(t) => ~Running /\ teardowns = 0
  /\ teardowns <= 1

\* SendAsync checks Running under the mutex and Stop closes the channel
\* without it; still no send can meet a closed or nil channel, because the
\* channel stays open as long as Running holds (tcpclient.go:184, :311).
NoSendOnClosedChannel == Running => chSend = "open" /\ connOpen

\* The mutex is only ever held across a step by the writer inside a socket
\* write, or forever by the reader whose callback ran under it on a stopped
\* connection: no other interleaving can block the senders.
OnlyCallbackWedges ==
  lock # NoThread =>
    \/ lock = Writer /\ pc[Writer] = "write"
    \/ Wedged /\ ~Running

\* Order of the numbers a peer can still see: the written, the one in the
\* writer's hands, the queued.
Ids(msgs) == [i \in DOMAIN msgs |-> msgs[i].id]
Pipeline == wire \o Ids(inflight) \o Ids(queue)

\* Messages reach the socket in the order SendAsync accepted them and at
\* most once, whatever fails on the way (a failed write leaves a gap).
WireOrder ==
  /\ \A i, j \in DOMAIN Pipeline : i < j => Pipeline[i] < Pipeline[j]
  /\ \A i \in DOMAIN Pipeline : Pipeline[i] <= accepted

\* Nothing accepted is left behind by a writer that ran: when it ends with
\* messages still queued, it had started after Stop had dropped the channel
\* and has written nothing (tcpclient.go:268).
NothingLeftBehind ==
  pc[Writer] = "done" /\ queue # <<>> => wire = <<>> /\ Len(queue) = accepted

\* No write, and no read, lasts for ever.
WritesEnd == []<>(Writer \notin inside)
ReadsEnd == []<>(Reader \notin inside)

\* If no write lasts for ever, an accepted error reply (AuthRsp with the Stop
\* callback) leads to the connection being stopped, whether the reply and those
\* before it can be written or not (service.go:101, :113, :172). The write deadline
\* does not see to it, since the socket is in blocking mode (tcpclient.go:477-480).
PendingStop == \E m \in {queue[i] : i \in DOMAIN queue}
                          \cup {inflight[i] : i \in DOMAIN inflight} : m.cb
ErrorReplyStops == WritesEnd => (PendingStop ~> ~Running)

\* If no call on the socket lasts for ever, a stopped connection is torn down and
\* its writer goroutine ends, unless the mutex is wedged. With a peer that keeps
\* silent, whoever stops the connection waits in Conn.Close() for its reader
\* (tcpclient.go:180).
StopCompletes ==
  WritesEnd /\ ReadsEnd =>
    (~Running ~> teardowns = 1 /\ (pc[Writer] = "done" \/ Wedged))

-----------------------------------------------------------------------------
(* What the users of a connection see of it.                               *)

Phase ==
  CASE Running -> "up"
    [] ~Running /\ chSend = "open" -> "down"
    [] ~Running /\ chSend # "open" /\ teardowns = 0 -> "shut"
    [] OTHER -> "closed"

\* A Reader that has lost the mutex is still in its handler, inside SendAsync.
Handling == pc[Reader] = "handle" \/ Wedged

\* The callback's message is in the queue or in the writer's hands, or the
\* writer is in the callback.
StopDue == Running /\ (PendingStop \/ pc[Writer] = "stop")

Conn == INSTANCE Connection WITH
  Outside <- Stoppers # {},
  phase <- Phase,
  handling <- Handling,
  stopDue <- StopDue,
  wedged <- Wedged,
  accepted <- accepted

\* The goroutines together are the connection that service.go and tcpserver.go
\* rely on: it goes through its life once and in order, it accepts messages
\* only while it is up, a callback it accepted is not lost before the
\* connection is stopped, and its mutex is lost only by a handler that answers
\* after that (tcpclient.go:171-201, :289-333).
ImplementsConnection == Conn!Spec
=============================================================================
