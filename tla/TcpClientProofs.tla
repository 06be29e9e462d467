-------------------------- MODULE TcpClientProofs --------------------------
(***************************************************************************)
(* Proofs about TcpClient, for any sets of senders and stoppers, any queue *)
(* size and any number of calls.                                           *)
(***************************************************************************)
EXTENDS TcpClient, SequenceTheorems, TLAPS

-----------------------------------------------------------------------------
(* The parts of the inductive invariant.                                   *)

\* The writer holds a message from the moment it receives it to the end of the
\* write, and at no other time.
InflightInv == pc[Writer] \in {"lock", "write"} <=> inflight # <<>>

\* The mutex: OnlyCallbackWedges, and the writer is where its holding the
\* mutex says.
LockInv ==
  /\ pc[Writer] = "write" <=> lock = Writer
  /\ OnlyCallbackWedges

\* What Stop's critical section decides: nobody has torn the connection down
\* while Running holds.
StopInv ==
  /\ TeardownOnce
  /\ Running => teardowns = 0
  /\ NoSendOnClosedChannel

-----------------------------------------------------------------------------

LEMMA ThreadsFacts ==
  /\ Reader \in Threads /\ Writer \in Threads /\ Reader # Writer
  /\ Senders \subseteq Threads /\ Stoppers \subseteq Threads
  /\ Reader \notin Senders /\ Writer \notin Senders
  /\ Reader \notin Stoppers /\ Writer \notin Stoppers
  /\ NoThread \notin Threads
BY ThreadsAssumption DEF Threads

\* Everything but who is in a system call.
seen == <<lock, Running, connOpen, chSend, queue, inflight, wire, accepted, calls,
          teardowns, pc>>

\* A step of t moves t and nobody else.
LEMMA GotoFacts ==
  ASSUME pc \in [Threads -> Labels], NEW t \in Threads, NEW l \in Labels,
         Goto(t, l)
  PROVE  /\ pc' \in [Threads -> Labels]
         /\ pc'[t] = l
         /\ \A u \in Threads : u # t => pc'[u] = pc[u]
BY DEF Goto

-----------------------------------------------------------------------------

LEMMA InitType == Init => TypeOK /\ InflightInv
<1> SUFFICES ASSUME Init PROVE TypeOK /\ InflightInv
  OBVIOUS
<1>1. TypeOK
  BY BoundsAssumption DEF Init, TypeOK, Labels, TeardownSteps, Message
<1>2. InflightInv
  BY ThreadsFacts DEF Init, InflightInv
<1> QED BY <1>1, <1>2

\* Only the start of a call on the socket lets a goroutine into it.
LEMMA InsideSteps == [Next]_vars => StartRead \/ StartWrite \/ inside' \subseteq inside
BY DEF Next, vars, Receive, ReceiveFails, HandlerReturns, SendAsync, CallStop,
       StopStep, StopSwap, CloseConn, CloseChannel, NilChannel, RunCloseCBs,
       WriterStart, WriterReceive, WriterEnds, WriterLock, WriterWrite

LEMMA NextType == TypeOK /\ InflightInv /\ [Next]_vars => TypeOK' /\ InflightInv'
<1> SUFFICES ASSUME TypeOK, InflightInv, [Next]_vars
             PROVE  TypeOK' /\ InflightInv'
  OBVIOUS
<1> USE ThreadsFacts, BoundsAssumption
<1>0. pc \in [Threads -> Labels]
  BY DEF TypeOK
<1>i. inside' \subseteq {Reader, Writer}
  <2>1. inside \subseteq {Reader, Writer}
    BY DEF TypeOK
  <2>2. CASE StartRead \/ StartWrite
    BY <2>1, <2>2 DEF StartRead, StartWrite
  <2> QED BY <2>1, <2>2, InsideSteps
<1>1. CASE Receive \/ ReceiveFails \/ HandlerReturns
  <2>1. \E l \in {"handle", "stop", "recv"} : Goto(Reader, l)
    BY <1>1 DEF Receive, ReceiveFails, HandlerReturns
  <2>2. pc' \in [Threads -> Labels] /\ pc'[Writer] = pc[Writer]
    BY <1>0, <2>1, GotoFacts DEF Labels
  <2>3. UNCHANGED <<lock, Running, connOpen, chSend, queue, inflight, wire,
                    accepted, calls, teardowns>>
    BY <1>1 DEF Receive, ReceiveFails, HandlerReturns
  <2> QED BY <1>i, <2>2, <2>3 DEF TypeOK, InflightInv
<1>2. ASSUME NEW t \in Senders \cup {Reader}, NEW cb \in BOOLEAN, SendAsync(t, cb)
      PROVE  TypeOK' /\ InflightInv'
  <2>0. t \in Threads /\ t # Writer
    OBVIOUS
  <2>1. \E l \in {"recv", "idle", "stop"} : Goto(t, l)
    BY <1>2 DEF SendAsync, SendAccepted, SendRefused, SendDropped,
                SendRunsCallback, AfterSend
  <2>2. pc' \in [Threads -> Labels] /\ pc'[Writer] = pc[Writer]
    BY <1>0, <2>0, <2>1, GotoFacts DEF Labels
  <2>3. lock' \in Threads \cup {NoThread}
    BY <1>2, <2>0 DEF SendAsync, SendAccepted, SendRefused, SendDropped,
                      SendRunsCallback, TypeOK
  <2>4. /\ queue' \in Seq(Message)
        /\ Len(queue') <= QueueSize
        /\ accepted' \in Nat
    <3>1. CASE SendAccepted(t, cb)
      <4>1. [id |-> accepted + 1, cb |-> cb] \in Message
        BY DEF Message, TypeOK
      <4> QED BY <3>1, <4>1 DEF SendAccepted, HasRoom, TypeOK
    <3>2. CASE ~SendAccepted(t, cb)
      BY <1>2, <3>2 DEF SendAsync, SendRefused, SendDropped, SendRunsCallback,
                        TypeOK
    <3> QED BY <3>1, <3>2
  <2>5. calls' \in Nat
    BY <1>2 DEF SendAsync, TypeOK
  <2>6. UNCHANGED <<Running, connOpen, chSend, inflight, wire, teardowns>>
    BY <1>2 DEF SendAsync
  <2> QED BY <1>i, <2>2, <2>3, <2>4, <2>5, <2>6 DEF TypeOK, InflightInv
<1>3. ASSUME NEW t \in Stoppers, CallStop(t)
      PROVE  TypeOK' /\ InflightInv'
  <2>1. pc' \in [Threads -> Labels] /\ pc'[Writer] = pc[Writer]
    BY <1>0, <1>3, GotoFacts DEF CallStop, Labels
  <2> QED BY <1>i, <1>3, <2>1 DEF CallStop, TypeOK, InflightInv
<1>4. ASSUME NEW t \in Threads, StopStep(t)
      PROVE  TypeOK' /\ InflightInv'
  <2>1. /\ pc[t] \notin {"lock", "write"}
        /\ \E l \in TeardownSteps \cup {"wait", "done"} : Goto(t, l)
    BY <1>4 DEF StopStep, StopSwap, CloseConn, CloseChannel, NilChannel,
                RunCloseCBs, AfterStop, TeardownSteps
  <2>2. /\ pc' \in [Threads -> Labels]
        /\ pc[Writer] \in {"lock", "write"} <=> pc'[Writer] \in {"lock", "write"}
    BY <1>0, <2>1, GotoFacts DEF Labels, TeardownSteps
  <2>3. UNCHANGED <<lock, queue, inflight, wire, accepted, calls>>
    BY <1>4 DEF StopStep, StopSwap, CloseConn, CloseChannel, NilChannel,
                RunCloseCBs
  <2>4. /\ Running' \in {Running, FALSE}
        /\ connOpen' \in {connOpen, FALSE}
        /\ chSend' \in {chSend, "closed", "nil"}
        /\ teardowns' \in {teardowns, teardowns + 1}
    BY <1>4 DEF StopStep, StopSwap, CloseConn, CloseChannel, NilChannel,
                RunCloseCBs
  <2>5. Running' \in BOOLEAN /\ connOpen' \in BOOLEAN
    BY <2>4 DEF TypeOK
  <2>6. chSend' \in {"open", "closed", "nil"} /\ teardowns' \in Nat
    BY <2>4 DEF TypeOK
  <2> QED BY <1>i, <2>2, <2>3, <2>5, <2>6 DEF TypeOK, InflightInv
<1>5. CASE WriterStart \/ WriterEnds
  <2>1. /\ pc[Writer] \notin {"lock", "write"}
        /\ \E l \in {"wait", "done"} : Goto(Writer, l)
        /\ UNCHANGED <<lock, Running, connOpen, chSend, queue, inflight, wire,
                       accepted, calls, teardowns>>
    BY <1>5 DEF WriterStart, WriterEnds
  <2>2. pc' \in [Threads -> Labels] /\ pc'[Writer] \notin {"lock", "write"}
    BY <1>0, <2>1, GotoFacts DEF Labels
  <2> QED BY <1>i, <2>1, <2>2 DEF TypeOK, InflightInv
<1>6. CASE WriterReceive
  <2>1. pc' \in [Threads -> Labels] /\ pc'[Writer] = "lock"
    BY <1>0, <1>6, GotoFacts DEF WriterReceive, Labels
  <2>2. Head(queue) \in Message /\ Tail(queue) \in Seq(Message)
    BY <1>6 DEF WriterReceive, TypeOK
  <2>3. Len(Tail(queue)) <= QueueSize
    BY <1>6 DEF WriterReceive, TypeOK
  <2> QED BY <1>i, <1>6, <2>1, <2>2, <2>3 DEF WriterReceive, TypeOK, InflightInv
<1>7. CASE WriterLock
  <2>1. pc' \in [Threads -> Labels] /\ pc'[Writer] = "write"
    BY <1>0, <1>7, GotoFacts DEF WriterLock, Labels
  <2> QED BY <1>i, <1>7, <2>1 DEF WriterLock, TypeOK, InflightInv
<1>8. CASE WriterWrite
  <2>1. PICK written \in BOOLEAN :
          /\ wire' = IF written THEN Append(wire, inflight[1].id) ELSE wire
          /\ Goto(Writer, AfterWrite(written))
    BY <1>8 DEF WriterWrite
  <2>2. AfterWrite(written) \in {"stop", "wait"}
    BY DEF AfterWrite
  <2>3. pc' \in [Threads -> Labels] /\ pc'[Writer] \notin {"lock", "write"}
    BY <1>0, <2>1, <2>2, GotoFacts DEF Labels
  <2>4. inflight[1] \in Message
    BY <1>8 DEF WriterWrite, InflightInv, TypeOK
  <2>5. wire' \in Seq(Nat)
    BY <2>1, <2>4 DEF TypeOK, Message
  <2> QED BY <1>i, <1>8, <2>3, <2>5 DEF WriterWrite, TypeOK, InflightInv
<1>9. CASE StartRead \/ StartWrite \/ UNCHANGED vars
  <2>1. UNCHANGED seen
    BY <1>9 DEF StartRead, StartWrite, vars, seen
  <2> QED BY <1>i, <2>1 DEF seen, TypeOK, InflightInv
<1> QED
  BY <1>1, <1>2, <1>3, <1>4, <1>5, <1>6, <1>7, <1>8, <1>9 DEF Next

\* Every variable keeps its type; the channel never holds more than its
\* capacity and the writer never more than one message (tcpclient.go:466).
THEOREM TypeCorrect == Spec => []TypeOK
<1>1. Spec => [](TypeOK /\ InflightInv)
  BY InitType, NextType, PTL DEF Spec
<1> QED BY <1>1, PTL

-----------------------------------------------------------------------------
(* The steps that are not part of a Stop neither touch what Stop decides   *)
(* nor enter or leave a teardown.                                          *)

OutsideStop == \/ Receive \/ ReceiveFails \/ HandlerReturns
               \/ \E t \in Senders \cup {Reader}, cb \in BOOLEAN :
                    (cb => t = Reader) /\ SendAsync(t, cb)
               \/ \E t \in Stoppers : CallStop(t)
               \/ WriterStart \/ WriterReceive \/ WriterEnds
               \/ WriterLock \/ WriterWrite

LEMMA NextCases == [Next]_vars => \/ OutsideStop
                                  \/ \E t \in Threads : StopStep(t)
                                  \/ UNCHANGED seen
BY ThreadsFacts DEF Next, OutsideStop, StartRead, StartWrite, vars, seen

LEMMA OutsideStopFrame ==
  ASSUME TypeOK, OutsideStop
  PROVE  /\ UNCHANGED <<Running, connOpen, chSend, teardowns>>
         /\ \A t \in Threads : Tearing(t)' <=> Tearing(t)
<1>1. UNCHANGED <<Running, connOpen, chSend, teardowns>>
  BY DEF OutsideStop, Receive, ReceiveFails, HandlerReturns, SendAsync, CallStop,
         WriterStart, WriterReceive, WriterEnds, WriterLock, WriterWrite
<1>2. \E u \in Threads, l \in Labels \ TeardownSteps :
        Goto(u, l) /\ pc[u] \notin TeardownSteps
  <2> USE ThreadsFacts DEF Labels, TeardownSteps
  <2>1. CASE Receive \/ ReceiveFails \/ HandlerReturns
    BY <2>1 DEF Receive, ReceiveFails, HandlerReturns
  <2>2. ASSUME NEW t \in Senders \cup {Reader}, NEW cb \in BOOLEAN, SendAsync(t, cb)
        PROVE  Goto(t, "recv") \/ Goto(t, "idle") \/ Goto(t, "stop")
    BY <2>2 DEF SendAsync, SendAccepted, SendRefused, SendDropped,
                SendRunsCallback, AfterSend
  <2>3. ASSUME NEW t \in Senders \cup {Reader}, NEW cb \in BOOLEAN, SendAsync(t, cb)
        PROVE  t \in Threads /\ pc[t] \notin TeardownSteps
    BY <2>3 DEF SendAsync, Calling
  <2>4. CASE \E t \in Senders \cup {Reader}, cb \in BOOLEAN : SendAsync(t, cb)
    BY <2>2, <2>3, <2>4
  <2>5. CASE \E t \in Stoppers : CallStop(t)
    BY <2>5 DEF CallStop
  <2>6. CASE WriterStart \/ WriterReceive \/ WriterEnds \/ WriterLock
    BY <2>6 DEF WriterStart, WriterReceive, WriterEnds, WriterLock
  <2>7. CASE WriterWrite
    BY <2>7 DEF WriterWrite, AfterWrite
  <2> QED BY <2>1, <2>4, <2>5, <2>6, <2>7 DEF OutsideStop
<1>3. PICK u \in Threads, l \in Labels \ TeardownSteps :
        Goto(u, l) /\ pc[u] \notin TeardownSteps
  BY <1>2
<1>4. pc'[u] = l /\ \A t \in Threads : t # u => pc'[t] = pc[t]
  BY <1>3, GotoFacts DEF TypeOK
<1> QED BY <1>1, <1>3, <1>4 DEF Tearing

LEMMA NextStop == TypeOK /\ StopInv /\ [Next]_vars => StopInv'
<1> SUFFICES ASSUME TypeOK, StopInv, [Next]_vars PROVE StopInv'
  OBVIOUS
<1>1. CASE OutsideStop
  BY <1>1, OutsideStopFrame DEF StopInv, TeardownOnce, NoSendOnClosedChannel
<1>2. ASSUME NEW t \in Threads, StopStep(t) PROVE StopInv'
  <2>0. pc \in [Threads -> Labels]
    BY DEF TypeOK
  <2> USE DEF StopInv, TeardownOnce, NoSendOnClosedChannel, Tearing
  <2>1. CASE StopSwap(t)
    <3>1. /\ \A u \in Threads : u # t => pc'[u] = pc[u]
          /\ pc'[t] \in TeardownSteps => Running
      BY <2>0, <2>1, GotoFacts
         DEF StopSwap, GoesOn, AfterStop, Labels, TeardownSteps
    <3>2. Running => \A u \in Threads : ~Tearing(u)
      OBVIOUS
    <3>3. ~Running' /\ teardowns' = teardowns /\ teardowns <= 1
      BY <2>1 DEF StopSwap
    <3> QED BY <3>1, <3>2, <3>3
  <2>2. CASE CloseConn(t) \/ CloseChannel(t) \/ NilChannel(t)
    <3>1. /\ \A u \in Threads : u # t => pc'[u] = pc[u]
          /\ pc[t] \in TeardownSteps
      BY <2>0, <2>2, GotoFacts
         DEF CloseConn, CloseChannel, NilChannel, Labels, TeardownSteps
    <3>2. Running' = Running /\ teardowns' = teardowns
      BY <2>2 DEF CloseConn, CloseChannel, NilChannel
    <3>3. ~Running /\ teardowns = 0
      BY <3>1
    <3> QED BY <3>1, <3>2, <3>3
  <2>3. CASE RunCloseCBs(t)
    <3>1. /\ \A u \in Threads : u # t => pc'[u] = pc[u]
          /\ pc[t] \in TeardownSteps
          /\ pc'[t] \notin TeardownSteps
      BY <2>0, <2>3, GotoFacts
         DEF RunCloseCBs, AfterStop, Labels, TeardownSteps
    <3>2. Running' = Running /\ teardowns' = teardowns + 1
      BY <2>3 DEF RunCloseCBs
    <3>3. ~Running /\ teardowns = 0
      BY <3>1
    <3>4. \A u \in Threads : pc'[u] \notin TeardownSteps
      BY <3>1
    <3> QED BY <3>2, <3>3, <3>4
  <2> QED BY <1>2, <2>1, <2>2, <2>3 DEF StopStep
<1>3. CASE UNCHANGED seen
  BY <1>3 DEF seen, StopInv, TeardownOnce, NoSendOnClosedChannel, Tearing
<1> QED BY <1>1, <1>2, <1>3, NextCases

LEMMA InitStop == Init => StopInv
BY DEF Init, StopInv, TeardownOnce, NoSendOnClosedChannel, Tearing, TeardownSteps

\* However many goroutines stop a connection at once, one tears it down and
\* only once (tcpclient.go:171-201).
THEOREM TornDownOnce == Spec => []TeardownOnce
<1>1. Spec => []TypeOK
  BY TypeCorrect
<1>2. StopInv => TeardownOnce
  BY DEF StopInv
<1> QED BY <1>1, <1>2, InitStop, NextStop, PTL DEF Spec

\* A SendAsync that finds Running set never meets a closed or nil channel,
\* although Stop closes it outside the mutex (tcpclient.go:183-186, :311).
THEOREM SendsMeetOpenChannel == Spec => []NoSendOnClosedChannel
<1>1. Spec => []TypeOK
  BY TypeCorrect
<1>2. StopInv => NoSendOnClosedChannel
  BY DEF StopInv
<1> QED BY <1>1, <1>2, InitStop, NextStop, PTL DEF Spec

-----------------------------------------------------------------------------
(* The mutex.                                                              *)

LEMMA NextLock == TypeOK /\ LockInv /\ [Next]_vars => LockInv'
<1> SUFFICES ASSUME TypeOK, LockInv, [Next]_vars PROVE LockInv'
  OBVIOUS
<1>0. pc \in [Threads -> Labels]
  BY DEF TypeOK
<1> USE ThreadsFacts DEF LockInv, OnlyCallbackWedges, Wedged
<1>1. CASE Receive \/ ReceiveFails \/ HandlerReturns
  <2>1. \E l \in {"handle", "stop", "recv"} : Goto(Reader, l)
    BY <1>1 DEF Receive, ReceiveFails, HandlerReturns
  <2>2. pc'[Writer] = pc[Writer]
    BY <1>0, <2>1, GotoFacts DEF Labels
  <2>3. pc[Reader] # "stop" /\ lock' = lock
    BY <1>1 DEF Receive, ReceiveFails, HandlerReturns
  <2> QED BY <2>2, <2>3
<1>2. ASSUME NEW t \in Senders \cup {Reader}, NEW cb \in BOOLEAN,
             cb => t = Reader, SendAsync(t, cb)
      PROVE  LockInv'
  <2>1. \E l \in {"recv", "idle", "stop"} : Goto(t, l)
    BY <1>2 DEF SendAsync, SendAccepted, SendRefused, SendDropped,
                SendRunsCallback, AfterSend
  <2>2. pc'[Writer] = pc[Writer]
    BY <1>0, <2>1, GotoFacts DEF Labels
  <2>3. lock = NoThread /\ Running' = Running
    BY <1>2 DEF SendAsync
  <2>4. CASE SendRunsCallback(t, cb)
    <3>1. t = Reader /\ lock' = Reader /\ ~Running
      BY <1>2, <2>4 DEF SendRunsCallback
    <3>2. pc'[Reader] = "stop"
      BY <1>0, <2>4, <3>1, GotoFacts DEF SendRunsCallback, Labels
    <3> QED BY <2>2, <2>3, <3>1, <3>2
  <2>5. CASE ~SendRunsCallback(t, cb)
    <3>1. lock' = lock
      BY <1>2, <2>5 DEF SendAsync, SendAccepted, SendRefused, SendDropped
    <3> QED BY <2>2, <2>3, <3>1
  <2> QED BY <2>4, <2>5
<1>3. ASSUME NEW t \in Stoppers, CallStop(t) PROVE LockInv'
  <2>1. pc'[Writer] = pc[Writer] /\ pc'[Reader] = pc[Reader]
    BY <1>0, <1>3, GotoFacts DEF CallStop, Labels
  <2> QED BY <1>3, <2>1 DEF CallStop
<1>4. ASSUME NEW t \in Threads, StopStep(t) PROVE LockInv'
  <2>1. /\ pc[t] # "write"
        /\ \E l \in (TeardownSteps \cup {"wait", "done"}) : Goto(t, l)
    BY <1>4 DEF StopStep, StopSwap, CloseConn, CloseChannel, NilChannel,
                RunCloseCBs, AfterStop, TeardownSteps
  <2>2. /\ pc[Writer] = "write" <=> pc'[Writer] = "write"
        /\ \A u \in Threads : u # t => pc'[u] = pc[u]
    BY <1>0, <2>1, GotoFacts DEF Labels, TeardownSteps
  <2>3. lock' = lock /\ (Running' => Running)
    BY <1>4 DEF StopStep, StopSwap, CloseConn, CloseChannel, NilChannel,
                RunCloseCBs
  <2>4. lock = Reader => t # Reader
    BY <1>4 DEF StopStep, StopSwap, CloseConn, CloseChannel, NilChannel,
                RunCloseCBs
  <2> QED BY <2>2, <2>3, <2>4
<1>5. CASE WriterStart \/ WriterReceive \/ WriterEnds
  <2>1. /\ pc[Writer] # "write"
        /\ \E l \in {"wait", "lock", "done"} : Goto(Writer, l)
        /\ lock' = lock /\ Running' = Running
    BY <1>5 DEF WriterStart, WriterReceive, WriterEnds
  <2>2. pc'[Writer] # "write" /\ pc'[Reader] = pc[Reader]
    BY <1>0, <2>1, GotoFacts DEF Labels
  <2> QED BY <2>1, <2>2
<1>6. CASE WriterLock
  <2>1. pc'[Writer] = "write"
    BY <1>0, <1>6, GotoFacts DEF WriterLock, Labels
  <2> QED BY <1>6, <2>1 DEF WriterLock
<1>7. CASE WriterWrite
  <2>1. \E l \in {"stop", "wait"} : Goto(Writer, l)
    BY <1>7 DEF WriterWrite, AfterWrite
  <2>2. pc'[Writer] # "write"
    BY <1>0, <2>1, GotoFacts DEF Labels
  <2> QED BY <1>7, <2>2 DEF WriterWrite
<1>8. CASE UNCHANGED seen
  BY <1>8 DEF seen
<1> QED
  BY <1>1, <1>2, <1>3, <1>4, <1>5, <1>6, <1>7, <1>8, NextCases DEF OutsideStop

LEMMA InitLock == Init => LockInv
BY ThreadsFacts DEF Init, LockInv, OnlyCallbackWedges

\* The mutex of a connection is held by its writer during a socket write, or
\* for ever by the reader that called Stop under it; nothing else ever keeps
\* a sender waiting (tcpclient.go:253, :340).
THEOREM MutexHolders == Spec => []OnlyCallbackWedges
<1>1. Spec => []TypeOK
  BY TypeCorrect
<1>2. LockInv => OnlyCallbackWedges
  BY DEF LockInv
<1> QED BY <1>1, <1>2, InitLock, NextLock, PTL DEF Spec

-----------------------------------------------------------------------------
(* The order of what the peer sees. OrderInv says of the parts of Pipeline *)
(* what WireOrder says of their concatenation.                             *)

PipeLen == Len(wire) + Len(inflight) + Len(queue)

PipeAt(i) ==
  IF i <= Len(wire) THEN wire[i]
  ELSE IF i <= Len(wire) + Len(inflight) THEN inflight[i - Len(wire)].id
  ELSE queue[i - Len(wire) - Len(inflight)].id

OrderInv ==
  /\ \A i, j \in 1..PipeLen : i < j => PipeAt(i) < PipeAt(j)
  /\ \A i \in 1..PipeLen : PipeAt(i) <= accepted

LEMMA IdsFacts ==
  ASSUME NEW msgs \in Seq(Message)
  PROVE  /\ Ids(msgs) \in Seq(Nat)
         /\ Len(Ids(msgs)) = Len(msgs)
         /\ \A i \in 1..Len(msgs) : Ids(msgs)[i] = msgs[i].id
<1>1. DOMAIN msgs = 1..Len(msgs) /\ Len(msgs) \in Nat
  BY LenProperties
<1>2. \A i \in 1..Len(msgs) : msgs[i].id \in Nat
  <2>1. \A i \in 1..Len(msgs) : msgs[i] \in Message
    BY ElementOfSeq
  <2> QED BY <2>1 DEF Message
<1>3. Ids(msgs) \in [1..Len(msgs) -> Nat]
  BY <1>1, <1>2 DEF Ids
<1>4. Ids(msgs) \in Seq(Nat)
  <2>1. Seq(Nat) = UNION {[1..n -> Nat] : n \in Nat}
    BY SeqDef, Zenon
  <2> QED BY <1>1, <1>3, <2>1, Zenon
<1>5. Len(Ids(msgs)) = Len(msgs)
  BY <1>1, <1>3, <1>4, LenProperties
<1> QED BY <1>1, <1>4, <1>5 DEF Ids

LEMMA PipelineParts == TypeOK => (WireOrder <=> OrderInv)
<1> SUFFICES ASSUME TypeOK PROVE WireOrder <=> OrderInv
  OBVIOUS
<1> DEFINE a == Ids(inflight)
           b == Ids(queue)
<1>1. wire \in Seq(Nat)
  BY DEF TypeOK
<1>2. a \in Seq(Nat) /\ Len(a) = Len(inflight)
  BY IdsFacts DEF TypeOK
<1>3. b \in Seq(Nat) /\ Len(b) = Len(queue)
  BY IdsFacts DEF TypeOK
<1>4. /\ \A i \in DOMAIN a : a[i] = inflight[i].id
      /\ \A i \in DOMAIN b : b[i] = queue[i].id
  <2>1. inflight \in Seq(Message) /\ queue \in Seq(Message)
    BY DEF TypeOK
  <2>2. /\ \A i \in 1..Len(inflight) : a[i] = inflight[i].id
        /\ \A i \in 1..Len(queue) : b[i] = queue[i].id
    BY <2>1, IdsFacts
  <2>3. DOMAIN a = 1..Len(inflight) /\ DOMAIN b = 1..Len(queue)
    <3> HIDE DEF a, b
    <3> QED BY <1>2, <1>3, LenProperties
  <2> QED BY <2>2, <2>3
<1>5. Pipeline = (wire \o a) \o b
  BY DEF Pipeline
<1> HIDE DEF a, b
<1>6. /\ wire \o a \in Seq(Nat)
      /\ Len(wire \o a) = Len(wire) + Len(inflight)
      /\ \A i \in 1..Len(wire) + Len(inflight) :
           (wire \o a)[i] = IF i <= Len(wire) THEN wire[i] ELSE a[i - Len(wire)]
  <2>1. /\ wire \o a \in Seq(Nat)
        /\ Len(wire \o a) = Len(wire) + Len(a)
        /\ \A i \in 1..Len(wire) + Len(a) :
             (wire \o a)[i] = IF i <= Len(wire) THEN wire[i] ELSE a[i - Len(wire)]
    BY <1>1, <1>2, ConcatProperties, Zenon
  <2> QED BY <1>2, <2>1, Zenon
<1>7. /\ Pipeline \in Seq(Nat)
      /\ Len(Pipeline) = PipeLen
      /\ \A i \in 1..PipeLen :
           Pipeline[i] = IF i <= Len(wire) + Len(inflight) THEN (wire \o a)[i]
                         ELSE b[i - (Len(wire) + Len(inflight))]
  <2> DEFINE front == wire \o a
  <2>1. front \in Seq(Nat) /\ Len(front) = Len(wire) + Len(inflight) /\ Pipeline = front \o b
    BY <1>5, <1>6, Zenon
  <2> HIDE DEF front
  <2>2. /\ front \o b \in Seq(Nat)
        /\ Len(front \o b) = Len(front) + Len(b)
        /\ \A i \in 1..Len(front) + Len(b) :
             (front \o b)[i] = IF i <= Len(front) THEN front[i] ELSE b[i - Len(front)]
    <3>1. front \in Seq(Nat) /\ b \in Seq(Nat)
      BY <1>3, <2>1, Zenon
    <3> QED BY <3>1, ConcatProperties, Zenon
  <2>3. Len(front) + Len(b) = PipeLen
    BY <1>3, <2>1, Zenon DEF PipeLen
  <2>4. /\ Pipeline \in Seq(Nat)
        /\ Len(Pipeline) = PipeLen
        /\ \A i \in 1..PipeLen :
             Pipeline[i] = IF i <= Len(front) THEN front[i] ELSE b[i - Len(front)]
    BY <2>1, <2>2, <2>3, Zenon
  <2> QED BY <2>1, <2>4, Zenon DEF front
<1>8. Len(wire) \in Nat /\ Len(inflight) \in Nat /\ Len(queue) \in Nat
  BY <1>1, <1>2, <1>3, LenProperties
<1>9. DOMAIN a = 1..Len(inflight) /\ DOMAIN b = 1..Len(queue)
  BY <1>2, <1>3, LenProperties
<1>10. \A i \in 1..PipeLen : Pipeline[i] = PipeAt(i)
  <2> SUFFICES ASSUME NEW i \in 1..PipeLen PROVE Pipeline[i] = PipeAt(i)
    OBVIOUS
  <2>1. CASE i <= Len(wire)
    BY <1>6, <1>7, <1>8, <2>1 DEF PipeAt
  <2>2. CASE i > Len(wire) /\ i <= Len(wire) + Len(inflight)
    <3>1. i - Len(wire) \in DOMAIN a
      BY <1>8, <1>9, <2>2
    <3>2. Pipeline[i] = a[i - Len(wire)]
      BY <1>6, <1>7, <1>8, <2>2
    <3> QED BY <1>4, <1>8, <2>2, <3>1, <3>2 DEF PipeAt
  <2>3. CASE i > Len(wire) + Len(inflight)
    <3>1. i - (Len(wire) + Len(inflight)) \in DOMAIN b
      BY <1>8, <1>9, <2>3 DEF PipeLen
    <3>2. Pipeline[i] = b[i - (Len(wire) + Len(inflight))]
      BY <1>7, <1>8, <2>3
    <3>3. i - (Len(wire) + Len(inflight)) = i - Len(wire) - Len(inflight)
      BY <1>8
    <3> QED BY <1>4, <1>8, <2>3, <3>1, <3>2, <3>3 DEF PipeAt
  <2> QED BY <1>8, <2>1, <2>2, <2>3
<1>11. DOMAIN Pipeline = 1..PipeLen
  BY <1>7, LenProperties
<1> QED BY <1>10, <1>11 DEF WireOrder, OrderInv

\* Only a step that accepts, receives or writes moves a message.
LEMMA NextMessages ==
  ASSUME [Next]_vars
  PROVE  \/ \E t \in Threads, cb \in BOOLEAN :
               SendAccepted(t, cb) /\ UNCHANGED <<inflight, wire>>
         \/ WriterReceive
         \/ WriterWrite
         \/ UNCHANGED <<queue, inflight, wire, accepted>>
<1>1. CASE OutsideStop
  <2>1. CASE Receive \/ ReceiveFails \/ HandlerReturns \/ WriterStart
             \/ WriterEnds \/ WriterLock
    BY <2>1 DEF Receive, ReceiveFails, HandlerReturns, WriterStart, WriterEnds,
                WriterLock
  <2>2. ASSUME NEW t \in Senders \cup {Reader}, NEW cb \in BOOLEAN, SendAsync(t, cb)
        PROVE  \/ SendAccepted(t, cb) /\ UNCHANGED <<inflight, wire>>
               \/ UNCHANGED <<queue, inflight, wire, accepted>>
    BY <2>2 DEF SendAsync, SendRefused, SendDropped, SendRunsCallback
  <2>3. CASE \E t \in Stoppers : CallStop(t)
    BY <2>3 DEF CallStop
  <2> QED BY <1>1, <2>1, <2>2, <2>3, ThreadsFacts DEF OutsideStop
<1>2. CASE \E t \in Threads : StopStep(t)
  BY <1>2 DEF StopStep, StopSwap, CloseConn, CloseChannel, NilChannel,
              RunCloseCBs
<1>3. CASE UNCHANGED seen
  BY <1>3 DEF seen
<1> QED BY <1>1, <1>2, <1>3, NextCases

LEMMA NextOrder ==
  TypeOK /\ InflightInv /\ OrderInv /\ [Next]_vars => OrderInv'
<1> SUFFICES ASSUME TypeOK, InflightInv, OrderInv, [Next]_vars PROVE OrderInv'
  OBVIOUS
<1>1. /\ wire \in Seq(Nat) /\ Len(wire) \in Nat
      /\ inflight \in Seq(Message) /\ Len(inflight) \in {0, 1}
      /\ queue \in Seq(Message) /\ Len(queue) \in Nat
      /\ accepted \in Nat
  <2>1. /\ wire \in Seq(Nat) /\ inflight \in Seq(Message) /\ queue \in Seq(Message)
        /\ Len(inflight) <= 1 /\ accepted \in Nat
    BY DEF TypeOK
  <2>2. Len(wire) \in Nat /\ Len(inflight) \in Nat /\ Len(queue) \in Nat
    BY <2>1, LenProperties
  <2>3. \A n \in Nat : n <= 1 => n \in {0, 1}
    OBVIOUS
  <2> QED BY <2>1, <2>2, <2>3, Zenon
<1>2. \A i \in 1..PipeLen : PipeAt(i) \in Nat
  <2>1. \A i \in 1..Len(wire) : wire[i] \in Nat
    BY <1>1, ElementOfSeq
  <2>2. \A i \in 1..Len(inflight) : inflight[i].id \in Nat
    <3>1. \A i \in 1..Len(inflight) : inflight[i] \in Message
      BY <1>1, ElementOfSeq
    <3> QED BY <3>1 DEF Message
  <2>3. \A i \in 1..Len(queue) : queue[i].id \in Nat
    <3>1. \A i \in 1..Len(queue) : queue[i] \in Message
      BY <1>1, ElementOfSeq
    <3> QED BY <3>1 DEF Message
  <2> QED BY <1>1, <2>1, <2>2, <2>3 DEF PipeAt, PipeLen
<1>3. ASSUME NEW t \in Threads, NEW cb \in BOOLEAN, SendAccepted(t, cb),
             UNCHANGED <<inflight, wire>>
      PROVE  OrderInv'
  <2> DEFINE m == [id |-> accepted + 1, cb |-> cb]
  <2>1. m \in Message
    BY <1>1 DEF Message
  <2>2. /\ queue' = Append(queue, m) /\ accepted' = accepted + 1
        /\ inflight' = inflight /\ wire' = wire
    BY <1>3 DEF SendAccepted
  <2>3. /\ Len(queue') = Len(queue) + 1
        /\ \A i \in 1..Len(queue) : queue'[i] = queue[i]
        /\ queue'[Len(queue) + 1] = m
    BY <1>1, <2>1, <2>2, AppendProperties
  <2>4. PipeLen' = PipeLen + 1 /\ PipeLen \in Nat
    BY <1>1, <2>2, <2>3 DEF PipeLen
  <2>5. \A i \in 1..PipeLen : PipeAt(i)' = PipeAt(i)
    BY <1>1, <2>2, <2>3 DEF PipeLen, PipeAt
  <2>6. ASSUME NEW n \in Nat, n = PipeLen + 1 PROVE PipeAt(n)' = accepted + 1
    <3>1. m.id = accepted + 1
      OBVIOUS
    <3>2. n - Len(wire) - Len(inflight) = Len(queue) + 1
      BY <1>1, <2>6 DEF PipeLen
    <3>3. ~(n <= Len(wire)) /\ ~(n <= Len(wire) + Len(inflight))
      BY <1>1, <2>6 DEF PipeLen
    <3>4. PipeAt(n)' = queue'[n - Len(wire) - Len(inflight)].id
      BY <2>2, <3>3 DEF PipeAt
    <3> QED BY <2>3, <3>1, <3>2, <3>4
  <2> HIDE DEF m
  <2>7. \A i \in 1..PipeLen : PipeAt(i)' <= accepted
    BY <2>5 DEF OrderInv
  <2>8. \A i, j \in 1..PipeLen : i < j => PipeAt(i)' < PipeAt(j)'
    BY <2>5 DEF OrderInv
  <2>9. \A i \in 1..PipeLen : PipeAt(i)' \in Nat
    BY <1>2, <2>5
  <2>10. \A i, j \in 1..PipeLen' : i < j => PipeAt(i)' < PipeAt(j)'
    <3> SUFFICES ASSUME NEW i \in 1..PipeLen', NEW j \in 1..PipeLen', i < j
                 PROVE  PipeAt(i)' < PipeAt(j)'
      OBVIOUS
    <3>1. CASE j \in 1..PipeLen
      BY <2>4, <2>8, <3>1
    <3>2. CASE j = PipeLen + 1
      <4>1. PipeAt(j)' = accepted + 1
        BY <2>4, <2>6, <3>2
      <4>2. PipeAt(i)' \in Nat /\ PipeAt(i)' <= accepted
        BY <2>4, <2>7, <2>9, <3>2
      <4> QED BY <1>1, <4>1, <4>2
    <3> QED BY <2>4, <3>1, <3>2
  <2>11. \A i \in 1..PipeLen' : PipeAt(i)' <= accepted + 1
    <3> SUFFICES ASSUME NEW i \in 1..PipeLen' PROVE PipeAt(i)' <= accepted + 1
      OBVIOUS
    <3>1. CASE i \in 1..PipeLen
      BY <1>1, <2>7, <2>9, <3>1
    <3>2. CASE i = PipeLen + 1
      <4>1. PipeAt(i)' = accepted + 1
        BY <2>4, <2>6, <3>2
      <4> QED BY <1>1, <4>1
    <3> QED BY <2>4, <3>1, <3>2
  <2> QED BY <2>2, <2>10, <2>11 DEF OrderInv
<1>4. CASE WriterReceive
  <2>1. inflight = <<>> /\ queue # <<>>
    BY <1>4 DEF WriterReceive, InflightInv
  <2>2. /\ queue' = Tail(queue) /\ inflight' = <<Head(queue)>>
        /\ wire' = wire /\ accepted' = accepted
    BY <1>4 DEF WriterReceive
  <2>3. /\ Len(queue') = Len(queue) - 1
        /\ \A i \in 1..Len(queue') : queue'[i] = queue[i + 1]
    BY <1>1, <2>1, <2>2, HeadTailProperties
  <2>4. Len(inflight) = 0 /\ Len(inflight') = 1 /\ inflight'[1] = queue[1]
    BY <2>1, <2>2
  <2>5. PipeLen' = PipeLen
    <3>1. PipeLen' = Len(wire) + 1 + (Len(queue) - 1)
      BY <2>2, <2>3, <2>4 DEF PipeLen
    <3>2. PipeLen = Len(wire) + 0 + Len(queue)
      BY <2>4 DEF PipeLen
    <3> QED BY <1>1, <3>1, <3>2
  <2>6. \A i \in 1..PipeLen : PipeAt(i)' = PipeAt(i)
    BY <1>1, <2>2, <2>3, <2>4 DEF PipeLen, PipeAt
  <2> QED BY <2>2, <2>5, <2>6 DEF OrderInv
<1>5. CASE WriterWrite
  <2>1. inflight # <<>> /\ inflight' = <<>> /\ queue' = queue
        /\ accepted' = accepted
    BY <1>5 DEF WriterWrite, InflightInv
  <2>2. Len(inflight) = 1 /\ Len(inflight') = 0
    BY <1>1, <2>1
  <2>3. CASE wire' = Append(wire, inflight[1].id)
    <3>1. inflight[1].id \in Nat
      <4>1. inflight[1] \in Message
        <5>1. 1 \in 1..Len(inflight)
          BY <2>2
        <5> QED BY <1>1, <5>1, ElementOfSeq
      <4> QED BY <4>1 DEF Message
    <3>2. /\ Len(wire') = Len(wire) + 1
          /\ \A i \in 1..Len(wire) : wire'[i] = wire[i]
          /\ wire'[Len(wire) + 1] = inflight[1].id
      BY <1>1, <2>3, <3>1, AppendProperties
    <3>3. PipeLen' = PipeLen
      BY <1>1, <2>1, <2>2, <3>2 DEF PipeLen
    <3>4. \A i \in 1..PipeLen : PipeAt(i)' = PipeAt(i)
      BY <1>1, <2>1, <2>2, <3>2 DEF PipeLen, PipeAt
    <3> QED BY <2>1, <3>3, <3>4 DEF OrderInv
  <2>4. CASE wire' = wire
    <3>1. PipeLen' = PipeLen - 1 /\ PipeLen \in Nat
      BY <1>1, <2>1, <2>2, <2>4 DEF PipeLen
    <3>2. \A i \in 1..PipeLen - 1 :
            PipeAt(i)' = PipeAt(IF i <= Len(wire) THEN i ELSE i + 1)
      BY <1>1, <2>1, <2>2, <2>4 DEF PipeLen, PipeAt
    <3> DEFINE k(i) == IF i <= Len(wire) THEN i ELSE i + 1
    <3>3. ASSUME NEW i \in 1..PipeLen - 1, NEW j \in 1..PipeLen - 1, i < j
          PROVE  PipeAt(i)' < PipeAt(j)'
      <4>1. k(i) \in 1..PipeLen /\ k(j) \in 1..PipeLen /\ k(i) < k(j)
        BY <1>1, <3>1, <3>3
      <4>2. PipeAt(i)' = PipeAt(k(i)) /\ PipeAt(j)' = PipeAt(k(j))
        BY <3>2
      <4> HIDE DEF k
      <4> QED BY <1>2, <4>1, <4>2 DEF OrderInv
    <3>4. ASSUME NEW i \in 1..PipeLen - 1
          PROVE  PipeAt(i)' <= accepted
      <4>1. k(i) \in 1..PipeLen
        BY <1>1, <3>1
      <4>2. PipeAt(i)' = PipeAt(k(i))
        BY <3>2
      <4> HIDE DEF k
      <4> QED BY <1>2, <4>1, <4>2 DEF OrderInv
    <3> QED BY <2>1, <3>1, <3>3, <3>4 DEF OrderInv
  <2> QED BY <1>5, <2>3, <2>4 DEF WriterWrite
<1>6. CASE UNCHANGED <<queue, inflight, wire, accepted>>
  BY <1>6 DEF OrderInv, PipeLen, PipeAt
<1> QED BY <1>3, <1>4, <1>5, <1>6, NextMessages

LEMMA InitOrder == Init => OrderInv
BY DEF Init, OrderInv, PipeLen

\* Messages reach the socket in the order SendAsync accepted them and never
\* twice, whatever writes fail and whenever the connection is stopped.
THEOREM WrittenInOrder == Spec => []WireOrder
<1>1. Spec => [](TypeOK /\ InflightInv)
  BY InitType, NextType, PTL DEF Spec
<1> QED BY <1>1, InitOrder, NextOrder, PipelineParts, PTL DEF Spec

-----------------------------------------------------------------------------
(* What a writer that ended left in the channel.                           *)

LeftInv ==
  /\ pc[Writer] = "start" => wire = <<>> /\ inflight = <<>> /\ Len(queue) = accepted
  /\ pc[Writer] = "done" => ~Running
  /\ NothingLeftBehind

\* The writer never comes back to its start, and it ends in two steps only.
LEMMA WriterSteps ==
  ASSUME TypeOK, [Next]_vars
  PROVE  /\ Running' => Running
         /\ pc'[Writer] = "start" => pc[Writer] = "start"
         /\ pc'[Writer] = "done" => pc[Writer] = "done" \/ WriterStart \/ WriterEnds
<1>0. pc \in [Threads -> Labels]
  BY DEF TypeOK
<1> USE ThreadsFacts
<1>1. CASE OutsideStop
  <2>1. UNCHANGED Running
    BY <1>1, OutsideStopFrame
  <2>2. CASE Receive \/ ReceiveFails \/ HandlerReturns
    <3>1. \E l \in {"handle", "stop", "recv"} : Goto(Reader, l)
      BY <2>2 DEF Receive, ReceiveFails, HandlerReturns
    <3> QED BY <1>0, <2>1, <3>1, GotoFacts DEF Labels
  <2>3. ASSUME NEW t \in Senders \cup {Reader}, NEW cb \in BOOLEAN, SendAsync(t, cb)
        PROVE  pc'[Writer] = pc[Writer]
    <3>1. \E l \in {"recv", "idle", "stop"} : Goto(t, l)
      BY <2>3 DEF SendAsync, SendAccepted, SendRefused, SendDropped,
                  SendRunsCallback, AfterSend
    <3> QED BY <1>0, <3>1, GotoFacts DEF Labels
  <2>4. ASSUME NEW t \in Stoppers, CallStop(t) PROVE pc'[Writer] = pc[Writer]
    BY <1>0, <2>4, GotoFacts DEF CallStop, Labels
  <2>5. CASE WriterStart \/ WriterEnds
    <3>1. \E l \in {"wait", "done"} : Goto(Writer, l)
      BY <2>5 DEF WriterStart, WriterEnds
    <3> QED BY <1>0, <2>1, <2>5, <3>1, GotoFacts DEF Labels
  <2>6. CASE WriterReceive \/ WriterLock \/ WriterWrite
    <3>1. \E l \in {"lock", "write", "stop", "wait"} : Goto(Writer, l)
      BY <2>6 DEF WriterReceive, WriterLock, WriterWrite, AfterWrite
    <3> QED BY <1>0, <2>1, <3>1, GotoFacts DEF Labels
  <2> QED BY <1>1, <2>1, <2>2, <2>3, <2>4, <2>5, <2>6 DEF OutsideStop
<1>2. ASSUME NEW t \in Threads, StopStep(t)
      PROVE  /\ Running' => Running
             /\ pc'[Writer] = pc[Writer] \/ pc'[Writer] \notin {"start", "done"}
  <2>1. Running' => Running
    BY <1>2 DEF StopStep, StopSwap, CloseConn, CloseChannel, NilChannel,
                RunCloseCBs
  <2>2. \E l \in TeardownSteps \cup {AfterStop(t)} : Goto(t, l)
    BY <1>2 DEF StopStep, StopSwap, CloseConn, CloseChannel, NilChannel,
                RunCloseCBs, TeardownSteps
  <2>3. pc'[Writer] = pc[Writer] \/ pc'[Writer] \in TeardownSteps \cup {"wait"}
    BY <1>0, <2>2, GotoFacts DEF AfterStop, Labels, TeardownSteps
  <2> QED BY <2>1, <2>3 DEF TeardownSteps
<1>3. CASE UNCHANGED seen
  BY <1>3 DEF seen
<1> QED BY <1>1, <1>2, <1>3, NextCases

LEMMA NextLeft ==
  TypeOK /\ InflightInv /\ StopInv /\ LeftInv /\ [Next]_vars => LeftInv'
<1> SUFFICES ASSUME TypeOK, InflightInv, StopInv, LeftInv, [Next]_vars
             PROVE  LeftInv'
  OBVIOUS
<1>0. pc \in [Threads -> Labels] /\ Writer \in Threads
  BY ThreadsFacts DEF TypeOK
<1>1. pc'[Writer] = "done" => ~Running'
  <2>1. WriterStart /\ pc'[Writer] = "done" => chSend = "nil"
    BY <1>0, GotoFacts DEF WriterStart, Labels
  <2>2. WriterEnds => chSend # "open"
    BY DEF WriterEnds
  <2>3. chSend # "open" => ~Running
    BY DEF StopInv, NoSendOnClosedChannel
  <2> QED BY <2>1, <2>2, <2>3, WriterSteps DEF LeftInv
<1>2. pc[Writer] = "done" => ~Running
  BY DEF LeftInv
<1>3. ASSUME NEW t \in Threads, NEW cb \in BOOLEAN, SendAccepted(t, cb),
             UNCHANGED <<inflight, wire>>
      PROVE  LeftInv'
  <2>1. Running /\ ~(WriterStart \/ WriterEnds)
    <3>1. queue' # queue
      <4>1. queue \in Seq(Message) /\ [id |-> accepted + 1, cb |-> cb] \in Message
        BY DEF TypeOK, Message
      <4>2. Len(queue') = Len(queue) + 1 /\ Len(queue) \in Nat
        BY <1>3, <4>1, AppendProperties, LenProperties DEF SendAccepted
      <4> QED BY <4>2
    <3> QED BY <1>3, <3>1 DEF SendAccepted, WriterStart, WriterEnds
  <2>2. pc'[Writer] # "done"
    BY <1>2, <2>1, WriterSteps
  <2>3. pc'[Writer] = "start" => Len(queue') = accepted'
    <3>1. pc'[Writer] = "start" => Len(queue) = accepted
      BY WriterSteps DEF LeftInv
    <3>2. queue \in Seq(Message) /\ [id |-> accepted + 1, cb |-> cb] \in Message
      BY DEF TypeOK, Message
    <3>3. Len(queue') = Len(queue) + 1 /\ accepted' = accepted + 1
      BY <1>3, <3>2, AppendProperties DEF SendAccepted
    <3> QED BY <3>1, <3>3
  <2>4. pc'[Writer] = "start" => wire' = <<>> /\ inflight' = <<>>
    BY <1>3, WriterSteps DEF LeftInv
  <2> QED BY <2>2, <2>3, <2>4 DEF LeftInv, NothingLeftBehind
<1>4. CASE WriterReceive \/ WriterWrite
  <2>1. \E l \in {"lock", "stop", "wait"} : Goto(Writer, l)
    BY <1>4 DEF WriterReceive, WriterWrite, AfterWrite
  <2>2. pc'[Writer] \notin {"start", "done"}
    BY <1>0, <2>1, GotoFacts DEF Labels
  <2> QED BY <2>2 DEF LeftInv, NothingLeftBehind
<1>5. CASE UNCHANGED <<queue, inflight, wire, accepted>>
  <2>1. CASE pc'[Writer] = "done"
    <3>1. pc[Writer] = "done" => (queue # <<>> => wire = <<>> /\ Len(queue) = accepted)
      BY DEF LeftInv, NothingLeftBehind
    <3>2. WriterStart => wire = <<>> /\ Len(queue) = accepted
      BY DEF WriterStart, LeftInv
    <3>3. WriterEnds => queue = <<>>
      BY DEF WriterEnds, Drained
    <3> QED BY <1>1, <1>5, <2>1, <3>1, <3>2, <3>3, WriterSteps
            DEF LeftInv, NothingLeftBehind
  <2>2. CASE pc'[Writer] # "done"
    BY <1>5, <2>2, WriterSteps DEF LeftInv, NothingLeftBehind
  <2> QED BY <2>1, <2>2
<1> QED BY <1>3, <1>4, <1>5, NextMessages

LEMMA InitLeft == Init => LeftInv
BY ThreadsFacts DEF Init, LeftInv, NothingLeftBehind

\* A writer that wrote anything drains the channel before it ends, so a Stop
\* loses no accepted message by itself; one that starts after Stop has dropped
\* the channel loses them all (tcpclient.go:268).
THEOREM DrainedOrNeverStarted == Spec => []NothingLeftBehind
<1>1. Spec => [](TypeOK /\ InflightInv)
  BY InitType, NextType, PTL DEF Spec
<1>2. Spec => []StopInv
  BY <1>1, InitStop, NextStop, PTL DEF Spec
<1>3. LeftInv => NothingLeftBehind
  BY DEF LeftInv
<1> QED BY <1>1, <1>2, <1>3, InitLeft, NextLeft, PTL DEF Spec

-----------------------------------------------------------------------------
(* The connection that the goroutines implement.                           *)

\* Senders are always between two calls; whoever is past CloseConn has closed
\* the socket, and the channel is closed when the calls on the socket are over.
PlaceInv ==
  /\ \A t \in Senders : pc[t] = "idle"
  /\ \A t \in Threads : pc[t] = "closeCh" => ~connOpen
  /\ \A t \in Threads : pc[t] \in {"nilCh", "runCB"} => chSend # "open"
  /\ chSend # "open" => inside = {} /\ ~connOpen

\* Nothing of what the users of the connection see changes.
Same ==
  /\ Phase' = Phase
  /\ Handling' <=> Handling
  /\ StopDue' <=> StopDue
  /\ Wedged' <=> Wedged
  /\ accepted' = accepted

ConnStep == Conn!Next \/ Same

LEMMA Booleans ==
  /\ Handling \in BOOLEAN /\ StopDue \in BOOLEAN /\ Wedged \in BOOLEAN
  /\ Handling' \in BOOLEAN /\ StopDue' \in BOOLEAN /\ Wedged' \in BOOLEAN
BY DEF Handling, StopDue, Wedged

\* The callbacks on their way, apart by where they are.
InQueue == \E i \in DOMAIN queue : queue[i].cb
InHand == \E i \in DOMAIN inflight : inflight[i].cb

LEMMA PendingParts == PendingStop <=> InQueue \/ InHand
BY DEF PendingStop, InQueue, InHand

\* A queue that grows by one message, and one that loses its head.
LEMMA AppendCallback ==
  ASSUME NEW q \in Seq(Message), NEW m \in Message
  PROVE  (\E i \in DOMAIN Append(q, m) : Append(q, m)[i].cb)
           <=> (\E i \in DOMAIN q : q[i].cb) \/ m.cb
<1>1. /\ DOMAIN q = 1..Len(q) /\ Len(q) \in Nat
      /\ DOMAIN Append(q, m) = 1..Len(q) + 1
      /\ \A i \in 1..Len(q) : Append(q, m)[i] = q[i]
      /\ Append(q, m)[Len(q) + 1] = m
  BY AppendProperties, LenProperties
<1>2. /\ \A i \in 1..Len(q) + 1 : i \in 1..Len(q) \/ i = Len(q) + 1
      /\ \A i \in 1..Len(q) : i \in 1..Len(q) + 1
      /\ Len(q) + 1 \in 1..Len(q) + 1
  BY <1>1
<1> QED BY <1>1, <1>2, Zenon

LEMMA HeadCallback ==
  ASSUME NEW q \in Seq(Message), q # <<>>
  PROVE  (\E i \in DOMAIN q : q[i].cb)
           <=> (\E i \in DOMAIN Tail(q) : Tail(q)[i].cb) \/ Head(q).cb
<1>1. /\ DOMAIN q = 1..Len(q) /\ Len(q) \in Nat /\ Len(q) >= 1
      /\ DOMAIN Tail(q) = 1..Len(q) - 1
      /\ \A i \in 1..Len(q) - 1 : Tail(q)[i] = q[i + 1]
      /\ Head(q) = q[1]
  BY HeadTailProperties, LenProperties, EmptySeq
<1>2. \A i \in 1..Len(q) : i = 1 \/ (i - 1 \in 1..Len(q) - 1 /\ (i - 1) + 1 = i)
  BY <1>1
<1>3. \A i \in 1..Len(q) - 1 : i + 1 \in 1..Len(q)
  BY <1>1
<1>4. 1 \in 1..Len(q)
  BY <1>1
<1>5. ASSUME NEW i \in DOMAIN q, q[i].cb
      PROVE  (\E j \in DOMAIN Tail(q) : Tail(q)[j].cb) \/ Head(q).cb
  <2>1. CASE i = 1
    BY <1>1, <1>5, <2>1
  <2>2. CASE i # 1
    <3>1. i - 1 \in DOMAIN Tail(q) /\ Tail(q)[i - 1] = q[i]
      BY <1>1, <1>2, <2>2
    <3> QED BY <1>5, <3>1
  <2> QED BY <2>1, <2>2
<1> QED BY <1>1, <1>3, <1>4, <1>5

LEMMA InitConn == Init => PlaceInv /\ Conn!Init
BY ThreadsFacts DEF Init, PlaceInv, Conn!Init, Phase, Handling, Wedged, StopDue,
                    PendingStop

LEMMA NextPlace == TypeOK /\ PlaceInv /\ [Next]_vars => PlaceInv'
<1> SUFFICES ASSUME TypeOK, PlaceInv, [Next]_vars PROVE PlaceInv'
  OBVIOUS
<1>0. pc \in [Threads -> Labels]
  BY DEF TypeOK
<1> USE ThreadsFacts
<1>1. chSend # "open" => inside' = {}
  <2>1. chSend # "open" => ~StartRead /\ ~StartWrite
    BY DEF StartRead, StartWrite, PlaceInv
  <2> QED BY <2>1, InsideSteps DEF PlaceInv
<1>2. CASE OutsideStop
  <2>1. connOpen' = connOpen /\ chSend' = chSend
    BY <1>2, OutsideStopFrame
  <2>2. PICK t \in Threads, l \in Labels \ {"closeCh", "nilCh", "runCB"} :
          Goto(t, l) /\ (t \in Senders => l = "idle")
    <3>1. CASE Receive \/ ReceiveFails \/ HandlerReturns
      BY <3>1 DEF Receive, ReceiveFails, HandlerReturns, Labels
    <3>2. ASSUME NEW t \in Senders \cup {Reader}, NEW cb \in BOOLEAN,
                 cb => t = Reader, SendAsync(t, cb)
          PROVE  Goto(t, AfterSend(t)) \/ (t = Reader /\ Goto(t, "stop"))
      BY <3>2 DEF SendAsync, SendAccepted, SendRefused, SendDropped, SendRunsCallback
    <3>3. CASE \E t \in Senders \cup {Reader}, cb \in BOOLEAN :
                 (cb => t = Reader) /\ SendAsync(t, cb)
      BY <3>2, <3>3 DEF AfterSend, Labels
    <3>4. CASE \E t \in Stoppers : CallStop(t)
      BY <3>4, ThreadsAssumption DEF CallStop, Labels
    <3>5. CASE WriterStart \/ WriterReceive \/ WriterEnds \/ WriterLock \/ WriterWrite
      BY <3>5 DEF WriterStart, WriterReceive, WriterEnds, WriterLock, WriterWrite,
                  AfterWrite, Labels
    <3> QED BY <1>2, <3>1, <3>3, <3>4, <3>5 DEF OutsideStop
  <2>3. pc'[t] = l /\ \A u \in Threads : u # t => pc'[u] = pc[u]
    BY <1>0, <2>2, GotoFacts
  <2> QED BY <1>1, <2>1, <2>2, <2>3 DEF PlaceInv
<1>3. ASSUME NEW t \in Threads, StopStep(t) PROVE PlaceInv'
  <2>1. /\ pc[t] # "idle" /\ t \notin Senders
        /\ \A u \in Threads : u # t => pc'[u] = pc[u]
    BY <1>0, <1>3 DEF PlaceInv, StopStep, StopSwap, CloseConn, CloseChannel, NilChannel,
                      RunCloseCBs, Goto
  <2>2. /\ ~connOpen => ~connOpen'
        /\ chSend # "open" => chSend' # "open"
    BY <1>3 DEF StopStep, StopSwap, CloseConn, CloseChannel, NilChannel, RunCloseCBs
  <2>3. /\ pc'[t] = "closeCh" => ~connOpen'
        /\ pc'[t] \in {"nilCh", "runCB"} => chSend' # "open"
    <3>1. CASE StopSwap(t) \/ RunCloseCBs(t)
      BY <1>0, <3>1, GotoFacts DEF StopSwap, RunCloseCBs, AfterStop, Labels, TeardownSteps
    <3>2. CASE CloseConn(t)
      BY <1>0, <3>2, GotoFacts DEF CloseConn, Labels, TeardownSteps
    <3>3. CASE CloseChannel(t) \/ NilChannel(t)
      BY <1>0, <3>3, GotoFacts DEF CloseChannel, NilChannel, Labels, TeardownSteps
    <3> QED BY <1>3, <3>1, <3>2, <3>3 DEF StopStep
  <2>4. chSend = "open" /\ chSend' # "open" => inside' = {} /\ ~connOpen'
    <3>1. chSend = "open" /\ chSend' # "open" => CloseChannel(t)
      BY <1>3 DEF PlaceInv, StopStep, StopSwap, CloseConn, NilChannel, RunCloseCBs
    <3> QED BY <3>1 DEF PlaceInv, CloseChannel
  <2>5. chSend # "open" => inside' = {} /\ ~connOpen'
    BY <1>1, <2>2 DEF PlaceInv
  <2>6. \A u \in Senders : pc'[u] = "idle"
    BY <2>1 DEF PlaceInv
  <2>7. \A u \in Threads : /\ pc'[u] = "closeCh" => ~connOpen'
                           /\ pc'[u] \in {"nilCh", "runCB"} => chSend' # "open"
    BY <2>1, <2>2, <2>3 DEF PlaceInv
  <2> QED BY <2>4, <2>5, <2>6, <2>7 DEF PlaceInv
<1>4. CASE UNCHANGED seen
  BY <1>1, <1>4 DEF seen, PlaceInv
<1> QED BY <1>2, <1>3, <1>4, NextCases

\* The steps of the reader outside SendAsync.
LEMMA ReaderConn ==
  ASSUME TypeOK, LockInv, PlaceInv, Receive \/ ReceiveFails \/ HandlerReturns
  PROVE  ConnStep
<1>0. pc \in [Threads -> Labels]
  BY DEF TypeOK
<1> USE ThreadsFacts
<1>1. /\ Phase' = Phase /\ accepted' = accepted /\ lock' = lock
      /\ pc'[Writer] = pc[Writer] /\ UNCHANGED <<Running, queue, inflight>>
  BY <1>0 DEF Receive, ReceiveFails, HandlerReturns, Phase, Goto
<1>2. StopDue' <=> StopDue
  BY <1>1 DEF StopDue, PendingStop
<1>3. ~Wedged /\ ~Wedged'
  <2>1. lock # Reader
    BY DEF LockInv, OnlyCallbackWedges, Wedged, Receive, ReceiveFails, HandlerReturns
  <2> QED BY <1>1, <2>1 DEF Wedged
<1>4. CASE Receive
  <2>1. ~Handling /\ Handling' /\ Phase \in {"up", "down"}
    BY <1>0, <1>3, <1>4 DEF Receive, Handling, Phase, PlaceInv, Goto
  <2>2. Conn!Receive
    BY <1>1, <1>2, <1>3, <2>1, Booleans DEF Conn!Receive
  <2> QED BY <2>2 DEF ConnStep, Conn!Next
<1>5. CASE ReceiveFails
  <2>1. ~Handling /\ ~Handling'
    BY <1>0, <1>3, <1>5 DEF ReceiveFails, Handling, Goto
  <2> QED BY <1>1, <1>2, <1>3, <2>1 DEF ConnStep, Same
<1>6. CASE HandlerReturns
  <2>1. Handling /\ ~Handling'
    BY <1>0, <1>3, <1>6 DEF HandlerReturns, Handling, Goto
  <2>2. Conn!HandlerReturns
    BY <1>1, <1>2, <1>3, <2>1, Booleans DEF Conn!HandlerReturns
  <2> QED BY <2>2 DEF ConnStep, Conn!Next
<1> QED BY <1>4, <1>5, <1>6

\* SendAsync, by whoever: only what it accepts while the connection is up, the
\* end of a handler, or the loss of the mutex.
LEMMA SendConn ==
  ASSUME TypeOK, LockInv, NEW t \in Senders \cup {Reader}, NEW cb \in BOOLEAN,
         cb => t = Reader, SendAsync(t, cb)
  PROVE  ConnStep
<1>0. pc \in [Threads -> Labels] /\ queue \in Seq(Message)
  BY DEF TypeOK
<1> USE ThreadsFacts
<1>1. /\ lock = NoThread /\ ~Wedged
      /\ UNCHANGED <<Running, chSend, inflight, teardowns>>
      /\ Phase' = Phase
  BY DEF SendAsync, Wedged, Phase
<1>2. /\ pc'[Writer] = pc[Writer]
      /\ t # Reader => pc'[Reader] = pc[Reader]
  BY <1>0 DEF SendAsync, SendAccepted, SendRefused, SendDropped, SendRunsCallback, Goto
<1>3. t = Reader => pc[Reader] = "handle" /\ Handling
  BY DEF SendAsync, Calling, Handling
<1>4. CASE SendAccepted(t, cb)
  <2>1. lock' = lock /\ ~Wedged' /\ accepted' = accepted + 1 /\ Phase = "up" /\ Running
    BY <1>1, <1>4 DEF SendAccepted, Wedged, Phase
  <2>2. Handling' \in {Handling, FALSE}
    <3>1. t = Reader => pc'[Reader] = "recv"
      BY <1>0, <1>4 DEF SendAccepted, AfterSend, Goto
    <3>2. t = Reader => ~Handling'
      BY <2>1, <3>1 DEF Handling
    <3>3. t # Reader => (Handling' <=> Handling)
      BY <1>1, <1>2, <2>1 DEF Handling
    <3> QED BY <3>2, <3>3 DEF Handling, Wedged
  <2>3. InQueue' <=> InQueue \/ cb
    <3> DEFINE m == [id |-> accepted + 1, cb |-> cb]
    <3>1. m \in Message /\ m.cb = cb
      BY DEF Message, TypeOK
    <3>2. queue' = Append(queue, m)
      BY <1>4 DEF SendAccepted
    <3> HIDE DEF m
    <3> QED BY <1>0, <3>1, <3>2, AppendCallback DEF InQueue
  <2>4. StopDue' <=> StopDue \/ cb
    <3>1. InHand' <=> InHand
      BY <1>1 DEF InHand
    <3>2. PendingStop' <=> InQueue' \/ InHand'
      BY DEF PendingStop, InQueue, InHand
    <3> QED BY <1>1, <1>2, <2>1, <2>3, <3>1, <3>2, PendingParts DEF StopDue
  <2>5. Conn!Accept(TRUE, cb)
    BY <1>1, <1>3, <2>1, <2>2, <2>4, Booleans DEF Conn!Accept
  <2> QED BY <2>5 DEF ConnStep, Conn!Next
<1>5. CASE SendRefused(t) \/ SendDropped(t, cb)
  <2>1. UNCHANGED <<lock, queue, accepted>> /\ ~Wedged'
    BY <1>1, <1>5 DEF SendRefused, SendDropped, Wedged
  <2>2. StopDue' <=> StopDue
    BY <1>1, <1>2, <2>1 DEF StopDue, PendingStop
  <2>3. CASE t = Reader
    <3>1. ~Handling'
      BY <1>0, <1>5, <2>1, <2>3 DEF SendRefused, SendDropped, AfterSend, Handling, Goto
    <3>2. Conn!HandlerReturns
      BY <1>1, <1>3, <2>1, <2>2, <2>3, <3>1, Booleans DEF Conn!HandlerReturns
    <3> QED BY <3>2 DEF ConnStep, Conn!Next
  <2>4. CASE t # Reader
    <3>1. Handling' <=> Handling
      BY <1>1, <1>2, <2>1, <2>4 DEF Handling
    <3> QED BY <1>1, <2>1, <2>2, <3>1 DEF ConnStep, Same
  <2> QED BY <2>3, <2>4
<1>6. CASE SendRunsCallback(t, cb)
  <2>1. /\ t = Reader /\ ~Running /\ ~Running' /\ Wedged'
        /\ UNCHANGED <<queue, accepted>>
    BY <1>0, <1>1, <1>6 DEF SendRunsCallback, Wedged, Goto
  <2>2. Phase \in {"down", "shut", "closed"}
    BY <2>1 DEF Phase
  <2>3. Conn!Wedge
    BY <1>1, <1>3, <2>1, <2>2 DEF Conn!Wedge, Handling, StopDue
  <2> QED BY <2>3 DEF ConnStep, Conn!Next
<1> QED BY <1>4, <1>5, <1>6 DEF SendAsync

\* Stop: the steps of whoever tears the connection down, and nothing by those
\* who come too late.
LEMMA StopConn ==
  ASSUME TypeOK, LockInv, StopInv, PlaceInv, NEW t \in Threads, StopStep(t)
  PROVE  ConnStep
<1>0. pc \in [Threads -> Labels]
  BY DEF TypeOK
<1> USE ThreadsFacts
<1>1. /\ UNCHANGED <<lock, queue, inflight, accepted>>
      /\ \A u \in Threads : u # t => pc'[u] = pc[u]
  BY <1>0 DEF StopStep, StopSwap, CloseConn, CloseChannel, NilChannel, RunCloseCBs, Goto
<1>2. (Wedged' <=> Wedged) /\ (Handling' <=> Handling)
  <2>1. pc[t] # "handle" /\ pc'[t] \notin {"handle", "stop"}
    BY <1>0 DEF StopStep, StopSwap, CloseConn, CloseChannel, NilChannel, RunCloseCBs, Goto,
                AfterStop
  <2>2. pc[t] = "stop" => lock = NoThread
    BY DEF StopStep, StopSwap, CloseConn, CloseChannel, NilChannel, RunCloseCBs
  <2> QED BY <1>1, <2>1, <2>2 DEF Wedged, Handling
<1>3. CASE StopSwap(t) /\ Running
  <2>1. /\ Phase = "up" /\ Phase' = "down" /\ ~StopDue'
    BY <1>3 DEF StopSwap, Phase, StopDue, StopInv, NoSendOnClosedChannel
  <2>2. ~Handling \/ StopDue \/ Stoppers # {}
    <3>1. CASE t = Reader
      BY <1>3, <3>1 DEF StopSwap, Handling, Wedged
    <3>2. CASE t = Writer
      BY <1>3, <3>2 DEF StopSwap, StopDue
    <3>3. CASE t \in Stoppers
      BY <3>3
    <3>4. t \notin Senders
      BY <1>3 DEF StopSwap, PlaceInv
    <3> QED BY <3>1, <3>2, <3>3, <3>4 DEF Threads
  <2>3. Conn!Stop
    BY <1>1, <1>2, <2>1, <2>2, Booleans DEF Conn!Stop
  <2> QED BY <2>3 DEF ConnStep, Conn!Next
<1>4. CASE StopSwap(t) /\ ~Running
  <2>1. ~Running' /\ UNCHANGED <<chSend, teardowns>>
    BY <1>4 DEF StopSwap
  <2>2. Phase' = Phase /\ ~StopDue /\ ~StopDue'
    BY <1>4, <2>1 DEF Phase, StopDue
  <2> QED BY <1>1, <1>2, <2>2 DEF ConnStep, Same
<1>5. CASE CloseConn(t) \/ CloseChannel(t) \/ NilChannel(t) \/ RunCloseCBs(t)
  <2>1. /\ ~Running /\ ~Running' /\ teardowns = 0
        /\ ~StopDue /\ ~StopDue'
    BY <1>5 DEF CloseConn, CloseChannel, NilChannel, RunCloseCBs, StopInv, TeardownOnce,
                Tearing, TeardownSteps, StopDue
  <2>2. \/ Phase' = Phase
        \/ Phase = "down" /\ Phase' = "shut"
        \/ Phase = "shut" /\ Phase' = "closed"
    <3>1. CASE CloseConn(t)
      BY <2>1, <3>1 DEF CloseConn, Phase
    <3>2. CASE CloseChannel(t) \/ NilChannel(t)
      BY <2>1, <3>2 DEF CloseChannel, NilChannel, Phase, PlaceInv
    <3>3. CASE RunCloseCBs(t)
      BY <2>1, <3>3 DEF RunCloseCBs, Phase, PlaceInv
    <3> QED BY <1>5, <3>1, <3>2, <3>3
  <2>3. Same \/ Conn!Teardown
    BY <1>1, <1>2, <2>1, <2>2, Booleans DEF Same, Conn!Teardown
  <2> QED BY <2>3 DEF ConnStep, Conn!Next
<1> QED BY <1>3, <1>4, <1>5 DEF StopStep

\* The writer: a callback stays due until the writer has called it, and so does
\* whatever it finds in a queue that was closed.
LEMMA WriterConn ==
  ASSUME TypeOK, InflightInv, LockInv,
         WriterStart \/ WriterReceive \/ WriterEnds \/ WriterLock \/ WriterWrite
  PROVE  Same
<1>0. /\ pc \in [Threads -> Labels] /\ queue \in Seq(Message) /\ inflight \in Seq(Message)
      /\ Len(inflight) <= 1
  BY DEF TypeOK
<1> USE ThreadsFacts
<1>1. /\ UNCHANGED <<Running, chSend, teardowns, accepted>>
      /\ pc'[Reader] = pc[Reader]
      /\ lock' \in {lock, NoThread, Writer} /\ (lock' # lock => lock \in {NoThread, Writer})
  BY <1>0 DEF WriterStart, WriterReceive, WriterEnds, WriterLock, WriterWrite, Goto, LockInv
<1>2. Phase' = Phase /\ (Wedged' <=> Wedged)
  BY <1>1 DEF Phase, Wedged
<1>3. Handling' <=> Handling
  BY <1>1, <1>2 DEF Handling
<1>4. (PendingStop' \/ pc'[Writer] = "stop") <=> (PendingStop \/ pc[Writer] = "stop")
  <2>0. PendingStop' <=> InQueue' \/ InHand'
    BY DEF PendingStop, InQueue, InHand
  <2>1. CASE WriterStart \/ WriterEnds \/ WriterLock
    <3>1. UNCHANGED <<queue, inflight>> /\ pc[Writer] # "stop" /\ pc'[Writer] # "stop"
      BY <1>0, <2>1 DEF WriterStart, WriterEnds, WriterLock, Goto
    <3> QED BY <3>1 DEF PendingStop
  <2>2. CASE WriterReceive
    <3>1. /\ queue # <<>> /\ queue' = Tail(queue) /\ inflight' = <<Head(queue)>>
          /\ inflight = <<>> /\ pc[Writer] # "stop" /\ pc'[Writer] # "stop"
      BY <1>0, <2>2 DEF WriterReceive, InflightInv, Goto
    <3>2. ~InHand /\ (InHand' <=> Head(queue).cb)
      BY <3>1 DEF InHand
    <3>3. InQueue <=> InQueue' \/ Head(queue).cb
      BY <1>0, <3>1, HeadCallback DEF InQueue
    <3> QED BY <2>0, <3>1, <3>2, <3>3, PendingParts
  <2>3. CASE WriterWrite
    <3>1. /\ queue' = queue /\ inflight' = <<>> /\ inflight # <<>>
          /\ pc[Writer] # "stop"
          /\ pc'[Writer] = IF inflight[1].cb THEN "stop" ELSE "wait"
      BY <1>0, <2>3 DEF WriterWrite, InflightInv, AfterWrite, Goto
    <3>2. (InQueue' <=> InQueue) /\ ~InHand'
      BY <3>1 DEF InQueue, InHand
    <3>3. InHand <=> inflight[1].cb
      <4>1. DOMAIN inflight = {1}
        <5>1. DOMAIN inflight = 1..Len(inflight) /\ Len(inflight) \in Nat
          BY <1>0, LenProperties
        <5>2. Len(inflight) # 0
          BY <1>0, <3>1, EmptySeq
        <5>3. Len(inflight) = 1
          BY <1>0, <5>1, <5>2
        <5> QED BY <5>1, <5>3
      <4> QED BY <4>1 DEF InHand
    <3> QED BY <2>0, <3>1, <3>2, <3>3, PendingParts
  <2> QED BY <2>1, <2>2, <2>3
<1>5. StopDue' <=> StopDue
  BY <1>1, <1>4 DEF StopDue
<1> QED BY <1>1, <1>2, <1>3, <1>5 DEF Same

\* A call of Stop from outside is not seen before it swaps Running.
LEMMA CallStopConn ==
  ASSUME TypeOK, NEW t \in Stoppers, CallStop(t)
  PROVE  Same
<1> USE ThreadsFacts
<1>1. /\ UNCHANGED <<lock, Running, chSend, queue, inflight, teardowns, accepted>>
      /\ pc'[Reader] = pc[Reader] /\ pc'[Writer] = pc[Writer]
  BY DEF CallStop, Goto, TypeOK
<1> QED BY <1>1 DEF Same, Phase, Handling, Wedged, StopDue, PendingStop

LEMMA NextConn ==
  TypeOK /\ InflightInv /\ LockInv /\ StopInv /\ PlaceInv /\ [Next]_vars
    => [Conn!Next]_(Conn!vars)
<1> SUFFICES ASSUME TypeOK, InflightInv, LockInv, StopInv, PlaceInv, [Next]_vars
             PROVE  [Conn!Next]_(Conn!vars)
  OBVIOUS
<1>1. ConnStep
  <2>1. CASE OutsideStop
    <3>1. CASE Receive \/ ReceiveFails \/ HandlerReturns
      BY <3>1, ReaderConn
    <3>2. CASE \E t \in Senders \cup {Reader}, cb \in BOOLEAN :
                 (cb => t = Reader) /\ SendAsync(t, cb)
      BY <3>2, SendConn
    <3>3. CASE \E t \in Stoppers : CallStop(t)
      BY <3>3, CallStopConn DEF ConnStep
    <3>4. CASE WriterStart \/ WriterReceive \/ WriterEnds \/ WriterLock \/ WriterWrite
      BY <3>4, WriterConn DEF ConnStep
    <3> QED BY <2>1, <3>1, <3>2, <3>3, <3>4 DEF OutsideStop
  <2>2. CASE \E t \in Threads : StopStep(t)
    BY <2>2, StopConn
  <2>3. UNCHANGED seen => Same
    BY DEF seen, Same, Phase, Handling, Wedged, StopDue, PendingStop
  <2>4. CASE UNCHANGED seen
    BY <2>3, <2>4 DEF ConnStep
  <2> QED BY <2>1, <2>2, <2>4, NextCases
<1>2. Same => UNCHANGED Conn!vars
  BY Booleans DEF Same, Conn!vars
<1> QED BY <1>1, <1>2 DEF ConnStep

\* Reader, writer, senders and stoppers together, with their channel and their
\* mutex, are the connection of the module Connection, for any number of them
\* and any size of the channel (tcpclient.go:163-360).
THEOREM GoroutinesImplementConnection == Spec => ImplementsConnection
<1>1. Spec => [](TypeOK /\ InflightInv)
  BY InitType, NextType, PTL DEF Spec
<1>2. Spec => []StopInv
  BY <1>1, InitStop, NextStop, PTL DEF Spec
<1>3. Spec => []LockInv
  BY <1>1, InitLock, NextLock, PTL DEF Spec
<1>4. Spec => []PlaceInv
  BY <1>1, InitConn, NextPlace, PTL DEF Spec
<1> QED
  BY <1>1, <1>2, <1>3, <1>4, InitConn, NextConn, PTL
     DEF Spec, ImplementsConnection, Conn!Spec

\* In the abstract connection a lost mutex and the end of accepting go together.
WedgedInHandler == Wedged => Handling /\ Phase \notin {"new", "up"}

LEMMA AbstractWedge ==
  /\ Conn!Init => WedgedInHandler
  /\ WedgedInHandler /\ [Conn!Next]_(Conn!vars) => WedgedInHandler'
<1> USE Booleans DEF WedgedInHandler
<1>1. Conn!Init => WedgedInHandler
  BY DEF Conn!Init
<1>2. ASSUME WedgedInHandler, [Conn!Next]_(Conn!vars) PROVE WedgedInHandler'
  <2>1. CASE Conn!Start \/ Conn!Receive \/ Conn!HandlerReturns
    BY <1>2, <2>1 DEF Conn!Start, Conn!Receive, Conn!HandlerReturns
  <2>2. CASE \E counted, callback \in BOOLEAN : Conn!Accept(counted, callback)
    BY <1>2, <2>2 DEF Conn!Accept
  <2>3. CASE Conn!Stop \/ Conn!Teardown \/ Conn!Wedge
    BY <1>2, <2>3 DEF Conn!Stop, Conn!Teardown, Conn!Wedge
  <2>4. CASE UNCHANGED Conn!vars
    BY <1>2, <2>4 DEF Conn!vars
  <2> QED BY <1>2, <2>1, <2>2, <2>3, <2>4 DEF Conn!Next
<1> QED BY <1>1, <1>2

\* What holds of the abstract connection holds of the goroutines: whatever they
\* still do once the connection is stopped, none of them brings it back, gets a
\* message accepted or the lost mutex released (tcpclient.go:171-201, :289).
THEOREM StoppedStaysStopped == Spec => Conn!StoppedForGood
<1> USE Booleans
<1>1. Spec => Conn!Init /\ [][Conn!Next]_(Conn!vars)
  BY GoroutinesImplementConnection DEF ImplementsConnection, Conn!Spec
<1>2. Spec => []WedgedInHandler
  BY <1>1, AbstractWedge, PTL
<1>3. ASSUME WedgedInHandler, [Conn!Next]_(Conn!vars)
      PROVE  [Phase \notin {"new", "up"} =>
                /\ Phase' \notin {"new", "up"}
                /\ Phase \in {"shut", "closed"} => Phase' \in {"shut", "closed"}
                /\ accepted' = accepted
                /\ Wedged => Wedged' /\ Handling']_(Conn!vars)
  <2>1. CASE Conn!Start \/ Conn!Receive \/ Conn!HandlerReturns
    BY <1>3, <2>1 DEF Conn!Start, Conn!Receive, Conn!HandlerReturns, WedgedInHandler
  <2>2. CASE \E counted, callback \in BOOLEAN : Conn!Accept(counted, callback)
    BY <2>2 DEF Conn!Accept
  <2>3. CASE Conn!Stop \/ Conn!Teardown \/ Conn!Wedge
    BY <1>3, <2>3 DEF Conn!Stop, Conn!Teardown, Conn!Wedge, WedgedInHandler
  <2>4. CASE UNCHANGED Conn!vars
    BY <2>4
  <2> QED BY <1>3, <2>1, <2>2, <2>3, <2>4 DEF Conn!Next
<1> QED BY <1>1, <1>2, <1>3, PTL DEF Conn!StoppedForGood
=============================================================================
