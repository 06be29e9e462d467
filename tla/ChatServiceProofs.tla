-------------------------- MODULE ChatServiceProofs --------------------------
(***************************************************************************)
(* Proofs about ChatService: the order and the completeness of what users  *)
(* get, for any finite set of connections, any size of the history and any *)
(* number of requests.                                                     *)
(***************************************************************************)
EXTENDS ChatService, SequenceTheorems, TLAPS

-----------------------------------------------------------------------------
(* The parts of the inductive invariant.                                   *)

\* The handler that broadcasts has a message, its own, and the newest.
CurInv ==
  /\ \A c \in Clients : pc[c] \in {"chat", "bcast"} => cur[c] \in Msg
  /\ \A c \in Clients : cur[c] \in Msg => cur[c][1] = c /\ cur[c][2] <= requests

\* What c got from a sender is no newer than what that sender broadcasts now,
\* and is this very message only after the broadcast has come to c.
InboxInv ==
  \A c \in Clients : \A i \in DOMAIN inbox[c] :
    LET s == inbox[c][i][1]
    IN  /\ cur[s] \in Msg
        /\ inbox[c][i][2] <= cur[s][2]
        /\ inbox[c][i][2] = cur[s][2] =>
             pc[s] # "chat" /\ (pc[s] = "bcast" => c \notin todo[s])

\* What c has got, gets nothing of (a full queue, a body left out), has read in
\* the history, or could not yet, or no longer, have read there.
Accounted(c) ==
  Elements(inbox[c]) \cup refused[c] \cup Elements(snapshot[c]) \cup excused[c]

\* The broadcast of what s has has still to come to c.
Underway(s, c) == pc[s] = "chat" \/ (pc[s] = "bcast" /\ c \in todo[s])
OnItsWay(m, c) == m = cur[m[1]] /\ Underway(m[1], c)

MissInv ==
  \A c \in clients \cap running : pc[c] # "snap" =>
    \A m \in added \cup pending : m \in Accounted(c) \/ OnItsWay(m, c)

-----------------------------------------------------------------------------

LEMMA GotoFacts ==
  ASSUME TypeOK, NEW c \in Clients, NEW l, Goto(c, l)
  PROVE  /\ pc'[c] = l
         /\ \A d \in Clients : d # c => pc'[d] = pc[d]
BY DEF Goto, TypeOK

LEMMA GotoType ==
  ASSUME TypeOK, NEW c \in Clients,
         NEW l \in {"idle", "bad", "auth", "lock", "snap", "reply", "chat", "bcast"},
         Goto(c, l)
  PROVE  pc' \in [Clients -> {"idle", "bad", "auth", "lock", "snap", "reply",
                              "chat", "bcast"}]
BY DEF Goto, TypeOK

LEMMA MsgFacts ==
  ASSUME NEW m \in Msg, NEW n \in Msg
  PROVE  /\ m[1] \in Clients /\ m[2] \in 1..MaxRequests /\ m[2] \in Nat
         /\ m[1] = n[1] /\ m[2] = n[2] => m = n
BY SizeAssumption DEF Msg

LEMMA AppendFacts ==
  ASSUME NEW s \in Seq(Msg), NEW m \in Msg
  PROVE  /\ Append(s, m) \in Seq(Msg)
         /\ Len(Append(s, m)) = Len(s) + 1
         /\ Len(s) \in Nat /\ DOMAIN s = 1..Len(s)
         /\ DOMAIN Append(s, m) = 1..Len(s) + 1
         /\ \A i \in 1..Len(s) : Append(s, m)[i] = s[i]
         /\ Append(s, m)[Len(s) + 1] = m
         /\ \A i \in DOMAIN Append(s, m) : i \in DOMAIN s \/ i = Len(s) + 1
BY AppendProperties, LenProperties

LEMMA ElementsAppend ==
  ASSUME NEW s \in Seq(Msg), NEW m \in Msg
  PROVE  Elements(Append(s, m)) = Elements(s) \cup {m}
<1>1. /\ DOMAIN s = 1..Len(s) /\ DOMAIN Append(s, m) = 1..Len(s) + 1 /\ Len(s) \in Nat
      /\ \A i \in 1..Len(s) : Append(s, m)[i] = s[i]
      /\ Append(s, m)[Len(s) + 1] = m
  BY AppendFacts
<1>2. \A i \in 1..Len(s) + 1 : i \in 1..Len(s) \/ i = Len(s) + 1
  BY <1>1
<1>3. Len(s) + 1 \in 1..Len(s) + 1 /\ \A i \in 1..Len(s) : i \in 1..Len(s) + 1
  BY <1>1
<1> QED
  BY <1>1, <1>2, <1>3, Zenon DEF Elements

LEMMA ElementsType ==
  ASSUME NEW s \in Seq(Msg)
  PROVE  Elements(s) \subseteq Msg
BY ElementOfSeq, LenProperties DEF Elements

\* The history keeps its size.
LEMMA NewestFacts ==
  ASSUME NEW s \in Seq(Msg)
  PROVE  Newest(s) \in Seq(Msg) /\ Len(Newest(s)) <= HistorySize
<1> DEFINE k == IF Len(s) > HistorySize THEN Len(s) - HistorySize + 1 ELSE 1
<1>1. Len(s) \in Nat /\ HistorySize \in Nat \ {0}
  BY LenProperties, SizeAssumption
<1>2. k \in 1..Len(s) + 1
  BY <1>1
<1>3. k <= Len(s) => Len(s) - k + 1 <= HistorySize
  BY <1>1
<1> HIDE DEF k
<1>4. \A i \in k..Len(s) : s[i] \in Msg
  <2>1. \A i \in k..Len(s) : i \in 1..Len(s)
    BY <1>1, <1>2
  <2> QED
    BY <2>1, ElementOfSeq
<1>5. /\ SubSeq(s, k, Len(s)) \in Seq(Msg)
      /\ Len(SubSeq(s, k, Len(s))) = IF k <= Len(s) THEN Len(s) - k + 1 ELSE 0
  BY <1>1, <1>2, <1>4, SubSeqProperties
<1>6. Len(SubSeq(s, k, Len(s))) <= HistorySize
  BY <1>1, <1>3, <1>5
<1> QED
  BY <1>5, <1>6, Zenon DEF Newest, k

-----------------------------------------------------------------------------
(* Types.                                                                  *)

LEMMA InitInv == Init => TypeOK /\ CurInv /\ InboxInv /\ MissInv
<1> SUFFICES ASSUME Init PROVE TypeOK /\ CurInv /\ InboxInv /\ MissInv
  OBVIOUS
<1>1. NoMsg \notin Msg
  BY DEF NoMsg, Msg
<1>2. TypeOK
  BY SizeAssumption DEF Init, TypeOK
<1>3. CurInv
  BY <1>1 DEF Init, CurInv
<1>4. InboxInv /\ MissInv
  BY DEF Init, InboxInv, MissInv
<1> QED
  BY <1>2, <1>3, <1>4

LEMMA NextType == TypeOK /\ CurInv /\ Next => TypeOK'
<1> SUFFICES ASSUME TypeOK, CurInv, Next PROVE TypeOK'
  OBVIOUS
<1>1. ASSUME NEW c \in Clients, BadRequest(c) \/ Auth(c) PROVE TypeOK'
  <2>1. pc' \in [Clients -> {"idle", "bad", "auth", "lock", "snap", "reply", "chat", "bcast"}]
    BY <1>1, GotoType DEF BadRequest, Auth, OnAuth
  <2>2. requests' \in 0..MaxRequests
    BY <1>1, SizeAssumption DEF BadRequest, Auth, Request, TypeOK
  <2> QED
    BY <1>1, <2>1, <2>2 DEF BadRequest, Auth, connVars, lockVars, chatVars, historyVars,
                            TypeOK
<1>2. ASSUME NEW c \in Clients, Chat(c) PROVE TypeOK'
  <2>1. pc' \in [Clients -> {"idle", "bad", "auth", "lock", "snap", "reply", "chat", "bcast"}]
    BY <1>2, GotoType DEF Chat
  <2>2. requests' \in 0..MaxRequests /\ <<c, requests + 1>> \in Msg
    BY <1>2, SizeAssumption DEF Chat, Request, TypeOK, Msg
  <2>3. cur' \in [Clients -> Msg \cup {NoMsg}] /\ pending' \subseteq Msg
    BY <1>2, <2>2 DEF Chat, TypeOK
  <2> QED
    BY <1>2, <2>1, <2>2, <2>3 DEF Chat, connVars, lockVars, TypeOK
<1>3. ASSUME NEW c \in Clients,
             ConnStops(c) \/ WriteStarts(c) \/ WriteEnds(c) \/ ErrorReply(c)
      PROVE  TypeOK'
  <2>1. pc' \in [Clients -> {"idle", "bad", "auth", "lock", "snap", "reply", "chat", "bcast"}]
    BY <1>3, GotoType DEF ConnStops, ReaderStops, WriterStops, CloseConn, WriteStarts,
                          WriteEnds, ErrorReply, TypeOK
  <2>2. /\ running' \subseteq Clients /\ stopDue' \subseteq Clients
        /\ wedged' \subseteq Clients \ running'
        /\ writing' \subseteq Slow
    BY <1>3 DEF ConnStops, ReaderStops, WriterStops, CloseConn, WriteStarts, WriteEnds,
                ErrorReply, TypeOK
  <2> QED
    BY <1>3, <2>1, <2>2 DEF ConnStops, ReaderStops, WriterStops, CloseConn, WriteStarts,
                            WriteEnds, ErrorReply, lockVars, chatVars, historyVars, TypeOK
<1>4. ASSUME NEW c \in Clients, AnnounceLock(c) \/ AddClient(c) PROVE TypeOK'
  <2>1. pc' \in [Clients -> {"idle", "bad", "auth", "lock", "snap", "reply", "chat", "bcast"}]
    BY <1>4, GotoType DEF AnnounceLock, AddClient, OnAuth
  <2>2. clients' \subseteq Clients /\ announced' \in Clients \cup {Nobody} /\ readers' = readers
    BY <1>4 DEF AnnounceLock, AddClient, lockVars, TypeOK
  <2> QED
    BY <1>4, <2>1, <2>2 DEF AnnounceLock, AddClient, connVars, chatVars, historyVars,
                            TypeOK
<1>5. ASSUME NEW c \in Clients, GetHistory(c) PROVE TypeOK'
  <2>1. pc' \in [Clients -> {"idle", "bad", "auth", "lock", "snap", "reply", "chat", "bcast"}]
    BY <1>5, GotoType DEF GetHistory, OnAuth
  <2>2. snapshot' \in [Clients -> Seq(Msg)] /\ excused' \in [Clients -> SUBSET Msg]
    BY <1>5 DEF GetHistory, TypeOK
  <2> QED
    BY <1>5, <2>1, <2>2 DEF GetHistory, connVars, lockVars, chatVars, TypeOK
<1>5a. ASSUME NEW c \in Clients, SendHistory(c) PROVE TypeOK'
  <2>1. pc' \in [Clients -> {"idle", "bad", "auth", "lock", "snap", "reply", "chat", "bcast"}]
    BY <1>5a, GotoType DEF SendHistory
  <2>2. snapshot[c] \in Seq(Msg) /\ <<>> \in Seq(Msg)
    BY DEF TypeOK
  <2>3. Elements(snapshot[c]) \subseteq Msg
    BY <2>2, ElementsType
  <2>4. snapshot' \in [Clients -> Seq(Msg)] /\ refused' \in [Clients -> SUBSET Msg]
    <3>1. snapshot \in [Clients -> Seq(Msg)] /\ refused \in [Clients -> SUBSET Msg]
      BY DEF TypeOK
    <3>2. CASE UNCHANGED <<snapshot, refused>>
      BY <3>1, <3>2
    <3>3. CASE /\ snapshot' = [snapshot EXCEPT ![c] = <<>>]
               /\ refused' = [refused EXCEPT ![c] = @ \cup Elements(snapshot[c])]
      <4>1. refused[c] \cup Elements(snapshot[c]) \in SUBSET Msg
        BY <2>3, <3>1
      <4>2. snapshot' \in [Clients -> Seq(Msg)]
        BY <2>2, <3>1, <3>3
      <4>3. refused' \in [Clients -> SUBSET Msg]
        BY <3>1, <3>3, <4>1
      <4> QED
        BY <4>2, <4>3
    <3> QED
      BY <1>5a, <3>2, <3>3, Zenon DEF SendHistory
  <2> QED
    BY <1>5a, <2>1, <2>4 DEF SendHistory, connVars, lockVars, TypeOK
<1>6. ASSUME NEW c \in Clients, RLock(c) \/ RUnlock(c) PROVE TypeOK'
  <2>1. pc' \in [Clients -> {"idle", "bad", "auth", "lock", "snap", "reply", "chat", "bcast"}]
    BY <1>6, GotoType DEF RLock, RUnlock
  <2>2. readers' \subseteq Clients /\ todo' \in [Clients -> SUBSET Clients]
    BY <1>6 DEF RLock, RUnlock, chatVars, TypeOK
  <2> QED
    BY <1>6, <2>1, <2>2 DEF RLock, RUnlock, connVars, chatVars, historyVars, TypeOK
<1>7. ASSUME NEW c \in Clients, NEW d \in Clients, SendTo(c, d) PROVE TypeOK'
  <2>1. cur[c] \in Msg
    BY <1>7 DEF SendTo, CurInv
  <2>2. Append(inbox[d], cur[c]) \in Seq(Msg)
    BY <2>1, AppendFacts DEF TypeOK
  <2>3. inbox' \in [Clients -> Seq(Msg)]
    BY <1>7, <2>2 DEF SendTo, TypeOK
  <2>4. refused' \in [Clients -> SUBSET Msg] /\ todo' \in [Clients -> SUBSET Clients]
    <3>1. refused' = refused \/ refused' = [refused EXCEPT ![d] = @ \cup {cur[c]}]
      BY <1>7, Zenon DEF SendTo
    <3>2. todo' = [todo EXCEPT ![c] = @ \ {d}]
      BY <1>7, Zenon DEF SendTo
    <3>3. /\ refused[d] \cup {cur[c]} \in SUBSET Msg /\ todo[c] \ {d} \in SUBSET Clients
          /\ refused \in [Clients -> SUBSET Msg] /\ todo \in [Clients -> SUBSET Clients]
      BY <2>1 DEF TypeOK
    <3>4. refused' \in [Clients -> SUBSET Msg]
      BY <3>1, <3>3
    <3>5. todo' \in [Clients -> SUBSET Clients]
      BY <3>2, <3>3
    <3> QED
      BY <3>4, <3>5
  <2> QED
    BY <1>7, <2>3, <2>4 DEF SendTo, connVars, lockVars, historyVars, TypeOK
<1>8. ASSUME NEW m \in pending, AddHistory(m) PROVE TypeOK'
  <2>1. m \in Msg /\ history \in Seq(Msg)
    BY DEF TypeOK
  <2>2. history' \in Seq(Msg) /\ Len(history') <= HistorySize
    BY <1>8, <2>1, AppendFacts, NewestFacts DEF AddHistory
  <2>3. pending' \subseteq Msg /\ added' \subseteq Msg
    BY <1>8, <2>1 DEF AddHistory, TypeOK
  <2> QED
    BY <1>8, <2>2, <2>3 DEF AddHistory, connVars, lockVars, chatVars, TypeOK
<1> QED
  BY <1>1, <1>2, <1>3, <1>4, <1>5, <1>6, <1>7, <1>8, <1>5a, Zenon DEF Next, Handler

-----------------------------------------------------------------------------
(* What is being broadcast.                                                *)

LEMMA NextCur == TypeOK /\ CurInv /\ Next => CurInv'
<1> SUFFICES ASSUME TypeOK, CurInv, Next PROVE CurInv'
  OBVIOUS
<1> USE DEF CurInv
<1>1. ASSUME NEW c \in Clients, Chat(c) PROVE CurInv'
  <2>1. <<c, requests + 1>> \in Msg /\ requests' = requests + 1 /\ requests \in Nat
    BY <1>1, SizeAssumption DEF Chat, Request, TypeOK, Msg
  <2>2. cur' = [cur EXCEPT ![c] = <<c, requests + 1>>]
        /\ \A d \in Clients : d # c => pc'[d] = pc[d]
    BY <1>1, GotoFacts DEF Chat
  <2>3. \A d \in Clients : cur[d] \in Msg => cur[d][2] \in Nat
    BY SizeAssumption DEF Msg
  <2> QED
    BY <2>1, <2>2, <2>3 DEF TypeOK
<1>2. ASSUME NEW c \in Clients, ~Chat(c),
             \/ BadRequest(c) \/ Auth(c) \/ ConnStops(c) \/ WriteStarts(c)
             \/ WriteEnds(c) \/ Handler(c)
      PROVE  CurInv'
  <2>1. cur' = cur /\ requests' \in {requests, requests + 1}
    BY <1>2 DEF BadRequest, Auth, Request, ConnStops, ReaderStops, WriterStops,
                CloseConn, WriteStarts, WriteEnds, Handler, ErrorReply, AnnounceLock, AddClient,
                GetHistory, SendHistory, RLock, SendTo, RUnlock, chatVars
  <2>2. pc' = pc \/ \E l \in {"bad", "auth", "idle", "lock", "snap", "reply"} : Goto(c, l)
                 \/ (pc[c] = "chat" /\ Goto(c, "bcast"))
    BY <1>2 DEF BadRequest, Auth, OnAuth, ConnStops, ReaderStops, WriterStops,
                CloseConn, WriteStarts, WriteEnds, Handler, ErrorReply, AnnounceLock, AddClient,
                GetHistory, SendHistory, RLock, SendTo, RUnlock
  <2>3. \A d \in Clients : pc'[d] \in {"chat", "bcast"} => pc[d] \in {"chat", "bcast"}
    BY <2>2, GotoFacts
  <2>4. \A d \in Clients : cur[d] \in Msg => cur[d][2] \in Nat
    BY SizeAssumption DEF Msg
  <2>5. requests \in Nat
    BY SizeAssumption DEF TypeOK
  <2> QED
    BY <2>1, <2>3, <2>4, <2>5
<1>3. ASSUME NEW m \in pending, AddHistory(m) PROVE CurInv'
  BY <1>3 DEF AddHistory, chatVars
<1> QED
  BY <1>1, <1>2, <1>3, Zenon DEF Next

-----------------------------------------------------------------------------
(* The order of what arrives.                                              *)

\* Messages in an inbox are messages, and so is what their sender has.
LEMMA InboxTypes ==
  ASSUME TypeOK, NEW c \in Clients, NEW i \in DOMAIN inbox[c]
  PROVE  /\ inbox[c][i] \in Msg /\ inbox[c][i][1] \in Clients /\ inbox[c][i][2] \in Nat
         /\ \A s \in Clients : cur[s] \in Msg => cur[s][2] \in Nat
<1>1. inbox[c] \in Seq(Msg)
  BY DEF TypeOK
<1>2. inbox[c][i] \in Msg
  BY <1>1, ElementOfSeq, LenProperties
<1> QED
  BY <1>2, SizeAssumption DEF Msg

\* A step that sends nothing and starts no broadcast.
LEMMA InboxKept ==
  ASSUME TypeOK, InboxInv, UNCHANGED <<inbox, cur>>,
         \A s \in Clients : pc'[s] = "chat" => pc[s] = "chat",
         \A s \in Clients : pc'[s] = "bcast" =>
           pc[s] = "chat" \/ (pc[s] = "bcast" /\ todo'[s] \subseteq todo[s])
  PROVE  InboxInv'
<1> SUFFICES ASSUME NEW c \in Clients, NEW i \in DOMAIN inbox[c], NEW s,
                    s = inbox[c][i][1]
             PROVE  /\ cur[s] \in Msg
                    /\ inbox[c][i][2] <= cur[s][2]
                    /\ inbox[c][i][2] = cur[s][2] =>
                         pc'[s] # "chat" /\ (pc'[s] = "bcast" => c \notin todo'[s])
  BY DEF InboxInv
<1>1. s \in Clients
  BY InboxTypes
<1>2. /\ cur[s] \in Msg
      /\ inbox[c][i][2] <= cur[s][2]
      /\ inbox[c][i][2] = cur[s][2] =>
           pc[s] # "chat" /\ (pc[s] = "bcast" => c \notin todo[s])
  BY DEF InboxInv
<1> QED
  BY <1>1, <1>2

LEMMA NextInbox == TypeOK /\ CurInv /\ InboxInv /\ Next => InboxInv'
<1> SUFFICES ASSUME TypeOK, CurInv, InboxInv, Next PROVE InboxInv'
  OBVIOUS
<1>1. ASSUME NEW c \in Clients, Chat(c) PROVE InboxInv'
  <2> SUFFICES ASSUME NEW e \in Clients, NEW i \in DOMAIN inbox[e], NEW s,
                      s = inbox[e][i][1]
               PROVE  /\ cur'[s] \in Msg
                      /\ inbox[e][i][2] <= cur'[s][2]
                      /\ inbox[e][i][2] = cur'[s][2] =>
                           pc'[s] # "chat" /\ (pc'[s] = "bcast" => e \notin todo[s])
    BY <1>1 DEF InboxInv, Chat
  <2>1. s \in Clients /\ inbox[e][i][2] \in Nat
    BY InboxTypes
  <2>2. /\ cur[s] \in Msg
        /\ inbox[e][i][2] <= cur[s][2]
        /\ inbox[e][i][2] = cur[s][2] =>
             pc[s] # "chat" /\ (pc[s] = "bcast" => e \notin todo[s])
    BY DEF InboxInv
  <2>3. CASE s = c
    <3>1. cur'[s] = <<c, requests + 1>> /\ <<c, requests + 1>> \in Msg
      <4>1. cur' = [cur EXCEPT ![c] = <<c, requests + 1>>]
            /\ requests \in 0..MaxRequests /\ requests < MaxRequests
        BY <1>1 DEF Chat, Request, TypeOK
      <4>2. requests + 1 \in 1..MaxRequests
        BY <4>1, SizeAssumption
      <4> QED
        BY <2>3, <4>1, <4>2 DEF TypeOK, Msg
    <3>2. cur[s][2] <= requests /\ cur[s][2] \in Nat /\ requests \in Nat
      <4>1. requests \in Nat
        BY SizeAssumption DEF TypeOK
      <4>2. cur[s][2] <= requests
        BY <2>1, <2>2 DEF CurInv
      <4> QED
        BY <2>1, <2>2, <4>1, <4>2, InboxTypes
    <3> QED
      BY <2>1, <2>2, <3>1, <3>2
  <2>4. CASE s # c
    <3>1. cur'[s] = cur[s] /\ pc'[s] = pc[s]
      BY <1>1, <2>1, <2>4, GotoFacts DEF Chat, TypeOK
    <3> QED
      BY <2>2, <3>1
  <2> QED
    BY <2>3, <2>4
<1>2. ASSUME NEW c \in Clients, NEW d \in Clients, SendTo(c, d) PROVE InboxInv'
  <2>1. cur[c] \in Msg /\ cur[c][1] = c /\ cur[c][2] \in Nat /\ pc[c] = "bcast"
        /\ d \in todo[c] /\ UNCHANGED <<pc, cur>> /\ todo' = [todo EXCEPT ![c] = @ \ {d}]
    BY <1>2, SizeAssumption DEF SendTo, CurInv, Msg
  <2>2. c \in Clients /\ d \notin todo'[c] /\ \A s \in Clients : todo'[s] \subseteq todo[s]
    BY <2>1 DEF TypeOK
  <2>3. CASE inbox' = inbox
    BY <2>1, <2>2, <2>3, InboxKept
  <2>4. CASE inbox' = [inbox EXCEPT ![d] = Append(@, cur[c])]
    <3>1. inbox[d] \in Seq(Msg)
      BY DEF TypeOK
    <3>2. inbox'[d] = Append(inbox[d], cur[c]) /\ \A e \in Clients : e # d => inbox'[e] = inbox[e]
      BY <2>4 DEF TypeOK
    <3> SUFFICES ASSUME NEW e \in Clients, NEW i \in DOMAIN inbox'[e], NEW s,
                        s = inbox'[e][i][1]
                 PROVE  /\ cur[s] \in Msg
                        /\ inbox'[e][i][2] <= cur[s][2]
                        /\ inbox'[e][i][2] = cur[s][2] =>
                             pc[s] # "chat" /\ (pc[s] = "bcast" => e \notin todo'[s])
      BY <2>1 DEF InboxInv
    <3>3. CASE i \in DOMAIN inbox[e] /\ inbox'[e][i] = inbox[e][i]
      <4>1. s \in Clients
        BY <3>3, InboxTypes
      <4>2. /\ cur[s] \in Msg
            /\ inbox[e][i][2] <= cur[s][2]
            /\ inbox[e][i][2] = cur[s][2] =>
                 pc[s] # "chat" /\ (pc[s] = "bcast" => e \notin todo[s])
        BY <3>3 DEF InboxInv
      <4> QED
        BY <2>2, <3>3, <4>1, <4>2
    <3>4. CASE e = d /\ inbox'[e][i] = cur[c]
      BY <2>1, <2>2, <3>4
    <3>5. \/ i \in DOMAIN inbox[e] /\ inbox'[e][i] = inbox[e][i]
          \/ e = d /\ inbox'[e][i] = cur[c]
      <4>1. CASE e = d
        <5>1. /\ \A k \in DOMAIN Append(inbox[d], cur[c]) :
                   k \in DOMAIN inbox[d] \/ k = Len(inbox[d]) + 1
              /\ \A k \in DOMAIN inbox[d] : Append(inbox[d], cur[c])[k] = inbox[d][k]
              /\ Append(inbox[d], cur[c])[Len(inbox[d]) + 1] = cur[c]
          BY <2>1, <3>1, AppendFacts
        <5> QED
          BY <3>2, <4>1, <5>1, Zenon
      <4>2. CASE e # d
        BY <3>2, <4>2
      <4> QED
        BY <4>1, <4>2
    <3> QED
      BY <3>3, <3>4, <3>5
  <2> QED
    BY <1>2, <2>3, <2>4, Zenon DEF SendTo
<1>3. ASSUME NEW c \in Clients, RLock(c) PROVE InboxInv'
  <2>1. UNCHANGED <<inbox, cur>> /\ pc[c] = "chat" /\ pc'[c] = "bcast"
        /\ (\A d \in Clients : d # c => pc'[d] = pc[d] /\ todo'[d] = todo[d])
    BY <1>3, GotoFacts DEF RLock, TypeOK
  <2> QED
    BY <2>1, InboxKept
<1>4. ASSUME NEW c \in Clients,
             \/ BadRequest(c) \/ Auth(c) \/ ConnStops(c) \/ WriteStarts(c) \/ WriteEnds(c)
             \/ ErrorReply(c) \/ AnnounceLock(c) \/ AddClient(c) \/ GetHistory(c)
             \/ SendHistory(c) \/ RUnlock(c)
      PROVE  InboxInv'
  <2>1. UNCHANGED <<inbox, cur, todo>>
    BY <1>4 DEF BadRequest, Auth, ConnStops, ReaderStops, WriterStops, CloseConn,
                WriteStarts, WriteEnds, ErrorReply, AnnounceLock, AddClient, GetHistory,
                SendHistory, RUnlock, chatVars
  <2>2. pc' = pc \/ \E l \in {"bad", "auth", "idle", "lock", "snap", "reply"} : Goto(c, l)
    BY <1>4 DEF BadRequest, Auth, OnAuth, ConnStops, ReaderStops, WriterStops,
                CloseConn, WriteStarts, WriteEnds, ErrorReply, AnnounceLock, AddClient,
                GetHistory, SendHistory, RUnlock
  <2>3. \A d \in Clients : pc'[d] \in {"chat", "bcast"} => pc'[d] = pc[d]
    BY <2>2, GotoFacts
  <2> QED
    BY <2>1, <2>3, InboxKept
<1>5. ASSUME NEW m \in pending, AddHistory(m) PROVE InboxInv'
  <2>1. UNCHANGED <<inbox, cur, todo, pc>>
    BY <1>5 DEF AddHistory, chatVars
  <2> QED
    BY <2>1, InboxKept
<1> QED
  BY <1>1, <1>2, <1>3, <1>4, <1>5, Zenon DEF Next, Handler

LEMMA NextOrder == TypeOK /\ CurInv /\ InboxInv /\ BroadcastOrder /\ Next => BroadcastOrder'
<1> SUFFICES ASSUME TypeOK, CurInv, InboxInv, BroadcastOrder, Next PROVE BroadcastOrder'
  OBVIOUS
<1>1. \/ inbox' = inbox
      \/ \E c, d \in Clients : SendTo(c, d) /\ inbox' = [inbox EXCEPT ![d] = Append(@, cur[c])]
  <2>1. ASSUME NEW c \in Clients,
               \/ BadRequest(c) \/ Auth(c) \/ Chat(c) \/ ConnStops(c) \/ WriteStarts(c)
               \/ WriteEnds(c) \/ ErrorReply(c) \/ AnnounceLock(c) \/ AddClient(c) \/ GetHistory(c) \/ SendHistory(c)
               \/ RLock(c) \/ RUnlock(c)
        PROVE  inbox' = inbox
    BY <2>1 DEF BadRequest, Auth, Chat, ConnStops, ReaderStops, WriterStops, CloseConn,
                WriteStarts, WriteEnds, ErrorReply, AnnounceLock, AddClient,
                GetHistory, SendHistory, RLock, RUnlock, chatVars
  <2>2. ASSUME NEW m \in pending, AddHistory(m) PROVE inbox' = inbox
    BY <2>2 DEF AddHistory, chatVars
  <2>3. ASSUME NEW c \in Clients, NEW d \in Clients, SendTo(c, d)
        PROVE  inbox' = inbox \/ inbox' = [inbox EXCEPT ![d] = Append(@, cur[c])]
    BY <2>3, Zenon DEF SendTo
  <2> QED
    BY <2>1, <2>2, <2>3, Zenon DEF Next, Handler
<1>2. CASE inbox' = inbox
  BY <1>2 DEF BroadcastOrder
<1>3. ASSUME NEW c \in Clients, NEW d \in Clients, SendTo(c, d),
             inbox' = [inbox EXCEPT ![d] = Append(@, cur[c])]
      PROVE  BroadcastOrder'
  <2>1. cur[c] \in Msg /\ cur[c][1] = c /\ pc[c] = "bcast" /\ d \in todo[c]
    BY <1>3 DEF SendTo, CurInv
  <2>2. /\ inbox[d] \in Seq(Msg) /\ inbox'[d] = Append(inbox[d], cur[c])
        /\ \A e \in Clients : e # d => inbox'[e] = inbox[e]
    BY <1>3 DEF TypeOK
  <2>3. /\ Len(inbox[d]) \in Nat /\ DOMAIN inbox[d] = 1..Len(inbox[d])
        /\ DOMAIN inbox'[d] = 1..Len(inbox[d]) + 1
        /\ \A i \in 1..Len(inbox[d]) : inbox'[d][i] = inbox[d][i]
        /\ inbox'[d][Len(inbox[d]) + 1] = cur[c]
    BY <2>1, <2>2, AppendFacts
  \* What c had sent to d before is older.
  <2>4. ASSUME NEW i \in DOMAIN inbox[d], inbox[d][i][1] = c
        PROVE  inbox[d][i][2] < cur[c][2]
    <3>1. /\ inbox[d][i][2] <= cur[c][2]
          /\ inbox[d][i][2] # cur[c][2]
      BY <2>1, <2>4 DEF InboxInv
    <3>2. inbox[d][i][2] \in Nat /\ cur[c][2] \in Nat
      BY <2>1, InboxTypes
    <3> QED
      BY <3>1, <3>2
  <2>5. ASSUME NEW i \in DOMAIN inbox'[d], NEW j \in DOMAIN inbox'[d],
               i < j, inbox'[d][i][1] = inbox'[d][j][1]
        PROVE  inbox'[d][i][2] < inbox'[d][j][2]
    <3>1. i \in DOMAIN inbox[d] /\ (j \in DOMAIN inbox[d] \/ j = Len(inbox[d]) + 1)
      BY <2>3, <2>5
    <3>2. CASE j \in DOMAIN inbox[d]
      <4>1. inbox'[d][i] = inbox[d][i] /\ inbox'[d][j] = inbox[d][j]
        BY <2>3, <3>1, <3>2
      <4>2. inbox[d][i][1] = inbox[d][j][1] => inbox[d][i][2] < inbox[d][j][2]
        BY <2>5, <3>1, <3>2 DEF BroadcastOrder
      <4> QED
        BY <2>5, <4>1, <4>2
    <3>3. CASE j = Len(inbox[d]) + 1
      <4>1. inbox'[d][i] = inbox[d][i] /\ inbox'[d][j] = cur[c]
        BY <2>3, <3>1, <3>3
      <4> QED
        BY <2>1, <2>4, <2>5, <3>1, <4>1
    <3> QED
      BY <3>1, <3>2, <3>3
  <2>6. ASSUME NEW e \in Clients, e # d, NEW i \in DOMAIN inbox'[e], NEW j \in DOMAIN inbox'[e],
               i < j, inbox'[e][i][1] = inbox'[e][j][1]
        PROVE  inbox'[e][i][2] < inbox'[e][j][2]
    BY <2>2, <2>6 DEF BroadcastOrder
  <2> QED
    BY <2>5, <2>6 DEF BroadcastOrder
<1> QED
  BY <1>1, <1>2, <1>3

-----------------------------------------------------------------------------
(* The completeness of what arrives.                                       *)

\* A step that takes nothing from anybody, chats nothing and lists nobody.
LEMMA MissKept ==
  ASSUME TypeOK, MissInv, cur' = cur, running' \subseteq running,
         added' \cup pending' = added \cup pending,
         \A c \in clients' \cap running' : pc'[c] # "snap" =>
           /\ c \in clients /\ pc[c] # "snap"
           /\ Accounted(c) \subseteq Accounted(c)'
           /\ \A s \in Clients : Underway(s, c) => Underway(s, c)' \/ cur[s] \in Accounted(c)'
  PROVE  MissInv'
<1> SUFFICES ASSUME NEW c \in clients' \cap running', pc'[c] # "snap",
                    NEW m \in added \cup pending
             PROVE  m \in Accounted(c)' \/ OnItsWay(m, c)'
  BY Zenon DEF MissInv
<1>1. m[1] \in Clients
  BY DEF TypeOK, Msg
<1>2. /\ c \in clients \cap running /\ pc[c] # "snap" /\ Accounted(c) \subseteq Accounted(c)'
      /\ \A s \in Clients : Underway(s, c) => Underway(s, c)' \/ cur[s] \in Accounted(c)'
  OBVIOUS
<1>3. m \in Accounted(c) \/ OnItsWay(m, c)
  BY <1>2, Zenon DEF MissInv
<1>4. CASE m \in Accounted(c)
  BY <1>2, <1>4
<1>5. CASE m = cur[m[1]] /\ Underway(m[1], c)
  <2>1. Underway(m[1], c)' \/ m \in Accounted(c)'
    BY <1>1, <1>2, <1>5, Zenon
  <2>2. m = cur'[m[1]]
    BY <1>5
  <2> QED
    BY <2>1, <2>2, Zenon DEF OnItsWay
<1> QED
  BY <1>3, <1>4, <1>5, Zenon DEF OnItsWay

LEMMA NextMiss == TypeOK /\ CurInv /\ MissInv /\ Next => MissInv'
<1> SUFFICES ASSUME TypeOK, CurInv, MissInv, Next PROVE MissInv'
  OBVIOUS
<1>1. ASSUME NEW c \in Clients, Chat(c) PROVE MissInv'
  <2>1. /\ UNCHANGED <<clients, running, added, inbox, refused, snapshot, excused, todo>>
        /\ pc[c] = "idle" /\ pc'[c] = "chat" /\ cur' = [cur EXCEPT ![c] = <<c, requests + 1>>]
        /\ pending' \subseteq pending \cup {<<c, requests + 1>>}
        /\ \A d \in Clients : d # c => pc'[d] = pc[d]
    BY <1>1, GotoFacts DEF Chat, Request, connVars, historyVars
  <2>2. \A e \in Clients : Accounted(e)' = Accounted(e)
    BY <2>1 DEF Accounted, Elements
  <2> SUFFICES ASSUME NEW e \in clients \cap running, pc'[e] # "snap",
                      NEW m \in added \cup pending'
               PROVE  m \in Accounted(e)' \/ OnItsWay(m, e)'
    BY <2>1, Zenon DEF MissInv
  <2>3. e \in Clients /\ pc[e] # "snap"
    BY <2>1 DEF TypeOK
  <2>4. CASE m = <<c, requests + 1>>
    <3>1. m[1] = c /\ cur'[c] = m
      BY <2>1, <2>4 DEF TypeOK
    <3> QED
      BY <2>1, <3>1 DEF OnItsWay, Underway
  <2>5. CASE m \in added \cup pending
    <3>1. m[1] \in Clients
      BY <2>5 DEF TypeOK, Msg
    <3>2. m \in Accounted(e) \/ OnItsWay(m, e)
      BY <2>3, <2>5, Zenon DEF MissInv
    <3>3. CASE OnItsWay(m, e)
      <4>1. m[1] # c
        BY <2>1, <3>3 DEF OnItsWay, Underway
      <4>2. cur'[m[1]] = cur[m[1]] /\ pc'[m[1]] = pc[m[1]] /\ todo' = todo
        BY <2>1, <3>1, <4>1 DEF TypeOK
      <4> QED
        BY <3>3, <4>2, Zenon DEF OnItsWay, Underway
    <3> QED
      BY <2>2, <2>3, <3>2, <3>3
  <2> QED
    BY <2>1, <2>4, <2>5
<1>2. ASSUME NEW c \in Clients, GetHistory(c) PROVE MissInv'
  <2>1. /\ UNCHANGED <<clients, running, added, pending, inbox, refused, todo, cur>>
        /\ pc[c] = "snap" /\ pc'[c] = "reply"
        /\ \A d \in Clients : d # c => pc'[d] = pc[d]
    BY <1>2, GotoFacts DEF GetHistory, OnAuth, connVars, chatVars
  <2>2. snapshot'[c] = history /\ excused'[c] = pending \cup (added \ Elements(history))
        /\ \A e \in Clients : e # c => snapshot'[e] = snapshot[e] /\ excused'[e] = excused[e]
    BY <1>2 DEF GetHistory, TypeOK
  <2> SUFFICES ASSUME NEW e \in clients \cap running, pc'[e] # "snap",
                      NEW m \in added \cup pending
               PROVE  m \in Accounted(e)' \/ OnItsWay(m, e)'
    BY <2>1, Zenon DEF MissInv
  <2>3. CASE e = c
    BY <2>2, <2>3 DEF Accounted
  <2>4. CASE e # c
    <3>1. e \in Clients /\ pc[e] # "snap" /\ m[1] \in Clients
      BY <2>1, <2>4 DEF TypeOK, Msg
    <3>2. Accounted(e)' = Accounted(e)
      BY <2>1, <2>2, <2>4, <3>1 DEF Accounted, Elements
    <3>3. m \in Accounted(e) \/ OnItsWay(m, e)
      BY <3>1, Zenon DEF MissInv
    <3>4. OnItsWay(m, e) => OnItsWay(m, e)'
      BY <2>1, <3>1 DEF OnItsWay, Underway
    <3> QED
      BY <3>2, <3>3, <3>4
  <2> QED
    BY <2>3, <2>4
<1>3. ASSUME NEW c \in Clients, NEW d \in Clients, SendTo(c, d) PROVE MissInv'
  <2>1. /\ UNCHANGED <<clients, running, added, pending, snapshot, excused, pc, cur>>
        /\ d \in todo[c] /\ pc[c] = "bcast" /\ cur[c] \in Msg
        /\ todo' = [todo EXCEPT ![c] = @ \ {d}]
    BY <1>3 DEF SendTo, CurInv, connVars, historyVars
  <2>2. inbox[d] \in Seq(Msg) /\ Elements(Append(inbox[d], cur[c])) = Elements(inbox[d]) \cup {cur[c]}
    BY <2>1, ElementsAppend DEF TypeOK
  <2>3. /\ \A e \in Clients : Elements(inbox[e]) \subseteq Elements(inbox'[e])
        /\ \A e \in Clients : refused[e] \subseteq refused'[e]
        /\ d \in running => cur[c] \in Elements(inbox'[d]) \cup refused'[d]
    <3>1. CASE d \in running /\ inbox' = [inbox EXCEPT ![d] = Append(@, cur[c])] /\ refused' = refused
      <4>1. inbox'[d] = Append(inbox[d], cur[c]) /\ \A e \in Clients : e # d => inbox'[e] = inbox[e]
        BY <3>1 DEF TypeOK
      <4> QED
        BY <2>2, <3>1, <4>1
    <3>2. CASE d \in running /\ refused' = [refused EXCEPT ![d] = @ \cup {cur[c]}] /\ inbox' = inbox
      BY <3>2 DEF TypeOK
    <3>3. CASE d \notin running /\ UNCHANGED <<inbox, refused>>
      BY <3>3
    <3> QED
      BY <1>3, <3>1, <3>2, <3>3, Zenon DEF SendTo
  <2>4. \A e \in Clients : Accounted(e) \subseteq Accounted(e)'
    BY <2>1, <2>3 DEF Accounted
  <2>5. \A e \in Clients : \A s \in Clients :
          Underway(s, e) => Underway(s, e)' \/ (s = c /\ e = d)
    BY <2>1 DEF Underway, TypeOK
  <2>6. d \in running => cur[c] \in Accounted(d)'
    BY <2>1, <2>3 DEF Accounted
  <2>7. clients \subseteq Clients
    BY DEF TypeOK
  <2> QED
    BY <2>1, <2>4, <2>5, <2>6, <2>7, MissKept
<1>4. ASSUME NEW c \in Clients,
             \/ BadRequest(c) \/ Auth(c) \/ ConnStops(c) \/ WriteStarts(c) \/ WriteEnds(c)
             \/ ErrorReply(c) \/ AnnounceLock(c) \/ AddClient(c) \/ RLock(c) \/ RUnlock(c)
      PROVE  MissInv'
  <2>1. /\ UNCHANGED <<inbox, refused, snapshot, excused, cur, added, pending>>
        /\ running' \subseteq running
    BY <1>4 DEF BadRequest, Auth, ConnStops, ReaderStops, WriterStops, CloseConn,
                WriteStarts, WriteEnds, ErrorReply, AnnounceLock, AddClient, RLock, RUnlock, connVars, chatVars, historyVars
  <2>2. \A e \in Clients : Accounted(e)' = Accounted(e)
    BY <2>1 DEF Accounted, Elements
  <2>3. \A e \in clients' : pc'[e] # "snap" => e \in clients /\ pc[e] # "snap"
    BY <1>4, GotoFacts DEF BadRequest, Auth, OnAuth, Request, ConnStops, ReaderStops,
                           WriterStops, CloseConn, WriteStarts, WriteEnds, ErrorReply,
                AnnounceLock, AddClient, RLock, RUnlock, TypeOK
  <2>4. \A e \in clients' : pc'[e] # "snap" =>
          \A s \in Clients : Underway(s, e) => Underway(s, e)'
    <3>1. CASE RLock(c)
      <4>1. /\ clients' = clients /\ todo' = [todo EXCEPT ![c] = clients] /\ pc'[c] = "bcast"
            /\ \A s \in Clients : s # c => pc'[s] = pc[s]
        BY <3>1, GotoFacts DEF RLock
      <4> QED
        BY <4>1 DEF Underway, TypeOK
    <3>2. CASE ~RLock(c)
      <4>1. /\ todo' = todo /\ (pc[c] # "bcast" \/ todo[c] = {} \/ pc' = pc) 
            /\ (pc[c] # "chat" \/ pc' = pc)
        BY <1>4, <3>2 DEF BadRequest, Auth, Request, ConnStops, ReaderStops,
                          WriterStops, CloseConn, WriteStarts, WriteEnds, ErrorReply, AnnounceLock,
                          AddClient, RUnlock, chatVars
      <4>2. \A s \in Clients : s # c => pc'[s] = pc[s]
        BY <1>4, <3>2, GotoFacts DEF BadRequest, Auth, OnAuth, Request, ConnStops,
                                     ReaderStops, WriterStops, CloseConn, WriteStarts, WriteEnds, ErrorReply,
                          AnnounceLock, AddClient, RUnlock, TypeOK
      <4> QED
        BY <4>1, <4>2 DEF Underway
    <3> QED
      BY <3>1, <3>2
  <2>5. clients \subseteq Clients
    BY DEF TypeOK
  <2> QED
    BY <2>1, <2>2, <2>3, <2>4, <2>5, MissKept
\* What the answer does not bring is counted as refused.
<1>6. ASSUME NEW c \in Clients, SendHistory(c) PROVE MissInv'
  <2>1. /\ UNCHANGED <<inbox, excused, cur, added, pending, running, clients, todo>>
        /\ pc[c] = "reply" /\ pc'[c] = "idle"
        /\ \A d \in Clients : d # c => pc'[d] = pc[d]
    BY <1>6, GotoFacts DEF SendHistory, connVars
  <2>2. /\ Elements(snapshot[c]) \cup refused[c] \subseteq Elements(snapshot'[c]) \cup refused'[c]
        /\ \A e \in Clients : e # c => snapshot'[e] = snapshot[e] /\ refused'[e] = refused[e]
    <3>1. CASE UNCHANGED <<snapshot, refused>>
      BY <3>1
    <3>2. CASE /\ snapshot' = [snapshot EXCEPT ![c] = <<>>]
               /\ refused' = [refused EXCEPT ![c] = @ \cup Elements(snapshot[c])]
      BY <3>2 DEF TypeOK
    <3> QED
      BY <1>6, <3>1, <3>2 DEF SendHistory
  <2>3. \A e \in Clients : Accounted(e) \subseteq Accounted(e)'
    <3> SUFFICES ASSUME NEW e \in Clients PROVE Accounted(e) \subseteq Accounted(e)'
      OBVIOUS
    <3>1. Elements(snapshot[e]) \cup refused[e] \subseteq Elements(snapshot'[e]) \cup refused'[e]
      BY <2>2
    <3> QED
      BY <2>1, <3>1 DEF Accounted, Elements
  <2>4. \A e \in Clients : \A s \in Clients : Underway(s, e) => Underway(s, e)'
    BY <2>1 DEF Underway
  <2>5. clients \subseteq Clients /\ \A e \in clients : pc'[e] # "snap" => pc[e] # "snap"
    BY <2>1 DEF TypeOK
  <2> QED
    BY <2>1, <2>3, <2>4, <2>5, MissKept
<1>5. ASSUME NEW n \in pending, AddHistory(n) PROVE MissInv'
  <2>1. /\ UNCHANGED <<inbox, refused, snapshot, excused, cur, clients, running, pc, todo>>
        /\ added' \cup pending' = added \cup pending
    BY <1>5 DEF AddHistory, connVars, chatVars
  <2>2. \A e \in Clients : Accounted(e)' = Accounted(e) /\ \A s \in Clients : Underway(s, e)' = Underway(s, e)
    BY <2>1 DEF Accounted, Elements, Underway
  <2>3. clients \subseteq Clients
    BY DEF TypeOK
  <2> QED
    BY <2>1, <2>2, <2>3, MissKept
<1> QED
  BY <1>1, <1>2, <1>3, <1>4, <1>5, <1>6, Zenon DEF Next, Handler

-----------------------------------------------------------------------------

IInv == CurInv /\ InboxInv /\ MissInv /\ BroadcastOrder

LEMMA NextInv == TypeOK /\ IInv /\ [Next]_vars => TypeOK' /\ IInv'
<1> SUFFICES ASSUME TypeOK, IInv, [Next]_vars PROVE TypeOK' /\ IInv'
  OBVIOUS
<1>0. CurInv /\ InboxInv /\ MissInv /\ BroadcastOrder
  BY DEF IInv
<1>1. CASE Next
  BY <1>0, <1>1, NextType, NextCur, NextInbox, NextMiss, NextOrder DEF IInv
<1>2. CASE UNCHANGED vars
  <2> USE <1>2 DEF vars
  <2>1. TypeOK' /\ CurInv' /\ BroadcastOrder'
    BY <1>0 DEF TypeOK, CurInv, BroadcastOrder
  <2>2. InboxInv'
    BY <1>0 DEF InboxInv
  <2>3. MissInv'
    BY <1>0 DEF MissInv, Accounted, Elements, OnItsWay, Underway
  <2> QED
    BY <2>1, <2>2, <2>3 DEF IInv
<1> QED
  BY <1>1, <1>2

LEMMA InitOrder == Init => BroadcastOrder
BY DEF Init, BroadcastOrder

LEMMA Invariant == Spec => [](TypeOK /\ IInv)
<1>1. Init => TypeOK /\ IInv
  BY InitInv, InitOrder DEF IInv
<1> QED
  BY <1>1, NextInv, PTL DEF Spec

\* The service's state keeps its types; in particular the history never exceeds
\* its size and only a stopped connection loses its mutex.
THEOREM TypeCorrect == Spec => []TypeOK
BY Invariant, PTL

\* No connection is sent the broadcasts of one sender in another order than that
\* sender wrote them, however the broadcasts interleave (service.go:57-64). The
\* history that a login is sent is no broadcast, and is not covered.
THEOREM SentInOrder == Spec => []BroadcastOrder
BY Invariant, PTL DEF IInv

\* Between the client list and the history no message is lost: who has logged in
\* misses a clean message only when its goroutine was late, when newer ones had
\* displaced it, or when the broadcast or the answer to the login met a full
\* queue or had its body left out (service.go:118, :130, tcpclient.go:329,
\* netmsg.go:159).
THEOREM NothingBetween == Spec => []MissedOnlyIfPending
<1>1. TypeOK /\ IInv => MissedOnlyIfPending
  <2> SUFFICES ASSUME TypeOK, IInv, NEW c \in Clients,
                      pc[c] \notin {"snap", "reply"}, c \in clients \cap running,
                      NEW m \in added, Broadcast(m)
               PROVE  m \in Elements(inbox[c]) \cup refused[c] \cup Elements(snapshot[c]) \cup excused[c]
    BY Zenon DEF MissedOnlyIfPending
  <2>1. m \in Msg /\ m[1] \in Clients /\ m[2] \in Nat
    BY SizeAssumption DEF TypeOK, Msg
  <2>2. m \in Accounted(c) \/ OnItsWay(m, c)
    BY DEF IInv, MissInv
  <2>3. m # cur[m[1]] \/ pc[m[1]] = "idle"
    BY <2>1 DEF Broadcast
  <2>4. ~OnItsWay(m, c)
    BY <2>3 DEF OnItsWay, Underway
  <2> QED
    BY <2>2, <2>4 DEF Accounted
<1> QED
  BY <1>1, Invariant, PTL

-----------------------------------------------------------------------------
(* The connections.                                                        *)

\* Who has lost its mutex is for ever answering a bad request.
WedgeInv == \A c \in Clients : c \in wedged => pc[c] = "bad"

\* What a step of somebody else does to connection c.
Untouched(c) ==
  /\ c \in running' <=> c \in running
  /\ c \in open' <=> c \in open
  /\ c \in stopDue' <=> c \in stopDue
  /\ c \in wedged' <=> c \in wedged
  /\ pc'[c] = "idle" <=> pc[c] = "idle"
  /\ Len(inbox'[c]) = Len(inbox[c])

ConnStep(c) == Conn(c)!Next \/ Untouched(c)

LEMMA InitConn == Init => WedgeInv /\ \A c \in Clients : Conn(c)!Init
BY DEF Init, WedgeInv, Conn!Init, Phase

LEMMA NextWedge == TypeOK /\ WedgeInv /\ Next => WedgeInv'
<1> SUFFICES ASSUME TypeOK, WedgeInv, Next, NEW c \in Clients, c \in wedged'
             PROVE  pc'[c] = "bad"
  BY DEF WedgeInv
<1> USE DEF TypeOK, WedgeInv, Goto
<1>1. ASSUME NEW d \in Clients,
             \/ BadRequest(d) \/ Auth(d) \/ Chat(d) \/ ConnStops(d)
             \/ WriteStarts(d) \/ WriteEnds(d)
      PROVE  pc'[c] = "bad"
  BY <1>1 DEF BadRequest, Auth, Chat, Request, ConnStops, ReaderStops, WriterStops,
              CloseConn, WriteStarts, WriteEnds, connVars
<1>2. ASSUME NEW d \in Clients, ErrorReply(d) PROVE pc'[c] = "bad"
  BY <1>2 DEF ErrorReply
<1>3. ASSUME NEW d \in Clients,
             AnnounceLock(d) \/ AddClient(d) \/ GetHistory(d) \/ SendHistory(d)
               \/ RLock(d) \/ RUnlock(d)
      PROVE  pc'[c] = "bad"
  BY <1>3 DEF AnnounceLock, AddClient, GetHistory, SendHistory, RLock, RUnlock, connVars
<1>4. ASSUME NEW d \in Clients, NEW e \in Clients, SendTo(d, e) PROVE pc'[c] = "bad"
  BY <1>4 DEF SendTo, connVars
<1>5. ASSUME NEW m \in pending, AddHistory(m) PROVE pc'[c] = "bad"
  BY <1>5 DEF AddHistory, connVars
<1> QED
  BY <1>1, <1>2, <1>3, <1>4, <1>5, Zenon DEF Next, Handler

\* The reader's steps: a request, the return from a handler, or one between.
LEMMA ReaderConn ==
  ASSUME TypeOK, WedgeInv, NEW d \in Clients, NEW c \in Clients,
         UNCHANGED <<connVars, inbox>>,
         \E l \in {"idle", "bad", "auth", "lock", "snap", "reply", "chat", "bcast"} :
           /\ Goto(d, l)
           /\ pc[d] = "idle" => l # "idle" /\ d \in open
           /\ l = "idle" => pc[d] # "bad"
  PROVE  ConnStep(c)
<1>1. CASE pc'[c] = "idle" <=> pc[c] = "idle"
  BY <1>1 DEF ConnStep, Untouched, connVars
<1>2. CASE ~(pc'[c] = "idle" <=> pc[c] = "idle")
  <2>1. c = d
    BY <1>2 DEF Goto, TypeOK
  <2>2. CASE pc[c] = "idle"
    <3>1. Conn(c)!Receive
      BY <1>2, <2>1, <2>2 DEF Conn!Receive, Phase, connVars
    <3> QED
      BY <3>1 DEF ConnStep, Conn!Next
  <2>3. CASE pc[c] # "idle"
    <3>1. pc'[c] = "idle" /\ pc[c] # "bad" /\ c \notin wedged
      BY <1>2, <2>1, <2>3, GotoFacts DEF WedgeInv
    <3>2. Conn(c)!HandlerReturns
      BY <2>3, <3>1 DEF Conn!HandlerReturns, Phase, connVars
    <3> QED
      BY <3>2 DEF ConnStep, Conn!Next
  <2> QED
    BY <2>2, <2>3
<1> QED
  BY <1>1, <1>2

LEMMA StopConn ==
  ASSUME TypeOK, NEW d \in Clients, ConnStops(d), NEW c \in Clients
  PROVE  ConnStep(c)
<1>0. pc' = pc /\ UNCHANGED <<stopDue, wedged, inbox>>
  BY DEF ConnStops, ReaderStops, WriterStops, CloseConn, chatVars
<1>1. CASE c # d
  BY <1>0, <1>1 DEF ConnStops, ReaderStops, WriterStops, CloseConn, ConnStep, Untouched
<1>2. CASE c = d
  <2>1. CASE ReaderStops(d) \/ WriterStops(d)
    <3>1. Conn(c)!Stop
      BY <1>0, <1>2, <2>1 DEF ReaderStops, WriterStops, Conn!Stop, Phase, TypeOK
    <3> QED
      BY <3>1 DEF ConnStep, Conn!Next
  <2>2. CASE CloseConn(d)
    <3>1. Conn(c)!Teardown
      BY <1>0, <1>2, <2>2 DEF CloseConn, Conn!Teardown, Phase
    <3> QED
      BY <3>1 DEF ConnStep, Conn!Next
  <2> QED
    BY <2>1, <2>2 DEF ConnStops
<1> QED
  BY <1>1, <1>2

\* An error reply is accepted with its callback, or dropped with it, or costs
\* the mutex of a connection that is stopped.
LEMMA ErrorReplyConn ==
  ASSUME TypeOK, WedgeInv, NEW d \in Clients, ErrorReply(d), NEW c \in Clients
  PROVE  ConnStep(c)
<1>0. UNCHANGED <<running, open, inbox>>
  BY DEF ErrorReply, chatVars
<1>1. CASE c # d
  BY <1>0, <1>1 DEF ErrorReply, ConnStep, Untouched, Goto, TypeOK
<1>2. CASE c = d
  <2>1. CASE d \in running
    <3>0. /\ pc[c] = "bad" /\ pc'[c] = "idle" /\ wedged' = wedged /\ c \notin wedged
          /\ stopDue' = stopDue \/ stopDue' = stopDue \cup {c}
      BY <1>2, <2>1 DEF ErrorReply, Goto, TypeOK
    <3>1. CASE stopDue' = stopDue
      <4>1. Conn(c)!HandlerReturns
        BY <1>0, <3>0, <3>1 DEF Conn!HandlerReturns, Phase
      <4> QED
        BY <4>1 DEF ConnStep, Conn!Next
    <3>2. CASE stopDue' = stopDue \cup {c}
      <4>1. Conn(c)!Accept(FALSE, TRUE)
        BY <1>0, <1>2, <2>1, <3>0, <3>2 DEF Conn!Accept, Phase
      <4> QED
        BY <4>1 DEF ConnStep, Conn!Next
    <3> QED
      BY <3>0, <3>1, <3>2
  <2>2. CASE d \notin running
    <3>0. /\ pc[c] = "bad" /\ pc' = pc /\ stopDue' = stopDue
          /\ wedged' = wedged \cup {c}
      BY <1>2, <2>2 DEF ErrorReply
    <3>1. CASE c \in wedged
      BY <1>2, <3>1 DEF ErrorReply, Free
    <3>2. CASE c \notin wedged
      <4>1. Conn(c)!Wedge
        BY <1>0, <1>2, <2>2, <3>0, <3>2 DEF Conn!Wedge, Phase
      <4> QED
        BY <4>1 DEF ConnStep, Conn!Next
    <3> QED
      BY <3>1, <3>2
  <2> QED
    BY <2>1, <2>2
<1> QED
  BY <1>1, <1>2

\* One connection's broadcast reaches into another connection.
LEMMA SendToConn ==
  ASSUME TypeOK, CurInv, NEW d \in Clients, NEW e \in Clients, SendTo(d, e), NEW c \in Clients
  PROVE  ConnStep(c)
<1>0. UNCHANGED <<running, open, stopDue, wedged, pc>>
  BY DEF SendTo, connVars
<1>1. CASE inbox'[c] = inbox[c]
  BY <1>0, <1>1 DEF ConnStep, Untouched
<1>2. CASE inbox'[c] # inbox[c]
  <2>1. c = e /\ e \in running /\ inbox'[c] = Append(inbox[c], cur[d])
    BY <1>2 DEF SendTo, TypeOK
  <2>2. Len(inbox'[c]) = Len(inbox[c]) + 1
    <3>1. cur[d] \in Msg /\ inbox[c] \in Seq(Msg)
      BY DEF SendTo, CurInv, TypeOK
    <3> QED
      BY <2>1, <3>1, AppendFacts
  <2>3. Conn(c)!Accept(TRUE, FALSE)
    BY <1>0, <2>1, <2>2 DEF Conn!Accept, Phase
  <2> QED
    BY <2>3 DEF ConnStep, Conn!Next
<1> QED
  BY <1>1, <1>2

LEMMA NextConn ==
  TypeOK /\ CurInv /\ WedgeInv /\ [Next]_vars
    => \A c \in Clients : [Conn(c)!Next]_(Conn(c)!vars)
<1> SUFFICES ASSUME TypeOK, CurInv, WedgeInv, [Next]_vars, NEW c \in Clients
             PROVE  [Conn(c)!Next]_(Conn(c)!vars)
  OBVIOUS
<1>1. ASSUME NEW d \in Clients, BadRequest(d) \/ Auth(d) \/ Chat(d) PROVE ConnStep(c)
  <2>1. /\ UNCHANGED <<connVars, inbox>>
        /\ pc[d] = "idle" /\ d \in open
        /\ Goto(d, "bad") \/ Goto(d, "auth") \/ Goto(d, "chat")
    BY <1>1 DEF BadRequest, Auth, Chat, Request, OnAuth, connVars, chatVars
  <2> QED
    BY <2>1, ReaderConn
<1>2. ASSUME NEW d \in Clients,
             AnnounceLock(d) \/ AddClient(d) \/ GetHistory(d) \/ SendHistory(d)
               \/ RLock(d) \/ RUnlock(d)
      PROVE  ConnStep(c)
  <2>1. /\ UNCHANGED <<connVars, inbox>>
        /\ pc[d] \in {"auth", "lock", "snap", "reply", "chat", "bcast"}
        /\ \E l \in {"lock", "snap", "reply", "idle", "bcast"} : Goto(d, l)
    BY <1>2 DEF AnnounceLock, AddClient, GetHistory, SendHistory, RLock, RUnlock, OnAuth,
                connVars, chatVars
  <2> QED
    BY <2>1, ReaderConn
<1>3. ASSUME NEW m \in pending, AddHistory(m) PROVE ConnStep(c)
  BY <1>3 DEF AddHistory, connVars, chatVars, ConnStep, Untouched
<1>3a. ASSUME NEW d \in Clients, WriteStarts(d) \/ WriteEnds(d) PROVE ConnStep(c)
  BY <1>3a DEF WriteStarts, WriteEnds, chatVars, ConnStep, Untouched
<1>4. ASSUME UNCHANGED vars PROVE ConnStep(c)
  <2>1. UNCHANGED <<running, open, stopDue, wedged, pc, inbox>>
    BY <1>4 DEF vars
  <2> QED
    BY <2>1, Zenon DEF ConnStep, Untouched
<1>5. ConnStep(c)
  <2>1. CASE Next
    BY <2>1, <1>1, <1>2, <1>3, <1>3a, StopConn, ErrorReplyConn, SendToConn, Zenon DEF Next, Handler
  <2> QED
    BY <1>4, <2>1, Zenon
<1>6. Untouched(c) => UNCHANGED Conn(c)!vars
  BY DEF Untouched, Conn!vars, Phase
<1> QED
  BY <1>5, <1>6 DEF ConnStep

\* The handlers and broadcasts of any number of connections use each of them as
\* the module Connection allows, which is what TcpClient implements
\* (service.go:55-64, :101, :113, :172).
THEOREM ServiceKeepsConnections == Spec => KeepsConnections
<1>1. Spec => [](TypeOK /\ CurInv)
  BY Invariant, PTL DEF IInv
<1>2. TypeOK /\ WedgeInv /\ [Next]_vars => WedgeInv'
  <2>1. UNCHANGED vars /\ WedgeInv => WedgeInv'
    BY DEF WedgeInv, vars
  <2> QED
    BY <2>1, NextWedge
<1> QED
  BY <1>1, <1>2, InitConn, NextConn, PTL DEF Spec, KeepsConnections
=============================================================================
