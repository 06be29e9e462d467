------------------------------ MODULE Session ------------------------------
(***************************************************************************)
(* A client with EnableReconnect and the server, as the coders see them:   *)
(* the client keeps one ClientCoder for its life, the server makes a new   *)
(* ServerCoder for every connection (DefaultNetDelegate.NewTcpClient).     *)
(* Each side's writer enciphers a message and writes it, each side's       *)
(* reader takes a packet from the socket and deciphers it. The socket      *)
(* delivers what was written, in order, until the connection ends.         *)
(***************************************************************************)
EXTENDS Coder

CONSTANTS
  Messages,    \* bound: what is sent, the command and the body of each
  Randoms,     \* bound: what is left in 16 bits of rand.Int31 for the first key
  MaxSends,    \* bound: packets a client's coder enciphers in its life, or
               \* a client sends on one connection
  MaxReplies,  \* bound: packets the server sends on one connection
  MaxConnects  \* bound: connections

\* The length field of a packet has 16 bits.
ASSUME MessagesAssumption ==
  Messages \subseteq Seq(Byte) /\ \A m \in Messages : Len(m) >= 4 /\ 4 + Len(m) \in Word
ASSUME RandomsAssumption == Randoms \subseteq Word
ASSUME BoundsAssumption ==
  MaxSends \in Nat /\ MaxReplies \in Nat /\ MaxConnects \in Nat \ {0}

VARIABLES
  cc,       \* the client's coder
  sc,       \* the coder of the server's end of the connection
  conn,     \* the connection is up
  connects, \* how many connections there were
  up,       \* packets on their way to the server
  down,     \* packets on their way to the client
  sent,     \* sent[d]: messages written in direction d on this connection
  got,      \* got[d]: messages the receiver of direction d has deciphered
  lost,     \* some write on this connection failed
  garbled,  \* some packet of this connection was refused
  fresh     \* the client's coder had sent nothing when the connection began

vars == <<cc, sc, conn, connects, up, down, sent, got, lost, garbled, fresh>>

Directions == {"up", "down"}

CoderType ==
  [sendRound : Byte, recvRound : Byte, sendKey : DWord, recvKey : DWord,
   sendCount : Nat, recvCount : Nat]
Packet == [check : Byte, size : Nat, data : Seq(Byte)]

TypeOK ==
  /\ cc \in CoderType
  /\ sc \in CoderType
  /\ conn \in BOOLEAN
  /\ connects \in 1..MaxConnects
  /\ up \in Seq(Packet)
  /\ down \in Seq(Packet)
  /\ sent \in [Directions -> Seq(Messages)]
  /\ got \in [Directions -> Seq(Seq(Byte))]
  /\ lost \in BOOLEAN
  /\ garbled \in BOOLEAN
  /\ fresh \in BOOLEAN

NothingYet == [d \in Directions |-> <<>>]

Init ==
  /\ cc = NewCoder
  /\ sc = NewCoder
  /\ conn = TRUE
  /\ connects = 1
  /\ up = <<>> /\ down = <<>>
  /\ sent = NothingYet /\ got = NothingYet
  /\ lost = FALSE
  /\ garbled = FALSE
  /\ fresh = TRUE

-----------------------------------------------------------------------------

\* The packet is written, or the write fails (its deadline is five seconds) and
\* the writer goes on with the next message; the coder has moved either way.
Write(d, chan, m, packet) ==
  \/ /\ chan' = Append(chan, packet)
     /\ sent' = [sent EXCEPT ![d] = Append(@, m)]
     /\ UNCHANGED lost
  \/ /\ lost' = TRUE
     /\ UNCHANGED <<chan, sent>>

ClientSends(m) ==
  /\ conn
  /\ cc.sendCount < MaxSends /\ Len(sent["up"]) < MaxSends
  /\ \E random \in Randoms, plain \in PlainPackets(m) :
       LET e == ClientEncrypt(cc, m, plain, random)
       IN  cc' = e.coder /\ Write("up", up, m, e.packet)
  /\ UNCHANGED <<sc, conn, connects, down, got, garbled, fresh>>

\* The server only sends to a connection that has sent it something: a reply,
\* or a broadcast once the client is in the service's list.
ServerSends(m) ==
  /\ conn
  /\ sc.recvCount > 0
  /\ sc.sendCount < MaxReplies /\ Len(sent["down"]) < MaxReplies
  /\ \E plain \in PlainPackets(m) :
       LET e == ServerEncrypt(sc, m, plain)
       IN  sc' = e.coder /\ Write("down", down, m, e.packet)
  /\ UNCHANGED <<cc, conn, connects, up, got, garbled, fresh>>

\* A packet is handed to the handlers, or refused and the reader stops the
\* connection.
Take(d, result) ==
  IF result.ok
  THEN got' = [got EXCEPT ![d] = Append(@, result.data)] /\ UNCHANGED <<conn, garbled>>
  ELSE conn' = FALSE /\ garbled' = TRUE /\ UNCHANGED got

ServerReceives ==
  /\ conn
  /\ up # <<>>
  /\ LET r == ServerDecrypt(sc, Head(up))
     IN  sc' = r.coder /\ Take("up", r)
  /\ up' = Tail(up)
  /\ UNCHANGED <<cc, connects, down, sent, lost, fresh>>

ClientReceives ==
  /\ conn
  /\ down # <<>>
  /\ LET r == ClientDecrypt(cc, Head(down))
     IN  cc' = r.coder /\ Take("down", r)
  /\ down' = Tail(down)
  /\ UNCHANGED <<sc, connects, up, sent, lost, fresh>>

Disconnect ==
  /\ conn
  /\ conn' = FALSE
  /\ UNCHANGED <<cc, sc, connects, up, down, sent, got, lost, garbled, fresh>>

\* Connect: a new connection with a new coder at the server and the old one at
\* the client (tcpclient.go:197): the first packet of a connection carries the
\* key only once in the client's life.
Reconnect ==
  /\ ~conn
  /\ connects < MaxConnects
  /\ connects' = connects + 1
  /\ conn' = TRUE
  /\ cc' = cc
  /\ sc' = NewCoder
  /\ fresh' = (cc.sendCount = 0)
  /\ up' = <<>> /\ down' = <<>>
  /\ sent' = NothingYet /\ got' = NothingYet
  /\ lost' = FALSE
  /\ garbled' = FALSE

Next ==
  \/ \E m \in Messages : ClientSends(m) \/ ServerSends(m)
  \/ ServerReceives \/ ClientReceives
  \/ Disconnect \/ Reconnect

Spec == Init /\ [][Next]_vars

-----------------------------------------------------------------------------
(* Properties.                                                             *)

\* Something too long to be enciphered was sent. Only what is sent back, or
\* what another client sends, can be (PlainPackets).
Overlong(d) == \E i \in DOMAIN sent[d] : TooLong(sent[d][i])

\* The keys were agreed on this connection, no write failed and the client's
\* packets were all enciphered.
KeyCame == fresh /\ ~lost /\ ~Overlong("up")

\* And so were the server's.
Sound == KeyCame /\ ~Overlong("down")

\* On a sound connection every message is received as it was sent, in order,
\* and no packet is refused, although each packet can only be deciphered with
\* what all earlier ones have left in both coders. A failed write, a message
\* beyond the coder's limit or a reconnection ends this.
ReceivedAsSent ==
  Sound => ~garbled /\ \A d \in Directions : IsPrefix(got[d], sent[d])

\* The one message that the server sends in the clear is one that is too long
\* for its coder (netmsg.go:128-134, ServerCoder.go:38-46): a server that took its
\* key from a packet that carried one has a key, and no packet that it enciphers
\* or sends in the clear makes the key null. On a connection whose keys did not
\* come it takes four bytes of a packet without key, which may be anything, until
\* it has enciphered something.
NeverInTheClear ==
  (KeyCame /\ sc.recvCount > 0) \/ sc.sendCount > 0 =>
    \A m \in Messages : InTheClear(sc, m) => TooLong(m)
=============================================================================
