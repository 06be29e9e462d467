------------------------------- MODULE Coder -------------------------------
(***************************************************************************)
(* coder/: how a packet is enciphered and deciphered, at its full width.   *)
(* A byte is 0..255, a DWORD its four bytes, lowest first. A packet is     *)
(* its check code, its length field and the bytes behind them: the command *)
(* and the body (the version byte never changes).                          *)
(*                                                                         *)
(* ClientCoder and ServerCoder keep the same fields; the client chooses    *)
(* the first key and puts it in its first packet, the server takes both    *)
(* its keys from there.                                                    *)
(***************************************************************************)
EXTENDS CoderKeys, SequencesExt

CONSTANT SOCKET_PACKET  \* bound: the longest body that is enciphered, 16376

ASSUME LimitAssumption == SOCKET_PACKET \in Nat

Byte == 0..255
Word == {n \in Nat : n < 65536}
DWord == [1..4 -> Byte]

\* Exclusive or, four bits at a time. A bit is named by its weight.
Bit(n, w) == (n \div w) % 2
XorBit(a, b, w) == w * ((Bit(a, w) + Bit(b, w)) % 2)
XorNibble == [a \in 0..15 |-> [b \in 0..15 |->
                XorBit(a, b, 1) + XorBit(a, b, 2) + XorBit(a, b, 4) + XorBit(a, b, 8)]]
XorByte(a, b) ==
  16 * XorNibble[a \div 16][b \div 16] + XorNibble[a % 16][b % 16]
Xor(x, y) == [i \in 1..4 |-> XorByte(x[i], y[i])]

\* g_dwPacketKey, 0x1FBFEF1F
PacketKey == << 31, 239, 191, 31 >>
NoKey == << 0, 0, 0, 0 >>

\* (seed * 241103 + 2533101) >> 16, cut to 16 bits. The factors are taken apart
\* (241103 = 3 * 2^16 + 44495, 2533101 = 38 * 2^16 + 42733) to stay below 2^31.
SeedRandMap(seed) ==
  LET high == (seed \div 256) * 44495
      low  == (seed % 256) * 44495 + 42733
  IN  (3 * seed + 38 + (high + low \div 256) \div 256) % 65536

Half(a, b) == a + 256 * b
LowByte(n) == n % 256
HighByte(n) == n \div 256

\* The key after a block, from its enciphered bytes.
NextKey(c) ==
  LET a == SeedRandMap(Half(c[1], c[2]))
      b == SeedRandMap(Half(c[3], c[4]))
  IN  Xor(<< LowByte(a), HighByte(a), LowByte(b), HighByte(b) >>, PacketKey)

\* The client's first key, from a random number. The shift of the second half
\* is done in 16 bits and leaves nothing of it.
FirstKey(random) ==
  LET a == SeedRandMap(random)
  IN  Xor(<< LowByte(a), HighByte(a), 0, 0 >>, PacketKey)

-----------------------------------------------------------------------------
(* encryptBuffer and decryptBuffer.                                        *)

\* wSnapCount: the bytes that fill the last DWORD.
Snap(data) == (4 - (Len(data) % 4)) % 4
Blocks(data) == (Len(data) + Snap(data)) \div 4
BlockOf(data, i) == SubSeq(data, 4 * i - 3, 4 * i)
Zeros(n) == [i \in 1..n |-> 0]

\* The bytes of a buffer, each under its byte of the key of its block.
UnderKeys(data, keys) ==
  [j \in 1..Len(data) |-> XorByte(data[j], keys[1 + (j - 1) \div 4][1 + ((j - 1) % 4)])]

\* The keys of the first i blocks and of the next one, which comes from the
\* enciphered bytes of the one before.
sendKeys(data, key) ==
  LET padded == data \o Zeros(Snap(data))
      keys[i \in 0..Blocks(data)] ==
        IF i = 0 THEN << key >>
        ELSE LET prev == keys[i - 1]
             IN  Append(prev, NextKey(Xor(BlockOf(padded, i), prev[i])))
  IN  keys

EncryptBuffer(data, key) ==
  LET keys == sendKeys(data, key)[Blocks(data)]
  IN  [data |-> UnderKeys(data, keys), key |-> keys[Blocks(data) + 1]]

\* The filling was cut off, but it was zero: its enciphered form is the last
\* bytes of the key of the last block.
NoFilling(data, key) == data \o Zeros(Snap(data))  \* mutant
Filled(data, key) == data \o SubSeq(key, 5 - Snap(data), 4)

recvKeys(data, key) ==
  LET keys[i \in 0..Blocks(data)] ==
        IF i = 0 THEN << key >>
        ELSE LET prev == keys[i - 1]
                 all  == IF i = Blocks(data) THEN Filled(data, prev[i]) ELSE data
             IN  Append(prev, NextKey(BlockOf(all, i)))
  IN  keys

DecryptBuffer(data, key) ==
  LET keys == recvKeys(data, key)[Blocks(data)]
  IN  [data |-> UnderKeys(data, keys), key |-> keys[Blocks(data) + 1]]

\* mapSendByte and mapRecvByte over a whole packet; the round advances by three
\* for every byte.
MapSend(data, round) ==
  [i \in DOMAIN data |-> g_SendByteMap[((data[i] + round + 3 * (i - 1)) % 256) + 1]]
MapRecv(data, round) ==
  [i \in DOMAIN data |-> (g_RecvByteMap[data[i] + 1] - round - 3 * (i - 1)) % 256]
NextRound(round, data) == (round + 3 * Len(data)) % 256

\* cbCheckCode over the bytes; it is a byte itself.
SumBytes(data) ==
  LET sum[i \in 0..Len(data)] == IF i = 0 THEN 0 ELSE (sum[i - 1] + data[i]) % 256
  IN  sum[Len(data)]
CheckCodeUncut(data) == 256 - SumBytes(data)  \* mutant
CheckCode(data) == (256 - SumBytes(data)) % 256

-----------------------------------------------------------------------------
(* The coders.                                                             *)

NewCoder ==
  [sendRound |-> 0, recvRound |-> 0, sendKey |-> NoKey, recvKey |-> NoKey,
   sendCount |-> 0, recvCount |-> 0]

\* What both Encrypt do with a coder that has its key.
Encipher(coder, data) ==
  LET e == EncryptBuffer(MapSend(data, coder.sendRound), coder.sendKey)
  IN  [packet |-> [check |-> CheckCode(data), size |-> 4 + Len(data), data |-> e.data],
       coder |-> [coder EXCEPT !.sendRound = NextRound(@, data),
                               !.sendKey = e.key,
                               !.sendCount = @ + 1]]

\* insertKey: the key goes behind the command, and into the length.
InsertKey(packet, key) ==
  [packet EXCEPT !.size = @ + 4,
                 !.data = SubSeq(@, 1, 4) \o key \o SubSeq(@, 5, Len(@))]

\* Both Encrypt fail for more than a head and SOCKET_PACKET bytes. A packet has
\* four bytes before its data, the head is eight bytes.
TooLong(data) == 4 + Len(data) > 8 + SOCKET_PACKET

\* A message before it is enciphered, which NetMsg.Encrypt returns when the
\* coder's Encrypt fails. NewNetMsg gives it a length eight too long, and makes
\* none that is too long; a message that is sent back (onEcho, onHeartBeat) has
\* the check code and the length it came with.
Made(data) == [check |-> 0, size |-> 12 + Len(data), data |-> data]
SentBack(data) == [check |-> CheckCode(data), size |-> 4 + Len(data), data |-> data]
PlainPackets(data) == {SentBack(data)} \union {p \in {Made(data)} : ~TooLong(data)}

ClientEncrypt(coder, data, plain, random) ==
  IF TooLong(data) THEN [packet |-> plain, coder |-> coder]
  ELSE IF coder.sendCount > 0 THEN Encipher(coder, data)
  ELSE LET key == FirstKey(random)
           e == Encipher([coder EXCEPT !.sendKey = key, !.recvKey = key], data)
       IN  [e EXCEPT !.packet = InsertKey(@, key)]

\* The server's Encrypt also fails without a key.
InTheClear(coder, data) == TooLong(data) \/ coder.sendKey = NoKey

ServerEncrypt(coder, data, plain) ==
  IF InTheClear(coder, data) THEN [packet |-> plain, coder |-> coder]
  ELSE Encipher(coder, data)

\* What both Decrypt do with a packet without key. A wrong check code leaves
\* the coder with its round advanced.
Decipher(coder, packet) ==
  LET d == DecryptBuffer(packet.data, coder.recvKey)
      plain == MapRecv(d.data, coder.recvRound)
      mapped == [coder EXCEPT !.recvRound = NextRound(@, d.data)]
  IN  IF (packet.check + SumBytes(plain)) % 256 = 0
      THEN [ok |-> TRUE, data |-> plain,
            coder |-> [mapped EXCEPT !.recvKey = d.key, !.recvCount = @ + 1]]
      ELSE [ok |-> FALSE, data |-> <<>>, coder |-> mapped]

Refused(coder) == [ok |-> FALSE, data |-> <<>>, coder |-> coder]

WellSized(packet) == packet.size = 4 + Len(packet.data) /\ packet.size >= 8

ClientDecrypt(coder, packet) ==
  IF coder.sendCount > 0 /\ WellSized(packet) THEN Decipher(coder, packet) ELSE Refused(coder)

TakeOneKey(coder, key) == [coder EXCEPT !.recvKey = key]  \* mutant
TakeKey(coder, key) == [coder EXCEPT !.recvKey = key, !.sendKey = key]

\* extractKey takes the key out of the first packet; both directions use it.
ServerDecrypt(coder, packet) ==
  IF ~WellSized(packet) THEN Refused(coder)
  ELSE IF coder.recvCount > 0 THEN Decipher(coder, packet)
  ELSE IF packet.size < 12 THEN Refused(coder)
  ELSE LET key == SubSeq(packet.data, 5, 8)
           rest == SubSeq(packet.data, 1, 4) \o SubSeq(packet.data, 9, Len(packet.data))
       IN  Decipher(TakeKey(coder, key), [packet EXCEPT !.size = @ - 4, !.data = rest])
=============================================================================
