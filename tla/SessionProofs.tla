--------------------------- MODULE SessionProofs ---------------------------
(***************************************************************************)
(* Proofs about Coder and Session, for any messages of bytes with their    *)
(* four bytes of command, any limit on what is enciphered, any 16-bit      *)
(* random numbers and any bounds.                                          *)
(*                                                                         *)
(* What one coder does the other undoes: the byte maps by MapsAssumption,  *)
(* the exclusive or by its bits (ByteXor), the chain of keys by Induction  *)
(* over the blocks of a packet (DecryptUndoes); DecipherSealed puts these  *)
(* together. A lane is what a coder keeps of one direction, its round and  *)
(* its key. The packets under way are a chain of lanes (Carries) from the  *)
(* lane of the receiver to that of the sender; this is the invariant of a  *)
(* sound connection. SeedGap is why no key becomes null.                   *)
(***************************************************************************)
EXTENDS Session, SequenceTheorems, WellFoundedInduction, TLAPS

-----------------------------------------------------------------------------
(* Recursive functions.                                                    *)

\* Every set of numbers has a least one.
LEMMA LeastElement ==
  ASSUME NEW T \in SUBSET Nat, T # {}
  PROVE  \E x \in T : \A y \in T : x <= y
<1> DEFINE R == OpToRel(<, Nat)
<1>1. IsWellFoundedOn(R, Nat)
  BY NatLessThanWellFounded
<1>2. \E x \in T : \A y \in T : <<y, x>> \notin R
  <2> HIDE DEF R
  <2> QED BY <1>1, WFMin
<1>3. \A x, y \in Nat : <<y, x>> \notin R => x <= y
  BY DEF OpToRel
<1> QED BY <1>2, <1>3

\* Induction with a set for the predicate, since a predicate cannot be handed
\* to a lemma here.
LEMMA Induction ==
  ASSUME NEW S, 0 \in S, \A n \in Nat : n \in S => n + 1 \in S
  PROVE  Nat \subseteq S
<1> SUFFICES ASSUME Nat \ S # {} PROVE FALSE
  OBVIOUS
<1>1. PICK x \in Nat \ S : \A y \in Nat \ S : x <= y
  BY LeastElement
<1>2. x # 0 /\ x - 1 \in Nat
  OBVIOUS
<1>3. x - 1 \notin S
  BY <1>2
<1> QED BY <1>1, <1>2, <1>3

\* f takes the values v0, step[1][v0], step[2][step[1][v0]] and so on.
IsStepOn(V, v0, n, step) == n \in Nat /\ v0 \in V /\ step \in [1..n -> [V -> V]]

Iterates(f, V, v0, n, step) ==
  /\ f \in [0..n -> V]
  /\ f[0] = v0
  /\ \A i \in 1..n : f[i] = step[i][f[i - 1]]

\* A function defined by primitive recursion up to n exists. The library has
\* this with an operator for the step, here the step is a function.
LEMMA PrimitiveRecursion ==
  ASSUME NEW V, NEW v0, NEW n, NEW step, IsStepOn(V, v0, n, step)
  PROVE  \E f : Iterates(f, V, v0, n, step)
<1> USE DEF IsStepOn
<1> DEFINE S == {k \in Nat : k <= n => \E f : Iterates(f, V, v0, k, step)}
<1>1. 0 \in S
  <2>1. Iterates([j \in 0..0 |-> v0], V, v0, 0, step)
    BY DEF Iterates
  <2> QED BY <2>1
<1>2. ASSUME NEW k \in Nat, k \in S PROVE k + 1 \in S
  <2> SUFFICES ASSUME k + 1 <= n PROVE \E f : Iterates(f, V, v0, k + 1, step)
    OBVIOUS
  <2>1. PICK f : Iterates(f, V, v0, k, step)
    BY <1>2
  <2> DEFINE g == [j \in 0..k + 1 |-> IF j = k + 1 THEN step[k + 1][f[k]] ELSE f[j]]
  <2>2. g \in [0..k + 1 -> V]
    BY <2>1, k + 1 \in 1..n DEF Iterates
  <2>3. Iterates(g, V, v0, k + 1, step)
    BY <2>1, <2>2 DEF Iterates
  <2> QED BY <2>3
<1>3. n \in S
  <2> HIDE DEF S
  <2> QED BY <1>1, <1>2, Induction
<1> QED BY <1>3

-----------------------------------------------------------------------------
(* Bytes.                                                                  *)

LEMMA Bits ==
  ASSUME NEW a \in 0..15
  PROVE  /\ Bit(a, 1) \in 0..1 /\ Bit(a, 2) \in 0..1 /\ Bit(a, 4) \in 0..1 /\ Bit(a, 8) \in 0..1
         /\ a = Bit(a, 1) + 2 * Bit(a, 2) + 4 * Bit(a, 4) + 8 * Bit(a, 8)
BY DEF Bit

LEMMA OfBits ==
  ASSUME NEW w \in 0..1, NEW x \in 0..1, NEW y \in 0..1, NEW z \in 0..1,
         NEW a, a = w + 2 * x + 4 * y + 8 * z
  PROVE  a \in 0..15 /\ Bit(a, 1) = w /\ Bit(a, 2) = x /\ Bit(a, 4) = y /\ Bit(a, 8) = z
BY DEF Bit

LEMMA NibbleXor ==
  ASSUME NEW a \in 0..15, NEW b \in 0..15
  PROVE  /\ XorNibble[a][b] \in 0..15
         /\ XorNibble[XorNibble[a][b]][b] = a
         /\ XorNibble[0][b] = b
<1> DEFINE X(x, y) == (x + y) % 2
<1>1. \A x, y \in 0..1 : X(x, y) \in 0..1 /\ X(X(x, y), y) = x /\ X(0, y) = y
  OBVIOUS
<1> HIDE DEF X
<1>2. \A c \in 0..15 : XorNibble[c][b] = X(Bit(c, 1), Bit(b, 1)) + 2 * X(Bit(c, 2), Bit(b, 2))
                                         + 4 * X(Bit(c, 4), Bit(b, 4)) + 8 * X(Bit(c, 8), Bit(b, 8))
  BY <1>1, Bits DEF XorNibble, XorBit, X
<1> DEFINE c == XorNibble[a][b]
<1>3. /\ c \in 0..15 /\ Bit(c, 1) = X(Bit(a, 1), Bit(b, 1)) /\ Bit(c, 2) = X(Bit(a, 2), Bit(b, 2))
      /\ Bit(c, 4) = X(Bit(a, 4), Bit(b, 4)) /\ Bit(c, 8) = X(Bit(a, 8), Bit(b, 8))
  BY <1>1, <1>2, Bits, OfBits
<1>4. XorNibble[c][b] = a
  <2> HIDE DEF c
  <2> QED BY <1>1, <1>2, <1>3, Bits
<1>5. Bit(0, 1) = 0 /\ Bit(0, 2) = 0 /\ Bit(0, 4) = 0 /\ Bit(0, 8) = 0
  BY DEF Bit
<1>6. XorNibble[0][b] = b
  BY <1>1, <1>2, <1>5, Bits
<1> QED BY <1>3, <1>4, <1>6

LEMMA ByteXor ==
  ASSUME NEW a \in Byte, NEW b \in Byte
  PROVE  XorByte(a, b) \in Byte /\ XorByte(XorByte(a, b), b) = a /\ XorByte(0, b) = b
<1>1. \A n \in Byte : n \div 16 \in 0..15 /\ n % 16 \in 0..15 /\ n = 16 * (n \div 16) + (n % 16)
  BY DEF Byte
<1>2. \A h, l \in 0..15 : 16 * h + l \in Byte /\ (16 * h + l) \div 16 = h /\ (16 * h + l) % 16 = l
  BY DEF Byte
<1> DEFINE h == XorNibble[a \div 16][b \div 16]
           l == XorNibble[a % 16][b % 16]
<1>3. /\ h \in 0..15 /\ XorNibble[h][b \div 16] = a \div 16 /\ XorNibble[0][b \div 16] = b \div 16
      /\ l \in 0..15 /\ XorNibble[l][b % 16] = a % 16 /\ XorNibble[0][b % 16] = b % 16
  <2>1. \A p, q \in 0..15 : /\ XorNibble[p][q] \in 0..15
                            /\ XorNibble[XorNibble[p][q]][q] = p /\ XorNibble[0][q] = q
    BY NibbleXor, Zenon
  <2>2. a \div 16 \in 0..15 /\ b \div 16 \in 0..15 /\ a % 16 \in 0..15 /\ b % 16 \in 0..15
    BY <1>1, Zenon
  <2> QED BY <2>1, <2>2, Zenon
<1>4. XorByte(a, b) = 16 * h + l
  BY DEF XorByte
<1> HIDE DEF h, l
<1>5. XorByte(16 * h + l, b) = 16 * XorNibble[h][b \div 16] + XorNibble[l][b % 16]
  BY <1>2, <1>3 DEF XorByte
<1>6. 0 \div 16 = 0 /\ 0 % 16 = 0
  OBVIOUS
<1>7. XorByte(0, b) = 16 * XorNibble[0][b \div 16] + XorNibble[0][b % 16]
  BY <1>6 DEF XorByte
<1> QED BY <1>1, <1>2, <1>3, <1>4, <1>5, <1>7

-----------------------------------------------------------------------------
(* Seeds.                                                                  *)

LEMMA Div256 ==
  ASSUME NEW n \in Nat
  PROVE  n \div 256 \in Nat /\ n % 256 \in 0..255 /\ n = 256 * (n \div 256) + (n % 256)
OBVIOUS

LEMMA Div65536 ==
  ASSUME NEW n \in Nat
  PROVE  n \div 65536 \in Nat /\ n % 65536 \in Word /\ n = 65536 * (n \div 65536) + (n % 65536)
<1>1. n \div 65536 \in Nat
  OBVIOUS
<1>2. n % 65536 \in Word
  BY DEF Word
<1>3. n = 65536 * (n \div 65536) + (n % 65536)
  OBVIOUS
<1> QED BY <1>1, <1>2, <1>3

\* The divisions of SeedRandMap: s is 256 * h + l, x and y are quotients.
SeedParts(s, h, l, x, y) ==
  /\ h \in 0..255 /\ l \in 0..255 /\ x \in Nat /\ y \in Nat
  /\ s = 256 * h + l
  /\ 256 * x <= l * 44495 + 42733 /\ l * 44495 + 42733 < 256 * x + 256
  /\ 256 * y <= h * 44495 + x /\ h * 44495 + x < 256 * y + 256
  /\ SeedRandMap(s) = (3 * s + 38 + y) % 65536

LEMMA SeedEquation ==
  ASSUME NEW s \in Word
  PROVE  \E h, l, x, y : SeedParts(s, h, l, x, y)
<1>1. s \in Nat /\ s <= 65535
  BY DEF Word
<1>2. PICK h \in Nat : h = s \div 256
  BY <1>1, Div256
<1>3. PICK l \in 0..255 : l = s % 256
  BY <1>1, Div256
<1>4. s = 256 * h + l /\ h \in 0..255
  BY <1>1, <1>2, <1>3, Div256
<1>5. PICK a \in Nat : a = l * 44495 + 42733
  OBVIOUS
<1>6. PICK x \in Nat : x = a \div 256
  BY Div256
<1>7. 256 * x <= a /\ a < 256 * x + 256
  BY <1>6, Div256
<1>8. PICK b \in Nat : b = h * 44495 + x
  BY <1>4
<1>9. PICK y \in Nat : y = b \div 256
  BY Div256
<1>10. 256 * y <= b /\ b < 256 * y + 256
  BY <1>9, Div256
<1>11. SeedRandMap(s) = (3 * s + 38 + y) % 65536
  BY <1>2, <1>3, <1>5, <1>6, <1>8, <1>9 DEF SeedRandMap
<1>12. SeedParts(s, h, l, x, y)
  BY <1>4, <1>5, <1>7, <1>8, <1>10, <1>11 DEF SeedParts
<1> QED BY <1>12

LEMMA SeedType ==
  ASSUME NEW s \in Word
  PROVE  SeedRandMap(s) \in Word
<1>1. PICK h, l, x, y : SeedParts(s, h, l, x, y)
  BY SeedEquation
<1>2. y \in Nat /\ SeedRandMap(s) = (3 * s + 38 + y) % 65536
  BY <1>1 DEF SeedParts
<1>3. s \in Nat
  BY DEF Word
<1>4. 3 * s + 38 + y \in Nat
  BY <1>2, <1>3
<1> QED BY <1>2, <1>4, Div65536

\* No seed lies between the lines that 16#1FBF needs, whatever is cut off above.
LEMMA SeedLines ==
  ASSUME NEW s \in Nat, NEW h, NEW l, NEW x, NEW y, SeedParts(s, h, l, x, y),
         NEW q \in Nat, 3 * s + 38 + y = 65536 * q + 8127
  PROVE  FALSE
<1> USE DEF SeedParts
<1>1. 65536 * y <= 44495 * s + 42733 /\ 44495 * s + 42733 < 65536 * y + 65536
  OBVIOUS
<1>2. y = 65536 * q + 8089 - 3 * s
  OBVIOUS
<1>3. s <= 65535
  OBVIOUS
<1>7. q = 0 \/ q = 1 \/ q = 2 \/ q = 3 \/ q > 3
  OBVIOUS
<1>8. CASE q = 0
  BY <1>1, <1>2, <1>3, <1>8
<1>9. CASE q = 1
  BY <1>1, <1>2, <1>3, <1>9
<1>10. CASE q = 2
  BY <1>1, <1>2, <1>3, <1>10
<1>11. CASE q = 3
  BY <1>1, <1>2, <1>3, <1>11
<1>12. CASE q > 3
  BY <1>1, <1>2, <1>3, <1>12
<1> QED BY <1>7, <1>8, <1>9, <1>10, <1>11, <1>12

\* 16#1FBF, the upper half of g_dwPacketKey, is no value of the map.
LEMMA SeedGap ==
  ASSUME NEW s \in Word
  PROVE  SeedRandMap(s) # 8127
<1>1. PICK h, l, x, y : SeedParts(s, h, l, x, y)
  BY SeedEquation
<1>2. s \in Nat /\ y \in Nat
  <2>1. s \in Nat
    BY DEF Word
  <2>2. y \in Nat
    BY <1>1, SMTT(30) DEF SeedParts
  <2> QED BY <2>1, <2>2
<1>3. PICK n \in Nat : n = 3 * s + 38 + y
  BY <1>2
<1>4. n \div 65536 \in Nat /\ n = 65536 * (n \div 65536) + (n % 65536)
  BY Div65536
<1>5. PICK q \in Nat : q = n \div 65536
  BY <1>4
<1>6. ASSUME n = 65536 * q + 8127 PROVE FALSE
  <2>1. 3 * s + 38 + y = 65536 * q + 8127
    BY <1>3, <1>6
  <2> QED BY <1>1, <1>2, <2>1, SeedLines
<1>7. SeedRandMap(s) = n % 65536
  BY <1>1, <1>3 DEF SeedParts
<1> QED BY <1>4, <1>5, <1>6, <1>7

-----------------------------------------------------------------------------
(* Keys and blocks.                                                        *)

LEMMA WordOfBytes ==
  ASSUME NEW a \in Byte, NEW b \in Byte
  PROVE  Half(a, b) \in Word
<1>1. a \in Nat /\ b \in Nat /\ a <= 255 /\ b <= 255
  BY DEF Byte
<1>2. a + 256 * b \in Word
  BY <1>1 DEF Word
<1> QED BY <1>2, Zenon DEF Half

LEMMA BytesOfWord ==
  ASSUME NEW n \in Word
  PROVE  LowByte(n) \in Byte /\ HighByte(n) \in Byte /\ n = LowByte(n) + 256 * HighByte(n)
<1>1. n \in Nat /\ n <= 65535
  BY DEF Word
<1>2. n \div 256 \in Nat /\ n % 256 \in 0..255 /\ n = 256 * (n \div 256) + (n % 256)
  BY <1>1, Div256
<1>3. PICK h, l \in Nat : h = n \div 256 /\ l = n % 256
  BY <1>2
<1>4. h \in 0..255 /\ l \in 0..255 /\ n = l + 256 * h
  BY <1>1, <1>2, <1>3
<1> QED BY <1>3, <1>4 DEF LowByte, HighByte, Byte

LEMMA XorType ==
  ASSUME NEW x \in DWord, NEW y \in DWord
  PROVE  Xor(x, y) \in DWord
BY ByteXor DEF Xor, DWord

LEMMA PacketKeyType == PacketKey \in DWord /\ NoKey \in DWord
BY DEF PacketKey, NoKey, DWord, Byte

\* A word with byte b is not null if the null word has another there.
LEMMA XorNull ==
  ASSUME NEW x \in DWord, NEW i \in 1..4, Xor(x, PacketKey) = NoKey
  PROVE  x[i] = PacketKey[i]
<1>1. x[i] \in Byte /\ PacketKey[i] \in Byte
  BY PacketKeyType DEF DWord
<1>2. XorByte(x[i], PacketKey[i]) = 0
  BY DEF Xor, NoKey
<1>3. XorByte(XorByte(x[i], PacketKey[i]), PacketKey[i]) = x[i] /\ XorByte(0, PacketKey[i]) = PacketKey[i]
  BY <1>1, ByteXor
<1> QED BY <1>2, <1>3

\* No block makes the key null.
LEMMA NextKeyType ==
  ASSUME NEW c \in DWord
  PROVE  NextKey(c) \in DWord /\ NextKey(c) # NoKey
<1> DEFINE a == SeedRandMap(Half(c[1], c[2]))
           b == SeedRandMap(Half(c[3], c[4]))
           x == << LowByte(a), HighByte(a), LowByte(b), HighByte(b) >>
<1>1. c[1] \in Byte /\ c[2] \in Byte /\ c[3] \in Byte /\ c[4] \in Byte
  BY DEF DWord
<1>2. Half(c[1], c[2]) \in Word /\ Half(c[3], c[4]) \in Word
  BY <1>1, WordOfBytes
<1>3. a \in Word /\ b \in Word /\ b # 8127
  BY <1>2, SeedType, SeedGap
<1>4. NextKey(c) = Xor(x, PacketKey)
  BY DEF NextKey
<1> HIDE DEF a, b
<1>5. x \in DWord
  BY <1>3, BytesOfWord DEF DWord
<1>6. ASSUME Xor(x, PacketKey) = NoKey PROVE FALSE
  <2>1. x[3] = PacketKey[3] /\ x[4] = PacketKey[4]
    BY <1>5, <1>6, XorNull
  <2>2. LowByte(b) = 191 /\ HighByte(b) = 31
    BY <2>1 DEF PacketKey
  <2> QED BY <1>3, <2>2, BytesOfWord
<1> QED BY <1>4, <1>5, <1>6, XorType, PacketKeyType

LEMMA FirstKeyType ==
  ASSUME NEW r \in Randoms
  PROVE  FirstKey(r) \in DWord /\ FirstKey(r) # NoKey
<1> DEFINE a == SeedRandMap(r)
           x == << LowByte(a), HighByte(a), 0, 0 >>
<1>1. a \in Word
  <2>1. r \in Word
    BY RandomsAssumption
  <2> QED BY <2>1, SeedType
<1>2. FirstKey(r) = Xor(x, PacketKey)
  BY DEF FirstKey
<1> HIDE DEF a
<1>3. x \in DWord
  BY <1>1, BytesOfWord DEF DWord, Byte
<1>4. ASSUME Xor(x, PacketKey) = NoKey PROVE FALSE
  BY <1>3, <1>4, XorNull DEF PacketKey
<1> QED BY <1>2, <1>3, <1>4, XorType, PacketKeyType

-----------------------------------------------------------------------------
(* The keys of a buffer.                                                   *)

\* A function on 1..n is a sequence of length n.
LEMMA FunctionIsSeq ==
  ASSUME NEW S, NEW n \in Nat, NEW b \in [1..n -> S]
  PROVE  b \in Seq(S) /\ Len(b) = n
<1>1. b \in Seq(S)
  BY SeqDef
<1>2. DOMAIN b = 1..n /\ DOMAIN b = 1..Len(b) /\ Len(b) \in Nat
  BY <1>1
<1> QED BY <1>1, <1>2

LEMMA AppendKey ==
  ASSUME NEW i \in Nat \ {0}, NEW s \in [1..i -> DWord], NEW k \in DWord
  PROVE  /\ Append(s, k) \in [1..i + 1 -> DWord]
         /\ Append(s, k)[i + 1] = k
         /\ \A j \in 1..i : Append(s, k)[j] = s[j]
<1>1. s \in Seq(DWord) /\ Len(s) = i
  BY FunctionIsSeq
<1> DEFINE a == Append(s, k)
<1>2. /\ a \in Seq(DWord) /\ Len(a) = i + 1
      /\ a[i + 1] = k /\ \A j \in 1..i : a[j] = s[j]
  BY <1>1
<1> HIDE DEF a
<1>3. a \in [1..i + 1 -> DWord]
  BY <1>2
<1> QED BY <1>2, <1>3 DEF a

\* c lists the keys key, step[1][key], step[2][step[1][key]] and so on: c[i] the
\* first i + 1 of them.
KeyStep(c, i, step) ==
  c[i - 1] \in [1..i -> DWord] => c[i] = Append(c[i - 1], step[i][c[i - 1][i]])

IsChain(c, key, n, step) == c[0] = << key >> /\ \A i \in 1..n : KeyStep(c, i, step)

LEMMA ChainExists ==
  ASSUME NEW key, NEW n, NEW step, IsStepOn(DWord, key, n, step)
  PROVE  \E c : /\ c = [i \in 0..n |-> c[i]]
                /\ c[0] = << key >>
                /\ \A i \in 1..n : c[i - 1] \in [1..i -> DWord] /\ KeyStep(c, i, step)
<1>1. PICK g : Iterates(g, DWord, key, n, step)
  BY PrimitiveRecursion, Zenon
<1>2. n \in Nat /\ step \in [1..n -> [DWord -> DWord]] /\ g \in [0..n -> DWord] /\ g[0] = key
      /\ \A i \in 1..n : g[i] = step[i][g[i - 1]]
  BY <1>1 DEF IsStepOn, Iterates
<1> DEFINE c == [i \in 0..n |-> [k \in 1..i + 1 |-> g[k - 1]]]
<1>3. \A i \in 0..n : c[i] = [k \in 1..i + 1 |-> g[k - 1]] /\ c[i] \in [1..i + 1 -> DWord]
  BY <1>2
<1>4. c = [i \in 0..n |-> c[i]]
  OBVIOUS
<1>5. c[0] = << key >>
  BY <1>2
<1> HIDE DEF c
<1>6. ASSUME NEW i \in 1..n PROVE c[i - 1] \in [1..i -> DWord] /\ KeyStep(c, i, step)
  <2>1. c[i - 1] \in [1..i -> DWord] /\ c[i - 1][i] = g[i - 1] /\ \A k \in 1..i : c[i - 1][k] = g[k - 1]
    <3>1. i - 1 \in 0..n /\ (i - 1) + 1 = i /\ i \in 1..i
      BY <1>2
    <3> QED BY <3>1, <1>3
  <2>2. g[i] = step[i][c[i - 1][i]] /\ g[i] \in DWord
    BY <1>2, <2>1
  <2> DEFINE a == Append(c[i - 1], g[i])
  <2>3. a \in [1..i + 1 -> DWord] /\ a[i + 1] = g[i] /\ \A j \in 1..i : a[j] = g[j - 1]
    <3>1. i \in Nat \ {0}
      BY <1>2
    <3>2. /\ a \in [1..i + 1 -> DWord] /\ a[i + 1] = g[i]
          /\ \A j \in 1..i : a[j] = c[i - 1][j]
      BY <2>1, <2>2, <3>1, AppendKey
    <3> HIDE DEF a
    <3> QED BY <2>1, <3>2
  <2> HIDE DEF a
  <2>4. c[i] = a
    <3>1. c[i] \in [1..i + 1 -> DWord] /\ \A k \in 1..i + 1 : c[i][k] = g[k - 1]
      <4>1. i \in 0..n
        BY <1>2
      <4> QED BY <4>1, <1>3
    <3>2. \A k \in 1..i + 1 : a[k] = g[k - 1]
      BY <2>3
    <3>3. \A k \in 1..i + 1 : c[i][k] = a[k]
      BY <3>1, <3>2
    <3>4. c[i] = [k \in 1..i + 1 |-> c[i][k]] /\ a = [k \in 1..i + 1 |-> a[k]]
      BY <2>3, <3>1
    <3> QED BY <3>3, <3>4
  <2> QED BY <2>1, <2>2, <2>4 DEF KeyStep, a
<1> QED BY <1>4, <1>5, <1>6

ChainHas(keys, key, n, step) ==
  /\ keys \in [1..n + 1 -> DWord]
  /\ keys[1] = key
  /\ \A i \in 1..n : keys[i + 1] = step[i][keys[i]]

LEMMA ChainKeys ==
  ASSUME NEW key, NEW n, NEW step, IsStepOn(DWord, key, n, step),
         NEW c, IsChain(c, key, n, step)
  PROVE  ChainHas(c[n], key, n, step)
<1>1. n \in Nat /\ key \in DWord /\ step \in [1..n -> [DWord -> DWord]]
  BY DEF IsStepOn
<1> USE DEF IsChain
<1> USE DEF ChainHas
<1> DEFINE Right(m) == ChainHas(c[m], key, m, step)
           S == {m \in Nat : m <= n => Right(m)}
<1>2. 0 \in S
  <2>1. << key >> \in [1..0 + 1 -> DWord] /\ << key >>[1] = key
    BY <1>1
  <2>2. Right(0)
    BY <2>1
  <2> QED BY <2>2
<1>3. ASSUME NEW m \in Nat, m \in S PROVE m + 1 \in S
  <2> SUFFICES ASSUME m + 1 <= n PROVE Right(m + 1)
    <3> HIDE DEF Right
    <3> QED OBVIOUS
  <2>1. Right(m) /\ m + 1 \in 1..n
    <3> HIDE DEF Right
    <3> QED BY <1>1, <1>3
  <2> DEFINE k == step[m + 1][c[m][m + 1]]
  <2>2. k \in DWord
    BY <1>1, <2>1
  <2>3. c[m + 1] = Append(c[m], k)
    <3>1. KeyStep(c, m + 1, step) /\ (m + 1) - 1 = m
      BY <2>1
    <3> QED BY <2>1, <3>1 DEF KeyStep
  <2> HIDE DEF k
  <2> DEFINE a == Append(c[m], k)
  <2>4. /\ a \in [1..(m + 1) + 1 -> DWord] /\ a[(m + 1) + 1] = k
        /\ \A j \in 1..m + 1 : a[j] = c[m][j]
    <3>1. m + 1 \in Nat \ {0} /\ c[m] \in [1..m + 1 -> DWord]
      BY <2>1
    <3> HIDE DEF Right
    <3> QED BY <2>2, <3>1, AppendKey
  <2> HIDE DEF a
  <2>5. c[m + 1] = a
    BY <2>3 DEF a
  <2>6. \A i \in 1..m + 1 : a[i + 1] = step[i][a[i]]
    <3> TAKE i \in 1..m + 1
    <3>1. CASE i = m + 1
      BY <2>4, <3>1 DEF k
    <3>2. CASE i \in 1..m
      BY <2>1, <2>4, <3>2
    <3> QED BY <3>1, <3>2
  <2>7. a[1] = key
    BY <2>1, <2>4
  <2> QED BY <2>4, <2>5, <2>6, <2>7
<1>4. n \in S
  <2> HIDE DEF S
  <2> QED BY <1>1, <1>2, <1>3, Induction
<1> QED BY <1>4

LEMMA Part ==
  ASSUME NEW S, NEW s \in Seq(S), NEW m \in 1..Len(s) + 1, NEW n \in m - 1..Len(s)
  PROVE  /\ SubSeq(s, m, n) \in Seq(S)
         /\ Len(SubSeq(s, m, n)) = n - m + 1
         /\ \A k \in 1..n - m + 1 : SubSeq(s, m, n)[k] = s[m + k - 1]
<1>1. m \in Int /\ n \in Int /\ (m <= n \/ n - m + 1 = 0)
  OBVIOUS
<1>2. \A i \in m..n : s[i] \in S
  OBVIOUS
<1> QED BY <1>1, <1>2, SubSeqProperties

\* A buffer, filled up to whole blocks, and the places of its bytes.
LEMMA BlockSizes ==
  ASSUME NEW data \in Seq(Byte)
  PROVE  /\ Snap(data) \in 0..3 /\ Blocks(data) \in Nat
         /\ Len(data) + Snap(data) = 4 * Blocks(data)
<1>1. PICK n \in Nat : n = Len(data)
  OBVIOUS
<1>2. n % 4 \in 0..3 /\ n \div 4 \in Nat /\ n = 4 * (n \div 4) + (n % 4)
  OBVIOUS
<1>3. PICK q \in Nat, r \in 0..3 : q = n \div 4 /\ r = n % 4
  BY <1>2
<1>4. n = 4 * q + r
  BY <1>2, <1>3
<1>5. Snap(data) = (4 - r) % 4
  BY <1>1, <1>3 DEF Snap
<1>6. CASE r = 0
  <2>1. Snap(data) = 0
    BY <1>5, <1>6
  <2>2. Blocks(data) = n \div 4
    BY <1>1, <2>1 DEF Blocks
  <2> QED BY <1>1, <1>3, <1>4, <1>6, <2>1, <2>2
<1>7. CASE r # 0
  <2>1. Snap(data) = 4 - r
    BY <1>5, <1>7
  <2>2. Blocks(data) = (n + (4 - r)) \div 4
    BY <1>1, <2>1 DEF Blocks
  <2>3. n + (4 - r) = 4 * (q + 1)
    BY <1>4
  <2>4. (4 * (q + 1)) \div 4 = q + 1
    OBVIOUS
  <2> QED BY <1>1, <1>7, <2>1, <2>2, <2>3, <2>4
<1> QED BY <1>6, <1>7

LEMMA PaddedIs ==
  ASSUME NEW data \in Seq(Byte)
  PROVE  LET padded == data \o Zeros(Snap(data))
         IN  /\ padded \in Seq(Byte)
             /\ Len(padded) = 4 * Blocks(data)
             /\ \A j \in 1..Len(padded) : padded[j] = IF j <= Len(data) THEN data[j] ELSE 0
<1> DEFINE z == Zeros(Snap(data))
           padded == data \o z
<1>1. Snap(data) \in Nat /\ Len(data) + Snap(data) = 4 * Blocks(data)
  BY BlockSizes
<1>2. z \in [1..Snap(data) -> Byte] /\ \A k \in 1..Snap(data) : z[k] = 0
  BY DEF Zeros, Byte
<1> HIDE DEF z
<1>3. z \in Seq(Byte) /\ Len(z) = Snap(data)
  BY <1>1, <1>2, FunctionIsSeq
<1>4. /\ padded \in Seq(Byte) /\ Len(padded) = Len(data) + Len(z)
      /\ \A j \in 1..Len(data) + Len(z) :
           padded[j] = IF j <= Len(data) THEN data[j] ELSE z[j - Len(data)]
  BY <1>3
<1>5. \A j \in 1..Len(data) + Len(z) : j <= Len(data) \/ z[j - Len(data)] = 0
  BY <1>1, <1>2, <1>3
<1> HIDE DEF padded
<1>6. \A j \in 1..Len(padded) : padded[j] = IF j <= Len(data) THEN data[j] ELSE 0
  BY <1>4, <1>5
<1> QED BY <1>1, <1>3, <1>4, <1>6 DEF padded, z

\* The i-th block of a buffer that reaches that far.
LEMMA BlockIs ==
  ASSUME NEW s \in Seq(Byte), NEW i \in Nat \ {0}, 4 * i <= Len(s)
  PROVE  BlockOf(s, i) \in DWord /\ \A k \in 1..4 : BlockOf(s, i)[k] = s[4 * i - 4 + k]
<1> DEFINE b == BlockOf(s, i)
<1>1. PICK m \in 1..Len(s) : m = 4 * i - 3
  OBVIOUS
<1>2. PICK n \in m..Len(s) : n = 4 * i
  BY <1>1
<1>3. n - m + 1 = 4 /\ \A k \in 1..4 : m + k - 1 = 4 * i - 4 + k
  BY <1>1, <1>2
<1>4. m \in 1..Len(s) + 1 /\ n \in m - 1..Len(s)
  BY <1>1, <1>2
<1>5. b = SubSeq(s, m, n)
  BY <1>1, <1>2 DEF BlockOf
<1> HIDE DEF b
<1>6. b \in Seq(Byte) /\ Len(b) = 4 /\ \A k \in 1..4 : b[k] = s[4 * i - 4 + k]
  BY <1>3, <1>4, <1>5, Part
<1>7. b \in [1..4 -> Byte]
  BY <1>6
<1> QED BY <1>6, <1>7 DEF b, DWord

LEMMA FilledIs ==
  ASSUME NEW data \in Seq(Byte), NEW key \in DWord
  PROVE  /\ Filled(data, key) \in Seq(Byte)
         /\ Len(Filled(data, key)) = 4 * Blocks(data)
         /\ \A j \in 1..4 * Blocks(data) :
              Filled(data, key)[j] = IF j <= Len(data) THEN data[j]
                                     ELSE key[4 + j - 4 * Blocks(data)]
<1> DEFINE z == SubSeq(key, 5 - Snap(data), 4)
           f == data \o z
<1>1. Snap(data) \in 0..3 /\ Len(data) + Snap(data) = 4 * Blocks(data) /\ Blocks(data) \in Nat
  BY BlockSizes
<1>2. key \in Seq(Byte) /\ Len(key) = 4
  BY FunctionIsSeq DEF DWord
<1>3. /\ z \in Seq(Byte) /\ Len(z) = Snap(data)
      /\ \A k \in 1..Snap(data) : z[k] = key[(5 - Snap(data)) + k - 1]
  <2>1. PICK m \in 1..Len(key) + 1 : m = 5 - Snap(data)
    BY <1>1, <1>2
  <2>2. 4 \in m - 1..Len(key) /\ 4 - m + 1 = Snap(data)
    BY <1>1, <1>2, <2>1
  <2>3. z = SubSeq(key, m, 4)
    BY <2>1
  <2> HIDE DEF z
  <2>4. /\ z \in Seq(Byte) /\ Len(z) = 4 - m + 1
        /\ \A k \in 1..4 - m + 1 : z[k] = key[m + k - 1]
    BY <1>2, <2>1, <2>2, <2>3, Part, ZenonT(60)
  <2> QED BY <2>1, <2>2, <2>4
<1> HIDE DEF z
<1>4. /\ f \in Seq(Byte) /\ Len(f) = Len(data) + Len(z)
      /\ \A j \in 1..Len(data) + Len(z) : f[j] = IF j <= Len(data) THEN data[j] ELSE z[j - Len(data)]
  <2>1. z \in Seq(Byte)
    BY <1>3
  <2> QED BY <2>1
<1>5. Filled(data, key) = f
  BY DEF Filled, z
<1> HIDE DEF f
<1>6. Len(data) \in Nat
  OBVIOUS
<1>7. ASSUME NEW j \in 1..4 * Blocks(data), j > Len(data)
      PROVE  f[j] = key[4 + j - 4 * Blocks(data)]
  <2>1. j - Len(data) \in 1..Snap(data) /\ j \in 1..Len(data) + Len(z)
    BY <1>1, <1>3, <1>6, <1>7
  <2>2. f[j] = key[(5 - Snap(data)) + (j - Len(data)) - 1]
    BY <1>3, <1>4, <1>6, <1>7, <2>1
  <2>3. (5 - Snap(data)) + (j - Len(data)) - 1 = 4 + j - 4 * Blocks(data)
    BY <1>1, <1>6, <1>7
  <2> QED BY <2>2, <2>3
<1>8. \A j \in 1..Len(data) : f[j] = data[j]
  BY <1>3, <1>4, <1>6, <1>1
<1> QED BY <1>1, <1>3, <1>4, <1>5, <1>6, <1>7, <1>8

\* What the keys of a buffer are: the first is given, each block yields the next.
Padded(data) == data \o Zeros(Snap(data))

KeysOf(keys, key, n, block) ==
  /\ keys \in [1..n + 1 -> DWord]
  /\ keys[1] = key
  /\ \A i \in 1..n : keys[i + 1] = NextKey(block[i][keys[i]])

SendBlock(data) == [i \in 1..Blocks(data) |-> [k \in DWord |-> Xor(BlockOf(Padded(data), i), k)]]

RecvBlock(data) ==
  [i \in 1..Blocks(data) |-> [k \in DWord |->
     BlockOf(IF i = Blocks(data) THEN Filled(data, k) ELSE data, i)]]

LEMMA SendBlockType ==
  ASSUME NEW data \in Seq(Byte)
  PROVE  SendBlock(data) \in [1..Blocks(data) -> [DWord -> DWord]]
<1>1. /\ Padded(data) \in Seq(Byte) /\ Len(Padded(data)) = 4 * Blocks(data) /\ Blocks(data) \in Nat
  BY PaddedIs, BlockSizes DEF Padded
<1>2. ASSUME NEW i \in 1..Blocks(data), NEW k \in DWord
      PROVE  Xor(BlockOf(Padded(data), i), k) \in DWord
  <2>1. i \in Nat \ {0} /\ 4 * i <= Len(Padded(data))
    BY <1>1
  <2> QED BY <1>1, <2>1, BlockIs, XorType
<1> QED BY <1>2 DEF SendBlock

LEMMA RecvBlockType ==
  ASSUME NEW data \in Seq(Byte)
  PROVE  RecvBlock(data) \in [1..Blocks(data) -> [DWord -> DWord]]
<1>1. /\ Blocks(data) \in Nat /\ Snap(data) \in 0..3 /\ Len(data) + Snap(data) = 4 * Blocks(data)
  BY BlockSizes
<1>2. ASSUME NEW i \in 1..Blocks(data), NEW k \in DWord
      PROVE  BlockOf(IF i = Blocks(data) THEN Filled(data, k) ELSE data, i) \in DWord
  <2>1. i \in Nat \ {0}
    BY <1>1
  <2>2. CASE i = Blocks(data)
    BY <2>1, <2>2, FilledIs, BlockIs
  <2>3. CASE i # Blocks(data)
    <3>1. 4 * i <= Len(data)
      BY <1>1, <2>3
    <3> QED BY <2>1, <2>3, <3>1, BlockIs
  <2> QED BY <2>2, <2>3
<1> QED BY <1>2 DEF RecvBlock

\* The steps from key to key.
KeySteps(n, block) == [i \in 1..n |-> [k \in DWord |-> NextKey(block[i][k])]]

LEMMA KeyStepsType ==
  ASSUME NEW key \in DWord, NEW n \in Nat, NEW block \in [1..n -> [DWord -> DWord]]
  PROVE  IsStepOn(DWord, key, n, KeySteps(n, block))
BY NextKeyType DEF IsStepOn, KeySteps

SendBody(data, key, c) ==
  [i \in 0..Blocks(data) |->
     IF i = 0 THEN << key >>
     ELSE LET prev == c[i - 1]
          IN  Append(prev, NextKey(Xor(BlockOf(Padded(data), i), prev[i])))]

RecvBody(data, key, c) ==
  [i \in 0..Blocks(data) |->
     IF i = 0 THEN << key >>
     ELSE LET prev == c[i - 1]
              all  == IF i = Blocks(data) THEN Filled(data, prev[i]) ELSE data
          IN  Append(prev, NextKey(BlockOf(all, i)))]

LEMMA SendKeysEquation ==
  ASSUME NEW data \in Seq(Byte), NEW key \in DWord
  PROVE  sendKeys(data, key) = SendBody(data, key, sendKeys(data, key))
<1> DEFINE n == Blocks(data)
           step == KeySteps(n, SendBlock(data))
<1>1. n \in Nat /\ IsStepOn(DWord, key, n, step)
  BY BlockSizes, SendBlockType, KeyStepsType
<1>2. PICK c : /\ c = [i \in 0..n |-> c[i]]
               /\ c[0] = << key >>
               /\ \A i \in 1..n : c[i - 1] \in [1..i -> DWord] /\ KeyStep(c, i, step)
  <2> HIDE DEF n, step
  <2> QED BY <1>1, ChainExists
<1>3. ASSUME NEW i \in 1..n
      PROVE  c[i] = Append(c[i - 1], NextKey(Xor(BlockOf(Padded(data), i), c[i - 1][i])))
  <2>1. c[i - 1] \in [1..i -> DWord] /\ c[i] = Append(c[i - 1], step[i][c[i - 1][i]])
    BY <1>2 DEF KeyStep
  <2>2. c[i - 1][i] \in DWord
    BY <1>1, <2>1
  <2>3. step[i][c[i - 1][i]] = NextKey(Xor(BlockOf(Padded(data), i), c[i - 1][i]))
    BY <2>2 DEF KeySteps, SendBlock
  <2> QED BY <2>1, <2>3
<1>4. c = SendBody(data, key, c)
  <2> DEFINE d == SendBody(data, key, c)
  <2>1. d = [i \in 0..n |-> d[i]]
    BY DEF SendBody
  <2>2. d[0] = << key >>
    BY <1>1 DEF SendBody
  <2>3. ASSUME NEW i \in 1..n PROVE d[i] = c[i]
    <3>1. i \in 0..n /\ i # 0
      BY <1>1
    <3>2. d[i] = Append(c[i - 1], NextKey(Xor(BlockOf(Padded(data), i), c[i - 1][i])))
      BY <3>1 DEF SendBody
    <3> QED BY <1>3, <3>2
  <2> HIDE DEF d
  <2>4. \A i \in 0..n : d[i] = c[i]
    <3>1. \A i \in 0..n : i = 0 \/ i \in 1..n
      BY <1>1
    <3> QED BY <1>2, <2>2, <2>3, <3>1
  <2>5. d = c
    BY <1>2, <2>1, <2>4
  <2> QED BY <2>5 DEF d
<1> QED BY <1>4, Zenon DEF sendKeys, SendBody, Padded

LEMMA RecvKeysEquation ==
  ASSUME NEW data \in Seq(Byte), NEW key \in DWord
  PROVE  recvKeys(data, key) = RecvBody(data, key, recvKeys(data, key))
<1> DEFINE n == Blocks(data)
           step == KeySteps(n, RecvBlock(data))
           B(i, k) == BlockOf(IF i = n THEN Filled(data, k) ELSE data, i)
<1>1. n \in Nat /\ IsStepOn(DWord, key, n, step)
  BY BlockSizes, RecvBlockType, KeyStepsType
<1>2. PICK c : /\ c = [i \in 0..n |-> c[i]]
               /\ c[0] = << key >>
               /\ \A i \in 1..n : c[i - 1] \in [1..i -> DWord] /\ KeyStep(c, i, step)
  <2> HIDE DEF n, step
  <2> QED BY <1>1, ChainExists
<1>3. ASSUME NEW i \in 1..n
      PROVE  c[i] = Append(c[i - 1], NextKey(B(i, c[i - 1][i])))
  <2>1. c[i - 1] \in [1..i -> DWord] /\ c[i] = Append(c[i - 1], step[i][c[i - 1][i]])
    BY <1>2 DEF KeyStep
  <2>2. c[i - 1][i] \in DWord
    BY <1>1, <2>1
  <2>3. step[i][c[i - 1][i]] = NextKey(B(i, c[i - 1][i]))
    BY <2>2 DEF KeySteps, RecvBlock
  <2> QED BY <2>1, <2>3
<1>4. c = RecvBody(data, key, c)
  <2> DEFINE d == RecvBody(data, key, c)
  <2>1. d = [i \in 0..n |-> d[i]]
    BY DEF RecvBody
  <2>2. d[0] = << key >>
    BY <1>1 DEF RecvBody
  <2>3. ASSUME NEW i \in 1..n PROVE d[i] = c[i]
    <3>1. i \in 0..n /\ i # 0
      BY <1>1
    <3>2. d[i] = Append(c[i - 1], NextKey(B(i, c[i - 1][i])))
      BY <3>1 DEF RecvBody
    <3> QED BY <1>3, <3>2
  <2> HIDE DEF d
  <2>4. \A i \in 0..n : d[i] = c[i]
    <3>1. \A i \in 0..n : i = 0 \/ i \in 1..n
      BY <1>1
    <3> QED BY <1>2, <2>2, <2>3, <3>1
  <2>5. d = c
    BY <1>2, <2>1, <2>4
  <2> QED BY <2>5 DEF d
<1> QED BY <1>4, Zenon DEF recvKeys, RecvBody

LEMMA SendKeysAre ==
  ASSUME NEW data \in Seq(Byte), NEW key \in DWord
  PROVE  KeysOf(sendKeys(data, key)[Blocks(data)], key, Blocks(data), SendBlock(data))
<1> DEFINE n == Blocks(data)
           step == KeySteps(n, SendBlock(data))
           c == sendKeys(data, key)
<1>1. n \in Nat /\ IsStepOn(DWord, key, n, step) /\ SendBlock(data) \in [1..n -> [DWord -> DWord]]
  BY BlockSizes, SendBlockType, KeyStepsType
<1>2. c = SendBody(data, key, c)
  BY SendKeysEquation
<1> HIDE DEF c
<1>3. c[0] = << key >>
  BY <1>1, <1>2 DEF SendBody
<1>4. ASSUME NEW i \in 1..n PROVE KeyStep(c, i, step)
  <2> SUFFICES ASSUME c[i - 1] \in [1..i -> DWord] PROVE c[i] = Append(c[i - 1], step[i][c[i - 1][i]])
    BY DEF KeyStep
  <2>1. c[i - 1][i] \in DWord
    BY <1>1
  <2>2. step[i][c[i - 1][i]] = NextKey(Xor(BlockOf(Padded(data), i), c[i - 1][i]))
    BY <2>1 DEF KeySteps, SendBlock
  <2>3. c[i] = Append(c[i - 1], NextKey(Xor(BlockOf(Padded(data), i), c[i - 1][i])))
    BY <1>1, <1>2 DEF SendBody
  <2> QED BY <2>2, <2>3
<1>5. /\ c[n] \in [1..n + 1 -> DWord] /\ c[n][1] = key
      /\ \A i \in 1..n : c[n][i + 1] = step[i][c[n][i]]
  <2>1. IsChain(c, key, n, step)
    BY <1>3, <1>4 DEF IsChain
  <2> HIDE DEF n, step
  <2>2. ChainHas(c[n], key, n, step)
    BY <1>1, <2>1, ChainKeys
  <2> QED BY <2>2 DEF ChainHas
<1>6. \A i \in 1..n : c[n][i] \in DWord
  <2>1. \A i \in 1..n : i \in 1..n + 1
    BY <1>1
  <2> HIDE DEF n, step
  <2> QED BY <1>5, <2>1
<1>7. \A i \in 1..n : step[i][c[n][i]] = NextKey(SendBlock(data)[i][c[n][i]])
  BY <1>6 DEF KeySteps
<1> QED BY <1>5, <1>7 DEF KeysOf, c

LEMMA RecvKeysAre ==
  ASSUME NEW data \in Seq(Byte), NEW key \in DWord
  PROVE  KeysOf(recvKeys(data, key)[Blocks(data)], key, Blocks(data), RecvBlock(data))
<1> DEFINE n == Blocks(data)
           step == KeySteps(n, RecvBlock(data))
           c == recvKeys(data, key)
           B(i, k) == BlockOf(IF i = n THEN Filled(data, k) ELSE data, i)
<1>1. n \in Nat /\ IsStepOn(DWord, key, n, step) /\ RecvBlock(data) \in [1..n -> [DWord -> DWord]]
  BY BlockSizes, RecvBlockType, KeyStepsType
<1>2. c = RecvBody(data, key, c)
  BY RecvKeysEquation
<1> HIDE DEF c
<1>3. c[0] = << key >>
  BY <1>1, <1>2 DEF RecvBody
<1>4. ASSUME NEW i \in 1..n PROVE KeyStep(c, i, step)
  <2> SUFFICES ASSUME c[i - 1] \in [1..i -> DWord] PROVE c[i] = Append(c[i - 1], step[i][c[i - 1][i]])
    BY DEF KeyStep
  <2>1. c[i - 1][i] \in DWord
    BY <1>1
  <2>2. step[i][c[i - 1][i]] = NextKey(B(i, c[i - 1][i]))
    BY <2>1 DEF KeySteps, RecvBlock
  <2>3. c[i] = Append(c[i - 1], NextKey(B(i, c[i - 1][i])))
    BY <1>1, <1>2 DEF RecvBody
  <2> QED BY <2>2, <2>3
<1>5. /\ c[n] \in [1..n + 1 -> DWord] /\ c[n][1] = key
      /\ \A i \in 1..n : c[n][i + 1] = step[i][c[n][i]]
  <2>1. IsChain(c, key, n, step)
    BY <1>3, <1>4 DEF IsChain
  <2> HIDE DEF n, step
  <2>2. ChainHas(c[n], key, n, step)
    BY <1>1, <2>1, ChainKeys
  <2> QED BY <2>2 DEF ChainHas
<1>6. \A i \in 1..n : c[n][i] \in DWord
  <2>1. \A i \in 1..n : i \in 1..n + 1
    BY <1>1
  <2> HIDE DEF n, step
  <2> QED BY <1>5, <2>1
<1>7. \A i \in 1..n : step[i][c[n][i]] = NextKey(RecvBlock(data)[i][c[n][i]])
  BY <1>6 DEF KeySteps
<1> QED BY <1>5, <1>7 DEF KeysOf, c

-----------------------------------------------------------------------------
(* A buffer under its keys, and back.                                      *)

\* Where a byte of a buffer stands: its block and its place there.
LEMMA PlaceOfByte ==
  ASSUME NEW j \in Nat \ {0}
  PROVE  /\ 1 + (j - 1) \div 4 \in Nat \ {0} /\ 1 + ((j - 1) % 4) \in 1..4
         /\ j = 4 * (1 + (j - 1) \div 4) - 4 + (1 + ((j - 1) % 4))
<1>1. PICK m \in Nat : m = j - 1
  OBVIOUS
<1>2. m \div 4 \in Nat /\ m % 4 \in 0..3 /\ m = 4 * (m \div 4) + (m % 4)
  OBVIOUS
<1> QED BY <1>1, <1>2

LEMMA ByteOfPlace ==
  ASSUME NEW i \in Nat \ {0}, NEW k \in 1..4
  PROVE  1 + ((4 * i - 4 + k) - 1) \div 4 = i /\ 1 + (((4 * i - 4 + k) - 1) % 4) = k
<1>1. PICK q \in Nat, r \in 0..3 : q = i - 1 /\ r = k - 1
  OBVIOUS
<1>2. (4 * q + r) \div 4 = q /\ (4 * q + r) % 4 = r
  OBVIOUS
<1>3. (4 * i - 4 + k) - 1 = 4 * q + r
  BY <1>1
<1> QED BY <1>1, <1>2, <1>3

LEMMA BytePlaces ==
  ASSUME NEW data \in Seq(Byte), NEW j \in 1..Len(data)
  PROVE  1 + (j - 1) \div 4 \in 1..Blocks(data) /\ 1 + ((j - 1) % 4) \in 1..4
<1>1. j \in Nat \ {0} /\ j <= 4 * Blocks(data) /\ Blocks(data) \in Nat
  BY BlockSizes
<1>2. PICK i \in Nat \ {0}, k \in 1..4 : i = 1 + (j - 1) \div 4 /\ k = 1 + ((j - 1) % 4) /\ j = 4 * i - 4 + k
  BY <1>1, PlaceOfByte
<1>3. i <= Blocks(data)
  BY <1>1, <1>2
<1> QED BY <1>1, <1>2, <1>3

LEMMA UnderKeysType ==
  ASSUME NEW data \in Seq(Byte), NEW keys \in [1..Blocks(data) + 1 -> DWord]
  PROVE  /\ UnderKeys(data, keys) \in Seq(Byte)
         /\ Len(UnderKeys(data, keys)) = Len(data)
<1> DEFINE u == UnderKeys(data, keys)
<1>1. ASSUME NEW j \in 1..Len(data)
      PROVE  XorByte(data[j], keys[1 + (j - 1) \div 4][1 + ((j - 1) % 4)]) \in Byte
  <2>1. PICK i \in 1..Blocks(data), k \in 1..4 : i = 1 + (j - 1) \div 4 /\ k = 1 + ((j - 1) % 4)
    BY BytePlaces
  <2>2. Blocks(data) \in Nat
    BY BlockSizes
  <2>3. i \in 1..Blocks(data) + 1
    BY <2>1, <2>2
  <2>4. keys[i][k] \in Byte
    BY <2>3 DEF DWord
  <2>5. data[j] \in Byte
    OBVIOUS
  <2> QED BY <2>1, <2>4, <2>5, ByteXor
<1>2. u \in [1..Len(data) -> Byte]
  BY <1>1 DEF UnderKeys
<1> HIDE DEF u
<1> QED BY <1>2, FunctionIsSeq DEF u

\* Two buffers that fill up to the same blocks have the same keys.
LEMMA SameKeys ==
  ASSUME NEW n \in Nat, NEW key \in DWord, NEW x, NEW y, NEW b, NEW c,
         KeysOf(x, key, n, b), KeysOf(y, key, n, c),
         \A i \in 1..n : b[i][x[i]] = c[i][x[i]]
  PROVE  x = y
<1> USE DEF KeysOf
<1> DEFINE S == {m \in Nat : m + 1 <= n + 1 => x[m + 1] = y[m + 1]}
<1>1. 0 \in S
  OBVIOUS
<1>2. ASSUME NEW m \in Nat, m \in S PROVE m + 1 \in S
  <2> SUFFICES ASSUME (m + 1) + 1 <= n + 1 PROVE x[(m + 1) + 1] = y[(m + 1) + 1]
    OBVIOUS
  <2>1. m + 1 \in 1..n /\ x[m + 1] = y[m + 1]
    BY <1>2
  <2> QED BY <2>1
<1>3. \A m \in Nat : m \in S
  <2> HIDE DEF S
  <2> QED BY <1>1, <1>2, Induction
<1>4. \A i \in 1..n + 1 : x[i] = y[i]
  <2> TAKE i \in 1..n + 1
  <2>1. i - 1 \in Nat /\ (i - 1) + 1 = i
    OBVIOUS
  <2>2. i - 1 \in S
    BY <1>3, <2>1
  <2> QED BY <2>1, <2>2
<1> QED BY <1>4

\* What was enciphered and filled up yields the blocks that it was made of.
LEMMA BlocksAgree ==
  ASSUME NEW data \in Seq(Byte), NEW keys \in [1..Blocks(data) + 1 -> DWord],
         NEW i \in 1..Blocks(data)
  PROVE  RecvBlock(UnderKeys(data, keys))[i][keys[i]] = SendBlock(data)[i][keys[i]]
<1> DEFINE e == UnderKeys(data, keys)
           n == Blocks(data)
           all == IF i = n THEN Filled(e, keys[i]) ELSE e
<1>1. e \in Seq(Byte) /\ Len(e) = Len(data)
  BY UnderKeysType
<1>2. /\ n \in Nat /\ Snap(data) \in 0..3 /\ Len(data) + Snap(data) = 4 * n /\ Len(data) \in Nat
      /\ Blocks(e) = n
  BY <1>1, BlockSizes DEF Blocks, Snap
<1>3. i \in Nat \ {0} /\ i \in 1..n + 1 /\ keys[i] \in DWord
  BY <1>2
<1>4. ASSUME NEW k \in 1..4 PROVE 4 * i - 4 + k \in 1..4 * n /\ (4 * i - 4 + k > Len(data) => i = n)
  BY <1>2
<1>5. ASSUME NEW k \in 1..4, 4 * i - 4 + k <= Len(data)
      PROVE  e[4 * i - 4 + k] = XorByte(data[4 * i - 4 + k], keys[i][k])
  <2>1. PICK j \in 1..Len(data) : j = 4 * i - 4 + k
    BY <1>2, <1>4, <1>5
  <2>2. 1 + (j - 1) \div 4 = i /\ 1 + ((j - 1) % 4) = k
    BY <1>3, <2>1, ByteOfPlace
  <2>3. e[j] = XorByte(data[j], keys[1 + (j - 1) \div 4][1 + ((j - 1) % 4)])
    BY DEF UnderKeys
  <2> HIDE DEF e
  <2> QED BY <2>1, <2>2, <2>3
<1> HIDE DEF e
<1>6. /\ all \in Seq(Byte) /\ 4 * i <= Len(all)
      /\ \A k \in 1..4 : all[4 * i - 4 + k] =
           IF 4 * i - 4 + k <= Len(data) THEN e[4 * i - 4 + k] ELSE keys[i][k]
  <2>1. CASE i = n
    <3>1. /\ all \in Seq(Byte) /\ Len(all) = 4 * n
          /\ \A j \in 1..4 * n : all[j] = IF j <= Len(data) THEN e[j] ELSE keys[i][4 + j - 4 * n]
      <4> DEFINE f == Filled(e, keys[i])
      <4>1. /\ f \in Seq(Byte) /\ Len(f) = 4 * Blocks(e)
            /\ \A j \in 1..4 * Blocks(e) :
                 f[j] = IF j <= Len(e) THEN e[j] ELSE keys[i][4 + j - 4 * Blocks(e)]
        BY <1>1, <1>3, FilledIs
      <4>2. all = f /\ Blocks(e) = n /\ Len(e) = Len(data)
        BY <1>1, <1>2, <2>1
      <4> HIDE DEF f, n, all
      <4> QED BY <4>1, <4>2
    <3>2. \A k \in 1..4 : 4 + (4 * i - 4 + k) - 4 * n = k
      BY <1>2, <2>1
    <3>3. 4 * i <= 4 * n
      BY <2>1, <1>2
    <3> HIDE DEF n, all
    <3>4. ASSUME NEW k \in 1..4
          PROVE  all[4 * i - 4 + k] =
                   IF 4 * i - 4 + k <= Len(data) THEN e[4 * i - 4 + k] ELSE keys[i][k]
      <4>1. 4 * i - 4 + k \in 1..4 * n
        BY <1>4
      <4> QED BY <4>1, <3>1, <3>2
    <3> QED BY <3>1, <3>3, <3>4
  <2>2. CASE i # n
    <3>1. 4 * i <= Len(data)
      BY <1>2, <2>2
    <3> QED BY <1>1, <1>2, <1>4, <2>2, <3>1
  <2> QED BY <2>1, <2>2
<1>7. BlockOf(all, i) \in DWord /\ \A k \in 1..4 : BlockOf(all, i)[k] = all[4 * i - 4 + k]
  <2> HIDE DEF all, n
  <2> QED BY <1>3, <1>6, BlockIs
<1>8. /\ BlockOf(Padded(data), i) \in DWord
      /\ \A k \in 1..4 : BlockOf(Padded(data), i)[k]
                           = IF 4 * i - 4 + k <= Len(data) THEN data[4 * i - 4 + k] ELSE 0
  <2>1. /\ Padded(data) \in Seq(Byte) /\ Len(Padded(data)) = 4 * n
        /\ \A j \in 1..4 * n : Padded(data)[j] = IF j <= Len(data) THEN data[j] ELSE 0
    BY PaddedIs DEF Padded
  <2>2. 4 * i <= Len(Padded(data))
    BY <1>2, <2>1
  <2>3. /\ BlockOf(Padded(data), i) \in DWord
        /\ \A k \in 1..4 : BlockOf(Padded(data), i)[k] = Padded(data)[4 * i - 4 + k]
    BY <1>3, <2>1, <2>2, BlockIs
  <2> HIDE DEF n
  <2> QED BY <1>4, <2>1, <2>3
<1>9. \A k \in 1..4 : BlockOf(all, i)[k] = Xor(BlockOf(Padded(data), i), keys[i])[k]
  <2> TAKE k \in 1..4
  <2>1. keys[i][k] \in Byte
    BY <1>3 DEF DWord
  <2>2. Xor(BlockOf(Padded(data), i), keys[i])[k] = XorByte(BlockOf(Padded(data), i)[k], keys[i][k])
    BY DEF Xor
  <2> HIDE DEF all, n
  <2>3. CASE 4 * i - 4 + k <= Len(data)
    BY <1>5, <1>6, <1>7, <1>8, <2>2, <2>3
  <2>4. CASE ~(4 * i - 4 + k <= Len(data))
    <3>1. BlockOf(all, i)[k] = keys[i][k] /\ BlockOf(Padded(data), i)[k] = 0
      BY <1>6, <1>7, <1>8, <2>4
    <3>2. XorByte(0, keys[i][k]) = keys[i][k]
      BY <2>1, ByteXor
    <3> QED BY <2>2, <3>1, <3>2
  <2> QED BY <2>3, <2>4
<1>10. Xor(BlockOf(Padded(data), i), keys[i]) \in DWord
  BY <1>3, <1>8, XorType
<1>11. BlockOf(all, i) = Xor(BlockOf(Padded(data), i), keys[i])
  <2> HIDE DEF all
  <2> QED BY <1>7, <1>9, <1>10 DEF DWord
<1>12. RecvBlock(e)[i][keys[i]] = BlockOf(all, i)
  BY <1>2, <1>3 DEF RecvBlock
<1>13. SendBlock(data)[i][keys[i]] = Xor(BlockOf(Padded(data), i), keys[i])
  BY <1>3 DEF SendBlock
<1> QED BY <1>11, <1>12, <1>13 DEF e

LEMMA EncryptType ==
  ASSUME NEW data \in Seq(Byte), NEW key \in DWord
  PROVE  /\ EncryptBuffer(data, key).data \in Seq(Byte)
         /\ Len(EncryptBuffer(data, key).data) = Len(data)
         /\ EncryptBuffer(data, key).key \in DWord
         /\ key # NoKey => EncryptBuffer(data, key).key # NoKey
<1> DEFINE n == Blocks(data)
           keys == sendKeys(data, key)[n]
<1>1. n \in Nat /\ SendBlock(data) \in [1..n -> [DWord -> DWord]] /\ KeysOf(keys, key, n, SendBlock(data))
  BY BlockSizes, SendBlockType, SendKeysAre
<1>2. EncryptBuffer(data, key) = [data |-> UnderKeys(data, keys), key |-> keys[n + 1]]
  BY DEF EncryptBuffer
<1> HIDE DEF keys
<1>3. keys \in [1..n + 1 -> DWord]
  BY <1>1 DEF KeysOf
<1>4. UnderKeys(data, keys) \in Seq(Byte) /\ Len(UnderKeys(data, keys)) = Len(data)
  BY <1>3, UnderKeysType
<1>5. key # NoKey => keys[n + 1] # NoKey
  <2>1. CASE n = 0
    BY <1>1, <2>1 DEF KeysOf
  <2>2. CASE n # 0
    <3>1. n \in 1..n /\ n \in 1..n + 1
      BY <1>1, <2>2
    <3>2. SendBlock(data)[n][keys[n]] \in DWord
      BY <1>1, <1>3, <3>1
    <3>3. keys[n + 1] = NextKey(SendBlock(data)[n][keys[n]])
      BY <1>1, <3>1 DEF KeysOf
    <3> QED BY <3>2, <3>3, NextKeyType
  <2> QED BY <2>1, <2>2
<1>6. keys[n + 1] \in DWord
  BY <1>1, <1>3
<1> QED BY <1>2, <1>4, <1>5, <1>6

LEMMA DecryptType ==
  ASSUME NEW data \in Seq(Byte), NEW key \in DWord
  PROVE  /\ DecryptBuffer(data, key).data \in Seq(Byte)
         /\ Len(DecryptBuffer(data, key).data) = Len(data)
         /\ DecryptBuffer(data, key).key \in DWord
<1> DEFINE n == Blocks(data)
           keys == recvKeys(data, key)[n]
<1>1. n \in Nat /\ KeysOf(keys, key, n, RecvBlock(data))
  BY BlockSizes, RecvKeysAre
<1>2. DecryptBuffer(data, key) = [data |-> UnderKeys(data, keys), key |-> keys[n + 1]]
  BY DEF DecryptBuffer
<1> HIDE DEF keys
<1>3. keys \in [1..n + 1 -> DWord]
  BY <1>1 DEF KeysOf
<1>4. UnderKeys(data, keys) \in Seq(Byte) /\ Len(UnderKeys(data, keys)) = Len(data)
  BY <1>3, UnderKeysType
<1>6. keys[n + 1] \in DWord
  BY <1>1, <1>3
<1> QED BY <1>2, <1>4, <1>6

\* The same keys once more give the buffer back.
LEMMA UnderKeysTwice ==
  ASSUME NEW data \in Seq(Byte), NEW keys \in [1..Blocks(data) + 1 -> DWord]
  PROVE  UnderKeys(UnderKeys(data, keys), keys) = data
<1> DEFINE e == UnderKeys(data, keys)
           u == UnderKeys(e, keys)
<1>1. e \in Seq(Byte) /\ Len(e) = Len(data) /\ Len(data) \in Nat
  BY UnderKeysType
<1>2. ASSUME NEW j \in 1..Len(data) PROVE u[j] = data[j]
  <2> DEFINE k == keys[1 + (j - 1) \div 4][1 + ((j - 1) % 4)]
  <2>1. k \in Byte
    <3>1. PICK i \in 1..Blocks(data), p \in 1..4 : i = 1 + (j - 1) \div 4 /\ p = 1 + ((j - 1) % 4)
      BY BytePlaces
    <3>2. Blocks(data) \in Nat
      BY BlockSizes
    <3>3. i \in 1..Blocks(data) + 1
      BY <3>1, <3>2
    <3>4. keys[i][p] \in Byte
      BY <3>3 DEF DWord
    <3> QED BY <3>1, <3>4
  <2>2. e[j] = XorByte(data[j], k)
    BY DEF UnderKeys
  <2>3. u[j] = XorByte(e[j], k)
    <3> HIDE DEF e
    <3> QED BY <1>1 DEF UnderKeys
  <2>4. data[j] \in Byte
    OBVIOUS
  <2> HIDE DEF k, u, e
  <2> QED BY <2>1, <2>2, <2>3, <2>4, ByteXor
<1>3. u = [j \in 1..Len(data) |-> u[j]]
  <2> HIDE DEF e
  <2> QED BY <1>1 DEF UnderKeys
<1>4. data = [j \in 1..Len(data) |-> data[j]]
  OBVIOUS
<1> HIDE DEF u
<1>5. u = data
  BY <1>2, <1>3, <1>4
<1> QED BY <1>5 DEF u

\* Deciphering undoes enciphering and leaves the same key.
LEMMA DecryptUndoes ==
  ASSUME NEW data \in Seq(Byte), NEW key \in DWord
  PROVE  DecryptBuffer(EncryptBuffer(data, key).data, key)
           = [data |-> data, key |-> EncryptBuffer(data, key).key]
<1> DEFINE n == Blocks(data)
           keys == sendKeys(data, key)[n]
           e == UnderKeys(data, keys)
           back == recvKeys(e, key)[n]
<1>1. n \in Nat /\ KeysOf(keys, key, n, SendBlock(data))
  BY BlockSizes, SendKeysAre
<1>2. EncryptBuffer(data, key) = [data |-> e, key |-> keys[n + 1]]
  BY DEF EncryptBuffer
<1> HIDE DEF keys
<1>3. keys \in [1..n + 1 -> DWord]
  BY <1>1 DEF KeysOf
<1>4. e \in Seq(Byte) /\ Len(e) = Len(data)
  BY <1>3, UnderKeysType
<1>5. Blocks(e) = n
  BY <1>4 DEF Blocks, Snap
<1>6. \A i \in 1..n : RecvBlock(e)[i][keys[i]] = SendBlock(data)[i][keys[i]]
  BY <1>3, BlocksAgree
<1>7. UnderKeys(e, keys) = data
  BY <1>3, UnderKeysTwice
<1> HIDE DEF e
<1>8. KeysOf(back, key, n, RecvBlock(e))
  BY <1>4, <1>5, RecvKeysAre
<1>9. DecryptBuffer(e, key) = [data |-> UnderKeys(e, back), key |-> back[n + 1]]
  BY <1>5 DEF DecryptBuffer
<1> HIDE DEF back, n
<1>10. back = keys
  <2>1. \A i \in 1..n : SendBlock(data)[i][keys[i]] = RecvBlock(e)[i][keys[i]]
    BY <1>6
  <2>2. keys = back
    BY <1>1, <1>8, <2>1, SameKeys
  <2> QED BY <2>2
<1> QED BY <1>2, <1>7, <1>9, <1>10

-----------------------------------------------------------------------------
(* The byte maps and the check code.                                       *)

LEMMA BytesAreNumbers == \A b \in Byte : b \in Nat /\ b \in Int
BY DEF Byte

LEMMA ByteAt ==
  ASSUME NEW data \in Seq(Byte), NEW i \in 1..Len(data)
  PROVE  data[i] \in Byte /\ data[i] \in Nat /\ i \in Nat \ {0}
<1>1. data[i] \in Byte /\ i \in Nat \ {0}
  OBVIOUS
<1> QED BY <1>1, BytesAreNumbers

LEMMA Mod256 ==
  ASSUME NEW n \in Int
  PROVE  n % 256 \in Byte /\ n = 256 * (n \div 256) + (n % 256) /\ n \div 256 \in Int
BY DEF Byte

LEMMA ModUnique ==
  ASSUME NEW q \in Int, NEW r \in Byte
  PROVE  (r - 256 * q) % 256 = r
BY DEF Byte

LEMMA ShiftBack ==
  ASSUME NEW d \in Byte, NEW x \in Nat
  PROVE  (((d + x) % 256) - x) % 256 = d
<1>1. PICK m \in Int : m = d + x
  BY DEF Byte
<1>2. PICK q \in Int, r \in Byte : q = m \div 256 /\ r = m % 256 /\ m = 256 * q + r
  BY Mod256
<1>3. r - x = d - 256 * q
  BY <1>1, <1>2 DEF Byte
<1> QED BY <1>1, <1>2, <1>3, ModUnique

LEMMA MapsType ==
  /\ \A b \in Byte : g_SendByteMap[b + 1] \in Byte /\ g_RecvByteMap[b + 1] \in Byte
  /\ \A b \in Byte : g_RecvByteMap[g_SendByteMap[b + 1] + 1] = b
<1>1. \A b \in Byte : b + 1 \in 1..256
  BY DEF Byte
<1>2. \A b \in Byte : g_RecvByteMap[g_SendByteMap[b + 1] + 1] = b
  BY MapsAssumption, Zenon DEF Byte
<1>3. g_SendByteMap \in [1..256 -> Byte] /\ g_RecvByteMap \in [1..256 -> Byte]
  BY MapsAssumption, Zenon DEF Byte
<1> QED BY <1>1, <1>2, <1>3

LEMMA MapSendType ==
  ASSUME NEW data \in Seq(Byte), NEW round \in Byte
  PROVE  MapSend(data, round) \in Seq(Byte) /\ Len(MapSend(data, round)) = Len(data)
<1> DEFINE s == MapSend(data, round)
<1>1. ASSUME NEW i \in 1..Len(data)
      PROVE  g_SendByteMap[((data[i] + round + 3 * (i - 1)) % 256) + 1] \in Byte
  <2>1. data[i] + round + 3 * (i - 1) \in Int
    BY ByteAt, BytesAreNumbers
  <2> QED BY <2>1, Mod256, MapsType
<1>2. s \in [1..Len(data) -> Byte]
  BY <1>1 DEF MapSend
<1> HIDE DEF s
<1> QED BY <1>2, FunctionIsSeq DEF s

LEMMA MapRecvType ==
  ASSUME NEW data \in Seq(Byte), NEW round \in Byte
  PROVE  MapRecv(data, round) \in Seq(Byte) /\ Len(MapRecv(data, round)) = Len(data)
<1> DEFINE s == MapRecv(data, round)
<1>1. ASSUME NEW i \in 1..Len(data)
      PROVE  (g_RecvByteMap[data[i] + 1] - round - 3 * (i - 1)) % 256 \in Byte
  <2>1. g_RecvByteMap[data[i] + 1] \in Byte
    BY MapsType
  <2>2. g_RecvByteMap[data[i] + 1] - round - 3 * (i - 1) \in Int
    BY <2>1, ByteAt, BytesAreNumbers
  <2> QED BY <2>2, Mod256
<1>2. s \in [1..Len(data) -> Byte]
  BY <1>1 DEF MapRecv
<1> HIDE DEF s
<1> QED BY <1>2, FunctionIsSeq DEF s

LEMMA MapUndoes ==
  ASSUME NEW data \in Seq(Byte), NEW round \in Byte
  PROVE  MapRecv(MapSend(data, round), round) = data
<1> DEFINE s == MapSend(data, round)
           p == MapRecv(s, round)
<1>1. s \in Seq(Byte) /\ Len(s) = Len(data)
  BY MapSendType
<1>2. ASSUME NEW i \in 1..Len(data) PROVE p[i] = data[i]
  <2> DEFINE x == round + 3 * (i - 1)
             m == (data[i] + x) % 256
  <2>1. data[i] \in Byte /\ x \in Nat /\ data[i] + x \in Int
    BY ByteAt, BytesAreNumbers
  <2>2. data[i] + round + 3 * (i - 1) = data[i] + x
    BY ByteAt, BytesAreNumbers
  <2>3. s[i] = g_SendByteMap[m + 1]
    BY <2>2 DEF MapSend
  <2>4. m \in Byte
    BY <2>1, Mod256
  <2> HIDE DEF m, x, s
  <2>5. g_RecvByteMap[s[i] + 1] = m
    BY <2>3, <2>4, MapsType
  <2>6. p[i] = (g_RecvByteMap[s[i] + 1] - round - 3 * (i - 1)) % 256
    BY <1>1 DEF MapRecv
  <2>7. m - round - 3 * (i - 1) = m - x
    BY <2>4 DEF x, Byte
  <2>8. (m - x) % 256 = data[i]
    BY <2>1, ShiftBack DEF m
  <2> QED BY <2>5, <2>6, <2>7, <2>8
<1>3. p = [j \in 1..Len(data) |-> p[j]]
  <2> HIDE DEF s
  <2> QED BY <1>1 DEF MapRecv
<1>4. data = [j \in 1..Len(data) |-> data[j]]
  OBVIOUS
<1> HIDE DEF p
<1>5. p = data
  BY <1>2, <1>3, <1>4
<1> QED BY <1>5 DEF p

LEMMA RoundType ==
  ASSUME NEW data \in Seq(Byte), NEW round \in Byte
  PROVE  NextRound(round, data) \in Byte
<1>1. round + 3 * Len(data) \in Int
  BY DEF Byte
<1> QED BY <1>1, Mod256 DEF NextRound

\* The sum is a byte: it exists as a function of bytes (PrimitiveRecursion).
SumBody(data, s) ==
  [i \in 0..Len(data) |-> IF i = 0 THEN 0 ELSE (s[i - 1] + data[i]) % 256]

LEMMA SumEquation ==
  ASSUME NEW data \in Seq(Byte)
  PROVE  \E s : s = SumBody(data, s) /\ SumBytes(data) = s[Len(data)]
<1> DEFINE n == Len(data)
           step == [i \in 1..n |-> [v \in Byte |-> (v + data[i]) % 256]]
<1>1. \A i \in 1..n : \A v \in Byte : (v + data[i]) % 256 \in Byte
  <2> TAKE i \in 1..n
  <2> TAKE v \in Byte
  <2>1. v + data[i] \in Int
    BY ByteAt, BytesAreNumbers
  <2> QED BY <2>1, Mod256
<1>2. 0 \in Byte /\ n \in Nat
  BY DEF Byte
<1>3. IsStepOn(Byte, 0, n, step)
  BY <1>1, <1>2 DEF IsStepOn
<1>4. PICK s : Iterates(s, Byte, 0, n, step)
  <2> HIDE DEF n, step
  <2> QED BY <1>3, PrimitiveRecursion, Zenon
<1>5. s \in [0..n -> Byte] /\ s[0] = 0 /\ \A i \in 1..n : s[i] = step[i][s[i - 1]]
  BY <1>4 DEF Iterates
<1>6. \A i \in 1..n : s[i] = (s[i - 1] + data[i]) % 256
  <2> TAKE i \in 1..n
  <2>1. i - 1 \in 0..n
    BY <1>2
  <2>2. s[i - 1] \in Byte
    BY <1>5, <2>1
  <2> QED BY <1>5, <2>2
<1>7. s = SumBody(data, s)
  BY <1>2, <1>5, <1>6 DEF SumBody
<1> DEFINE t == CHOOSE t : t = SumBody(data, t)
<1>8. t = SumBody(data, t)
  BY <1>7
<1>9. SumBytes(data) = t[Len(data)]
  BY Zenon DEF SumBytes, SumBody
<1> HIDE DEF t
<1> QED BY <1>8, <1>9

LEMMA SumType ==
  ASSUME NEW data \in Seq(Byte)
  PROVE  SumBytes(data) \in Byte
<1>1. PICK s : s = SumBody(data, s) /\ SumBytes(data) = s[Len(data)]
  BY SumEquation
<1> DEFINE n == Len(data)
           S == {m \in Nat : m <= n => s[m] \in Byte}
<1>2. n \in Nat
  OBVIOUS
<1>3. 0 \in S
  BY <1>1, <1>2 DEF SumBody, Byte
<1>4. ASSUME NEW m \in Nat, m \in S PROVE m + 1 \in S
  <2> SUFFICES ASSUME m + 1 <= n PROVE s[m + 1] \in Byte
    OBVIOUS
  <2>1. m + 1 \in 0..n /\ m + 1 # 0 /\ (m + 1) - 1 = m
    BY <1>2
  <2>2. s[m] \in Byte /\ data[m + 1] \in Byte
    BY <1>4, <2>1
  <2>3. s[m + 1] = (s[m] + data[m + 1]) % 256
    BY <1>1, <2>1 DEF SumBody
  <2>4. s[m] + data[m + 1] \in Int
    BY <2>2, BytesAreNumbers
  <2> QED BY <2>3, <2>4, Mod256
<1>5. n \in S
  <2> HIDE DEF S, n
  <2> QED BY <1>2, <1>3, <1>4, Induction
<1> QED BY <1>1, <1>5

LEMMA CheckCodeFits ==
  ASSUME NEW data \in Seq(Byte)
  PROVE  CheckCode(data) \in Byte /\ (CheckCode(data) + SumBytes(data)) % 256 = 0
<1>1. PICK s \in 0..255 : s = SumBytes(data)
  BY SumType DEF Byte
<1>2. (256 - s) % 256 \in 0..255 /\ (((256 - s) % 256) + s) % 256 = 0
  OBVIOUS
<1> QED BY <1>1, <1>2 DEF CheckCode, Byte

-----------------------------------------------------------------------------
(* A packet and the coders at both ends.                                   *)

\* What one direction of a coder knows.
LaneType == [round : Byte, key : DWord]
SendLane(c) == [round |-> c.sendRound, key |-> c.sendKey]
RecvLane(c) == [round |-> c.recvRound, key |-> c.recvKey]

\* A message enciphered on a lane, and the lane after it.
Buffer(lane, m) == EncryptBuffer(MapSend(m, lane.round), lane.key)
Sealed(lane, m) == [check |-> CheckCode(m), size |-> 4 + Len(m), data |-> Buffer(lane, m).data]
After(lane, m) == [round |-> NextRound(lane.round, m), key |-> Buffer(lane, m).key]

LEMMA MessageType ==
  ASSUME NEW m \in Messages
  PROVE  m \in Seq(Byte) /\ Len(m) >= 4
BY MessagesAssumption

LEMMA LaneOfCoder ==
  ASSUME NEW c \in CoderType
  PROVE  SendLane(c) \in LaneType /\ RecvLane(c) \in LaneType
BY DEF CoderType, LaneType, SendLane, RecvLane

\* A coder whose one direction has moved on.
Sent(c, r, k) == [c EXCEPT !.sendRound = r, !.sendKey = k, !.sendCount = c.sendCount + 1]
Received(c, k) == [c EXCEPT !.recvKey = k, !.recvCount = c.recvCount + 1]

LEMMA CoderMoved ==
  ASSUME NEW c \in CoderType, NEW r \in Byte, NEW k \in DWord
  PROVE  /\ Sent(c, r, k) \in CoderType
         /\ Sent(c, r, k).sendRound = r
         /\ Sent(c, r, k).sendKey = k
         /\ Sent(c, r, k).sendCount = c.sendCount + 1
         /\ Sent(c, r, k).recvRound = c.recvRound
         /\ Sent(c, r, k).recvKey = c.recvKey
         /\ Sent(c, r, k).recvCount = c.recvCount
         /\ Received(c, k) \in CoderType
         /\ Received(c, k).recvRound = c.recvRound
         /\ Received(c, k).recvKey = k
         /\ Received(c, k).recvCount = c.recvCount + 1
         /\ Received(c, k).sendRound = c.sendRound
         /\ Received(c, k).sendKey = c.sendKey
         /\ Received(c, k).sendCount = c.sendCount
<1>1. c.sendCount + 1 \in Nat /\ c.recvCount + 1 \in Nat
  BY DEF CoderType
<1>2. PICK m \in Nat, n \in Nat : m = c.sendCount + 1 /\ n = c.recvCount + 1
  BY <1>1
<1>3. [c EXCEPT !.sendRound = r, !.sendKey = k, !.sendCount = m] \in CoderType
  BY DEF CoderType
<1>4. [c EXCEPT !.recvKey = k, !.recvCount = n] \in CoderType
  BY DEF CoderType
<1>5. c = [sendRound |-> c.sendRound, recvRound |-> c.recvRound, sendKey |-> c.sendKey,
           recvKey |-> c.recvKey, sendCount |-> c.sendCount, recvCount |-> c.recvCount]
  BY DEF CoderType
<1>6. LET d == [c EXCEPT !.sendRound = r, !.sendKey = k, !.sendCount = m]
      IN  /\ d.sendRound = r /\ d.sendKey = k /\ d.sendCount = m
          /\ d.recvRound = c.recvRound /\ d.recvKey = c.recvKey /\ d.recvCount = c.recvCount
  BY <1>5
<1>7. LET d == [c EXCEPT !.recvKey = k, !.recvCount = n]
      IN  /\ d.recvRound = c.recvRound /\ d.recvKey = k /\ d.recvCount = n
          /\ d.sendRound = c.sendRound /\ d.sendKey = c.sendKey /\ d.sendCount = c.sendCount
  BY <1>5
<1> QED BY <1>2, <1>3, <1>4, <1>6, <1>7 DEF Sent, Received

LEMMA SealedType ==
  ASSUME NEW lane \in LaneType, NEW m \in Seq(Byte)
  PROVE  /\ Sealed(lane, m) \in Packet
         /\ Sealed(lane, m).check = CheckCode(m)
         /\ Sealed(lane, m).size = 4 + Len(m)
         /\ Sealed(lane, m).data = Buffer(lane, m).data
         /\ Buffer(lane, m).data \in Seq(Byte)
         /\ Len(Buffer(lane, m).data) = Len(m)
         /\ After(lane, m) \in LaneType
         /\ lane.key # NoKey => After(lane, m).key # NoKey
<1>1. lane.round \in Byte /\ lane.key \in DWord
  BY DEF LaneType
<1>2. MapSend(m, lane.round) \in Seq(Byte) /\ Len(MapSend(m, lane.round)) = Len(m)
  BY <1>1, MapSendType
<1>3. /\ Buffer(lane, m).data \in Seq(Byte)
      /\ Len(Buffer(lane, m).data) = Len(m)
      /\ Buffer(lane, m).key \in DWord
      /\ lane.key # NoKey => Buffer(lane, m).key # NoKey
  BY <1>1, <1>2, EncryptType DEF Buffer
<1>4. NextRound(lane.round, m) \in Byte /\ CheckCode(m) \in Byte /\ 4 + Len(m) \in Nat
  BY <1>1, RoundType, CheckCodeFits
<1> QED BY <1>3, <1>4 DEF Sealed, After, Packet, LaneType

LEMMA EncipherIs ==
  ASSUME NEW c \in CoderType, NEW m \in Seq(Byte)
  PROVE  LET e == Encipher(c, m)
         IN  /\ e = [packet |-> e.packet, coder |-> e.coder]
             /\ e.packet = Sealed(SendLane(c), m)
             /\ e.coder \in CoderType
             /\ SendLane(e.coder) = After(SendLane(c), m)
             /\ RecvLane(e.coder) = RecvLane(c)
             /\ e.coder.sendKey = After(SendLane(c), m).key
             /\ e.coder.sendCount = c.sendCount + 1
             /\ e.coder.recvCount = c.recvCount
<1> DEFINE lane == SendLane(c)
           b == Buffer(lane, m)
           d == Sent(c, NextRound(c.sendRound, m), b.key)
<1>1. lane \in LaneType /\ lane.round = c.sendRound /\ lane.key = c.sendKey
  BY LaneOfCoder DEF SendLane
<1>2. Encipher(c, m) = [packet |-> Sealed(lane, m), coder |-> d]
  BY <1>1, Zenon DEF Encipher, Sealed, Buffer, Sent
<1>3. After(lane, m) = [round |-> NextRound(c.sendRound, m), key |-> b.key] /\ After(lane, m) \in LaneType
  BY <1>1, SealedType DEF After
<1> HIDE DEF b, lane
<1>4. NextRound(c.sendRound, m) \in Byte /\ b.key \in DWord
  BY <1>3 DEF LaneType
<1>5. /\ d \in CoderType
      /\ SendLane(d) = [round |-> NextRound(c.sendRound, m), key |-> b.key]
      /\ RecvLane(d) = RecvLane(c)
      /\ d.sendKey = b.key
      /\ d.sendCount = c.sendCount + 1
      /\ d.recvCount = c.recvCount
  BY <1>4, CoderMoved DEF SendLane, RecvLane
<1> HIDE DEF d
<1> QED BY <1>2, <1>3, <1>5 DEF lane

LEMMA DecipherType ==
  ASSUME NEW c \in CoderType, NEW p \in Packet
  PROVE  /\ Decipher(c, p).ok \in BOOLEAN
         /\ Decipher(c, p).data \in Seq(Byte)
         /\ Decipher(c, p).coder \in CoderType
         /\ SendLane(Decipher(c, p).coder) = SendLane(c)
         /\ Decipher(c, p).coder.sendKey = c.sendKey
         /\ Decipher(c, p).coder.sendCount = c.sendCount
         /\ \/ Decipher(c, p).coder.recvCount = c.recvCount
            \/ Decipher(c, p).coder.recvCount = c.recvCount + 1
<1> DEFINE d == DecryptBuffer(p.data, c.recvKey)
           plain == MapRecv(d.data, c.recvRound)
           mapped == [c EXCEPT !.recvRound = NextRound(c.recvRound, d.data)]
           done == Received(mapped, d.key)
<1>1. p.data \in Seq(Byte) /\ c.recvKey \in DWord /\ c.recvRound \in Byte
  BY DEF CoderType, Packet
<1>2. d.data \in Seq(Byte) /\ d.key \in DWord
  BY <1>1, DecryptType
<1>3. Decipher(c, p) = IF (p.check + SumBytes(plain)) % 256 = 0
                       THEN [ok |-> TRUE, data |-> plain, coder |-> done]
                       ELSE [ok |-> FALSE, data |-> <<>>, coder |-> mapped]
  BY Zenon DEF Decipher, Received
<1> HIDE DEF d
<1>4. plain \in Seq(Byte) /\ NextRound(c.recvRound, d.data) \in Byte
  BY <1>1, <1>2, MapRecvType, RoundType
<1> HIDE DEF plain
<1>5. /\ mapped \in CoderType /\ SendLane(mapped) = SendLane(c) /\ mapped.sendKey = c.sendKey
      /\ mapped.sendCount = c.sendCount /\ mapped.recvCount = c.recvCount
  BY <1>4 DEF CoderType, SendLane
<1> HIDE DEF mapped
<1>6. /\ done \in CoderType /\ SendLane(done) = SendLane(mapped) /\ done.sendKey = mapped.sendKey
      /\ done.sendCount = mapped.sendCount /\ done.recvCount = mapped.recvCount + 1
  BY <1>1, <1>2, <1>5, CoderMoved DEF SendLane
<1> HIDE DEF done
<1>7. CASE (p.check + SumBytes(plain)) % 256 = 0
  <2>1. Decipher(c, p) = [ok |-> TRUE, data |-> plain, coder |-> done]
    BY <1>3, <1>7
  <2> QED BY <1>4, <1>5, <1>6, <2>1
<1>8. CASE ~((p.check + SumBytes(plain)) % 256 = 0)
  <2>1. Decipher(c, p) = [ok |-> FALSE, data |-> <<>>, coder |-> mapped]
    BY <1>3, <1>8
  <2> QED BY <1>4, <1>5, <1>6, <2>1
<1> QED BY <1>7, <1>8

\* What was sealed on a lane is deciphered on the same lane, and both ends
\* move on alike.
LEMMA DecipherSealed ==
  ASSUME NEW c \in CoderType, NEW m \in Seq(Byte), NEW p,
         p.check = CheckCode(m), p.data = Buffer(RecvLane(c), m).data
  PROVE  /\ Decipher(c, p).ok = TRUE
         /\ Decipher(c, p).data = m
         /\ RecvLane(Decipher(c, p).coder) = After(RecvLane(c), m)
         /\ Decipher(c, p).coder.recvCount = c.recvCount + 1
<1> DEFINE lane == RecvLane(c)
           b == Buffer(lane, m)
           mapped == MapSend(m, lane.round)
           round == NextRound(c.recvRound, mapped)
           turned == [c EXCEPT !.recvRound = round]
           done == Received(turned, b.key)
<1>1. lane.round = c.recvRound /\ lane.key = c.recvKey /\ c.recvRound \in Byte /\ c.recvKey \in DWord
  BY DEF RecvLane, CoderType
<1>2. mapped \in Seq(Byte) /\ Len(mapped) = Len(m) /\ MapRecv(mapped, c.recvRound) = m
  BY <1>1, MapSendType, MapUndoes
<1>3. DecryptBuffer(p.data, c.recvKey) = [data |-> mapped, key |-> b.key]
  <2>1. b = EncryptBuffer(mapped, c.recvKey)
    BY <1>1 DEF Buffer
  <2> HIDE DEF b, mapped, lane
  <2>2. DecryptBuffer(b.data, c.recvKey) = [data |-> mapped, key |-> b.key]
    BY <1>1, <1>2, <2>1, DecryptUndoes
  <2> QED BY <2>2 DEF b, lane
<1>4. (p.check + SumBytes(m)) % 256 = 0
  BY CheckCodeFits
<1>5. round = NextRound(lane.round, m)
  BY <1>1, <1>2 DEF NextRound
<1> HIDE DEF mapped, b, lane
<1>6. Decipher(c, p) = [ok |-> TRUE, data |-> m, coder |-> done]
  <2> DEFINE d == DecryptBuffer(p.data, c.recvKey)
             plain == MapRecv(d.data, c.recvRound)
             x == [c EXCEPT !.recvRound = NextRound(c.recvRound, d.data)]
  <2>1. Decipher(c, p) = IF (p.check + SumBytes(plain)) % 256 = 0
                         THEN [ok |-> TRUE, data |-> plain,
                               coder |-> Received(x, d.key)]
                         ELSE [ok |-> FALSE, data |-> <<>>, coder |-> x]
    BY Zenon DEF Decipher, Received
  <2>2. d.data = mapped /\ d.key = b.key
    BY <1>3
  <2> HIDE DEF d
  <2>3. plain = m
    BY <1>2, <2>2
  <2>4. x = turned
    BY <2>2
  <2> HIDE DEF plain, x, turned
  <2> QED BY <1>4, <2>1, <2>2, <2>3, <2>4
<1>7. After(lane, m) = [round |-> round, key |-> b.key]
  BY <1>5 DEF After, b
<1>8. RecvLane(done) = [round |-> round, key |-> b.key] /\ done.recvCount = c.recvCount + 1
  <2>1. round \in Byte /\ b.key \in DWord
    BY <1>1, <1>2, RoundType, EncryptType DEF b, Buffer, mapped
  <2> HIDE DEF round
  <2>2. turned \in CoderType /\ turned.recvRound = round /\ turned.recvCount = c.recvCount
    BY <2>1 DEF CoderType
  <2> HIDE DEF turned
  <2> QED BY <2>1, <2>2, CoderMoved DEF RecvLane
<1> HIDE DEF done
<1> QED BY <1>6, <1>7, <1>8 DEF lane

\* The key that is put into a packet comes out again.
LEMMA KeyInAndOut ==
  ASSUME NEW d \in Seq(Byte), Len(d) >= 4, NEW k \in DWord
  PROVE  LET x == SubSeq(d, 1, 4) \o k \o SubSeq(d, 5, Len(d))
         IN  /\ x \in Seq(Byte) /\ Len(x) = Len(d) + 4
             /\ SubSeq(x, 5, 8) = k
             /\ SubSeq(x, 1, 4) \o SubSeq(x, 9, Len(x)) = d
<1> DEFINE n == Len(d)
           u == SubSeq(d, 1, 4)
           v == SubSeq(d, 5, n)
           w == u \o k
           x == w \o v
<1>1. n \in Nat /\ n >= 4
  OBVIOUS
<1>2. u \in Seq(Byte) /\ Len(u) = 4 /\ \A i \in 1..4 : u[i] = d[i]
  <2>1. 1 \in 1..Len(d) + 1 /\ 4 \in 1 - 1..Len(d) /\ 4 - 1 + 1 = 4
    BY <1>1
  <2>2. \A i \in 1..4 : 1 + i - 1 = i
    OBVIOUS
  <2>3. /\ SubSeq(d, 1, 4) \in Seq(Byte) /\ Len(SubSeq(d, 1, 4)) = 4 - 1 + 1
        /\ \A i \in 1..4 - 1 + 1 : SubSeq(d, 1, 4)[i] = d[1 + i - 1]
    BY <2>1, Part
  <2> HIDE DEF u
  <2> QED BY <2>1, <2>2, <2>3 DEF u
<1>3. v \in Seq(Byte) /\ Len(v) = n - 4 /\ \A i \in 1..n - 4 : v[i] = d[4 + i]
  <2>1. 5 \in 1..Len(d) + 1 /\ n \in 5 - 1..Len(d) /\ n - 5 + 1 = n - 4
    BY <1>1
  <2>2. \A i \in 1..n - 4 : 5 + i - 1 = 4 + i
    OBVIOUS
  <2>3. /\ SubSeq(d, 5, n) \in Seq(Byte) /\ Len(SubSeq(d, 5, n)) = n - 5 + 1
        /\ \A i \in 1..n - 5 + 1 : SubSeq(d, 5, n)[i] = d[5 + i - 1]
    <3> HIDE DEF n
    <3> QED BY <2>1, Part
  <2> HIDE DEF v, n
  <2> QED BY <2>1, <2>2, <2>3 DEF v
<1>4. k \in Seq(Byte) /\ Len(k) = 4
  BY FunctionIsSeq DEF DWord
<1> HIDE DEF u, v
<1>5. /\ w \in Seq(Byte) /\ Len(w) = 8
      /\ \A i \in 1..8 : w[i] = IF i <= 4 THEN d[i] ELSE k[i - 4]
  <2> DEFINE y == u \o k
  <2>1. /\ y \in Seq(Byte) /\ Len(y) = Len(u) + Len(k)
        /\ \A i \in 1..Len(u) + Len(k) : y[i] = IF i <= Len(u) THEN u[i] ELSE k[i - Len(u)]
    BY <1>2, <1>4, ConcatProperties, Zenon
  <2> HIDE DEF y
  <2>2. /\ y \in Seq(Byte) /\ Len(y) = 8
        /\ \A i \in 1..8 : y[i] = IF i <= 4 THEN d[i] ELSE k[i - 4]
    BY <1>2, <1>4, <2>1
  <2> QED BY <2>2 DEF y
<1> HIDE DEF w
<1>6. /\ x \in Seq(Byte) /\ Len(x) = n + 4
      /\ \A i \in 1..n + 4 : x[i] = IF i <= 8 THEN w[i] ELSE v[i - 8]
  <2> DEFINE y == w \o v
  <2>1. 8 + (n - 4) = n + 4
    BY <1>1
  <2>2. /\ y \in Seq(Byte) /\ Len(y) = Len(w) + Len(v)
        /\ \A i \in 1..Len(w) + Len(v) : y[i] = IF i <= Len(w) THEN w[i] ELSE v[i - Len(w)]
    <3> HIDE DEF n
    <3> QED BY <1>3, <1>5, ConcatProperties, Zenon
  <2> HIDE DEF y
  <2>3. /\ y \in Seq(Byte) /\ Len(y) = n + 4
        /\ \A i \in 1..n + 4 : y[i] = IF i <= 8 THEN w[i] ELSE v[i - 8]
    BY <1>3, <1>5, <2>1, <2>2
  <2> QED BY <2>3 DEF y
<1> HIDE DEF x
<1>7. SubSeq(x, 5, 8) = k
  <2>1. 5 \in 1..Len(x) + 1 /\ 8 \in 5 - 1..Len(x) /\ 8 - 5 + 1 = 4
    BY <1>1, <1>6
  <2>2. /\ SubSeq(x, 5, 8) \in Seq(Byte) /\ Len(SubSeq(x, 5, 8)) = 8 - 5 + 1
        /\ \A i \in 1..8 - 5 + 1 : SubSeq(x, 5, 8)[i] = x[5 + i - 1]
    BY <1>6, <2>1, Part
  <2>3. \A i \in 1..4 : x[5 + i - 1] = k[i]
    <3> TAKE i \in 1..4
    <3>1. 5 + i - 1 \in 1..n + 4 /\ 5 + i - 1 \in 1..8 /\ ~(5 + i - 1 <= 4) /\ (5 + i - 1) - 4 = i
      BY <1>1
    <3> QED BY <1>5, <1>6, <3>1
  <2> DEFINE s == SubSeq(x, 5, 8)
  <2> HIDE DEF s
  <2>4. s \in Seq(Byte) /\ Len(s) = 4 /\ \A i \in 1..4 : s[i] = k[i]
    BY <2>1, <2>2, <2>3 DEF s
  <2>5. s = k
    BY <1>4, <2>4
  <2> QED BY <2>5 DEF s
<1>8. SubSeq(x, 1, 4) = u
  <2>1. 1 \in 1..Len(x) + 1 /\ 4 \in 1 - 1..Len(x) /\ 4 - 1 + 1 = 4
    BY <1>1, <1>6
  <2>2. /\ SubSeq(x, 1, 4) \in Seq(Byte) /\ Len(SubSeq(x, 1, 4)) = 4 - 1 + 1
        /\ \A i \in 1..4 - 1 + 1 : SubSeq(x, 1, 4)[i] = x[1 + i - 1]
    BY <1>6, <2>1, Part
  <2>3. \A i \in 1..4 : x[1 + i - 1] = u[i]
    <3> TAKE i \in 1..4
    <3>1. 1 + i - 1 = i /\ i \in 1..n + 4 /\ i \in 1..8 /\ i <= 4
      BY <1>1
    <3> QED BY <1>2, <1>5, <1>6, <3>1
  <2> DEFINE s == SubSeq(x, 1, 4)
  <2> HIDE DEF s
  <2>4. s \in Seq(Byte) /\ Len(s) = 4 /\ \A i \in 1..4 : s[i] = u[i]
    BY <2>1, <2>2, <2>3 DEF s
  <2>5. s = u
    BY <1>2, <2>4
  <2> QED BY <2>5 DEF s
<1>9. SubSeq(x, 9, Len(x)) = v
  <2> DEFINE l == Len(x)
  <2>1. 9 \in 1..Len(x) + 1 /\ l \in 9 - 1..Len(x) /\ l - 9 + 1 = n - 4
    BY <1>1, <1>6
  <2>2. /\ SubSeq(x, 9, l) \in Seq(Byte) /\ Len(SubSeq(x, 9, l)) = l - 9 + 1
        /\ \A i \in 1..l - 9 + 1 : SubSeq(x, 9, l)[i] = x[9 + i - 1]
    <3> HIDE DEF l
    <3> QED BY <1>6, <2>1, Part
  <2>3. \A i \in 1..n - 4 : x[9 + i - 1] = v[i]
    <3> TAKE i \in 1..n - 4
    <3>1. 9 + i - 1 \in 1..n + 4 /\ ~(9 + i - 1 <= 8) /\ (9 + i - 1) - 8 = i
      BY <1>1
    <3> QED BY <1>6, <3>1
  <2> DEFINE s == SubSeq(x, 9, l)
  <2> HIDE DEF s, l, n
  <2>4. s \in Seq(Byte) /\ Len(s) = n - 4 /\ \A i \in 1..n - 4 : s[i] = v[i]
    BY <2>1, <2>2, <2>3 DEF s
  <2>5. s = v
    BY <1>3, <2>4
  <2> QED BY <2>5 DEF s, l
<1>10. u \o v = d
  <2> DEFINE s == u \o v
  <2>1. s \in Seq(Byte) /\ Len(s) = n /\ \A i \in 1..n : s[i] = IF i <= 4 THEN u[i] ELSE v[i - 4]
    <3>1. /\ s \in Seq(Byte) /\ Len(s) = Len(u) + Len(v)
          /\ \A i \in 1..Len(u) + Len(v) : s[i] = IF i <= Len(u) THEN u[i] ELSE v[i - Len(u)]
      <4> HIDE DEF n
      <4> QED BY <1>2, <1>3, ConcatProperties, Zenon
    <3>2. 4 + (n - 4) = n
      BY <1>1
    <3> HIDE DEF s
    <3> QED BY <1>2, <1>3, <3>1, <3>2
  <2>2. \A i \in 1..n : s[i] = d[i]
    <3> HIDE DEF s
    <3> TAKE i \in 1..n
    <3>1. CASE i <= 4
      BY <1>1, <1>2, <2>1, <3>1
    <3>2. CASE ~(i <= 4)
      <4>1. i - 4 \in 1..n - 4 /\ 4 + (i - 4) = i
        BY <1>1, <3>2
      <4> QED BY <1>3, <2>1, <3>2, <4>1
    <3> QED BY <3>1, <3>2
  <2> HIDE DEF s
  <2>3. s = d
    BY <2>1, <2>2
  <2> QED BY <2>3 DEF s
<1> QED BY <1>6, <1>7, <1>8, <1>9, <1>10 DEF x, w, u, v

-----------------------------------------------------------------------------
(* One direction of a sound connection.                                    *)

\* The packet that a message becomes: the first one of all carries the key.
PacketOf(lane, m, first) ==
  IF first THEN InsertKey(Sealed(lane, m), lane.key) ELSE Sealed(lane, m)

\* st[i] is the lane behind the i-th packet on its way.
Lanes(st, chan, msgs, off, from, to, first) ==
  /\ st \in [0..Len(chan) -> LaneType]
  /\ st[0] = from /\ st[Len(chan)] = to
  /\ \A i \in 1..Len(chan) :
       /\ st[i] = After(st[i - 1], msgs[off + i])
       /\ chan[i] = PacketOf(st[i - 1], msgs[off + i], first /\ i = 1)

\* The packets on their way are what the messages behind the first off ones
\* became; they lead from the lane of the receiver to that of the sender.
Carries(chan, msgs, off, from, to, first) ==
  /\ Len(msgs) = off + Len(chan)
  /\ \E st : Lanes(st, chan, msgs, off, from, to, first)

LEMMA CarriesNone ==
  ASSUME NEW lane \in LaneType, NEW msgs, NEW off \in Nat, Len(msgs) = off, NEW first
  PROVE  Carries(<<>>, msgs, off, lane, lane, first)
<1> DEFINE st == [i \in 0..0 |-> lane]
<1>1. Len(<<>>) = 0
  OBVIOUS
<1>2. Lanes(st, <<>>, msgs, off, lane, lane, first)
  BY <1>1 DEF Lanes
<1> QED BY <1>1, <1>2 DEF Carries

LEMMA CarriesMore ==
  ASSUME NEW chan \in Seq(Packet), NEW msgs \in Seq(Messages), NEW off \in Nat,
         NEW from \in LaneType, NEW to \in LaneType, NEW first \in BOOLEAN,
         Carries(chan, msgs, off, from, to, first),
         NEW m \in Messages, NEW p \in Packet, p = PacketOf(to, m, first /\ chan = <<>>)
  PROVE  Carries(Append(chan, p), Append(msgs, m), off, from, After(to, m), first)
<1>1. PICK st : Lanes(st, chan, msgs, off, from, to, first)
  BY DEF Carries
<1> DEFINE n == Len(chan)
           c == Append(chan, p)
           ms == Append(msgs, m)
           st2 == [i \in 0..n + 1 |-> IF i = n + 1 THEN After(to, m) ELSE st[i]]
<1>2. n \in Nat /\ Len(msgs) = off + n /\ m \in Seq(Byte)
  BY MessageType DEF Carries
<1>3. Len(c) = n + 1 /\ c[n + 1] = p /\ \A i \in 1..n : c[i] = chan[i]
  OBVIOUS
<1>4. Len(ms) = off + (n + 1) /\ ms[off + (n + 1)] = m /\ \A i \in 1..n : ms[off + i] = msgs[off + i]
  <2>1. Len(ms) = Len(msgs) + 1 /\ ms[Len(msgs) + 1] = m /\ \A i \in 1..Len(msgs) : ms[i] = msgs[i]
    OBVIOUS
  <2>2. \A i \in 1..n : off + i \in 1..Len(msgs)
    BY <1>2
  <2>3. off + (n + 1) = Len(msgs) + 1
    BY <1>2
  <2> HIDE DEF ms, n
  <2> QED BY <2>1, <2>2, <2>3
<1>5. After(to, m) \in LaneType
  BY <1>2, SealedType
<1>6. /\ st \in [0..n -> LaneType] /\ st[0] = from /\ st[n] = to
      /\ \A i \in 1..n : /\ st[i] = After(st[i - 1], msgs[off + i])
                         /\ chan[i] = PacketOf(st[i - 1], msgs[off + i], first /\ i = 1)
  BY <1>1 DEF Lanes
<1>7. chan = <<>> <=> n = 0
  BY EmptySeq
<1> HIDE DEF n, c, ms
<1>8. st2 \in [0..n + 1 -> LaneType] /\ st2[0] = from /\ st2[n + 1] = After(to, m)
  BY <1>2, <1>5, <1>6
<1>9. \A i \in 0..n : st2[i] = st[i]
  BY <1>2
<1> HIDE DEF st2
<1>10. ASSUME NEW i \in 1..n + 1
       PROVE  /\ st2[i] = After(st2[i - 1], ms[off + i])
              /\ c[i] = PacketOf(st2[i - 1], ms[off + i], first /\ i = 1)
  <2>1. CASE i = n + 1
    <3>1. i - 1 = n /\ n \in 0..n /\ (i = 1 <=> n = 0)
      BY <1>2, <2>1
    <3>2. st2[i - 1] = to /\ ms[off + i] = m /\ c[i] = p /\ st2[i] = After(to, m)
      BY <1>3, <1>4, <1>6, <1>8, <1>9, <2>1, <3>1
    <3>3. (first /\ chan = <<>>) = (first /\ i = 1)
      BY <1>7, <3>1
    <3> QED BY <3>2, <3>3
  <2>2. CASE i # n + 1
    <3>1. i \in 1..n /\ i \in 0..n /\ i - 1 \in 0..n
      BY <1>2, <2>2
    <3> QED BY <1>3, <1>4, <1>6, <1>9, <3>1
  <2> QED BY <2>1, <2>2
<1>11. Lanes(st2, c, ms, off, from, After(to, m), first)
  BY <1>3, <1>8, <1>10 DEF Lanes
<1> QED BY <1>3, <1>4, <1>11 DEF Carries, c, ms

LEMMA CarriesNext ==
  ASSUME NEW chan \in Seq(Packet), NEW msgs \in Seq(Messages), NEW off \in Nat,
         NEW from \in LaneType, NEW to \in LaneType, NEW first \in BOOLEAN,
         Carries(chan, msgs, off, from, to, first), chan # <<>>
  PROVE  /\ off + 1 \in 1..Len(msgs)
         /\ Head(chan) = PacketOf(from, msgs[off + 1], first)
         /\ Carries(Tail(chan), msgs, off + 1, After(from, msgs[off + 1]), to, FALSE)
<1>1. PICK st : Lanes(st, chan, msgs, off, from, to, first)
  BY DEF Carries
<1> DEFINE n == Len(chan)
           c == Tail(chan)
           st2 == [i \in 0..n - 1 |-> st[i + 1]]
<1>2. n \in Nat /\ n >= 1 /\ Len(msgs) = off + n
  BY EmptySeq DEF Carries
<1>3. Head(chan) = chan[1] /\ Len(c) = n - 1 /\ \A i \in 1..n - 1 : c[i] = chan[i + 1]
  BY <1>2
<1>4. /\ st \in [0..n -> LaneType] /\ st[0] = from /\ st[n] = to
      /\ \A i \in 1..n : /\ st[i] = After(st[i - 1], msgs[off + i])
                         /\ chan[i] = PacketOf(st[i - 1], msgs[off + i], first /\ i = 1)
  BY <1>1 DEF Lanes
<1> HIDE DEF n, c
<1>5. 1 \in 1..n /\ 1 - 1 = 0
  BY <1>2
<1>6. st[1] = After(from, msgs[off + 1]) /\ chan[1] = PacketOf(from, msgs[off + 1], first /\ 1 = 1)
  BY <1>4, <1>5
<1>7. (first /\ 1 = 1) = first
  OBVIOUS
<1>8. \A i \in 0..n - 1 : i + 1 \in 0..n /\ st2[i] = st[i + 1]
  BY <1>2
<1>9. st2 \in [0..n - 1 -> LaneType]
  BY <1>2, <1>4
<1>10. st2[0] = After(from, msgs[off + 1]) /\ st2[n - 1] = to
  <2>1. 0 \in 0..n - 1 /\ n - 1 \in 0..n - 1 /\ (n - 1) + 1 = n /\ 0 + 1 = 1
    BY <1>2
  <2> QED BY <1>4, <1>6, <1>8, <2>1
<1> HIDE DEF st2
<1>11. ASSUME NEW i \in 1..n - 1
       PROVE  /\ st2[i] = After(st2[i - 1], msgs[(off + 1) + i])
              /\ c[i] = PacketOf(st2[i - 1], msgs[(off + 1) + i], FALSE /\ i = 1)
  <2>1. /\ i + 1 \in 1..n /\ i \in 0..n - 1 /\ i - 1 \in 0..n - 1 /\ (i - 1) + 1 = i
        /\ (i + 1) - 1 = i /\ off + (i + 1) = (off + 1) + i /\ i + 1 # 1
    BY <1>2
  <2>2. /\ st[i + 1] = After(st[i], msgs[(off + 1) + i])
        /\ chan[i + 1] = PacketOf(st[i], msgs[(off + 1) + i], first /\ i + 1 = 1)
    BY <1>4, <2>1
  <2>3. (first /\ i + 1 = 1) = (FALSE /\ i = 1)
    BY <2>1
  <2>4. st2[i] = st[i + 1] /\ st2[i - 1] = st[i] /\ c[i] = chan[i + 1]
    BY <1>3, <1>8, <2>1
  <2> QED BY <2>2, <2>3, <2>4
<1>12. Lanes(st2, c, msgs, off + 1, After(from, msgs[off + 1]), to, FALSE)
  BY <1>3, <1>9, <1>10, <1>11 DEF Lanes
<1>13. Len(msgs) = (off + 1) + Len(c)
  BY <1>2, <1>3
<1>14. Carries(c, msgs, off + 1, After(from, msgs[off + 1]), to, FALSE)
  BY <1>12, <1>13 DEF Carries
<1>15. off + 1 \in 1..Len(msgs)
  BY <1>2
<1> QED BY <1>3, <1>6, <1>7, <1>14, <1>15 DEF c

-----------------------------------------------------------------------------
(* The coders of the two sides.                                            *)

LEMMA InsertKeyType ==
  ASSUME NEW lane \in LaneType, NEW m \in Messages
  PROVE  LET p == InsertKey(Sealed(lane, m), lane.key)
         IN  /\ p \in Packet
             /\ p.check = CheckCode(m)
             /\ p.size = 8 + Len(m)
             /\ Len(p.data) = 4 + Len(m)
             /\ SubSeq(p.data, 5, 8) = lane.key
             /\ SubSeq(p.data, 1, 4) \o SubSeq(p.data, 9, Len(p.data)) = Buffer(lane, m).data
<1> DEFINE s == Sealed(lane, m)
           d == s.data
           x == SubSeq(d, 1, 4) \o lane.key \o SubSeq(d, 5, Len(d))
<1>1. m \in Seq(Byte) /\ Len(m) >= 4 /\ lane.key \in DWord
  BY MessageType DEF LaneType
<1>2. /\ s \in Packet /\ s.check = CheckCode(m) /\ s.size = 4 + Len(m)
      /\ d = Buffer(lane, m).data /\ d \in Seq(Byte) /\ Len(d) = Len(m)
  BY <1>1, SealedType
<1> HIDE DEF s
<1>3. /\ x \in Seq(Byte) /\ Len(x) = Len(d) + 4
      /\ SubSeq(x, 5, 8) = lane.key
      /\ SubSeq(x, 1, 4) \o SubSeq(x, 9, Len(x)) = d
  BY <1>1, <1>2, KeyInAndOut
<1>4. InsertKey(s, lane.key) = [s EXCEPT !.size = s.size + 4, !.data = x]
  BY Zenon DEF InsertKey
<1> HIDE DEF x, d
<1>5. s.size + 4 = 8 + Len(m) /\ 8 + Len(m) \in Nat /\ Len(m) + 4 = 4 + Len(m)
  BY <1>1, <1>2
<1>6. LET p == [s EXCEPT !.size = s.size + 4, !.data = x]
      IN  p \in Packet /\ p.check = CheckCode(m) /\ p.size = 8 + Len(m) /\ p.data = x
  BY <1>2, <1>3, <1>5 DEF Packet
<1>7. InsertKey(s, lane.key) \in Packet /\ InsertKey(s, lane.key).check = CheckCode(m)
      /\ InsertKey(s, lane.key).size = 8 + Len(m) /\ InsertKey(s, lane.key).data = x
  BY <1>4, <1>6
<1> QED BY <1>2, <1>3, <1>5, <1>7 DEF s

LEMMA PacketOfType ==
  ASSUME NEW lane \in LaneType, NEW m \in Messages, NEW first \in BOOLEAN
  PROVE  PacketOf(lane, m, first) \in Packet
BY InsertKeyType, SealedType, MessageType DEF PacketOf

\* Client and server have nothing yet.
LEMMA NewCoderType ==
  /\ NewCoder \in CoderType /\ NewCoder.sendCount = 0 /\ NewCoder.recvCount = 0
  /\ NewCoder.sendRound = 0 /\ NewCoder.recvRound = 0 /\ 0 \in Byte
<1>1. 0 \in Byte
  BY DEF Byte
<1>2. NoKey \in DWord
  BY PacketKeyType
<1> QED BY <1>1, <1>2 DEF NewCoder, CoderType

\* What is sent in the clear is a packet too.
LEMMA PlainType ==
  ASSUME NEW m \in Messages, NEW plain \in PlainPackets(m)
  PROVE  plain \in Packet
<1>1. m \in Seq(Byte) /\ 0 \in Byte /\ CheckCode(m) \in Byte
  BY MessageType, NewCoderType, CheckCodeFits
<1>2. 12 + Len(m) \in Nat /\ 4 + Len(m) \in Nat
  BY <1>1
<1> QED BY <1>1, <1>2 DEF PlainPackets, Made, SentBack, Packet

LEMMA ClientEncryptIs ==
  ASSUME NEW c \in CoderType, NEW m \in Messages, ~TooLong(m), NEW random \in Randoms,
         NEW plain, NEW e, e = ClientEncrypt(c, m, plain, random),
         NEW from, from = IF c.sendCount > 0 THEN SendLane(c)
                          ELSE [round |-> c.sendRound, key |-> FirstKey(random)]
  PROVE  /\ from \in LaneType
         /\ e.coder \in CoderType
         /\ e.packet \in Packet
         /\ e.packet = PacketOf(from, m, ~(c.sendCount > 0))
         /\ SendLane(e.coder) = After(from, m)
         /\ e.coder.sendCount = c.sendCount + 1
         /\ e.coder.recvRound = c.recvRound
         /\ e.coder.recvCount = c.recvCount
         /\ c.sendCount > 0 => RecvLane(e.coder) = RecvLane(c)
         /\ ~(c.sendCount > 0) => e.coder.recvKey = FirstKey(random)
<1> DEFINE key == FirstKey(random)
           d == [c EXCEPT !.sendKey = key, !.recvKey = key]
<1>1. m \in Seq(Byte) /\ key \in DWord
  BY MessageType, FirstKeyType
<1>2. CASE c.sendCount > 0
  <2>1. ClientEncrypt(c, m, plain, random) = Encipher(c, m)
    BY <1>2 DEF ClientEncrypt
  <2>2. SendLane(c) \in LaneType
    BY LaneOfCoder
  <2>3. Sealed(SendLane(c), m) \in Packet
    BY <1>1, <2>2, SealedType
  <2> DEFINE en == Encipher(c, m)
  <2>4. /\ en.packet = Sealed(SendLane(c), m)
        /\ en.coder \in CoderType
        /\ SendLane(en.coder) = After(SendLane(c), m)
        /\ RecvLane(en.coder) = RecvLane(c)
        /\ en.coder.sendCount = c.sendCount + 1
        /\ en.coder.recvCount = c.recvCount
    BY <1>1, EncipherIs
  <2> HIDE DEF en
  <2>5. en.coder.recvRound = c.recvRound
    BY <2>4 DEF RecvLane
  <2>6. PacketOf(SendLane(c), m, ~(c.sendCount > 0)) = Sealed(SendLane(c), m)
    BY <1>2 DEF PacketOf
  <2> QED BY <1>2, <2>1, <2>2, <2>3, <2>4, <2>5, <2>6 DEF en
<1>3. CASE ~(c.sendCount > 0)
  <2> HIDE DEF key
  <2>1. /\ d \in CoderType /\ d.sendRound = c.sendRound /\ d.sendKey = key /\ d.recvKey = key
        /\ d.recvRound = c.recvRound /\ d.sendCount = c.sendCount /\ d.recvCount = c.recvCount
    BY <1>1 DEF CoderType
  <2> DEFINE en == Encipher(d, m)
             lane == [round |-> c.sendRound, key |-> key]
  <2>2. ClientEncrypt(c, m, plain, random) = [en EXCEPT !.packet = InsertKey(en.packet, key)]
    BY <1>3, Zenon DEF ClientEncrypt, key
  <2> HIDE DEF d
  <2>3. SendLane(d) = lane /\ lane \in LaneType /\ lane.key = key
    BY <2>1, LaneOfCoder DEF SendLane
  <2>4. /\ en = [packet |-> en.packet, coder |-> en.coder]
        /\ en.packet = Sealed(lane, m)
        /\ en.coder \in CoderType
        /\ SendLane(en.coder) = After(lane, m)
        /\ RecvLane(en.coder) = RecvLane(d)
        /\ en.coder.sendCount = c.sendCount + 1
        /\ en.coder.recvCount = c.recvCount
    BY <1>1, <2>1, <2>3, EncipherIs
  <2> HIDE DEF en, lane
  <2>5. en.coder.recvRound = c.recvRound /\ en.coder.recvKey = key
    BY <2>1, <2>4 DEF RecvLane
  <2>6. InsertKey(en.packet, key) = PacketOf(lane, m, TRUE) /\ PacketOf(lane, m, TRUE) \in Packet
    BY <2>3, <2>4, PacketOfType DEF PacketOf
  <2>7. [en EXCEPT !.packet = InsertKey(en.packet, key)] = [packet |-> PacketOf(lane, m, TRUE), coder |-> en.coder]
    <3>1. PICK x, y : en = [packet |-> x, coder |-> y]
      BY <2>4
    <3>2. en.coder = y
      BY <3>1
    <3> DEFINE z == InsertKey(en.packet, key)
    <3>3. z = PacketOf(lane, m, TRUE)
      BY <2>6
    <3> HIDE DEF z
    <3>4. [en EXCEPT !.packet = z] = [packet |-> z, coder |-> y]
      BY <3>1
    <3> QED BY <3>2, <3>3, <3>4 DEF z
  <2>8. (~(c.sendCount > 0)) = TRUE
    BY <1>3
  <2> QED BY <1>3, <2>2, <2>3, <2>4, <2>5, <2>6, <2>7, <2>8 DEF lane, key
<1> QED BY <1>2, <1>3

\* Decrypt of both sides on any packet.
LEMMA ClientDecryptType ==
  ASSUME NEW c \in CoderType, NEW p \in Packet, NEW r, r = ClientDecrypt(c, p)
  PROVE  /\ r.ok \in BOOLEAN /\ r.data \in Seq(Byte) /\ r.coder \in CoderType
         /\ SendLane(r.coder) = SendLane(c)
         /\ r.coder.sendCount = c.sendCount
         /\ c.sendCount = 0 => r.coder = c
<1>1. CASE c.sendCount > 0 /\ WellSized(p)
  <2>1. ClientDecrypt(c, p) = Decipher(c, p) /\ c.sendCount # 0
    BY <1>1 DEF ClientDecrypt
  <2> QED BY <2>1, DecipherType
<1>2. CASE ~(c.sendCount > 0 /\ WellSized(p))
  <2>1. ClientDecrypt(c, p) = [ok |-> FALSE, data |-> <<>>, coder |-> c]
    BY <1>2 DEF ClientDecrypt, Refused
  <2> QED BY <2>1
<1> QED BY <1>1, <1>2

\* The coder and the packet from which ServerDecrypt deciphers the first packet.
WithoutKey(p) ==
  [p EXCEPT !.size = p.size - 4,
            !.data = SubSeq(p.data, 1, 4) \o SubSeq(p.data, 9, Len(p.data))]

LEMMA WithKey ==
  ASSUME NEW c \in CoderType, NEW p \in Packet, WellSized(p), ~(p.size < 12)
  PROVE  /\ SubSeq(p.data, 5, 8) \in DWord
         /\ TakeKey(c, SubSeq(p.data, 5, 8)) \in CoderType
         /\ TakeKey(c, SubSeq(p.data, 5, 8)).sendKey = SubSeq(p.data, 5, 8)
         /\ TakeKey(c, SubSeq(p.data, 5, 8)).recvKey = SubSeq(p.data, 5, 8)
         /\ TakeKey(c, SubSeq(p.data, 5, 8)).sendRound = c.sendRound
         /\ TakeKey(c, SubSeq(p.data, 5, 8)).recvRound = c.recvRound
         /\ TakeKey(c, SubSeq(p.data, 5, 8)).sendCount = c.sendCount
         /\ TakeKey(c, SubSeq(p.data, 5, 8)).recvCount = c.recvCount
         /\ WithoutKey(p) \in Packet
         /\ WithoutKey(p).check = p.check
         /\ WithoutKey(p).data = SubSeq(p.data, 1, 4) \o SubSeq(p.data, 9, Len(p.data))
<1> DEFINE d == p.data
           key == SubSeq(d, 5, 8)
           rest == SubSeq(d, 1, 4) \o SubSeq(d, 9, Len(d))
<1>1. d \in Seq(Byte) /\ p.check \in Byte /\ p.size \in Nat
  BY DEF Packet
<1>2. Len(d) >= 8 /\ p.size - 4 \in Nat /\ Len(d) \in Nat
  BY <1>1 DEF WellSized
<1> HIDE DEF d
<1>3. key \in Seq(Byte) /\ Len(key) = 4
  <2>1. 5 \in 1..Len(d) + 1 /\ 8 \in 5 - 1..Len(d) /\ 8 - 5 + 1 = 4
    BY <1>2
  <2> QED BY <1>1, <2>1, Part
<1>4. SubSeq(d, 1, 4) \in Seq(Byte)
  <2>1. 1 \in 1..Len(d) + 1 /\ 4 \in 1 - 1..Len(d)
    BY <1>2
  <2> QED BY <1>1, <2>1, Part
<1>5. SubSeq(d, 9, Len(d)) \in Seq(Byte)
  <2>1. 9 \in 1..Len(d) + 1 /\ Len(d) \in 9 - 1..Len(d)
    BY <1>2
  <2> QED BY <1>1, <2>1, Part
<1>6. rest \in Seq(Byte)
  BY <1>4, <1>5, ConcatProperties
<1> HIDE DEF key, rest
<1>7. key \in DWord
  BY <1>3, LenProperties, Zenon DEF DWord
<1>8. /\ TakeKey(c, key) \in CoderType
      /\ TakeKey(c, key).sendKey = key
      /\ TakeKey(c, key).recvKey = key
      /\ TakeKey(c, key).sendRound = c.sendRound
      /\ TakeKey(c, key).recvRound = c.recvRound
      /\ TakeKey(c, key).sendCount = c.sendCount
      /\ TakeKey(c, key).recvCount = c.recvCount
  BY <1>7 DEF TakeKey, CoderType
<1>9. WithoutKey(p) = [p EXCEPT !.size = p.size - 4, !.data = rest]
  BY DEF WithoutKey, d, rest
<1>10. WithoutKey(p) \in Packet /\ WithoutKey(p).check = p.check /\ WithoutKey(p).data = rest
  BY <1>2, <1>6, <1>9 DEF Packet
<1> QED BY <1>7, <1>8, <1>10 DEF d, key, rest

LEMMA ServerDecryptFirst ==
  ASSUME NEW c \in CoderType, NEW p \in Packet, WellSized(p), ~(p.size < 12), ~(c.recvCount > 0)
  PROVE  ServerDecrypt(c, p) = Decipher(TakeKey(c, SubSeq(p.data, 5, 8)), WithoutKey(p))
BY Zenon DEF ServerDecrypt, WithoutKey

LEMMA ServerDecryptType ==
  ASSUME NEW c \in CoderType, NEW p \in Packet, NEW r, r = ServerDecrypt(c, p)
  PROVE  /\ r.ok \in BOOLEAN /\ r.data \in Seq(Byte) /\ r.coder \in CoderType
         /\ r.coder.sendCount = c.sendCount
         /\ c.recvCount > 0 => r.coder.sendKey = c.sendKey /\ r.coder.recvCount > 0
<1>1. CASE ~WellSized(p) \/ (~(c.recvCount > 0) /\ p.size < 12)
  <2>1. ServerDecrypt(c, p) = [ok |-> FALSE, data |-> <<>>, coder |-> c]
    BY <1>1 DEF ServerDecrypt, Refused
  <2> QED BY <2>1
<1>2. CASE WellSized(p) /\ c.recvCount > 0
  <2>1. ServerDecrypt(c, p) = Decipher(c, p)
    BY <1>2 DEF ServerDecrypt
  <2>2. c.recvCount + 1 > 0
    BY DEF CoderType
  <2> QED BY <1>2, <2>1, <2>2, DecipherType
<1>3. CASE WellSized(p) /\ ~(c.recvCount > 0) /\ ~(p.size < 12)
  <2> DEFINE d == TakeKey(c, SubSeq(p.data, 5, 8))
             q == WithoutKey(p)
  <2>1. ServerDecrypt(c, p) = Decipher(d, q)
    BY <1>3, ServerDecryptFirst
  <2>2. d \in CoderType /\ q \in Packet /\ d.sendCount = c.sendCount
    BY <1>3, WithKey
  <2> HIDE DEF d, q
  <2> QED BY <1>3, <2>1, <2>2, DecipherType
<1> QED BY <1>1, <1>2, <1>3

\* A packet that was sealed on the lane of its receiver is understood.
LEMMA DecipherOwn ==
  ASSUME NEW c \in CoderType, NEW m \in Messages, NEW p, p = Sealed(RecvLane(c), m)
  PROVE  /\ WellSized(p)
         /\ Decipher(c, p).ok = TRUE
         /\ Decipher(c, p).data = m
         /\ RecvLane(Decipher(c, p).coder) = After(RecvLane(c), m)
         /\ Decipher(c, p).coder.recvCount = c.recvCount + 1
         /\ SendLane(Decipher(c, p).coder) = SendLane(c)
<1>1. m \in Seq(Byte) /\ Len(m) >= 4 /\ RecvLane(c) \in LaneType
  BY MessageType, LaneOfCoder
<1>2. p \in Packet /\ p.check = CheckCode(m) /\ p.size = 4 + Len(m)
      /\ p.data = Buffer(RecvLane(c), m).data /\ Len(p.data) = Len(m)
  BY <1>1, SealedType
<1>3. WellSized(p)
  BY <1>1, <1>2 DEF WellSized
<1>4. /\ Decipher(c, p).ok = TRUE
      /\ Decipher(c, p).data = m
      /\ RecvLane(Decipher(c, p).coder) = After(RecvLane(c), m)
      /\ Decipher(c, p).coder.recvCount = c.recvCount + 1
  BY <1>1, <1>2, DecipherSealed
<1>5. SendLane(Decipher(c, p).coder) = SendLane(c)
  BY <1>2, DecipherType
<1> QED BY <1>3, <1>4, <1>5

LEMMA ClientDecryptSealed ==
  ASSUME NEW c \in CoderType, NEW m \in Messages, c.sendCount > 0, NEW p, p = Sealed(RecvLane(c), m)
  PROVE  /\ ClientDecrypt(c, p).ok = TRUE
         /\ ClientDecrypt(c, p).data = m
         /\ RecvLane(ClientDecrypt(c, p).coder) = After(RecvLane(c), m)
<1>1. /\ WellSized(p)
      /\ Decipher(c, p).ok = TRUE
      /\ Decipher(c, p).data = m
      /\ RecvLane(Decipher(c, p).coder) = After(RecvLane(c), m)
      /\ Decipher(c, p).coder.recvCount = c.recvCount + 1
      /\ SendLane(Decipher(c, p).coder) = SendLane(c)
  BY DecipherOwn, Zenon
<1>2. ClientDecrypt(c, p) = Decipher(c, p)
  BY <1>1 DEF ClientDecrypt
<1> QED BY <1>1, <1>2

LEMMA ServerDecryptSealed ==
  ASSUME NEW c \in CoderType, NEW m \in Messages, c.recvCount > 0, NEW p, p = Sealed(RecvLane(c), m)
  PROVE  /\ ServerDecrypt(c, p).ok = TRUE
         /\ ServerDecrypt(c, p).data = m
         /\ RecvLane(ServerDecrypt(c, p).coder) = After(RecvLane(c), m)
         /\ ServerDecrypt(c, p).coder.recvCount = c.recvCount + 1
         /\ SendLane(ServerDecrypt(c, p).coder) = SendLane(c)
<1>1. /\ WellSized(p)
      /\ Decipher(c, p).ok = TRUE
      /\ Decipher(c, p).data = m
      /\ RecvLane(Decipher(c, p).coder) = After(RecvLane(c), m)
      /\ Decipher(c, p).coder.recvCount = c.recvCount + 1
      /\ SendLane(Decipher(c, p).coder) = SendLane(c)
  BY DecipherOwn, ZenonT(60)
<1>2. ServerDecrypt(c, p) = Decipher(c, p)
  BY <1>1 DEF ServerDecrypt
<1> QED BY <1>1, <1>2

LEMMA ServerDecryptKeyed ==
  ASSUME NEW lane \in LaneType, lane.round = 0, NEW m \in Messages,
         NEW r, r = ServerDecrypt(NewCoder, PacketOf(lane, m, TRUE))
  PROVE  /\ r.ok = TRUE /\ r.data = m /\ RecvLane(r.coder) = After(lane, m)
         /\ r.coder.recvCount = 1
         /\ SendLane(r.coder) = lane
         /\ r.coder.sendKey = lane.key
<1> DEFINE p == PacketOf(lane, m, TRUE)
           c == TakeKey(NewCoder, SubSeq(p.data, 5, 8))
           q == WithoutKey(p)
<1>1. m \in Seq(Byte) /\ Len(m) >= 4 /\ lane = [round |-> 0, key |-> lane.key]
  BY MessageType DEF LaneType
<1>2. /\ p \in Packet
      /\ p.check = CheckCode(m)
      /\ p.size = 8 + Len(m)
      /\ Len(p.data) = 4 + Len(m)
      /\ SubSeq(p.data, 5, 8) = lane.key
      /\ SubSeq(p.data, 1, 4) \o SubSeq(p.data, 9, Len(p.data)) = Buffer(lane, m).data
  BY InsertKeyType DEF PacketOf
<1> HIDE DEF p
<1>3. WellSized(p) /\ ~(p.size < 12)
  BY <1>1, <1>2 DEF WellSized
<1>4. ServerDecrypt(NewCoder, p) = Decipher(c, q)
  BY <1>2, <1>3, NewCoderType, ServerDecryptFirst
<1>5. /\ c \in CoderType /\ c.sendKey = lane.key /\ c.recvKey = lane.key
      /\ c.sendRound = 0 /\ c.recvRound = 0 /\ c.recvCount = 0
      /\ q \in Packet /\ q.check = CheckCode(m) /\ q.data = Buffer(lane, m).data
  BY <1>2, <1>3, NewCoderType, WithKey, ZenonT(60)
<1> HIDE DEF c, q
<1>6. RecvLane(c) = lane /\ SendLane(c) = lane
  BY <1>1, <1>5 DEF RecvLane, SendLane
<1> DEFINE d == Decipher(c, q)
<1>7. /\ d.ok = TRUE /\ d.data = m /\ RecvLane(d.coder) = After(RecvLane(c), m)
      /\ d.coder.recvCount = c.recvCount + 1
  <2>1. q.check = CheckCode(m) /\ q.data = Buffer(RecvLane(c), m).data
    BY <1>5, <1>6
  <2> QED BY <1>1, <1>5, <2>1, DecipherSealed
<1>8. SendLane(d.coder) = SendLane(c) /\ d.coder.sendKey = c.sendKey
  BY <1>5, DecipherType
<1> HIDE DEF d
<1>9. ServerDecrypt(NewCoder, p) = d
  BY <1>4 DEF d
<1>10. c.recvCount + 1 = 1
  BY <1>5
<1> QED BY <1>5, <1>6, <1>7, <1>8, <1>9, <1>10 DEF p

-----------------------------------------------------------------------------
(* Types.                                                                  *)

LEMMA Indexes == "up" \in Directions /\ "down" \in Directions /\ "up" # "down"
BY DEF Directions

LEMMA InitType == Init => TypeOK
<1> SUFFICES ASSUME Init PROVE TypeOK
  OBVIOUS
<1>1. cc \in CoderType /\ sc \in CoderType
  BY NewCoderType DEF Init
<1>2. sent \in [Directions -> Seq(Messages)] /\ got \in [Directions -> Seq(Seq(Byte))]
  BY DEF Init, NothingYet
<1>3. connects \in 1..MaxConnects
  BY BoundsAssumption DEF Init
<1>4. up \in Seq(Packet) /\ down \in Seq(Packet)
  BY DEF Init
<1>5. conn \in BOOLEAN /\ lost \in BOOLEAN /\ garbled \in BOOLEAN /\ fresh \in BOOLEAN
  BY DEF Init
<1> QED BY <1>1, <1>2, <1>3, <1>4, <1>5, Zenon DEF TypeOK

\* What Write does to the packets on their way and to what was sent.
LEMMA WriteType ==
  ASSUME TypeOK, NEW d \in Directions, NEW chan \in Seq(Packet), NEW chan2,
         NEW m \in Messages, NEW p \in Packet,
         \/ /\ chan2 = Append(chan, p)
            /\ sent' = [sent EXCEPT ![d] = Append(sent[d], m)]
            /\ UNCHANGED lost
         \/ /\ lost' = TRUE
            /\ chan2 = chan
            /\ UNCHANGED sent
  PROVE  chan2 \in Seq(Packet) /\ sent' \in [Directions -> Seq(Messages)] /\ lost' \in BOOLEAN
<1>1. sent \in [Directions -> Seq(Messages)] /\ lost \in BOOLEAN
  BY DEF TypeOK
<1>2. Append(sent[d], m) \in Seq(Messages) /\ Append(chan, p) \in Seq(Packet)
  BY <1>1
<1> QED BY <1>1, <1>2

LEMMA TakeType ==
  ASSUME TypeOK, NEW d \in Directions, NEW r, r.data \in Seq(Byte), Take(d, r)
  PROVE  conn' \in BOOLEAN /\ garbled' \in BOOLEAN /\ got' \in [Directions -> Seq(Seq(Byte))]
<1>1. got \in [Directions -> Seq(Seq(Byte))] /\ conn \in BOOLEAN /\ garbled \in BOOLEAN
  BY DEF TypeOK
<1>2. Append(got[d], r.data) \in Seq(Seq(Byte))
  BY <1>1
<1>3. CASE r.ok
  <2>1. got' = [got EXCEPT ![d] = Append(got[d], r.data)] /\ UNCHANGED <<conn, garbled>>
    BY <1>3, Zenon DEF Take
  <2> QED BY <1>1, <1>2, <2>1
<1>4. CASE ~r.ok
  <2>1. conn' = FALSE /\ garbled' = TRUE /\ UNCHANGED got
    BY <1>4, Zenon DEF Take
  <2> QED BY <1>1, <2>1
<1> QED BY <1>3, <1>4

LEMMA NextType == TypeOK /\ [Next]_vars => TypeOK'
<1> SUFFICES ASSUME TypeOK, [Next]_vars PROVE TypeOK'
  OBVIOUS
<1> USE DEF TypeOK
<1>1. ASSUME NEW m \in Messages, ClientSends(m) PROVE TypeOK'
  <2>1. PICK random \in Randoms, plain \in PlainPackets(m) :
          LET e == ClientEncrypt(cc, m, plain, random)
          IN  cc' = e.coder /\ Write("up", up, m, e.packet)
    BY <1>1 DEF ClientSends
  <2> DEFINE e == ClientEncrypt(cc, m, plain, random)
  <2>2. e.coder \in CoderType /\ e.packet \in Packet
    <3>1. CASE TooLong(m)
      <4>1. e = [packet |-> plain, coder |-> cc]
        BY <3>1, Zenon DEF ClientEncrypt
      <4> HIDE DEF e
      <4> QED BY <4>1, PlainType
    <3>2. CASE ~TooLong(m)
      BY <3>2, ClientEncryptIs, Zenon
    <3> QED BY <3>1, <3>2
  <2>3. cc' = e.coder /\ Write("up", up, m, e.packet)
    BY <2>1
  <2> HIDE DEF e
  <2>4. up' \in Seq(Packet) /\ sent' \in [Directions -> Seq(Messages)] /\ lost' \in BOOLEAN
    <3>1. \/ /\ up' = Append(up, e.packet)
             /\ sent' = [sent EXCEPT !["up"] = Append(sent["up"], m)]
             /\ UNCHANGED lost
          \/ /\ lost' = TRUE
             /\ up' = up
             /\ UNCHANGED sent
      BY <2>3 DEF Write
    <3> HIDE DEF TypeOK
    <3>2. up \in Seq(Packet)
      BY DEF TypeOK
    <3> QED BY <2>2, <3>1, <3>2, Indexes, WriteType
  <2> QED BY <1>1, <2>2, <2>3, <2>4 DEF ClientSends
<1>2. ASSUME NEW m \in Messages, ServerSends(m) PROVE TypeOK'
  <2>0. PICK plain \in PlainPackets(m) :
          LET e == ServerEncrypt(sc, m, plain)
          IN  sc' = e.coder /\ Write("down", down, m, e.packet)
    BY <1>2 DEF ServerSends
  <2> DEFINE e == ServerEncrypt(sc, m, plain)
  <2>1. sc' = e.coder /\ Write("down", down, m, e.packet)
    BY <2>0
  <2>2. e.coder \in CoderType /\ e.packet \in Packet
    <3>1. m \in Seq(Byte)
      BY MessageType
    <3>2. CASE InTheClear(sc, m)
      <4>1. e = [packet |-> plain, coder |-> sc]
        BY <3>2 DEF ServerEncrypt
      <4> HIDE DEF e
      <4> QED BY <4>1, PlainType
    <3>3. CASE ~InTheClear(sc, m)
      <4>1. e = Encipher(sc, m)
        BY <3>3 DEF ServerEncrypt
      <4>2. SendLane(sc) \in LaneType
        BY LaneOfCoder
      <4>3. Encipher(sc, m).coder \in CoderType /\ Encipher(sc, m).packet = Sealed(SendLane(sc), m)
        BY <3>1, EncipherIs
      <4>4. Sealed(SendLane(sc), m) \in Packet
        BY <3>1, <4>2, SealedType
      <4> QED BY <4>1, <4>3, <4>4
    <3> QED BY <3>2, <3>3
  <2> HIDE DEF e
  <2>3. down' \in Seq(Packet) /\ sent' \in [Directions -> Seq(Messages)] /\ lost' \in BOOLEAN
    <3>1. \/ /\ down' = Append(down, e.packet)
             /\ sent' = [sent EXCEPT !["down"] = Append(sent["down"], m)]
             /\ UNCHANGED lost
          \/ /\ lost' = TRUE
             /\ down' = down
             /\ UNCHANGED sent
      BY <2>1 DEF Write
    <3> HIDE DEF TypeOK
    <3>2. down \in Seq(Packet)
      BY DEF TypeOK
    <3> QED BY <2>2, <3>1, <3>2, Indexes, WriteType
  <2> QED BY <1>2, <2>1, <2>2, <2>3 DEF ServerSends
<1>3. CASE ServerReceives
  <2> DEFINE r == ServerDecrypt(sc, Head(up))
  <2>1. sc' = r.coder /\ Take("up", r) /\ up # <<>> /\ up' = Tail(up)
    BY <1>3 DEF ServerReceives
  <2>2. Head(up) \in Packet /\ up' \in Seq(Packet)
    BY <2>1
  <2>3. r.data \in Seq(Byte) /\ r.coder \in CoderType
    BY <2>2, ServerDecryptType, Zenon
  <2> HIDE DEF r
  <2>4. conn' \in BOOLEAN /\ garbled' \in BOOLEAN /\ got' \in [Directions -> Seq(Seq(Byte))]
    BY <2>1, <2>3, Indexes, TakeType
  <2> QED BY <1>3, <2>1, <2>2, <2>3, <2>4 DEF ServerReceives
<1>4. CASE ClientReceives
  <2> DEFINE r == ClientDecrypt(cc, Head(down))
  <2>1. cc' = r.coder /\ Take("down", r) /\ down # <<>> /\ down' = Tail(down)
    BY <1>4 DEF ClientReceives
  <2>2. Head(down) \in Packet /\ down' \in Seq(Packet)
    BY <2>1
  <2>3. r.data \in Seq(Byte) /\ r.coder \in CoderType
    BY <2>2, ClientDecryptType, Zenon
  <2> HIDE DEF r
  <2>4. conn' \in BOOLEAN /\ garbled' \in BOOLEAN /\ got' \in [Directions -> Seq(Seq(Byte))]
    BY <2>1, <2>3, Indexes, TakeType
  <2> QED BY <1>4, <2>1, <2>2, <2>3, <2>4 DEF ClientReceives
<1>5. CASE Disconnect
  BY <1>5 DEF Disconnect
<1>6. CASE Reconnect
  <2>1. sent' \in [Directions -> Seq(Messages)] /\ got' \in [Directions -> Seq(Seq(Byte))]
    BY <1>6 DEF Reconnect, NothingYet
  <2>2. sc' \in CoderType /\ cc' \in CoderType
    BY <1>6, NewCoderType DEF Reconnect
  <2>3. connects' \in 1..MaxConnects
    BY <1>6, BoundsAssumption DEF Reconnect
  <2>4. up' \in Seq(Packet) /\ down' \in Seq(Packet)
    BY <1>6 DEF Reconnect
  <2>5. conn' \in BOOLEAN /\ lost' \in BOOLEAN /\ garbled' \in BOOLEAN /\ fresh' \in BOOLEAN
    BY <1>6 DEF Reconnect
  <2> QED BY <2>1, <2>2, <2>3, <2>4, <2>5, Zenon
<1>7. CASE UNCHANGED vars
  BY <1>7 DEF vars
<1> QED BY <1>1, <1>2, <1>3, <1>4, <1>5, <1>6, <1>7 DEF Next

\* The state has its type.
THEOREM TypeCorrect == Spec => []TypeOK
BY InitType, NextType, PTL DEF Spec

-----------------------------------------------------------------------------
(* The invariant.                                                          *)

\* A client that has enciphered nothing has a new coder; a server that has
\* enciphered something has received something and has a key, on any connection.
\* It has sent nothing before it received something, and has a key from then on
\* if the key came.
KeyInv ==
  /\ cc.sendCount = 0 => cc = NewCoder
  /\ sc.sendCount > 0 => sc.sendKey # NoKey /\ sc.recvCount > 0
  /\ sc.recvCount = 0 => sent["down"] = <<>>
  /\ KeyCame /\ sc.recvCount > 0 => sc.sendKey # NoKey

\* What was received is what was sent first.
PrefixInv(d) ==
  /\ Len(got[d]) <= Len(sent[d])
  /\ \A i \in 1..Len(got[d]) : got[d][i] = sent[d][i]

\* Before the client's first packet nothing happens.
QuietInv ==
  cc.sendCount = 0 =>
    up = <<>> /\ sent["up"] = <<>> /\ got["up"] = <<>> /\ sc.recvCount = 0

\* A server without key has a new coder and has sent nothing; the packet with
\* the key is on its way, if there is one.
KeylessInv ==
  sc.recvCount = 0 =>
    /\ sc = NewCoder
    /\ down = <<>> /\ sent["down"] = <<>> /\ got["down"] = <<>>
    /\ cc.sendCount > 0 => up # <<>> /\ cc.recvRound = 0 /\ cc.recvKey # NoKey

\* Until the server takes the key, the client's receiving lane is where its
\* sending lane began.
UpFrom == IF sc.recvCount = 0 THEN RecvLane(cc) ELSE RecvLane(sc)

UpInv ==
  cc.sendCount > 0 =>
    Carries(up, sent["up"], Len(got["up"]), UpFrom, SendLane(cc), sc.recvCount = 0)

DownInv ==
  sc.recvCount > 0 =>
    /\ sc.sendKey # NoKey
    /\ Carries(down, sent["down"], Len(got["down"]), RecvLane(cc), SendLane(sc), FALSE)

SoundInv ==
  /\ ~garbled
  /\ PrefixInv("up") /\ PrefixInv("down")
  /\ QuietInv /\ KeylessInv /\ UpInv /\ DownInv

SessionInv == TypeOK /\ KeyInv /\ (Sound => SoundInv)

LEMMA InitSession == Init => SessionInv
<1> SUFFICES ASSUME Init PROVE SessionInv
  OBVIOUS
<1>1. cc = NewCoder /\ sc = NewCoder /\ up = <<>> /\ down = <<>> /\ ~garbled
  BY DEF Init
<1>2. \A d \in Directions : sent[d] = <<>> /\ got[d] = <<>>
  BY DEF Init, NothingYet
<1>3. KeyInv
  BY <1>1, <1>2, Indexes, NewCoderType DEF KeyInv
<1>4. PrefixInv("up") /\ PrefixInv("down")
  BY <1>2, Indexes DEF PrefixInv
<1>5. QuietInv /\ KeylessInv /\ UpInv /\ DownInv
  BY <1>1, <1>2, Indexes, NewCoderType DEF QuietInv, KeylessInv, UpInv, DownInv
<1> QED BY <1>1, <1>3, <1>4, <1>5, InitType DEF SessionInv, SoundInv

\* What a write makes of the conditions on a connection: they do not come back.
LEMMA WriteHistory ==
  ASSUME TypeOK, NEW d \in Directions, NEW m \in Messages, UNCHANGED fresh,
         \/ sent' = [sent EXCEPT ![d] = Append(sent[d], m)] /\ UNCHANGED lost
         \/ lost' = TRUE /\ UNCHANGED sent
  PROVE  /\ KeyCame' => KeyCame
         /\ Sound' => Sound /\ ~TooLong(m) /\ sent' = [sent EXCEPT ![d] = Append(sent[d], m)]
<1>1. sent \in [Directions -> Seq(Messages)]
  BY DEF TypeOK
<1>2. ASSUME sent' = [sent EXCEPT ![d] = Append(sent[d], m)]
      PROVE  \A e \in Directions : Overlong(e) \/ (e = d /\ TooLong(m)) => Overlong(e)'
  <2> SUFFICES ASSUME NEW e \in Directions, Overlong(e) \/ (e = d /\ TooLong(m))
               PROVE  \E i \in DOMAIN sent'[e] : TooLong(sent'[e][i])
    BY DEF Overlong
  <2>1. PICK s \in Seq(Messages) : s = sent[e]
    BY <1>1
  <2>2. CASE Overlong(e)
    <3>1. PICK i \in DOMAIN s : TooLong(s[i])
      BY <2>1, <2>2 DEF Overlong
    <3>2. i \in DOMAIN Append(s, m) /\ Append(s, m)[i] = s[i]
      OBVIOUS
    <3>3. sent'[e] = s \/ sent'[e] = Append(s, m)
      BY <1>1, <1>2, <2>1
    <3> QED BY <3>1, <3>2, <3>3
  <2>3. CASE e = d /\ TooLong(m)
    <3>1. sent'[e] = Append(s, m)
      BY <1>1, <1>2, <2>1, <2>3
    <3>2. Len(s) + 1 \in DOMAIN Append(s, m) /\ Append(s, m)[Len(s) + 1] = m
      OBVIOUS
    <3> QED BY <2>3, <3>1, <3>2
  <2> QED BY <2>2, <2>3
<1>3. CASE sent' = [sent EXCEPT ![d] = Append(sent[d], m)] /\ UNCHANGED lost
  <2>1. \A e \in Directions : Overlong(e) \/ (e = d /\ TooLong(m)) => Overlong(e)'
    BY <1>2, <1>3
  <2>2. d = "up" \/ d = "down"
    BY DEF Directions
  <2> QED BY <1>3, <2>1, <2>2, Indexes DEF KeyCame, Sound
<1>4. CASE lost' = TRUE /\ UNCHANGED sent
  BY <1>4 DEF KeyCame, Sound
<1> QED BY <1>3, <1>4

\* The conditions stay as they are while nothing is written.
LEMMA SoundStays ==
  ASSUME UNCHANGED <<fresh, lost, sent>>
  PROVE  (KeyCame' <=> KeyCame) /\ (Sound' <=> Sound)
BY DEF KeyCame, Sound, Overlong

\* One more message is sent; what was received is still the first of it.
LEMMA PrefixSent ==
  ASSUME TypeOK, NEW d \in Directions, NEW e \in Directions, PrefixInv(e), NEW m \in Messages,
         sent' = [sent EXCEPT ![d] = Append(sent[d], m)], UNCHANGED got
  PROVE  PrefixInv(e)'
<1>1. sent \in [Directions -> Seq(Messages)] /\ got \in [Directions -> Seq(Seq(Byte))]
  BY DEF TypeOK
<1>2. PICK s \in Seq(Messages), g \in Seq(Seq(Byte)) : s = sent[e] /\ g = got[e]
  BY <1>1
<1>3. got'[e] = g /\ (sent'[e] = s \/ sent'[e] = Append(s, m))
  BY <1>1, <1>2
<1>4. Len(g) <= Len(s) /\ \A i \in 1..Len(g) : g[i] = s[i]
  BY <1>2 DEF PrefixInv
<1>5. Len(Append(s, m)) = Len(s) + 1 /\ \A i \in 1..Len(s) : Append(s, m)[i] = s[i]
  OBVIOUS
<1>6. \A i \in 1..Len(g) : i \in 1..Len(s)
  BY <1>4
<1>7. CASE sent'[e] = s
  BY <1>3, <1>4, <1>7 DEF PrefixInv
<1>8. CASE sent'[e] = Append(s, m)
  <2> DEFINE t == Append(s, m)
  <2>1. Len(g) <= Len(t) /\ \A i \in 1..Len(g) : g[i] = t[i]
    BY <1>4, <1>5, <1>6
  <2> HIDE DEF t
  <2>2. got'[e] = g /\ sent'[e] = t
    BY <1>3, <1>8 DEF t
  <2> QED BY <2>1, <2>2 DEF PrefixInv
<1> QED BY <1>3, <1>7, <1>8

\* The next message is received.
LEMMA PrefixGot ==
  ASSUME TypeOK, NEW d \in Directions, NEW e \in Directions, PrefixInv(e), UNCHANGED sent,
         Len(got[d]) + 1 \in 1..Len(sent[d]),
         got' = [got EXCEPT ![d] = Append(got[d], sent[d][Len(got[d]) + 1])]
  PROVE  PrefixInv(e)' /\ Len(got'[d]) = Len(got[d]) + 1
<1>1. sent \in [Directions -> Seq(Messages)] /\ got \in [Directions -> Seq(Seq(Byte))]
  BY DEF TypeOK
<1>2. PICK s \in Seq(Messages), g \in Seq(Seq(Byte)) : s = sent[d] /\ g = got[d]
  BY <1>1
<1> DEFINE t == Append(g, s[Len(g) + 1])
<1>3. s[Len(g) + 1] \in Seq(Byte)
  <2>1. s[Len(g) + 1] \in Messages
    BY <1>2
  <2> QED BY <2>1, MessageType
<1>4. Len(t) = Len(g) + 1 /\ t[Len(g) + 1] = s[Len(g) + 1] /\ \A i \in 1..Len(g) : t[i] = g[i]
  BY <1>3
<1>5. got'[d] = t
  BY <1>1, <1>2
<1> HIDE DEF t
<1>6. CASE e = d
  <2>1. \A i \in 1..Len(g) : g[i] = s[i]
    BY <1>2, <1>6 DEF PrefixInv
  <2>2. \A i \in 1..Len(g) + 1 : i = Len(g) + 1 \/ i \in 1..Len(g)
    OBVIOUS
  <2>3. \A i \in 1..Len(t) : t[i] = s[i]
    BY <1>4, <2>1, <2>2
  <2>4. Len(t) <= Len(s)
    BY <1>2, <1>4
  <2>5. got'[e] = t /\ sent'[e] = s
    BY <1>2, <1>5, <1>6
  <2> QED BY <1>2, <1>4, <1>5, <2>3, <2>4, <2>5 DEF PrefixInv
<1>7. CASE e # d
  <2>1. got'[e] = got[e] /\ sent'[e] = sent[e]
    BY <1>1, <1>7
  <2> QED BY <1>2, <1>4, <1>5, <2>1 DEF PrefixInv
<1> QED BY <1>6, <1>7

\* ClientSends: the first packet brings the key, a later one extends the lanes.
LEMMA ClientSendsKeeps ==
  ASSUME SessionInv, NEW m \in Messages, ClientSends(m)
  PROVE  KeyInv' /\ (Sound => SoundInv)'
<1>1. TypeOK /\ KeyInv /\ (Sound => SoundInv) /\ cc \in CoderType /\ cc.sendCount \in Nat
  BY DEF SessionInv, TypeOK, CoderType
<1>2. PICK random \in Randoms, plain \in PlainPackets(m) :
        LET e == ClientEncrypt(cc, m, plain, random)
        IN  cc' = e.coder /\ Write("up", up, m, e.packet)
  BY DEF ClientSends
<1>a. PICK e : e = ClientEncrypt(cc, m, plain, random)
  OBVIOUS
<1>4. cc' = e.coder /\ Write("up", up, m, e.packet)
  BY <1>2, <1>a
<1>5. UNCHANGED <<sc, down, got, garbled, fresh>>
  BY DEF ClientSends
<1>c. /\ KeyCame' => KeyCame
      /\ Sound' => Sound /\ ~TooLong(m) /\ sent' = [sent EXCEPT !["up"] = Append(sent["up"], m)]
  <2>1. \/ sent' = [sent EXCEPT !["up"] = Append(sent["up"], m)] /\ UNCHANGED lost
        \/ lost' = TRUE /\ UNCHANGED sent
    BY <1>4 DEF Write
  <2> QED BY <1>1, <1>5, <2>1, Indexes, WriteHistory
<1>d. sent'["down"] = sent["down"]
  BY <1>1, <1>4, Indexes DEF Write, TypeOK
\* A message in the clear leaves the coder alone and a connection that is not
\* sound.
<1>e. CASE TooLong(m)
  <2>1. e = [packet |-> plain, coder |-> cc]
    BY <1>a, <1>e, Zenon DEF ClientEncrypt
  <2>2. cc' = cc
    BY <1>4, <2>1
  <2> QED BY <1>1, <1>5, <1>c, <1>d, <1>e, <2>2 DEF KeyInv
<1>f. SUFFICES ASSUME ~TooLong(m) PROVE KeyInv' /\ (Sound => SoundInv)'
  BY <1>e
<1>b. PICK from : from = IF cc.sendCount > 0 THEN SendLane(cc)
                         ELSE [round |-> cc.sendRound, key |-> FirstKey(random)]
  OBVIOUS
<1>3. /\ from \in LaneType
      /\ e.coder \in CoderType
      /\ e.packet \in Packet
      /\ e.packet = PacketOf(from, m, ~(cc.sendCount > 0))
      /\ SendLane(e.coder) = After(from, m)
      /\ e.coder.sendCount = cc.sendCount + 1
      /\ e.coder.recvRound = cc.recvRound
      /\ e.coder.recvCount = cc.recvCount
      /\ cc.sendCount > 0 => RecvLane(e.coder) = RecvLane(cc)
      /\ ~(cc.sendCount > 0) => e.coder.recvKey = FirstKey(random)
  BY <1>1, <1>a, <1>b, <1>f, ClientEncryptIs
<1>6. cc'.sendCount # 0 /\ cc'.sendCount > 0
  BY <1>1, <1>3, <1>4
<1>7. KeyInv'
  BY <1>1, <1>5, <1>6, <1>c, <1>d DEF KeyInv
<1>8. ASSUME Sound' PROVE SoundInv'
  <2>1. /\ up' = Append(up, e.packet)
        /\ sent' = [sent EXCEPT !["up"] = Append(sent["up"], m)]
        /\ Sound
    <3>1. ~lost'
      BY <1>8 DEF Sound, KeyCame
    <3> QED BY <1>4, <1>8, <1>c, <3>1 DEF Write
  <2>2. SoundInv
    BY <1>1, <2>1
  <2>3. /\ sent \in [Directions -> Seq(Messages)] /\ got \in [Directions -> Seq(Seq(Byte))]
        /\ up \in Seq(Packet) /\ sc \in CoderType
    BY <1>1 DEF TypeOK
  <2>4. /\ sent'["up"] = Append(sent["up"], m) /\ sent'["down"] = sent["down"] /\ got' = got
        /\ sent["up"] \in Seq(Messages) /\ Len(got["up"]) \in Nat
    BY <1>5, <2>1, <2>3, Indexes
  <2>5. PrefixInv("up")' /\ PrefixInv("down")'
    BY <1>1, <1>5, <2>1, <2>2, Indexes, PrefixSent DEF SoundInv
  <2>6. QuietInv'
    BY <1>6 DEF QuietInv
  <2>7. CASE cc.sendCount > 0
    <3>1. from = SendLane(cc) /\ from \in LaneType /\ UpFrom \in LaneType
      BY <1>1, <1>b, <2>3, <2>7, LaneOfCoder DEF UpFrom
    <3>2. RecvLane(cc') = RecvLane(cc) /\ UpFrom' = UpFrom
      BY <1>3, <1>4, <1>5, <2>7 DEF UpFrom
    <3>3. Carries(up, sent["up"], Len(got["up"]), UpFrom, SendLane(cc), sc.recvCount = 0)
      BY <2>2, <2>7 DEF SoundInv, UpInv
    <3>4. sc.recvCount = 0 => up # <<>>
      BY <2>2, <2>7 DEF SoundInv, KeylessInv
    <3>5. e.packet = PacketOf(SendLane(cc), m, sc.recvCount = 0 /\ up = <<>>)
      <4>1. (~(cc.sendCount > 0)) = FALSE /\ (sc.recvCount = 0 /\ up = <<>>) = FALSE
        BY <2>7, <3>4
      <4> QED BY <1>3, <3>1, <4>1
    <3>6. Carries(Append(up, e.packet), Append(sent["up"], m), Len(got["up"]), UpFrom,
                  After(SendLane(cc), m), sc.recvCount = 0)
      <4>1. (sc.recvCount = 0) \in BOOLEAN /\ SendLane(cc) \in LaneType
        BY <3>1
      <4> QED BY <1>3, <2>3, <2>4, <3>1, <3>3, <3>5, <4>1, CarriesMore
    <3>7. UpInv'
      BY <1>3, <1>4, <1>5, <2>1, <2>4, <3>1, <3>2, <3>6 DEF UpInv
    <3>8. KeylessInv'
      <4>1. cc'.recvRound = cc.recvRound /\ cc'.recvKey = cc.recvKey
        BY <3>2 DEF RecvLane
      <4>2. up' # <<>>
        BY <1>3, <2>1, <2>3
      <4>3. sc.recvCount = 0 => /\ sc = NewCoder /\ down = <<>> /\ sent["down"] = <<>> /\ got["down"] = <<>>
                                /\ cc.recvRound = 0 /\ cc.recvKey # NoKey
        BY <2>2, <2>7 DEF SoundInv, KeylessInv
      <4> QED BY <1>5, <2>4, <4>1, <4>2, <4>3 DEF KeylessInv
    <3>9. DownInv'
      <4>1. sc.recvCount > 0 =>
              /\ sc.sendKey # NoKey
              /\ Carries(down, sent["down"], Len(got["down"]), RecvLane(cc), SendLane(sc), FALSE)
        BY <2>2 DEF SoundInv, DownInv
      <4> QED BY <1>5, <2>4, <3>2, <4>1 DEF DownInv
    <3> QED BY <1>5, <2>2, <2>5, <2>6, <3>7, <3>8, <3>9 DEF SoundInv
  <2>8. CASE ~(cc.sendCount > 0)
    <3>1. cc = NewCoder /\ cc.sendCount = 0
      BY <1>1, <2>8 DEF KeyInv
    <3>2. up = <<>> /\ sent["up"] = <<>> /\ got["up"] = <<>> /\ sc.recvCount = 0
      BY <2>2, <3>1 DEF SoundInv, QuietInv
    <3>3. sc = NewCoder /\ down = <<>> /\ sent["down"] = <<>> /\ got["down"] = <<>>
      BY <2>2, <3>2 DEF SoundInv, KeylessInv
    <3>4. from = [round |-> 0, key |-> FirstKey(random)] /\ FirstKey(random) # NoKey
      BY <1>b, <2>8, <3>1, NewCoderType, FirstKeyType
    <3>5. RecvLane(cc') = from /\ cc'.recvRound = 0 /\ cc'.recvKey # NoKey
      BY <1>3, <1>4, <2>8, <3>1, <3>4, NewCoderType DEF RecvLane
    <3>6. UpFrom' = from
      BY <1>5, <3>2, <3>5 DEF UpFrom
    <3>7. e.packet = PacketOf(from, m, sc.recvCount = 0 /\ up = <<>>)
      <4>1. (~(cc.sendCount > 0)) = TRUE /\ (sc.recvCount = 0 /\ up = <<>>) = TRUE
        BY <2>8, <3>2
      <4> QED BY <1>3, <4>1
    <3>8. Carries(up, sent["up"], Len(got["up"]), from, from, sc.recvCount = 0)
      BY <1>3, <2>4, <3>2, CarriesNone
    <3>9. Carries(Append(up, e.packet), Append(sent["up"], m), Len(got["up"]), from,
                  After(from, m), sc.recvCount = 0)
      <4>1. (sc.recvCount = 0) \in BOOLEAN
        OBVIOUS
      <4> QED BY <1>3, <2>3, <2>4, <3>7, <3>8, <4>1, CarriesMore
    <3>10. UpInv'
      BY <1>3, <1>4, <1>5, <2>1, <2>4, <3>6, <3>9 DEF UpInv
    <3>11. KeylessInv'
      <4>1. up' # <<>>
        BY <1>3, <2>1, <2>3
      <4> QED BY <1>5, <2>4, <3>3, <3>5, <4>1 DEF KeylessInv
    <3>12. DownInv'
      BY <1>5, <3>2 DEF DownInv
    <3> QED BY <1>5, <2>2, <2>5, <2>6, <3>10, <3>11, <3>12 DEF SoundInv
  <2> QED BY <2>7, <2>8
<1> QED BY <1>7, <1>8

\* ServerSends: with its key, so that the packet is enciphered, unless it is too
\* long.
LEMMA ServerSendsKeeps ==
  ASSUME SessionInv, NEW m \in Messages, ServerSends(m)
  PROVE  KeyInv' /\ (Sound => SoundInv)'
<1>1. TypeOK /\ KeyInv /\ (Sound => SoundInv) /\ sc \in CoderType /\ cc \in CoderType
  BY DEF SessionInv, TypeOK
<1>0. PICK plain \in PlainPackets(m) :
        LET e == ServerEncrypt(sc, m, plain)
        IN  sc' = e.coder /\ Write("down", down, m, e.packet)
  BY DEF ServerSends
<1> DEFINE e == ServerEncrypt(sc, m, plain)
<1>2. sc' = e.coder /\ Write("down", down, m, e.packet) /\ sc.recvCount > 0
  BY <1>0 DEF ServerSends
<1>3. UNCHANGED <<cc, up, got, garbled, fresh>>
  BY DEF ServerSends
<1>4. m \in Seq(Byte) /\ SendLane(sc) \in LaneType /\ RecvLane(sc) \in LaneType /\ RecvLane(cc) \in LaneType
  BY <1>1, MessageType, LaneOfCoder
<1>5. ~InTheClear(sc, m) =>
        /\ e.packet = Sealed(SendLane(sc), m)
        /\ SendLane(e.coder) = After(SendLane(sc), m)
        /\ RecvLane(e.coder) = RecvLane(sc)
        /\ e.coder.sendKey # NoKey
        /\ e.coder.recvCount = sc.recvCount
  <2> SUFFICES ASSUME ~InTheClear(sc, m)
               PROVE  /\ e.packet = Sealed(SendLane(sc), m)
                      /\ SendLane(e.coder) = After(SendLane(sc), m)
                      /\ RecvLane(e.coder) = RecvLane(sc)
                      /\ e.coder.sendKey # NoKey
                      /\ e.coder.recvCount = sc.recvCount
    OBVIOUS
  <2>1. e = Encipher(sc, m)
    BY DEF ServerEncrypt
  <2> DEFINE d == Encipher(sc, m)
  <2>2. /\ d.packet = Sealed(SendLane(sc), m)
        /\ SendLane(d.coder) = After(SendLane(sc), m)
        /\ RecvLane(d.coder) = RecvLane(sc)
        /\ d.coder.sendKey = After(SendLane(sc), m).key
        /\ d.coder.recvCount = sc.recvCount
    BY <1>1, <1>4, EncipherIs
  <2> HIDE DEF d
  <2>3. After(SendLane(sc), m).key # NoKey
    <3>1. SendLane(sc).key # NoKey
      BY DEF SendLane, InTheClear
    <3> QED BY <1>4, <3>1, SealedType
  <2> HIDE DEF e
  <2>4. e = d
    BY <2>1 DEF d
  <2> QED BY <2>2, <2>3, <2>4
<1>6. InTheClear(sc, m) => e.coder = sc
  BY DEF ServerEncrypt
<1> HIDE DEF e
<1>a. /\ KeyCame' => KeyCame
      /\ Sound' => Sound /\ ~TooLong(m) /\ sent' = [sent EXCEPT !["down"] = Append(sent["down"], m)]
  <2>1. \/ sent' = [sent EXCEPT !["down"] = Append(sent["down"], m)] /\ UNCHANGED lost
        \/ lost' = TRUE /\ UNCHANGED sent
    BY <1>2 DEF Write
  <2> QED BY <1>1, <1>3, <2>1, Indexes, WriteHistory
<1>7. KeyInv'
  <2>1. sc.recvCount \in Nat /\ sc.recvCount # 0
    BY <1>1, <1>2 DEF CoderType
  <2>2. CASE InTheClear(sc, m)
    BY <1>1, <1>2, <1>3, <1>6, <1>a, <2>1, <2>2 DEF KeyInv
  <2>3. CASE ~InTheClear(sc, m)
    <3>1. sc'.sendKey # NoKey /\ sc'.recvCount = sc.recvCount
      BY <1>2, <1>5, <2>3
    <3> QED BY <1>1, <1>2, <1>3, <2>1, <3>1 DEF KeyInv
  <2> QED BY <2>2, <2>3
<1>8. ASSUME Sound' PROVE SoundInv'
  <2>1. /\ down' = Append(down, e.packet)
        /\ sent' = [sent EXCEPT !["down"] = Append(sent["down"], m)]
        /\ Sound /\ ~TooLong(m)
    <3>1. ~lost'
      BY <1>8 DEF Sound, KeyCame
    <3> QED BY <1>2, <1>8, <1>a, <3>1 DEF Write
  <2>2. SoundInv
    BY <1>1, <2>1
  <2>3. /\ sent \in [Directions -> Seq(Messages)] /\ got \in [Directions -> Seq(Seq(Byte))]
        /\ down \in Seq(Packet)
    BY <1>1 DEF TypeOK
  <2>4. /\ sent'["down"] = Append(sent["down"], m) /\ sent'["up"] = sent["up"] /\ got' = got
        /\ sent["down"] \in Seq(Messages) /\ Len(got["down"]) \in Nat
    BY <1>3, <2>1, <2>3, Indexes
  <2>5. PrefixInv("up")' /\ PrefixInv("down")'
    BY <1>1, <1>3, <2>1, <2>2, Indexes, PrefixSent DEF SoundInv
  <2>6. sc.sendKey # NoKey /\ Carries(down, sent["down"], Len(got["down"]), RecvLane(cc), SendLane(sc), FALSE)
    BY <1>2, <2>2 DEF SoundInv, DownInv
  <2>7. /\ e.packet = Sealed(SendLane(sc), m)
        /\ SendLane(sc') = After(SendLane(sc), m)
        /\ RecvLane(sc') = RecvLane(sc)
        /\ sc'.sendKey # NoKey
        /\ sc'.recvCount = sc.recvCount
    <3>1. ~InTheClear(sc, m)
      BY <2>1, <2>6 DEF InTheClear
    <3> QED BY <1>2, <1>5, <3>1
  <2>8. sc.recvCount \in Nat /\ sc.recvCount # 0
    BY <1>1, <1>2 DEF CoderType
  <2>9. QuietInv' /\ KeylessInv'
    BY <1>3, <2>2, <2>7, <2>8 DEF SoundInv, QuietInv, KeylessInv
  <2>10. UpInv'
    <3>1. UpFrom' = UpFrom /\ (sc'.recvCount = 0) = (sc.recvCount = 0)
      BY <1>3, <2>7, <2>8 DEF UpFrom
    <3>2. cc.sendCount > 0 =>
            Carries(up, sent["up"], Len(got["up"]), UpFrom, SendLane(cc), sc.recvCount = 0)
      BY <2>2 DEF SoundInv, UpInv
    <3> QED BY <1>3, <2>4, <3>1, <3>2 DEF UpInv
  <2>11. DownInv'
    <3>1. PacketOf(SendLane(sc), m, FALSE /\ down = <<>>) = e.packet /\ e.packet \in Packet
      BY <1>4, <2>7, SealedType DEF PacketOf
    <3>2. Carries(Append(down, e.packet), Append(sent["down"], m), Len(got["down"]), RecvLane(cc),
                  After(SendLane(sc), m), FALSE)
      <4>1. FALSE \in BOOLEAN
        OBVIOUS
      <4> QED BY <1>4, <2>3, <2>4, <2>6, <3>1, <4>1, CarriesMore
    <3> QED BY <1>3, <2>1, <2>4, <2>7, <3>2 DEF DownInv
  <2> QED BY <1>3, <2>2, <2>5, <2>9, <2>10, <2>11 DEF SoundInv
<1> QED BY <1>7, <1>8

\* ServerReceives: the head of a sound direction is deciphered; the first packet
\* makes the server's coder the client's counterpart.
LEMMA ServerReceivesKeeps ==
  ASSUME SessionInv, ServerReceives
  PROVE  KeyInv' /\ (Sound => SoundInv)'
<1>1. TypeOK /\ KeyInv /\ (Sound => SoundInv) /\ sc \in CoderType /\ cc \in CoderType /\ up \in Seq(Packet)
  BY DEF SessionInv, TypeOK
<1>2. PICK r : r = ServerDecrypt(sc, Head(up))
  OBVIOUS
<1>3. sc' = r.coder /\ Take("up", r) /\ up' = Tail(up) /\ up # <<>>
  BY <1>2 DEF ServerReceives
<1>4. UNCHANGED <<cc, down, sent, lost, fresh>>
  BY DEF ServerReceives
<1>5. Head(up) \in Packet
  BY <1>1, <1>3
<1>6. /\ r.coder \in CoderType /\ r.coder.sendCount = sc.sendCount
      /\ sc.recvCount > 0 => r.coder.sendKey = sc.sendKey /\ r.coder.recvCount > 0
  BY <1>1, <1>2, <1>5, ServerDecryptType
<1>7. sc.recvCount \in Nat /\ sc.sendCount \in Nat /\ (sc.recvCount = 0 <=> ~(sc.recvCount > 0))
  BY <1>1 DEF CoderType
<1>8. (KeyCame' <=> KeyCame) /\ (Sound' <=> Sound)
  BY <1>4, SoundStays
<1>9. ASSUME Sound' PROVE SoundInv'
  <2>1. Sound /\ SoundInv
    BY <1>1, <1>8, <1>9
  <2> DEFINE msg == sent["up"][Len(got["up"]) + 1]
  <2>2. /\ sent \in [Directions -> Seq(Messages)] /\ got \in [Directions -> Seq(Seq(Byte))]
        /\ sent["up"] \in Seq(Messages) /\ Len(got["up"]) \in Nat
    BY <1>1, Indexes DEF TypeOK
  <2>3. cc.sendCount > 0
    <3>1. cc.sendCount # 0
      BY <1>3, <2>1 DEF SoundInv, QuietInv
    <3> QED BY <1>1, <3>1 DEF CoderType
  <2>4. Carries(up, sent["up"], Len(got["up"]), UpFrom, SendLane(cc), sc.recvCount = 0)
    BY <2>1, <2>3 DEF SoundInv, UpInv
  <2>5. UpFrom \in LaneType /\ SendLane(cc) \in LaneType /\ RecvLane(cc) \in LaneType
    BY <1>1, LaneOfCoder DEF UpFrom
  <2>6. /\ Len(got["up"]) + 1 \in 1..Len(sent["up"])
        /\ Head(up) = PacketOf(UpFrom, msg, sc.recvCount = 0)
        /\ Carries(Tail(up), sent["up"], Len(got["up"]) + 1, After(UpFrom, msg), SendLane(cc), FALSE)
    <3>1. (sc.recvCount = 0) \in BOOLEAN
      OBVIOUS
    <3> QED BY <1>1, <1>3, <2>2, <2>4, <2>5, <3>1, CarriesNext, ZenonT(60)
  <2>7. msg \in Messages
    BY <2>2, <2>6
  <2> HIDE DEF msg
  <2>8. /\ r.ok = TRUE /\ r.data = msg /\ RecvLane(r.coder) = After(UpFrom, msg)
        /\ r.coder.recvCount > 0 /\ r.coder.recvCount # 0
        /\ r.coder.sendKey # NoKey
        /\ SendLane(r.coder) = IF sc.recvCount = 0 THEN RecvLane(cc) ELSE SendLane(sc)
    <3>1. CASE sc.recvCount = 0
      <4>1. sc = NewCoder /\ cc.recvRound = 0 /\ cc.recvKey # NoKey
        BY <2>1, <2>3, <3>1 DEF SoundInv, KeylessInv
      <4>2. UpFrom = RecvLane(cc) /\ RecvLane(cc).round = 0 /\ RecvLane(cc).key # NoKey
        BY <3>1, <4>1 DEF UpFrom, RecvLane
      <4>3. r = ServerDecrypt(NewCoder, PacketOf(RecvLane(cc), msg, TRUE))
        BY <1>2, <2>6, <3>1, <4>1, <4>2
      <4>4. /\ r.ok = TRUE /\ r.data = msg /\ RecvLane(r.coder) = After(RecvLane(cc), msg)
            /\ r.coder.recvCount = 1
            /\ SendLane(r.coder) = RecvLane(cc)
            /\ r.coder.sendKey = RecvLane(cc).key
        <5>1. PICK lane : lane = RecvLane(cc)
          OBVIOUS
        <5>2. lane \in LaneType /\ lane.round = 0 /\ r = ServerDecrypt(NewCoder, PacketOf(lane, msg, TRUE))
          BY <2>5, <4>2, <4>3, <5>1
        <5>3. /\ r.ok = TRUE /\ r.data = msg /\ RecvLane(r.coder) = After(lane, msg)
              /\ r.coder.recvCount = 1
              /\ SendLane(r.coder) = lane
              /\ r.coder.sendKey = lane.key
          BY <2>7, <5>2, ServerDecryptKeyed, ZenonT(60)
        <5> QED BY <5>1, <5>3, Zenon
      <4> QED BY <3>1, <4>2, <4>4
    <3>2. CASE sc.recvCount # 0
      <4>1. sc.recvCount > 0 /\ UpFrom = RecvLane(sc)
        BY <1>7, <3>2 DEF UpFrom
      <4>2. sc.sendKey # NoKey
        BY <2>1, <4>1 DEF SoundInv, DownInv
      <4>3. Head(up) = Sealed(RecvLane(sc), msg)
        BY <2>6, <3>2, <4>1 DEF PacketOf
      <4>4. /\ r.ok = TRUE /\ r.data = msg /\ RecvLane(r.coder) = After(RecvLane(sc), msg)
            /\ r.coder.recvCount = sc.recvCount + 1
            /\ SendLane(r.coder) = SendLane(sc)
        <5> DEFINE p == Head(up)
        <5>1. p = Sealed(RecvLane(sc), msg)
          BY <4>3
        <5> HIDE DEF p
        <5>2. /\ ServerDecrypt(sc, p).ok = TRUE
              /\ ServerDecrypt(sc, p).data = msg
              /\ RecvLane(ServerDecrypt(sc, p).coder) = After(RecvLane(sc), msg)
              /\ ServerDecrypt(sc, p).coder.recvCount = sc.recvCount + 1
              /\ SendLane(ServerDecrypt(sc, p).coder) = SendLane(sc)
          BY <1>1, <2>7, <4>1, <5>1, ServerDecryptSealed, ZenonT(60)
        <5>3. r = ServerDecrypt(sc, p)
          BY <1>2 DEF p
        <5> QED BY <5>2, <5>3
      <4>5. r.coder.sendKey = sc.sendKey
        BY <1>6, <4>1
      <4> QED BY <1>7, <3>2, <4>1, <4>2, <4>4, <4>5
    <3> QED BY <3>1, <3>2
  <2>9. got' = [got EXCEPT !["up"] = Append(got["up"], msg)] /\ UNCHANGED <<conn, garbled>>
    BY <1>3, <2>8, Zenon DEF Take
  <2>10. PrefixInv("up")' /\ PrefixInv("down")' /\ Len(got'["up"]) = Len(got["up"]) + 1
    BY <1>1, <1>4, <2>1, <2>6, <2>9, Indexes, PrefixGot DEF SoundInv, msg
  <2>11. got'["down"] = got["down"]
    BY <2>2, <2>9, Indexes
  <2>12. QuietInv' /\ KeylessInv'
    <3>1. cc'.sendCount # 0 /\ sc'.recvCount # 0
      BY <1>1, <1>3, <1>4, <2>3, <2>8 DEF CoderType
    <3> QED BY <3>1 DEF QuietInv, KeylessInv
  <2>13. UpInv'
    <3>1. UpFrom' = After(UpFrom, msg) /\ (sc'.recvCount = 0) = FALSE
      BY <1>3, <2>8 DEF UpFrom
    <3> QED BY <1>3, <1>4, <2>6, <2>10, <3>1 DEF UpInv
  <2>14. DownInv'
    <3>1. Carries(down, sent["down"], Len(got["down"]), RecvLane(cc), SendLane(r.coder), FALSE)
      <4>1. CASE sc.recvCount = 0
        <5>1. down = <<>> /\ Len(sent["down"]) = 0 /\ Len(got["down"]) = 0
          BY <2>1, <4>1 DEF SoundInv, KeylessInv
        <5>2. SendLane(r.coder) = RecvLane(cc)
          BY <2>8, <4>1
        <5> QED BY <2>5, <5>1, <5>2, CarriesNone
      <4>2. CASE sc.recvCount # 0
        <5>1. SendLane(r.coder) = SendLane(sc) /\ sc.recvCount > 0
          BY <1>7, <2>8, <4>2
        <5>2. Carries(down, sent["down"], Len(got["down"]), RecvLane(cc), SendLane(sc), FALSE)
          BY <2>1, <5>1 DEF SoundInv, DownInv
        <5> QED BY <5>1, <5>2
      <4> QED BY <4>1, <4>2
    <3> QED BY <1>3, <1>4, <2>8, <2>11, <3>1 DEF DownInv
  <2> QED BY <2>1, <2>9, <2>10, <2>12, <2>13, <2>14 DEF SoundInv
\* The packet with the key is the first that the server receives, and the server
\* has sent nothing by then: the connection is still sound if the key came.
<1>10. KeyInv'
  <2>1. cc'.sendCount = cc.sendCount /\ sc'.sendCount = sc.sendCount
    BY <1>3, <1>4, <1>6
  <2>2. sc.recvCount > 0 => sc'.sendKey = sc.sendKey /\ sc'.recvCount > 0
    BY <1>3, <1>6
  <2>3. sc'.recvCount = 0 => sent'["down"] = <<>>
    <3>1. sc'.recvCount \in Nat
      BY <1>3, <1>6 DEF CoderType
    <3> QED BY <1>1, <1>4, <1>7, <2>2, <3>1 DEF KeyInv
  <2>4. KeyCame' /\ sc'.recvCount > 0 => sc'.sendKey # NoKey
    <3>1. CASE sc.recvCount > 0
      BY <1>1, <1>8, <2>2, <3>1 DEF KeyInv
    <3>2. CASE sc.recvCount = 0
      <4>1. KeyCame => Sound
        BY <1>1, <3>2 DEF KeyInv, Sound, Overlong
      <4> QED BY <1>8, <1>9, <4>1 DEF SoundInv, DownInv
    <3> QED BY <1>7, <3>1, <3>2
  <2> QED BY <1>1, <1>4, <2>1, <2>2, <2>3, <2>4 DEF KeyInv
<1> QED BY <1>9, <1>10

\* ClientReceives: the same in the other direction.
LEMMA ClientReceivesKeeps ==
  ASSUME SessionInv, ClientReceives
  PROVE  KeyInv' /\ (Sound => SoundInv)'
<1>1. TypeOK /\ KeyInv /\ (Sound => SoundInv) /\ sc \in CoderType /\ cc \in CoderType /\ down \in Seq(Packet)
  BY DEF SessionInv, TypeOK
<1>2. PICK r : r = ClientDecrypt(cc, Head(down))
  OBVIOUS
<1>3. cc' = r.coder /\ Take("down", r) /\ down' = Tail(down) /\ down # <<>>
  BY <1>2 DEF ClientReceives
<1>4. UNCHANGED <<sc, up, sent, lost, fresh>>
  BY DEF ClientReceives
<1>5. Head(down) \in Packet
  BY <1>1, <1>3
<1>6. /\ SendLane(r.coder) = SendLane(cc)
      /\ r.coder.sendCount = cc.sendCount
      /\ cc.sendCount = 0 => r.coder = cc
  BY <1>1, <1>2, <1>5, ClientDecryptType, Zenon
<1>a. (KeyCame' <=> KeyCame) /\ (Sound' <=> Sound)
  BY <1>4, SoundStays
<1>7. KeyInv'
  BY <1>1, <1>3, <1>4, <1>6, <1>a DEF KeyInv
<1>8. ASSUME Sound' PROVE SoundInv'
  <2>1. Sound /\ SoundInv
    BY <1>1, <1>8, <1>a
  <2> DEFINE msg == sent["down"][Len(got["down"]) + 1]
  <2>2. /\ sent \in [Directions -> Seq(Messages)] /\ got \in [Directions -> Seq(Seq(Byte))]
        /\ sent["down"] \in Seq(Messages) /\ Len(got["down"]) \in Nat
    BY <1>1, Indexes DEF TypeOK
  <2>3. sc.recvCount > 0 /\ sc.recvCount # 0
    <3>1. sc.recvCount # 0
      BY <1>3, <2>1 DEF SoundInv, KeylessInv
    <3> QED BY <1>1, <3>1 DEF CoderType
  <2>4. cc.sendCount > 0 /\ cc.sendCount # 0
    <3>1. cc.sendCount # 0
      BY <2>1, <2>3 DEF SoundInv, QuietInv
    <3> QED BY <1>1, <3>1 DEF CoderType
  <2>5. Carries(down, sent["down"], Len(got["down"]), RecvLane(cc), SendLane(sc), FALSE) /\ sc.sendKey # NoKey
    BY <2>1, <2>3 DEF SoundInv, DownInv
  <2>6. /\ Len(got["down"]) + 1 \in 1..Len(sent["down"])
        /\ Head(down) = PacketOf(RecvLane(cc), msg, FALSE)
        /\ Carries(Tail(down), sent["down"], Len(got["down"]) + 1, After(RecvLane(cc), msg), SendLane(sc), FALSE)
    <3>1. FALSE \in BOOLEAN /\ RecvLane(cc) \in LaneType /\ SendLane(sc) \in LaneType
      BY <1>1, LaneOfCoder
    <3> QED BY <1>1, <1>3, <2>2, <2>5, <3>1, CarriesNext
  <2>7. msg \in Messages
    BY <2>2, <2>6
  <2> HIDE DEF msg
  <2>8. r.ok = TRUE /\ r.data = msg /\ RecvLane(r.coder) = After(RecvLane(cc), msg)
    <3>1. Head(down) = Sealed(RecvLane(cc), msg)
      BY <2>6 DEF PacketOf
    <3> QED BY <1>1, <1>2, <2>4, <2>7, <3>1, ClientDecryptSealed
  <2>9. got' = [got EXCEPT !["down"] = Append(got["down"], msg)] /\ UNCHANGED <<conn, garbled>>
    BY <1>3, <2>8, Zenon DEF Take
  <2>10. PrefixInv("up")' /\ PrefixInv("down")' /\ Len(got'["down"]) = Len(got["down"]) + 1
    BY <1>1, <1>4, <2>1, <2>6, <2>9, Indexes, PrefixGot DEF SoundInv, msg
  <2>11. got'["up"] = got["up"]
    BY <2>2, <2>9, Indexes
  <2>12. QuietInv' /\ KeylessInv'
    <3>1. cc'.sendCount # 0 /\ sc'.recvCount # 0
      BY <1>3, <1>4, <1>6, <2>3, <2>4
    <3> QED BY <3>1 DEF QuietInv, KeylessInv
  <2>13. UpInv'
    <3>1. UpFrom = RecvLane(sc) /\ UpFrom' = RecvLane(sc) /\ SendLane(cc') = SendLane(cc)
      BY <1>3, <1>4, <1>6, <2>3 DEF UpFrom
    <3>2. Carries(up, sent["up"], Len(got["up"]), RecvLane(sc), SendLane(cc), sc.recvCount = 0)
      BY <2>1, <2>4, <3>1 DEF SoundInv, UpInv
    <3> QED BY <1>4, <2>11, <3>1, <3>2 DEF UpInv
  <2>14. DownInv'
    BY <1>3, <1>4, <2>5, <2>6, <2>8, <2>10 DEF DownInv
  <2> QED BY <2>1, <2>9, <2>10, <2>12, <2>13, <2>14 DEF SoundInv
<1> QED BY <1>7, <1>8

LEMMA NextSession == SessionInv /\ [Next]_vars => SessionInv'
<1> SUFFICES ASSUME SessionInv, [Next]_vars PROVE SessionInv'
  OBVIOUS
<1>1. TypeOK'
  BY NextType DEF SessionInv
<1>2. SUFFICES KeyInv' /\ (Sound => SoundInv)'
  BY <1>1 DEF SessionInv
<1>3. ASSUME NEW m \in Messages, ClientSends(m) PROVE KeyInv' /\ (Sound => SoundInv)'
  BY <1>3, ClientSendsKeeps
<1>4. ASSUME NEW m \in Messages, ServerSends(m) PROVE KeyInv' /\ (Sound => SoundInv)'
  BY <1>4, ServerSendsKeeps
<1>5. CASE ServerReceives
  BY <1>5, ServerReceivesKeeps
<1>6. CASE ClientReceives
  BY <1>6, ClientReceivesKeeps
<1>7. CASE Disconnect
  <2> USE <1>7 DEF SessionInv, Disconnect
  <2>2. (KeyCame' <=> KeyCame) /\ (Sound' <=> Sound)
    BY SoundStays
  <2>1. KeyInv'
    BY <2>2 DEF KeyInv
  <2>3. SoundInv => SoundInv'
    BY DEF SoundInv, PrefixInv, QuietInv, KeylessInv, UpInv, DownInv, UpFrom
  <2> QED BY <2>1, <2>2, <2>3
\* Only a client that has sent nothing begins a sound connection.
<1>8. CASE Reconnect
  <2> USE <1>8 DEF Reconnect
  <2>1. cc' = cc /\ sc' = NewCoder /\ up' = <<>> /\ down' = <<>> /\ ~garbled' /\ (fresh' <=> cc.sendCount = 0)
    OBVIOUS
  <2>2. KeyInv'
    BY <2>1, NewCoderType, Indexes DEF SessionInv, KeyInv, NothingYet
  <2>3. ASSUME Sound' PROVE SoundInv'
    <3>1. cc'.sendCount = 0 /\ sc'.recvCount = 0 /\ ~(cc'.sendCount > 0) /\ ~(sc'.recvCount > 0)
      BY <2>1, <2>3, NewCoderType DEF Sound, KeyCame
    <3>2. \A d \in Directions : sent'[d] = <<>> /\ got'[d] = <<>>
      BY DEF NothingYet
    <3>3. PrefixInv("up")' /\ PrefixInv("down")'
      BY <3>2, Indexes DEF PrefixInv
    <3>4. QuietInv' /\ KeylessInv'
      BY <2>1, <3>1, <3>2, Indexes DEF QuietInv, KeylessInv
    <3>5. UpInv' /\ DownInv'
      BY <3>1 DEF UpInv, DownInv
    <3> QED BY <2>1, <3>3, <3>4, <3>5 DEF SoundInv
  <2> QED BY <2>2, <2>3
<1>9. CASE UNCHANGED vars
  <2> USE <1>9 DEF SessionInv, vars
  <2>2. (KeyCame' <=> KeyCame) /\ (Sound' <=> Sound)
    BY SoundStays
  <2>1. KeyInv'
    BY <2>2 DEF KeyInv
  <2>3. SoundInv => SoundInv'
    BY DEF SoundInv, PrefixInv, QuietInv, KeylessInv, UpInv, DownInv, UpFrom
  <2> QED BY <2>1, <2>2, <2>3
<1> QED BY <1>3, <1>4, <1>5, <1>6, <1>7, <1>8, <1>9 DEF Next

LEMMA SessionAlways == Spec => []SessionInv
BY InitSession, NextSession, PTL DEF Spec

LEMMA PrefixIs ==
  ASSUME TypeOK, NEW d \in Directions, PrefixInv(d)
  PROVE  IsPrefix(got[d], sent[d])
<1>1. sent \in [Directions -> Seq(Messages)] /\ got \in [Directions -> Seq(Seq(Byte))]
  BY DEF TypeOK
<1>2. PICK s \in Seq(Messages), g \in Seq(Seq(Byte)) : s = sent[d] /\ g = got[d]
  BY <1>1
<1>3. Len(g) <= Len(s) /\ \A i \in 1..Len(g) : g[i] = s[i]
  BY <1>2 DEF PrefixInv
<1>4. SubSeq(g, 1, Len(g)) = SubSeq(s, 1, Len(g))
  <2>1. PICK n \in Nat : n = Len(g) /\ n <= Len(s)
    BY <1>3
  <2>2. SubSeq(g, 1, n) = [i \in 1..n |-> g[i]]
    BY <2>1
  <2>3. SubSeq(s, 1, n) = [i \in 1..n |-> s[i]]
    BY <2>1
  <2> QED BY <1>3, <2>1, <2>2, <2>3
<1> QED BY <1>2, <1>3, <1>4 DEF IsPrefix

\* On a connection whose first packet carried the key, on which no write failed
\* and nothing was sent that is too long for the coders, each side receives what
\* the other sent, in order and unharmed.
THEOREM Understood == Spec => []ReceivedAsSent
<1>1. SessionInv => ReceivedAsSent
  <2> SUFFICES ASSUME SessionInv, Sound PROVE ~garbled /\ \A d \in Directions : IsPrefix(got[d], sent[d])
    BY DEF ReceivedAsSent
  <2>1. TypeOK /\ ~garbled /\ PrefixInv("up") /\ PrefixInv("down")
    BY DEF SessionInv, SoundInv
  <2>2. \A d \in Directions : d = "up" \/ d = "down"
    BY DEF Directions
  <2>3. \A d \in Directions : IsPrefix(got[d], sent[d])
    BY <2>1, <2>2, PrefixIs
  <2> QED BY <2>1, <2>3
<1> QED BY <1>1, SessionAlways, PTL

\* No block makes a key null and no message in the clear touches it, so the server
\* sends nothing in the clear but what is too long for its coder.
THEOREM AlwaysEnciphered == Spec => []NeverInTheClear
<1>1. SessionInv => NeverInTheClear
  BY DEF SessionInv, KeyInv, NeverInTheClear, InTheClear
<1> QED BY <1>1, SessionAlways, PTL
=============================================================================
