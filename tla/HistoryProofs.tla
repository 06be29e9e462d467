--------------------------- MODULE HistoryProofs ---------------------------
(***************************************************************************)
(* The slices of History.tla implement the list of HistoryLog.tla, for any *)
(* size of the history and any number of readers. Two facts carry it: each *)
(* slice lies within its array, and on the history's array no slice that   *)
(* was handed out ends behind the history.                                 *)
(***************************************************************************)
EXTENDS History, SequenceTheorems, TLAPS

Inv == TypeOK /\ AppendsBehindReaders

\* A slice that lies within the array it points to.
Sound(s) ==
  /\ s \in Slice
  /\ s.arr \in DOMAIN heap
  /\ s.off + s.len <= Len(heap[s.arr])

\* What an append leaves: w holds the history and m behind it, and what the
\* readers hold is where it was.
Appended(w, m) ==
  /\ heap' \in Seq(Seq(Nat))
  /\ w \in Slice
  /\ w.len = history.len + 1
  /\ w.arr \in DOMAIN heap'
  /\ w.off + w.len <= Len(heap'[w.arr])
  /\ \A i \in 1..w.len :
       heap'[w.arr][w.off + i] = IF i <= history.len THEN Contents(history)[i] ELSE m
  /\ \A r \in Readers :
       /\ snap[r].arr \in DOMAIN heap'
       /\ snap[r].off + snap[r].len <= Len(heap'[snap[r].arr])
       /\ \A i \in 1..snap[r].len :
            heap'[snap[r].arr][snap[r].off + i] = heap[snap[r].arr][snap[r].off + i]
       /\ snap[r].arr = w.arr => snap[r].off + snap[r].len <= w.off + w.len

-----------------------------------------------------------------------------
(* Sequences and slices.                                                   *)

\* What appending a message and keeping the newest ones yields, by elements.
LEMMA NewestByElements ==
  ASSUME NEW old \in Seq(Nat), NEW new \in Seq(Nat), NEW m \in Nat,
         NEW cut \in Nat,
         Len(old) <= HistorySize,
         cut = IF Len(old) + 1 > HistorySize THEN Len(old) + 1 - HistorySize ELSE 0,
         Len(new) = Len(old) + 1 - cut,
         \A i \in 1..Len(new) :
           new[i] = IF cut + i <= Len(old) THEN old[cut + i] ELSE m
  PROVE  new = Log!Newest(Append(old, m))
<1> DEFINE long == Append(old, m)
<1> HistorySize \in Nat \ {0} /\ Len(old) \in Nat
  BY SizesAssumption, LenProperties
<1>1. /\ long \in Seq(Nat)
      /\ Len(long) = Len(old) + 1
      /\ \A i \in 1..Len(long) : long[i] = IF i <= Len(old) THEN old[i] ELSE m
  BY AppendProperties
<1> HIDE DEF long
<1>2. \A i \in 1..Len(new) : new[i] = long[cut + i]
  <2>1. \A i \in 1..Len(new) : cut + i \in 1..Len(long)
    <3>1. Len(new) + cut = Len(long)
      BY <1>1
    <3> QED
      BY <1>1, <3>1
  <2> QED
    BY <1>1, <2>1, Zenon
<1>3. CASE Len(old) + 1 > HistorySize
  <2> DEFINE lo == cut + 1
             hi == Len(long)
             short == SubSeq(long, lo, hi)
  <2>1. /\ lo \in Int /\ hi \in Int /\ lo <= hi
        /\ hi > HistorySize /\ hi - HistorySize + 1 = lo
        /\ hi - lo + 1 = Len(new)
        /\ \A i \in 1..Len(new) : lo + i - 1 = cut + i
        /\ \A i \in lo..hi : i \in 1..hi
    BY <1>1, <1>3
  <2>2. \A i \in lo..hi : long[i] \in Nat
    BY <1>1, <2>1, ElementOfSeq
  <2>3. Log!Newest(long) = short
    BY <2>1 DEF Log!Newest
  <2> HIDE DEF lo, hi
  <2>4. /\ short \in Seq(Nat)
        /\ Len(short) = IF lo <= hi THEN hi - lo + 1 ELSE 0
        /\ \A i \in 1..(hi - lo + 1) : short[i] = long[lo + i - 1]
    BY <2>1, <2>2, SubSeqProperties
  <2> HIDE DEF short
  <2>5. Len(new) = Len(short)
    BY <2>1, <2>4, Zenon
  <2>6. \A i \in 1..Len(new) : short[i] = long[cut + i]
    BY <2>1, <2>4, Zenon
  <2>7. new = short
    BY <1>2, <2>4, <2>5, <2>6, SeqEqual
  <2> QED
    BY <2>3, <2>7 DEF long
<1>4. CASE Len(old) + 1 <= HistorySize
  <2>1. Log!Newest(long) = long
    BY <1>1, <1>4 DEF Log!Newest
  <2>2. cut = 0 /\ Len(new) = Len(long)
    <3>1. ~(Len(old) + 1 > HistorySize)
      BY <1>4
    <3>2. cut = 0
      BY <3>1, Zenon
    <3>3. Len(old) + 1 - 0 = Len(old) + 1
      OBVIOUS
    <3> QED
      BY <1>1, <3>2, <3>3, Zenon
  <2>3. \A i \in 1..Len(new) : cut + i = i
    BY <1>1, <2>2
  <2>4. \A i \in 1..Len(new) : new[i] = long[i]
    BY <1>2, <2>3, Zenon
  <2>5. new = long
    BY <1>1, <2>2, <2>4, SeqEqual
  <2> QED
    BY <2>1, <2>5 DEF long
<1> QED
  BY <1>3, <1>4

\* What a sound slice holds is a list of messages.
LEMMA ContentsOfSlice ==
  ASSUME heap \in Seq(Seq(Nat)), NEW STATE s, Sound(s)
  PROVE  /\ Contents(s) \in Seq(Nat)
         /\ Len(Contents(s)) = s.len
         /\ \A i \in 1..s.len : Contents(s)[i] = heap[s.arr][s.off + i]
<1>1. heap[s.arr] \in Seq(Nat)
  BY ElementOfSeq DEF Sound
<1>2. s.len \in Nat /\ s.off \in Nat
  BY DEF Sound, Slice
<1>3. \A i \in 1..s.len : s.off + i \in 1..Len(heap[s.arr])
  BY <1>1, <1>2 DEF Sound
<1>4. \A i \in 1..s.len : heap[s.arr][s.off + i] \in Nat
  BY <1>1, <1>3, ElementOfSeq
<1>5. Contents(s) \in [1..s.len -> Nat]
  BY <1>4 DEF Contents
<1>6. Contents(s) \in Seq(Nat)
  <2>1. Seq(Nat) = UNION {[1..n -> Nat] : n \in Nat}
    BY SeqDef, Zenon
  <2> QED
    BY <1>2, <1>5, <2>1, Zenon
<1>7. Len(Contents(s)) = s.len
  BY <1>2, <1>5, <1>6, LenProperties
<1> QED
  BY <1>6, <1>7 DEF Contents

LEMMA SlicesSound ==
  ASSUME TypeOK
  PROVE  Sound(history) /\ \A r \in Readers : Sound(snap[r])
  BY Zenon DEF TypeOK, Sound

-----------------------------------------------------------------------------
(* The steps.                                                              *)

LEMMA InPlace ==
  ASSUME Inv, NEW m \in Nat, AppendInPlace(m)
  PROVE  Appended([history EXCEPT !.len = @ + 1], m)
<1> DEFINE w == [history EXCEPT !.len = @ + 1]
           a == history.arr
           k == history.off + history.len + 1
<1>1. heap \in Seq(Seq(Nat)) /\ Sound(history) /\ \A r \in Readers : Sound(snap[r])
  BY SlicesSound DEF Inv, TypeOK
<1>2. /\ a \in 1..Len(heap) /\ heap[a] \in Seq(Nat)
      /\ history.off \in Nat /\ history.len \in Nat
      /\ k \in 1..Len(heap[a])
      /\ heap' = [heap EXCEPT ![a] = [heap[a] EXCEPT ![k] = m]]
  <2>1. a \in 1..Len(heap) /\ heap[a] \in Seq(Nat)
    BY <1>1, ElementOfSeq, LenProperties DEF Sound
  <2>2. history.off \in Nat /\ history.len \in Nat
    BY <1>1 DEF Sound, Slice
  <2>3. Room(history) > 0 /\ heap' = [heap EXCEPT ![a] = [heap[a] EXCEPT ![k] = m]]
    BY DEF AppendInPlace
  <2>4. Len(heap[a]) \in Nat
    BY <2>1, LenProperties
  <2>5. k \in 1..Len(heap[a])
    BY <2>2, <2>3, <2>4 DEF Room
  <2> QED
    BY <2>1, <2>2, <2>3, <2>5
<1>3. w \in Slice /\ w.arr = a /\ w.off = history.off /\ w.len = history.len + 1
  <2>1. history \in [arr : Nat, off : Nat, len : Nat]
    BY <1>1 DEF Sound, Slice
  <2> QED
    BY <2>1 DEF Slice
<1> HIDE DEF w, a, k
<1>4. /\ [heap[a] EXCEPT ![k] = m] \in Seq(Nat)
      /\ Len([heap[a] EXCEPT ![k] = m]) = Len(heap[a])
      /\ \A i \in 1..Len(heap[a]) :
           [heap[a] EXCEPT ![k] = m][i] = IF i = k THEN m ELSE heap[a][i]
  BY <1>2, ExceptSeq
<1>5. /\ heap' \in Seq(Seq(Nat))
      /\ Len(heap') = Len(heap)
      /\ DOMAIN heap' = DOMAIN heap
      /\ \A b \in DOMAIN heap : b # a => heap'[b] = heap[b]
      /\ heap'[a] = [heap[a] EXCEPT ![k] = m]
  <2> DEFINE e == [heap[a] EXCEPT ![k] = m]
  <2>1. e \in Seq(Nat) /\ a \in 1..Len(heap) /\ heap' = [heap EXCEPT ![a] = e]
    BY <1>2, <1>4
  <2> HIDE DEF e
  <2>2. /\ heap' \in Seq(Seq(Nat))
        /\ Len(heap') = Len(heap)
        /\ \A b \in 1..Len(heap) : heap'[b] = IF b = a THEN e ELSE heap[b]
    BY <1>1, <2>1, ExceptSeq
  <2>3. DOMAIN heap' = 1..Len(heap) /\ DOMAIN heap = 1..Len(heap)
    BY <1>1, <2>2, LenProperties
  <2> QED
    BY <2>1, <2>2, <2>3, Zenon DEF e
<1>6. \A b \in DOMAIN heap :
        /\ Len(heap'[b]) = Len(heap[b])
        /\ \A i \in 1..Len(heap[b]) :
             heap'[b][i] = IF b = a /\ i = k THEN m ELSE heap[b][i]
  BY <1>4, <1>5, Zenon
<1>7. w.arr \in DOMAIN heap' /\ w.off + w.len <= Len(heap'[w.arr])
  BY <1>1, <1>2, <1>3, <1>6, <1>5 DEF Sound, a, k
<1>8. ASSUME NEW i \in 1..w.len
      PROVE  heap'[w.arr][w.off + i] = IF i <= history.len THEN Contents(history)[i] ELSE m
  <2>0. history.off \in Nat /\ history.len \in Nat /\ w.len = history.len + 1
    BY <1>2, <1>3, Zenon
  <2>1. history.off + i \in 1..Len(heap[a])
    <3>1. k \in 1..Len(heap[a])
      BY <1>2, Zenon
    <3> QED
      BY <2>0, <3>1 DEF k
  <2>2. (history.off + i = k) <=> ~(i <= history.len)
    <3>1. history.off \in Nat /\ history.len \in Nat /\ i \in 1..(history.len + 1)
      BY <1>2, <1>3
    <3> QED
      BY <3>1 DEF k
  <2>3. heap'[a][history.off + i] = IF i <= history.len THEN heap[a][history.off + i] ELSE m
    BY <1>1, <1>6, <2>1, <2>2, Zenon DEF Sound, a
  <2>4. i <= history.len => Contents(history)[i] = heap[a][history.off + i]
    BY <1>2, <1>3 DEF Contents, a
  <2> QED
    BY <1>3, <2>3, <2>4, Zenon
<1>9. ASSUME NEW r \in Readers
      PROVE  /\ snap[r].arr \in DOMAIN heap'
             /\ snap[r].off + snap[r].len <= Len(heap'[snap[r].arr])
             /\ \A i \in 1..snap[r].len :
                  heap'[snap[r].arr][snap[r].off + i] = heap[snap[r].arr][snap[r].off + i]
             /\ snap[r].arr = w.arr => snap[r].off + snap[r].len <= w.off + w.len
  <2> DEFINE s == snap[r]
  <2>1. /\ s.arr \in DOMAIN heap /\ s.off \in Nat /\ s.len \in Nat
        /\ s.off + s.len <= Len(heap[s.arr])
        /\ Len(heap[s.arr]) \in Nat
    BY <1>1, ElementOfSeq, LenProperties DEF Sound, Slice
  <2>2. s.arr = a => s.off + s.len <= history.off + history.len
    BY DEF Inv, AppendsBehindReaders, a
  <2> HIDE DEF s
  <2>3. ASSUME NEW i \in 1..s.len
        PROVE  heap'[s.arr][s.off + i] = heap[s.arr][s.off + i]
    <3>1. s.off + i \in 1..Len(heap[s.arr])
      BY <2>1
    <3>2. ~(s.arr = a /\ s.off + i = k)
      <4>1. s.off + i <= s.off + s.len
        BY <2>1
      <4>2. history.off + history.len < k
        BY <1>2 DEF k
      <4>3. /\ s.off + i \in Int /\ s.off + s.len \in Int
            /\ history.off + history.len \in Int
        <5>1. history.off \in Nat /\ history.len \in Nat
          BY <1>2, Zenon
        <5>2. s.off \in Nat /\ s.len \in Nat
          BY <2>1, Zenon
        <5> QED
          BY <5>1, <5>2
      <4>4. \A x, y, z \in Int : x <= y /\ y <= z /\ z < k => x # k
        BY <1>2
      <4> QED
        BY <2>2, <4>1, <4>2, <4>3, <4>4, Zenon
    <3> QED
      BY <1>6, <2>1, <3>1, <3>2, Zenon
  <2>4. s.arr = w.arr => s.off + s.len <= w.off + w.len
    <3>1. history.off \in Nat /\ history.len \in Nat /\ s.off \in Nat /\ s.len \in Nat
      BY <1>2, <2>1, Zenon
    <3>2. w.arr = a /\ w.off = history.off /\ w.len = history.len + 1
      BY <1>3, Zenon
    <3> QED
      BY <2>2, <3>1, <3>2
  <2> QED
    BY <1>5, <1>6, <2>1, <2>3, <2>4, Zenon DEF s
<1> QED
  BY <1>3, <1>5, <1>7, <1>8, <1>9, Zenon DEF Appended, w

\* The array that append allocates: the window, the message, and room to spare.
LEMMA GrownArray ==
  ASSUME Inv, NEW m \in Nat, NEW spare \in Nat
  PROVE  /\ Grown(m, spare) \in Seq(Nat)
         /\ Len(Grown(m, spare)) = history.len + 1 + spare
         /\ \A i \in 1..(history.len + 1) :
              Grown(m, spare)[i] = IF i <= history.len THEN Contents(history)[i] ELSE m
<1> DEFINE old == Contents(history)
           rest == [i \in 1..spare |-> 0]
           front == old \o <<m>>
<1>1. history.len \in Nat /\ old \in Seq(Nat) /\ Len(old) = history.len
  <2>1. heap \in Seq(Seq(Nat)) /\ Sound(history)
    BY SlicesSound DEF Inv, TypeOK
  <2> QED
    BY <2>1, ContentsOfSlice DEF Sound, Slice
<1>2. rest \in Seq(Nat) /\ Len(rest) = spare
  <2>1. rest \in [1..spare -> Nat]
    OBVIOUS
  <2>2. Seq(Nat) = UNION {[1..n -> Nat] : n \in Nat}
    BY SeqDef, Zenon
  <2>3. rest \in Seq(Nat)
    BY <2>1, <2>2, Zenon
  <2> QED
    BY <2>1, <2>3, LenProperties
<1>3. Grown(m, spare) = front \o rest
  BY Zenon DEF Grown
<1> HIDE DEF old, rest
<1>4. <<m>> \in Seq(Nat) /\ Len(<<m>>) = 1 /\ <<m>>[1] = m
  OBVIOUS
<1>5. /\ front \in Seq(Nat)
      /\ Len(front) = history.len + 1
      /\ \A i \in 1..(history.len + 1) :
           front[i] = IF i <= history.len THEN old[i] ELSE m
  <2>1. /\ front \in Seq(Nat)
        /\ Len(front) = Len(old) + Len(<<m>>)
        /\ \A i \in 1..(Len(old) + Len(<<m>>)) :
             front[i] = IF i <= Len(old) THEN old[i] ELSE <<m>>[i - Len(old)]
    BY <1>1, <1>4, ConcatProperties
  <2>2. \A i \in 1..(history.len + 1) : ~(i <= history.len) => i - history.len = 1
    BY <1>1
  <2> QED
    BY <1>1, <1>4, <2>1, <2>2, Zenon
<1> HIDE DEF front
<1>6. /\ front \o rest \in Seq(Nat)
      /\ Len(front \o rest) = Len(front) + Len(rest)
      /\ \A i \in 1..(Len(front) + Len(rest)) :
           (front \o rest)[i] = IF i <= Len(front) THEN front[i] ELSE rest[i - Len(front)]
  BY <1>2, <1>5, ConcatProperties
<1>7. \A i \in 1..(history.len + 1) :
        i \in 1..(history.len + 1 + spare) /\ i <= history.len + 1
  BY <1>1
<1> QED
  BY <1>2, <1>3, <1>5, <1>6, <1>7, Zenon DEF old

LEMMA ByCopy ==
  ASSUME Inv, NEW m \in Nat, AppendByCopy(m)
  PROVE  Appended([arr |-> Len(heap) + 1, off |-> 0, len |-> history.len + 1], m)
<1> DEFINE w == [arr |-> Len(heap) + 1, off |-> 0, len |-> history.len + 1]
<1>1. heap \in Seq(Seq(Nat)) /\ history.len \in Nat /\ Len(heap) \in Nat
      /\ \A r \in Readers : Sound(snap[r])
  BY SlicesSound, LenProperties DEF Inv, TypeOK, Slice
<1>2. PICK spare \in Nat : heap' = Append(heap, Grown(m, spare))
  BY <1>1 DEF AppendByCopy
<1>3. /\ Grown(m, spare) \in Seq(Nat)
      /\ Len(Grown(m, spare)) = history.len + 1 + spare
      /\ \A i \in 1..(history.len + 1) :
           Grown(m, spare)[i] = IF i <= history.len THEN Contents(history)[i] ELSE m
  BY GrownArray
<1>4. /\ heap' \in Seq(Seq(Nat))
      /\ DOMAIN heap' = 1..(Len(heap) + 1)
      /\ \A b \in 1..Len(heap) : heap'[b] = heap[b]
      /\ heap'[Len(heap) + 1] = Grown(m, spare)
  BY <1>1, <1>2, <1>3, AppendProperties, LenProperties
<1>5. w \in Slice /\ w.arr = Len(heap) + 1 /\ w.off = 0 /\ w.len = history.len + 1
  BY <1>1 DEF Slice
<1> HIDE DEF w
<1>6. w.arr \in DOMAIN heap' /\ w.off + w.len <= Len(heap'[w.arr])
  BY <1>1, <1>3, <1>4, <1>5
<1>7. ASSUME NEW i \in 1..w.len
      PROVE  heap'[w.arr][w.off + i] = IF i <= history.len THEN Contents(history)[i] ELSE m
  <2>1. i \in 1..(history.len + 1) /\ w.off + i = i
    BY <1>1, <1>5
  <2>2. heap'[w.arr][w.off + i] = Grown(m, spare)[i]
    BY <1>4, <1>5, <2>1, Zenon
  <2> QED
    BY <1>3, <2>1, <2>2, Zenon
<1>8. ASSUME NEW r \in Readers
      PROVE  /\ snap[r].arr \in DOMAIN heap'
             /\ snap[r].off + snap[r].len <= Len(heap'[snap[r].arr])
             /\ \A i \in 1..snap[r].len :
                  heap'[snap[r].arr][snap[r].off + i] = heap[snap[r].arr][snap[r].off + i]
             /\ snap[r].arr # w.arr
  <2>1. snap[r].arr \in 1..Len(heap) /\ snap[r].off + snap[r].len <= Len(heap[snap[r].arr])
    BY <1>1, LenProperties DEF Sound
  <2>2. snap[r].arr \in 1..(Len(heap) + 1) /\ snap[r].arr # Len(heap) + 1
    BY <1>1, <2>1
  <2> QED
    BY <1>4, <1>5, <2>1, <2>2, Zenon
<1> QED
  BY <1>4, <1>5, <1>6, <1>7, <1>8, Zenon DEF Appended, w

\* The window of an append, trimmed to the history's size: the invariant holds
\* of it, and its contents are those of the list.
LEMMA TrimmedWindow ==
  ASSUME Inv, NEW STATE w, NEW m \in Nat, Appended(w, m),
         history' = Trim(w), snap' = snap, adds' \in 0..MaxAdds
  PROVE  /\ Inv'
         /\ Contents(history)' = Log!Newest(Append(Contents(history), m))
         /\ \A r \in Readers : Contents(snap[r])' = Contents(snap[r])
<1> DEFINE cut == IF history.len + 1 > HistorySize
                  THEN history.len + 1 - HistorySize ELSE 0
<1>1. /\ heap \in Seq(Seq(Nat)) /\ Sound(history) /\ \A r \in Readers : Sound(snap[r])
      /\ history.len \in Nat /\ history.off \in Nat /\ history.len <= HistorySize
  BY SlicesSound DEF Inv, TypeOK, Slice
<1>2. HistorySize \in Nat \ {0}
  BY SizesAssumption
<1>3. w.arr \in Nat /\ w.off \in Nat /\ w.len = history.len + 1 /\ w \in Slice
  BY DEF Appended, Slice
<1>4. cut \in Nat /\ cut <= w.len
  BY <1>1, <1>2, <1>3
<1>5. /\ history' \in Slice
      /\ history'.arr = w.arr
      /\ history'.off = w.off + cut
      /\ history'.len = w.len - cut
      /\ history'.len <= HistorySize
  <2>1. CASE w.len > HistorySize
    <3>1. history' = [w EXCEPT !.off = w.off + (w.len - HistorySize), !.len = HistorySize]
      BY <2>1 DEF Trim
    <3>2. /\ cut = w.len - HistorySize
          /\ w.off + (w.len - HistorySize) \in Nat
          /\ w.len - cut = HistorySize
          /\ HistorySize <= HistorySize
      <4>1. cut = w.len - HistorySize
        <5>1. w.len = history.len + 1 /\ history.len + 1 > HistorySize
          BY <1>3, <2>1
        <5>2. cut = (history.len + 1) - HistorySize
          BY <1>1, <1>2, <5>1
        <5> QED
          BY <5>1, <5>2, Zenon
      <4> HIDE DEF cut
      <4>2. w.len \in Nat
        BY <1>1, <1>3
      <4> QED
        BY <1>2, <1>3, <2>1, <4>1, <4>2
    <3>3. w \in [arr : Nat, off : Nat, len : Nat]
      BY <1>3 DEF Slice
    <3> HIDE DEF cut
    <3> QED
      BY <1>2, <3>1, <3>2, <3>3 DEF Slice
  <2>2. CASE ~(w.len > HistorySize)
    <3>1. history' = w
      BY <2>2 DEF Trim
    <3>2. cut = 0 /\ w.off + 0 = w.off /\ w.len - 0 = w.len /\ w.len <= HistorySize
      BY <1>1, <1>2, <1>3, <2>2
    <3> HIDE DEF cut
    <3> QED
      BY <1>3, <3>1, <3>2, Zenon
  <2> QED
    BY <2>1, <2>2
<1> HIDE DEF cut
<1>6. /\ heap' \in Seq(Seq(Nat))
      /\ history'.arr \in DOMAIN heap'
      /\ history'.off + history'.len = w.off + w.len
      /\ history'.off + history'.len <= Len(heap'[history'.arr])
  <2>1. history'.off + history'.len = w.off + w.len
    <3>1. w.off \in Nat /\ w.len \in Nat
      BY <1>3 DEF Slice
    <3>2. (w.off + cut) + (w.len - cut) = w.off + w.len
      BY <1>4, <3>1
    <3> QED
      BY <1>5, <3>2, Zenon
  <2> QED
    BY <1>5, <2>1, Zenon DEF Appended
<1>7. /\ snap' \in [Readers -> Slice]
      /\ \A r \in Readers :
           /\ snap'[r].arr \in DOMAIN heap'
           /\ snap'[r].off + snap'[r].len <= Len(heap'[snap'[r].arr])
           /\ snap'[r].arr = history'.arr =>
                snap'[r].off + snap'[r].len <= history'.off + history'.len
  BY <1>5, <1>6, Zenon DEF Appended, Inv, TypeOK
<1>8. Inv'
  <2>1. AppendsBehindReaders'
    BY <1>7, Zenon DEF AppendsBehindReaders
  <2>2. TypeOK'
    BY <1>5, <1>6, <1>7, Zenon DEF TypeOK
  <2> QED
    BY <2>1, <2>2 DEF Inv
<1>9. Contents(history)' = Log!Newest(Append(Contents(history), m))
  <2> DEFINE old == Contents(history)
             new == Contents(history)'
  <2>1. old \in Seq(Nat) /\ Len(old) = history.len
    BY <1>1, ContentsOfSlice, Zenon
  <2>2. new = [i \in 1..history'.len |-> heap'[history'.arr][history'.off + i]]
    BY Zenon DEF Contents
  <2>3. \A i \in 1..history'.len :
          new[i] = IF cut + i <= history.len THEN old[cut + i] ELSE m
    <3>1. ASSUME NEW i \in 1..history'.len
          PROVE  cut + i \in 1..w.len /\ history'.off + i = w.off + (cut + i)
      BY <1>1, <1>3, <1>4, <1>5
    <3>2. \A i \in 1..history'.len : new[i] = heap'[history'.arr][history'.off + i]
      BY <2>2, Zenon
    <3>3. \A j \in 1..w.len : heap'[w.arr][w.off + j] = IF j <= history.len THEN old[j] ELSE m
      BY Zenon DEF Appended
    <3> HIDE DEF old, new
    <3>4. ASSUME NEW i \in 1..history'.len
          PROVE  new[i] = IF cut + i <= history.len THEN old[cut + i] ELSE m
      <4>1. new[i] = heap'[w.arr][w.off + (cut + i)]
        BY <1>5, <3>1, <3>2, Zenon
      <4> QED
        BY <3>1, <3>3, <4>1, Zenon
    <3> QED
      BY <3>4, Zenon
  <2>4. new \in Seq(Nat) /\ Len(new) = history'.len
    <3>1. \A j \in 1..history.len : old[j] \in Nat
      BY <2>1, ElementOfSeq
    <3>2. \A i \in 1..history'.len : cut + i <= history.len => cut + i \in 1..history.len
      BY <1>1, <1>3, <1>4, <1>5
    <3>3. \A i \in 1..history'.len : new[i] \in Nat
      BY <2>3, <3>1, <3>2, Zenon
    <3>4. history'.len \in Nat
      BY <1>5 DEF Slice
    <3> HIDE DEF old
    <3>5. new \in [1..history'.len -> Nat]
      BY <2>2, <3>3, Zenon
    <3>6. Seq(Nat) = UNION {[1..n -> Nat] : n \in Nat}
      BY SeqDef, Zenon
    <3>7. new \in Seq(Nat)
      BY <3>4, <3>5, <3>6, Zenon
    <3> QED
      BY <3>4, <3>5, <3>7, LenProperties
  <2> HIDE DEF old, new
  <2>5. Len(old) <= HistorySize /\ Len(new) = Len(old) + 1 - cut
    <3>1. Len(old) <= HistorySize
      BY <1>1, <2>1
    <3>2. Len(new) = Len(old) + 1 - cut
      <4>1. Len(new) = w.len - cut /\ w.len = Len(old) + 1
        BY <1>3, <1>5, <2>1, <2>4, Zenon
      <4>2. \A x, y \in Nat : x + 1 - y = (x + 1) - y
        OBVIOUS
      <4> QED
        BY <1>1, <1>4, <2>1, <4>1, <4>2, Zenon
    <3> QED
      BY <3>1, <3>2
  <2>6. cut = IF Len(old) + 1 > HistorySize THEN Len(old) + 1 - HistorySize ELSE 0
    BY <2>1, Zenon DEF cut
  <2>7. \A i \in 1..Len(new) :
          new[i] = IF cut + i <= Len(old) THEN old[cut + i] ELSE m
    BY <2>1, <2>3, <2>4, Zenon
  <2>8. new = Log!Newest(Append(old, m))
    BY <1>4, <2>1, <2>4, <2>5, <2>6, <2>7, NewestByElements, Zenon
  <2> QED
    BY <2>8 DEF old, new
<1>10. ASSUME NEW r \in Readers
       PROVE  Contents(snap[r])' = Contents(snap[r])
  BY Zenon DEF Contents, Appended
<1> QED
  BY <1>8, <1>9, <1>10

LEMMA AddStep ==
  ASSUME Inv, AddHistory
  PROVE  Inv' /\ Log!Add
<1> DEFINE m == adds + 1
           got == [r \in Readers |-> Contents(snap[r])]
<1>1. m \in Nat /\ adds' \in 0..MaxAdds
  BY SizesAssumption DEF Inv, TypeOK, AddHistory
<1>2. ASSUME NEW w, Appended(w, m), history' = Trim(w)
      PROVE  /\ Inv'
             /\ Contents(history)' = Log!Newest(Append(Contents(history), m))
             /\ \A r \in Readers : Contents(snap[r])' = Contents(snap[r])
  BY <1>1, <1>2, TrimmedWindow, Zenon DEF AddHistory
<1>3. /\ Inv'
      /\ Contents(history)' = Log!Newest(Append(Contents(history), m))
      /\ \A r \in Readers : Contents(snap[r])' = Contents(snap[r])
  <2>1. CASE AppendInPlace(m) /\ history' = Trim([history EXCEPT !.len = @ + 1])
    BY <1>1, <1>2, <2>1, InPlace, Zenon
  <2>2. CASE /\ AppendByCopy(m)
             /\ history' = Trim([arr |-> Len(heap) + 1, off |-> 0, len |-> history.len + 1])
    BY <1>1, <1>2, <2>2, ByCopy, Zenon
  <2> QED
    BY <2>1, <2>2, Zenon DEF AddHistory
<1>4. got' = got
  BY <1>3, Zenon DEF AddHistory
<1> QED
  BY <1>3, <1>4, Zenon DEF AddHistory, Log!Add

LEMMA GetStep ==
  ASSUME Inv, NEW r \in Readers, GetHistory(r)
  PROVE  Inv' /\ Log!Get(r)
<1>1. TypeOK'
  BY Zenon DEF Inv, TypeOK, GetHistory
<1>2. AppendsBehindReaders'
  <2>1. history.off + history.len <= history.off + history.len
    BY DEF Inv, TypeOK, Slice
  <2>2. snap \in [Readers -> Slice]
    BY DEF Inv, TypeOK
  <2> QED
    BY <2>1, <2>2, Zenon DEF Inv, AppendsBehindReaders, GetHistory
<1>3. /\ Contents(history)' = Contents(history)
      /\ \A q \in Readers :
           Contents(snap[q])' = IF q = r THEN Contents(history) ELSE Contents(snap[q])
  BY Zenon DEF Contents, GetHistory, Inv, TypeOK
<1>4. Log!Get(r)
  BY <1>3, Zenon DEF Log!Get, GetHistory
<1> QED
  BY <1>1, <1>2, <1>4 DEF Inv

LEMMA InitHolds == Init => Inv /\ Log!LogInit
<1> SUFFICES ASSUME Init PROVE Inv /\ Log!LogInit
  OBVIOUS
<1>1. NilSlice \in Slice /\ NilSlice.arr = 1 /\ NilSlice.off = 0 /\ NilSlice.len = 0
  BY DEF NilSlice, Slice
<1>2. /\ heap \in Seq(Seq(Nat)) /\ 1 \in DOMAIN heap /\ heap[1] = <<>>
      /\ Len(heap[1]) = 0
  BY DEF Init
<1>3. /\ history = NilSlice /\ adds = 0
      /\ snap \in [Readers -> Slice] /\ \A r \in Readers : snap[r] = NilSlice
  BY <1>1 DEF Init
<1>4. /\ adds \in 0..MaxAdds /\ 0 <= HistorySize /\ 0 + 0 <= 0
  BY <1>3, SizesAssumption
<1>5. Inv
  <2>1. history.off + history.len = 0 /\ history.len <= HistorySize
    BY <1>1, <1>3, <1>4
  <2>2. \A s \in {history} \cup {snap[r] : r \in Readers} : s = NilSlice
    BY <1>3, Zenon
  <2>3. NilSlice.arr \in DOMAIN heap /\ NilSlice.off + NilSlice.len <= Len(heap[NilSlice.arr])
    BY <1>1, <1>2
  <2>4. TypeOK
    BY <1>1, <1>2, <1>3, <1>4, <2>1, <2>2, <2>3, Zenon DEF TypeOK
  <2>5. AppendsBehindReaders
    <3>1. NilSlice.off + NilSlice.len <= NilSlice.off + NilSlice.len
      BY <1>1
    <3> QED
      BY <1>3, <3>1, Zenon DEF AppendsBehindReaders
  <2> QED
    BY <2>4, <2>5 DEF Inv
<1>6. Contents(NilSlice) = <<>>
  BY <1>1 DEF Contents
<1>7. Log!LogInit
  BY <1>3, <1>6, Zenon DEF Log!LogInit
<1> QED
  BY <1>5, <1>7

LEMMA NextHolds == Inv /\ [Next]_vars => Inv' /\ [Log!LogNext]_(Log!logVars)
<1> SUFFICES ASSUME Inv, [Next]_vars
             PROVE  Inv' /\ [Log!LogNext]_(Log!logVars)
  OBVIOUS
<1>1. CASE AddHistory
  BY <1>1, AddStep, Zenon DEF Log!LogNext
<1>2. CASE \E r \in Readers : GetHistory(r)
  BY <1>2, GetStep, Zenon DEF Log!LogNext
<1>3. CASE UNCHANGED vars
  <2>1. Inv'
    BY <1>3, Zenon DEF Inv, TypeOK, AppendsBehindReaders, vars
  <2>2. UNCHANGED Log!logVars
    BY <1>3, Zenon DEF Log!logVars, Contents, vars
  <2> QED
    BY <2>1, <2>2
<1> QED
  BY <1>1, <1>2, <1>3 DEF Next

-----------------------------------------------------------------------------
(* What the list of the newest messages is.                                *)

LEMMA NewestOfElements ==
  ASSUME NEW n \in Nat, NEW k, k = IF n > HistorySize THEN HistorySize ELSE n
  PROVE  /\ k \in Nat /\ k <= n /\ k <= HistorySize
         /\ Log!NewestOf(n) \in Seq(Nat)
         /\ Len(Log!NewestOf(n)) = k
         /\ \A i \in 1..k : Log!NewestOf(n)[i] = n - k + i
<1> DEFINE list == [i \in 1..k |-> n - k + i]
<1>1. k \in Nat /\ k <= n /\ k <= HistorySize
  BY SizesAssumption
<1>2. Log!NewestOf(n) = list
  BY Zenon DEF Log!NewestOf
<1>3. \A i \in 1..k : n - k + i \in Nat
  BY <1>1
<1>4. list \in [1..k -> Nat]
  BY <1>3, Zenon
<1>5. Seq(Nat) = UNION {[1..j -> Nat] : j \in Nat}
  BY SeqDef, Zenon
<1>6. list \in Seq(Nat)
  BY <1>1, <1>4, <1>5, Zenon
<1>7. Len(list) = k
  BY <1>1, <1>4, <1>6, LenProperties
<1> QED
  BY <1>1, <1>2, <1>6, <1>7, Zenon

LEMMA NewestOfNext ==
  ASSUME NEW n \in Nat
  PROVE  Log!NewestOf(n + 1) = Log!Newest(Append(Log!NewestOf(n), n + 1))
<1> DEFINE k == IF n > HistorySize THEN HistorySize ELSE n
           k1 == IF n + 1 > HistorySize THEN HistorySize ELSE n + 1
           cut == IF k + 1 > HistorySize THEN k + 1 - HistorySize ELSE 0
           old == Log!NewestOf(n)
           new == Log!NewestOf(n + 1)
<1>1. HistorySize \in Nat \ {0} /\ n + 1 \in Nat
  BY SizesAssumption
<1>2. cut \in Nat /\ k \in Nat /\ k1 \in Nat /\ k1 = k + 1 - cut
  BY <1>1
<1>3. /\ k <= HistorySize /\ old \in Seq(Nat) /\ Len(old) = k
      /\ \A i \in 1..k : old[i] = n - k + i
  BY NewestOfElements, Zenon
<1>4. /\ new \in Seq(Nat) /\ Len(new) = k1
      /\ \A i \in 1..k1 : new[i] = n + 1 - k1 + i
  <2> DEFINE p == n + 1
  <2>1. p \in Nat /\ k1 = IF p > HistorySize THEN HistorySize ELSE p
    BY <1>1
  <2> HIDE DEF p, k1
  <2>2. /\ Log!NewestOf(p) \in Seq(Nat) /\ Len(Log!NewestOf(p)) = k1
        /\ \A i \in 1..k1 : Log!NewestOf(p)[i] = p - k1 + i
    BY <2>1, NewestOfElements, Zenon
  <2>3. k1 \in Nat /\ \A i \in 1..k1 : p - k1 + i = n + 1 - k1 + i
    BY <2>1, <1>2 DEF p
  <2> QED
    BY <2>2, <2>3, Zenon DEF p
<1>5. cut = IF Len(old) + 1 > HistorySize THEN Len(old) + 1 - HistorySize ELSE 0
  BY <1>3, Zenon
<1> HIDE DEF old, new, cut, k, k1
<1>6. ASSUME NEW i \in 1..Len(new)
      PROVE  new[i] = IF cut + i <= Len(old) THEN old[cut + i] ELSE n + 1
  <2>1. i \in 1..k1 /\ new[i] = n + 1 - k1 + i
    BY <1>4, Zenon
  <2>2. CASE cut + i <= k
    <3>1. cut + i \in 1..k /\ n - k + (cut + i) = n + 1 - k1 + i
      BY <1>2, <2>1, <2>2
    <3> QED
      BY <1>3, <2>1, <2>2, <3>1, Zenon
  <2>3. CASE ~(cut + i <= k)
    <3>1. n + 1 - k1 + i = n + 1
      BY <1>2, <2>1, <2>3
    <3> QED
      BY <1>3, <2>1, <2>3, <3>1, Zenon
  <2> QED
    BY <2>2, <2>3
<1>7. Len(old) <= HistorySize /\ Len(new) = Len(old) + 1 - cut
  BY <1>2, <1>3, <1>4, Zenon
<1>8. new = Log!Newest(Append(old, n + 1))
  <2>1. \A i \in 1..Len(new) : new[i] = IF cut + i <= Len(old) THEN old[cut + i] ELSE n + 1
    BY <1>6, Zenon
  <2>2. cut \in Nat /\ n + 1 \in Nat /\ old \in Seq(Nat) /\ new \in Seq(Nat)
    BY <1>1, <1>2, <1>3, <1>4
  <2> QED
    BY <1>5, <1>7, <2>1, <2>2, NewestByElements
<1> QED
  BY <1>8 DEF old, new

-----------------------------------------------------------------------------
(* The results.                                                            *)

LEMMA Invariance == Spec => []Inv
<1>1. Init => Inv
  BY InitHolds
<1>2. Inv /\ [Next]_vars => Inv'
  BY NextHolds
<1> QED
  BY <1>1, <1>2, PTL DEF Spec

\* Every slice stays within its array and the history within its size
\* (history.go:22-37).
THEOREM TypeCorrect == Spec => []TypeOK
<1>1. Inv => TypeOK
  BY DEF Inv
<1> QED
  BY <1>1, Invariance, PTL

\* The cell an append writes lies behind every slice that was handed out
\* (history.go:24-26).
THEOREM WritesBehindReaders == Spec => []AppendsBehindReaders
<1>1. Inv => AppendsBehindReaders
  BY DEF Inv
<1> QED
  BY <1>1, Invariance, PTL

\* The slices of history.go implement the list of the newest messages, whose
\* readers keep what they were given, although they read the shared arrays with
\* no lock held (history.go:22-37).
THEOREM SlicesImplementLog == Spec => ImplementsLog
<1>1. Init => Log!LogInit
  BY InitHolds
<1>2. Inv /\ [Next]_vars => [Log!LogNext]_(Log!logVars)
  BY NextHolds
<1> QED
  BY <1>1, <1>2, Invariance, PTL DEF Spec, ImplementsLog, Log!LogSpec

\* The history is exactly the newest messages, all of them, in order, and so is
\* what any reader holds, as of the time it asked (history.go:30-37).
THEOREM NewestHeld == Spec => []HoldsTheNewest
<1> DEFINE Good == adds \in 0..MaxAdds /\ HoldsTheNewest
<1>1. Init => Good
  <2> SUFFICES ASSUME Init PROVE Good
    OBVIOUS
  <2>1. /\ adds = 0 /\ 0 \in 0..MaxAdds /\ 0 \in 0..0
        /\ Contents(history) = <<>>
        /\ \A r \in Readers : Contents(snap[r]) = <<>>
    <3>1. Contents(NilSlice) = <<>>
      BY DEF NilSlice, Contents
    <3> QED
      BY <3>1, SizesAssumption DEF Init
  <2>2. Log!NewestOf(0) = <<>>
    BY SizesAssumption DEF Log!NewestOf
  <2>3. [r \in Readers |-> Contents(snap[r])] = [r \in Readers |-> <<>>]
    BY <2>1, Zenon
  <2> QED
    BY <2>1, <2>2, <2>3, Zenon DEF HoldsTheNewest, Log!ExactlyNewest
<1>2. Good /\ [Log!LogNext]_(Log!logVars) => Good'
  <2> SUFFICES ASSUME Good, [Log!LogNext]_(Log!logVars) PROVE Good'
    OBVIOUS
  <2> DEFINE L == Contents(history)
             G == [r \in Readers |-> Contents(snap[r])]
  <2>1. /\ adds \in Nat /\ adds \in 0..MaxAdds
        /\ L = Log!NewestOf(adds)
        /\ \A r \in Readers : \E n \in 0..adds : G[r] = Log!NewestOf(n)
    BY SizesAssumption DEF HoldsTheNewest, Log!ExactlyNewest
  <2>2. /\ adds' \in 0..MaxAdds
        /\ L' = Log!NewestOf(adds')
        /\ \A r \in Readers : \E n \in 0..adds' : G'[r] = Log!NewestOf(n)
    <3>1. CASE Log!Add
      <4>1. adds < MaxAdds /\ adds' = adds + 1 /\ L' = Log!Newest(Append(L, adds + 1)) /\ G' = G
        BY <3>1, Zenon DEF Log!Add
      <4> HIDE DEF L, G
      <4>2. L' = Log!NewestOf(adds')
        BY <2>1, <4>1, NewestOfNext, Zenon
      <4>3. adds' \in 0..MaxAdds /\ \A n \in 0..adds : n \in 0..adds'
        BY <2>1, <4>1, SizesAssumption
      <4> QED
        BY <2>1, <4>1, <4>2, <4>3, Zenon
    <3>2. CASE \E r \in Readers : Log!Get(r)
      <4>1. PICK r \in Readers : Log!Get(r)
        BY <3>2
      <4>2. adds' = adds /\ L' = L /\ G' = [G EXCEPT ![r] = L]
        BY <4>1, Zenon DEF Log!Get
      <4>3. \A q \in Readers : G'[q] = IF q = r THEN L ELSE G[q]
        BY <4>2, Zenon
      <4>4. adds \in 0..adds
        BY <2>1
      <4> HIDE DEF L, G
      <4> QED
        BY <2>1, <4>2, <4>3, <4>4, Zenon
    <3>3. CASE UNCHANGED Log!logVars
      <4>1. adds' = adds /\ L' = L /\ G' = G
        BY <3>3, Zenon DEF Log!logVars
      <4> HIDE DEF L, G
      <4> QED
        BY <2>1, <4>1, Zenon
    <3> QED
      BY <3>1, <3>2, <3>3, Zenon DEF Log!LogNext
  <2> QED
    BY <2>2, Zenon DEF HoldsTheNewest, Log!ExactlyNewest
<1>3. Good => HoldsTheNewest
  OBVIOUS
<1>4. Inv /\ [Next]_vars => [Log!LogNext]_(Log!logVars)
  BY NextHolds
<1> HIDE DEF Good
<1> QED
  BY <1>1, <1>2, <1>3, <1>4, Invariance, PTL DEF Spec
=============================================================================
