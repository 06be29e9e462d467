---------------------------- MODULE TimerProofs ----------------------------
(***************************************************************************)
(* Timer.tla keeps its heap in order and implements Alarms.tla, for any    *)
(* number of items, any delays and any bound on the clock. The heart of it *)
(* is EarlyInv: while calm, a signal that is armed, on its way or being    *)
(* obeyed is never earlier than what the head of the heap allows.          *)
(***************************************************************************)
EXTENDS Timer, SequenceTheorems, TLAPS

Distinct(s) == \A j, k \in 1..Len(s) : s[j] = s[k] => j = k
Least(s, e) == \A k \in 1..Len(s) : e[s[1]] <= e[s[k]]

\* The items of s have their places in s.
TrueOf(idx, s) == \A k \in 1..Len(s) : idx[s[k]] = k - 1

\* The heap: every item in it was made and not deleted, the first is first.
HeapInv ==
  /\ IndexTrue
  /\ Elements(timers) \subseteq made \ deleted
  /\ Least(timers, Expire)

\* The item in the hands of the firing goroutine: until it is put back it is in
\* no heap and cannot be deleted.
CurInv ==
  /\ pc \in {"call", "append", "check", "arm"} => cur \in made /\ interval[cur] > 0
  /\ pc = "user" => cur \in made
  /\ pc \in {"call", "append"} => cur \notin Elements(timers) /\ cur \notin deleted
  /\ stamp <= clock

\* While calm: a signal that is armed will not expire before the head is due,
\* and when it has expired the head is due and nothing else is armed.
EarlyInv ==
  calm =>
    /\ chan \/ pc = "once" =>
         /\ signal = {}
         /\ timers # <<>>
         /\ Expire[timers[1]] <= clock
    /\ pc = "once" => ~chan
    /\ \A t \in signal : timers # <<>> /\ Expire[timers[1]] <= t

Inv == TypeOK /\ HeapInv /\ CurInv

-----------------------------------------------------------------------------
(* Sequences.                                                              *)

\* A function on 1..n is a sequence.
LEMMA SeqFromFunction ==
  ASSUME NEW S, NEW n \in Nat, NEW h \in [1..n -> S]
  PROVE  h \in Seq(S) /\ Len(h) = n
<1>1. Seq(S) = UNION {[1..j -> S] : j \in Nat}
  BY SeqDef, Zenon
<1>2. h \in Seq(S)
  BY <1>1, Zenon
<1>3. Len(h) = n
  BY <1>2, LenProperties
<1> QED
  BY <1>2, <1>3

LEMMA ElementsOfSeq ==
  ASSUME NEW S, NEW s \in Seq(S)
  PROVE  /\ Elements(s) \subseteq S
         /\ Len(s) \in Nat
         /\ \A k \in 1..Len(s) : s[k] \in S /\ s[k] \in Elements(s)
         /\ s # <<>> <=> 1 \in 1..Len(s)
         /\ s = <<>> <=> Elements(s) = {}
<1>1. Len(s) \in Nat /\ \A k \in 1..Len(s) : s[k] \in S
  BY LenProperties, ElementOfSeq
<1>2. s = <<>> <=> Len(s) = 0
  BY EmptySeq
<1>3. s # <<>> <=> 1 \in 1..Len(s)
  BY <1>1, <1>2
<1>4. s = <<>> => Elements(s) = {}
  BY <1>1, <1>2 DEF Elements
<1> QED
  BY <1>1, <1>3, <1>4, Zenon DEF Elements

\* append.
LEMMA Appending ==
  ASSUME NEW s \in Seq(Items), NEW i \in Items
  PROVE  /\ Append(s, i) \in Seq(Items)
         /\ Elements(Append(s, i)) = Elements(s) \cup {i}
         /\ Append(s, i) # <<>>
         /\ s = <<>> => Append(s, i)[1] = i
         /\ s # <<>> => Append(s, i)[1] = s[1]
<1> DEFINE a == Append(s, i)
<1>1. /\ a \in Seq(Items) /\ Len(a) = Len(s) + 1 /\ Len(s) \in Nat
      /\ \A k \in 1..Len(s) : a[k] = s[k]
      /\ a[Len(s) + 1] = i
  BY AppendProperties, LenProperties
<1> HIDE DEF a
<1>2. \A k \in 1..Len(s) : k \in 1..Len(a)
  BY <1>1
<1>3. Len(s) + 1 \in 1..Len(a)
  BY <1>1
<1>4. \A k \in 1..Len(a) : k \in 1..Len(s) \/ k = Len(s) + 1
  BY <1>1
<1>5. Elements(a) = Elements(s) \cup {i}
  BY <1>1, <1>2, <1>3, <1>4, Zenon DEF Elements
<1>6. s = <<>> => Len(s) + 1 = 1
  BY <1>1, EmptySeq
<1>7. s # <<>> => 1 \in 1..Len(s)
  BY ElementsOfSeq
<1>8. a # <<>>
  BY <1>1, <1>3, EmptySeq
<1> QED
  BY <1>1, <1>5, <1>6, <1>7, <1>8, Zenon DEF a

\* Timers.Remove and Timers.Pop, before the heap is put in order.
LEMMA TakingOut ==
  ASSUME NEW s \in Seq(Items), Distinct(s), NEW k \in 1..Len(s)
  PROVE  /\ WithLastAt(s, k) \in Seq(Items)
         /\ Len(WithLastAt(s, k)) = Len(s) - 1
         /\ Elements(WithLastAt(s, k)) = Elements(s) \ {s[k]}
         /\ k # 1 => WithLastAt(s, k) # <<>> /\ WithLastAt(s, k)[1] = s[1]
<1> DEFINE n == Len(s) - 1
           r == WithLastAt(s, k)
<1>1. /\ Len(s) \in Nat /\ n \in Nat /\ Len(s) = n + 1 /\ Len(s) \in 1..Len(s)
      /\ \A j \in 1..n : j \in 1..Len(s) /\ j # Len(s)
      /\ \A j \in 1..Len(s) : j \in 1..n \/ j = Len(s)
  BY LenProperties
<1>2. \A j \in 1..Len(s) : s[j] \in Items
  BY ElementOfSeq
<1>3. r = [j \in 1..n |-> IF j = k THEN s[Len(s)] ELSE s[j]]
  BY Zenon DEF WithLastAt
<1> HIDE DEF n, r
<1>4. r \in [1..n -> Items]
  BY <1>1, <1>2, <1>3, Zenon
<1>5. r \in Seq(Items) /\ Len(r) = n
  BY <1>1, <1>4, SeqFromFunction, Zenon
<1>6. \A j \in 1..n : r[j] = IF j = k THEN s[Len(s)] ELSE s[j]
  BY <1>3, Zenon
<1>7. \A j \in 1..n : r[j] \in Elements(s) /\ r[j] # s[k]
  BY <1>1, <1>6, Zenon DEF Elements, Distinct
<1>8. ASSUME NEW j \in 1..Len(s), s[j] # s[k]
      PROVE  \E m \in 1..n : r[m] = s[j]
  <2>1. j # k
    BY <1>8, Zenon
  <2>2. CASE j = Len(s)
    <3>1. k \in 1..n /\ r[k] = s[j]
      BY <1>1, <1>6, <2>1, <2>2, Zenon
    <3> QED
      BY <3>1, Zenon
  <2>3. CASE j # Len(s)
    <3>1. j \in 1..n /\ r[j] = s[j]
      BY <1>1, <1>6, <2>1, <2>3, Zenon
    <3> QED
      BY <3>1, Zenon
  <2> QED
    BY <2>2, <2>3
<1>9. Elements(r) = Elements(s) \ {s[k]}
  <2>1. \A x : x \in Elements(r) => x \in Elements(s) /\ x # s[k]
    BY <1>5, <1>7, Zenon DEF Elements
  <2>2. \A x : x \in Elements(s) /\ x # s[k] => x \in Elements(r)
    BY <1>5, <1>8, Zenon DEF Elements
  <2> QED
    BY <2>1, <2>2, Zenon
<1>10. ASSUME k # 1
       PROVE  r # <<>> /\ r[1] = s[1]
  <2>1. 1 \in 1..n
    BY <1>1, <1>10
  <2>2. r[1] = s[1]
    BY <1>6, <1>10, <2>1, Zenon
  <2> QED
    BY <1>5, <2>1, <2>2, EmptySeq
<1> QED
  BY <1>5, <1>9, <1>10, Zenon DEF n, r

-----------------------------------------------------------------------------
(* The heap.                                                               *)

\* An item that is appended has been given its place.
LEMMA PlacedTrue ==
  ASSUME TypeOK, IndexTrue, NEW i \in Items, i \notin Elements(timers)
  PROVE  Placed(i) \in [Items -> Int] /\ TrueOf(Placed(i), Append(timers, i))
<1> DEFINE a == Append(timers, i)
           n == Len(timers)
<1>1. timers \in Seq(Items) /\ Index \in [Items -> Int] /\ n \in Nat /\ n \in Int
  BY LenProperties DEF TypeOK
<1>2. /\ Len(a) = n + 1
      /\ \A k \in 1..n : a[k] = timers[k]
      /\ a[n + 1] = i
  BY <1>1, AppendProperties
<1>3. \A k \in 1..n : timers[k] \in Items /\ timers[k] # i
  <2>1. \A k \in 1..Len(timers) : timers[k] \in Items /\ timers[k] \in Elements(timers)
    BY <1>1, ElementsOfSeq
  <2> QED
    BY <2>1, Zenon
<1>4. Placed(i) = [Index EXCEPT ![i] = n]
  BY Zenon DEF Placed
<1>5. n + 1 - 1 = n /\ \A k \in 1..n + 1 : k \in 1..n \/ k = n + 1
  BY <1>1
<1> HIDE DEF a, n
<1>6. Placed(i) \in [Items -> Int]
  BY <1>1, <1>4
<1>7. Placed(i)[i] = n /\ \A j \in Items : j # i => Placed(i)[j] = Index[j]
  BY <1>1, <1>4
<1>8. \A k \in 1..n : Placed(i)[a[k]] = k - 1
  <2>1. \A k \in 1..n : Index[timers[k]] = k - 1
    BY Zenon DEF IndexTrue, n
  <2> QED
    BY <1>2, <1>3, <1>7, <2>1, Zenon
<1>9. ASSUME NEW k \in 1..Len(a)
      PROVE  Placed(i)[a[k]] = k - 1
  <2>1. k \in 1..n \/ k = n + 1
    BY <1>2, <1>5
  <2>2. CASE k = n + 1
    BY <1>1, <1>2, <1>7, <2>2
  <2> QED
    BY <1>8, <2>1, <2>2
<1> QED
  BY <1>6, <1>9, Zenon DEF TrueOf, a

\* The last item, which takes place k, has been given it.
LEMMA SwappedTrue ==
  ASSUME TypeOK, IndexTrue, Distinct(timers), NEW k \in 1..Len(timers)
  PROVE  /\ SwappedWithLast(k) \in [Items -> Int]
         /\ TrueOf(SwappedWithLast(k), WithLastAt(timers, k))
<1> DEFINE n == Len(timers)
           w == SwappedWithLast(k)
           r == WithLastAt(timers, k)
<1>1. timers \in Seq(Items) /\ Index \in [Items -> Int] /\ n \in Nat /\ k \in Int
  BY LenProperties DEF TypeOK
<1>2. n - 1 \in Int /\ k - 1 \in Int /\ n \in 1..n
      /\ \A j \in 1..n - 1 : j \in 1..n /\ j # n
  BY <1>1
<1>3. /\ \A j \in 1..n : timers[j] \in Items
      /\ \A j, m \in 1..n : timers[j] = timers[m] => j = m
  BY <1>1, ElementsOfSeq, Zenon DEF Distinct
<1>4. w = [Index EXCEPT ![timers[n]] = k - 1, ![timers[k]] = n - 1]
  BY Zenon DEF SwappedWithLast
<1>5. Len(r) = n - 1 /\ \A j \in 1..n - 1 : r[j] = IF j = k THEN timers[n] ELSE timers[j]
  <2>1. r \in Seq(Items) /\ Len(r) = n - 1
    BY <1>1, TakingOut
  <2> QED
    BY <2>1, Zenon DEF WithLastAt
<1> HIDE DEF n, w, r
<1>6. w \in [Items -> Int]
  BY <1>1, <1>2, <1>3, <1>4
<1>7. /\ k # n => w[timers[n]] = k - 1
      /\ \A j \in 1..n : j # n /\ j # k => w[timers[j]] = Index[timers[j]]
  <2>1. timers[n] \in Items /\ timers[k] \in Items /\ k \in 1..n
    BY <1>2, <1>3 DEF n
  <2>2. \A x \in Items : w[x] = IF x = timers[k] THEN n - 1
                                 ELSE IF x = timers[n] THEN k - 1 ELSE Index[x]
    BY <1>1, <1>4, <2>1
  <2> QED
    BY <1>2, <1>3, <2>1, <2>2, Zenon
<1>8. ASSUME NEW j \in 1..n - 1
      PROVE  w[r[j]] = j - 1
  <2>1. j \in 1..n /\ j # n
    BY <1>2
  <2>2. CASE j = k
    BY <1>5, <1>7, <2>1, <2>2, Zenon
  <2>3. CASE j # k
    BY <1>5, <1>7, <2>1, <2>3, Zenon DEF IndexTrue, n
  <2> QED
    BY <2>2, <2>3
<1> QED
  BY <1>5, <1>6, <1>8, Zenon DEF TrueOf, w, r

\* What heap.Fix yields. An item that it leaves where it was keeps its Index,
\* which must be true before.
LEMMA Reheaped ==
  ASSUME NEW s \in Seq(Items), NEW old \in [Items -> Int], TrueOf(old, s),
         Reheap(s, old)
  PROVE  /\ timers' \in Seq(Items)
         /\ Elements(timers') = Elements(s)
         /\ Index' \in [Items -> Int]
         /\ IndexTrue'
         /\ Least(timers', Expire')
         /\ s # <<>> /\ Least(s, Expire') => timers'[1] = s[1]
<1> DEFINE n == Len(s)
<1>1. PICK h \in Fixed(s, Expire') : timers' = h /\ Index' = Swapped(s, h, old)
  BY Zenon DEF Reheap
<1>2. /\ h \in [1..n -> Elements(s)]
      /\ \A i \in Elements(s) : \E k \in 1..n : h[k] = i
      /\ \A j, k \in 1..n : h[j] = h[k] => j = k
      /\ \A k \in 1..n : Expire'[h[1]] <= Expire'[h[k]]
      /\ s # <<>> /\ Least(s, Expire') => h[1] = s[1]
  BY Zenon DEF Fixed, Least
<1>3. n \in Nat /\ Elements(s) \subseteq Items
  BY ElementsOfSeq
<1> HIDE DEF n
<1>4. h \in Seq(Elements(s)) /\ Len(h) = n
  BY <1>2, <1>3, SeqFromFunction, Zenon
<1>5. h \in [1..n -> Items]
  BY <1>2, <1>3, Zenon
<1>6. h \in Seq(Items)
  BY <1>3, <1>5, SeqFromFunction, Zenon
<1>7. \A x : x \in Elements(h) <=> x \in Elements(s)
  <2>1. \A x : x \in Elements(h) => x \in Elements(s)
    <3>1. \A k \in 1..n : h[k] \in Elements(s)
      BY <1>2, Zenon
    <3>2. \A x : x \in Elements(h) => \E k \in 1..n : x = h[k]
      BY <1>4, Zenon DEF Elements
    <3> QED
      BY <3>1, <3>2, Zenon
  <2>2. \A x : x \in Elements(s) => x \in Elements(h)
    <3>1. \A x : x \in Elements(s) => \E k \in 1..n : h[k] = x
      BY <1>2, Zenon
    <3>2. \A x : (\E k \in 1..n : h[k] = x) => x \in Elements(h)
      BY <1>4, Zenon DEF Elements
    <3> QED
      BY <3>1, <3>2, Zenon
  <2> QED
    BY <2>1, <2>2, Zenon
<1>8. ASSUME NEW k \in 1..n
      PROVE  h[k] \in Items /\ Swapped(s, h, old)[h[k]] = k - 1
  <2> DEFINE at == CHOOSE j \in 1..Len(h) : h[j] = h[k]
  <2>1. h[k] \in Items
    BY <1>5, Zenon
  <2>2. \E j \in 1..Len(h) : h[j] = h[k]
    BY <1>4, Zenon
  <2>3. at \in 1..n /\ h[at] = h[k]
    BY <1>4, <2>2, Zenon
  <2>4. at = k
    BY <1>2, <2>3, Zenon
  <2>5. CASE s[k] # h[k]
    <3>1. Swapped(s, h, old)[h[k]] = at - 1
      BY <1>4, <2>1, <2>5, Zenon DEF Swapped
    <3> QED
      BY <2>1, <2>4, <3>1, Zenon
  <2>6. CASE s[k] = h[k]
    <3>1. ~ \E j \in 1..Len(h) : h[j] = h[k] /\ s[j] # h[k]
      BY <1>2, <1>4, <2>6, Zenon
    <3>2. Swapped(s, h, old)[h[k]] = old[h[k]]
      BY <2>1, <3>1, Zenon DEF Swapped
    <3>3. old[s[k]] = k - 1
      BY Zenon DEF TrueOf, n
    <3> QED
      BY <2>1, <2>6, <3>2, <3>3, Zenon
  <2> QED
    BY <2>5, <2>6
<1>9. Swapped(s, h, old) \in [Items -> Int]
  <2> DEFINE at(i) == CHOOSE j \in 1..Len(h) : h[j] = i
             moves(i) == \E j \in 1..Len(h) : h[j] = i /\ s[j] # i
  <2>1. ASSUME NEW i \in Items, moves(i)
        PROVE  at(i) - 1 \in Int
    <3>0. \E j \in 1..Len(h) : h[j] = i
      BY <2>1, Zenon
    <3>1. at(i) \in 1..n
      BY <1>4, <3>0, Zenon
    <3> HIDE DEF at
    <3> QED
      BY <1>3, <3>1
  <2>2. ASSUME NEW i \in Items
        PROVE  (IF moves(i) THEN at(i) - 1 ELSE old[i]) \in Int
    <3> HIDE DEF at, moves
    <3> QED
      BY <2>1, Zenon
  <2> QED
    BY <2>2, Zenon DEF Swapped
<1>10. IndexTrue'
  BY <1>1, <1>4, <1>8, Zenon DEF IndexTrue
<1> QED
  BY <1>1, <1>2, <1>4, <1>6, <1>7, <1>9, <1>10, Zenon DEF Least

\* No item stands in two places.
LEMMA NoTwins ==
  ASSUME TypeOK, IndexTrue
  PROVE  Distinct(timers)
<1>1. timers \in Seq(Items)
  BY DEF TypeOK
<1> SUFFICES ASSUME NEW j \in 1..Len(timers), NEW k \in 1..Len(timers), timers[j] = timers[k]
             PROVE  j = k
  BY Zenon DEF Distinct
<1>2. j - 1 = k - 1
  BY Zenon DEF IndexTrue
<1>3. j \in Int /\ k \in Int
  BY <1>1, LenProperties
<1> QED
  BY <1>2, <1>3

\* The head of the heap and the order of two times.
LEMMA HeadOf ==
  ASSUME NEW s \in Seq(Items), s # <<>>
  PROVE  s[1] \in Items /\ s[1] \in Elements(s) /\ Head(s) = s[1]
<1>1. s[1] \in Items /\ s[1] \in Elements(s)
  BY ElementsOfSeq, Zenon
<1>2. Head(s) = s[1]
  OBVIOUS
<1> QED
  BY <1>1, <1>2

\* The heap's other items keep their order whatever the time of i: the old head
\* stays first, or i is.
LEMMA Inserted ==
  ASSUME TypeOK, HeapInv, NEW i \in Items, i \notin Elements(timers), NEW t \in Nat,
         Expire' = [Expire EXCEPT ![i] = t],
         Insert(i)
  PROVE  /\ timers' \in Seq(Items)
         /\ Elements(timers') = Elements(timers) \cup {i}
         /\ Index' \in [Items -> Int]
         /\ IndexTrue'
         /\ Least(timers', Expire')
         /\ timers' # <<>>
         /\ timers'[1] = i \/ (timers # <<>> /\ timers'[1] = timers[1])
         /\ timers # <<>> /\ Expire[timers[1]] <= t => timers'[1] = timers[1]
         /\ timers # <<>> => Expire'[timers'[1]] <= Expire[timers[1]]
<1> DEFINE s == Append(timers, i)
<1>0. timers \in Seq(Items) /\ Index \in [Items -> Int] /\ Expire \in [Items -> Nat]
  BY DEF TypeOK
<1>1. /\ s \in Seq(Items) /\ Elements(s) = Elements(timers) \cup {i} /\ s # <<>>
      /\ timers = <<>> => s[1] = i
      /\ timers # <<>> => s[1] = timers[1]
  BY <1>0, Appending
<1>2. /\ timers' \in Seq(Items) /\ Elements(timers') = Elements(s)
      /\ Index' \in [Items -> Int] /\ IndexTrue' /\ Least(timers', Expire')
      /\ Least(s, Expire') => timers'[1] = s[1]
  <2>1. Placed(i) \in [Items -> Int] /\ TrueOf(Placed(i), s)
    BY PlacedTrue DEF HeapInv
  <2> QED
    BY <1>1, <2>1, Reheaped, Zenon DEF Insert
<1> HIDE DEF s
<1>3. timers' # <<>>
  BY <1>1, <1>2, ElementsOfSeq, Zenon
<1>4. Expire'[i] = t /\ \A j \in Elements(timers) : Expire'[j] = Expire[j]
  BY <1>0, ElementsOfSeq
<1>5. \A j \in Elements(timers') : Expire'[timers'[1]] <= Expire'[j]
  BY <1>2, Zenon DEF Least, Elements
<1>6. \A j \in Elements(timers) : Expire[timers[1]] <= Expire[j]
  BY Zenon DEF HeapInv, Least, Elements
<1>7. timers'[1] \in Elements(timers) \cup {i}
  BY <1>1, <1>2, <1>3, HeadOf, Zenon
<1>8. ASSUME timers # <<>>
      PROVE  timers[1] \in Elements(timers) /\ timers[1] \in Items
  BY <1>0, <1>8, HeadOf
<1>9. ASSUME timers # <<>>, Expire[timers[1]] <= t
      PROVE  timers'[1] = timers[1]
  <2>1. \A j \in Elements(s) : Expire'[s[1]] <= Expire'[j]
    BY <1>1, <1>4, <1>6, <1>8, <1>9, Zenon
  <2>2. Least(s, Expire')
    BY <2>1, Zenon DEF Least, Elements
  <2> QED
    BY <1>1, <1>2, <1>9, <2>2, Zenon
<1>10. ASSUME timers'[1] # i
       PROVE  timers # <<>> /\ timers'[1] = timers[1]
  <2>1. timers'[1] \in Elements(timers)
    BY <1>7, <1>10, Zenon
  <2>2. timers # <<>>
    BY <1>0, <2>1, ElementsOfSeq, Zenon
  <2>3. Expire[timers[1]] <= Expire[timers'[1]] /\ Expire[timers'[1]] = Expire'[timers'[1]]
    BY <1>4, <1>6, <2>1, Zenon
  <2>4. Expire'[timers'[1]] <= t
    BY <1>1, <1>2, <1>4, <1>5, Zenon
  <2>5. Expire[timers[1]] \in Nat /\ Expire[timers'[1]] \in Nat
    BY <1>0, <1>8, <2>1, <2>2, ElementsOfSeq
  <2>6. Expire[timers[1]] <= t
    BY <2>3, <2>4, <2>5
  <2> QED
    BY <1>9, <2>2, <2>6, Zenon
<1>11. ASSUME timers # <<>>
       PROVE  Expire'[timers'[1]] <= Expire[timers[1]]
  <2>1. timers[1] \in Elements(timers')
    BY <1>1, <1>2, <1>8, <1>11, Zenon
  <2> QED
    BY <1>4, <1>5, <1>8, <1>11, <2>1, Zenon
<1> QED
  BY <1>1, <1>2, <1>3, <1>9, <1>10, <1>11, Zenon

\* The item in place k leaves the heap.
LEMMA TakenOut ==
  ASSUME TypeOK, HeapInv, NEW k \in 1..Len(timers), NEW old \in [Items -> Int],
         UNCHANGED Expire,
         TrueOf(old, WithLastAt(timers, k)),
         Reheap(WithLastAt(timers, k), old)
  PROVE  /\ timers' \in Seq(Items)
         /\ Elements(timers') = Elements(timers) \ {timers[k]}
         /\ Index' \in [Items -> Int]
         /\ IndexTrue'
         /\ Least(timers', Expire')
         /\ k # 1 => timers' # <<>> /\ timers'[1] = timers[1]
         /\ timers' # <<>> <=> Len(timers) > 1
<1> DEFINE s == WithLastAt(timers, k)
<1>0. timers \in Seq(Items) /\ Distinct(timers)
  BY NoTwins DEF TypeOK, HeapInv
<1>1. /\ s \in Seq(Items)
      /\ Len(s) = Len(timers) - 1
      /\ Elements(s) = Elements(timers) \ {timers[k]}
      /\ k # 1 => s # <<>> /\ s[1] = timers[1]
  BY <1>0, TakingOut
<1> HIDE DEF s
<1>2. /\ timers' \in Seq(Items) /\ Elements(timers') = Elements(s)
      /\ Index' \in [Items -> Int] /\ IndexTrue' /\ Least(timers', Expire')
      /\ s # <<>> /\ Least(s, Expire') => timers'[1] = s[1]
  BY <1>1, Reheaped, Zenon DEF s
<1>3. timers' = <<>> <=> s = <<>>
  BY <1>1, <1>2, ElementsOfSeq, Zenon
<1>4. s = <<>> <=> Len(timers) = 1
  BY <1>0, <1>1, LenProperties, EmptySeq
<1>5. timers' # <<>> <=> Len(timers) > 1
  <2>1. Len(timers) \in Nat /\ Len(timers) >= 1
    BY <1>0, LenProperties
  <2>2. \A n \in Nat : n >= 1 => (n = 1 <=> ~(n > 1))
    OBVIOUS
  <2> QED
    BY <1>3, <1>4, <2>1, <2>2, Zenon
<1>6. ASSUME k # 1
      PROVE  timers' # <<>> /\ timers'[1] = timers[1]
  <2>1. \A j \in Elements(timers) : Expire[timers[1]] <= Expire[j]
    BY Zenon DEF HeapInv, Least, Elements
  <2>2. \A m \in 1..Len(s) : s[m] \in Elements(timers)
    BY <1>1, ElementsOfSeq, Zenon
  <2>3. Least(s, Expire')
    BY <1>1, <1>6, <2>1, <2>2, Zenon DEF Least
  <2> QED
    BY <1>1, <1>2, <1>3, <1>6, <2>3, Zenon
<1> QED
  BY <1>1, <1>2, <1>5, <1>6, Zenon

\* Timers.Remove of an item that Delete found in its place.
LEMMA Removed ==
  ASSUME TypeOK, HeapInv, NEW i \in Items, Valid(i), UNCHANGED Expire, Remove(i)
  PROVE  /\ timers' \in Seq(Items)
         /\ Elements(timers') = Elements(timers) \ {i}
         /\ i \in Elements(timers)
         /\ Index' \in [Items -> Int]
         /\ IndexTrue'
         /\ Least(timers', Expire')
         /\ Index[i] # 0 => timers' # <<>> /\ timers'[1] = timers[1]
         /\ timers' # <<>> <=> Len(timers) > 1
<1> DEFINE k == Index[i] + 1
           old == SwappedWithLast(k)
<1>1. timers \in Seq(Items) /\ Index \in [Items -> Int] /\ Len(timers) \in Nat
  BY LenProperties DEF TypeOK
<1>2. k \in 1..Len(timers) /\ timers[k] = i /\ (k = 1 <=> Index[i] = 0)
  BY <1>1 DEF Valid
<1>3. old \in [Items -> Int] /\ TrueOf(old, WithLastAt(timers, k))
  <2>1. IndexTrue /\ Distinct(timers)
    BY NoTwins DEF HeapInv
  <2> HIDE DEF k
  <2> QED
    BY <1>2, <2>1, SwappedTrue, Zenon
<1>4. Reheap(WithLastAt(timers, k), old)
  BY Zenon DEF Remove
<1> HIDE DEF k, old
<1>5. i \in Elements(timers)
  BY <1>1, <1>2, ElementsOfSeq, Zenon
<1> QED
  BY <1>2, <1>3, <1>4, <1>5, TakenOut, Zenon

\* Timers.Pop.
LEMMA Popped ==
  ASSUME TypeOK, HeapInv, timers # <<>>, UNCHANGED Expire, Pop
  PROVE  /\ timers' \in Seq(Items)
         /\ Elements(timers') = Elements(timers) \ {timers[1]}
         /\ timers[1] \in Elements(timers)
         /\ Index' \in [Items -> Int]
         /\ IndexTrue'
         /\ Least(timers', Expire')
         /\ timers' # <<>> <=> Len(timers) > 1
<1> DEFINE old == [SwappedWithLast(1) EXCEPT ![timers[1]] = -1]
           r == WithLastAt(timers, 1)
<1>1. timers \in Seq(Items) /\ Index \in [Items -> Int]
  BY DEF TypeOK
<1>2. 1 \in 1..Len(timers) /\ timers[1] \in Elements(timers)
  BY <1>1, ElementsOfSeq, Zenon
<1>3. old \in [Items -> Int] /\ TrueOf(old, r)
  <2>1. IndexTrue /\ Distinct(timers)
    BY NoTwins DEF HeapInv
  <2>2. SwappedWithLast(1) \in [Items -> Int] /\ TrueOf(SwappedWithLast(1), r)
    BY <1>2, <2>1, SwappedTrue, Zenon
  <2>3. r \in Seq(Items) /\ Elements(r) = Elements(timers) \ {timers[1]}
    BY <1>1, <1>2, <2>1, TakingOut
  <2> HIDE DEF r
  <2>4. \A k \in 1..Len(r) : r[k] \in Items /\ r[k] # timers[1]
    BY <2>3, ElementsOfSeq, Zenon
  <2> DEFINE w == SwappedWithLast(1)
  <2>5. /\ [w EXCEPT ![timers[1]] = -1] \in [Items -> Int]
        /\ \A x \in Items : x # timers[1] => [w EXCEPT ![timers[1]] = -1][x] = w[x]
    <3>1. w \in [Items -> Int] /\ -1 \in Int
      BY <2>2
    <3> HIDE DEF w
    <3> QED
      BY <3>1
  <2> QED
    BY <2>2, <2>4, <2>5, Zenon DEF TrueOf
<1>4. Reheap(WithLastAt(timers, 1), old)
  BY Zenon DEF Pop
<1> HIDE DEF old
<1> QED
  BY <1>2, <1>3, <1>4, TakenOut, Zenon

\* Reset puts the item where its new time belongs.
LEMMA Reordered ==
  ASSUME TypeOK, HeapInv, Expire' \in [Items -> Nat], Reheap(timers, Index)
  PROVE  /\ timers' \in Seq(Items)
         /\ Elements(timers') = Elements(timers)
         /\ Index' \in [Items -> Int]
         /\ IndexTrue'
         /\ Least(timers', Expire')
<1>1. timers \in Seq(Items) /\ Index \in [Items -> Int] /\ TrueOf(Index, timers)
  BY DEF TypeOK, HeapInv, IndexTrue, TrueOf
<1> QED
  BY <1>1, Reheaped, Zenon

-----------------------------------------------------------------------------
(* Types, the heap and the item in hand.                                   *)

LEMMA ArmedAt ==
  ASSUME Expire' \in [Items -> Nat], timers'[1] \in Items, ArmForHead
  PROVE  signal' = {Expire'[timers'[1]]} /\ signal' \in SUBSET Int
<1>1. Expire'[timers'[1]] \in Nat
  BY Zenon
<1>2. Expire'[timers'[1]] \in Int
  BY <1>1
<1>3. signal' = {Expire'[timers'[1]]}
  BY Zenon DEF ArmForHead
<1> QED
  BY <1>2, <1>3, Zenon

LEMMA InitHolds == Init => Inv
<1> SUFFICES ASSUME Init PROVE Inv
  OBVIOUS
<1>1. timers \in Seq(Items) /\ Len(timers) = 0 /\ Elements(timers) = {}
  BY EmptySeq, ElementsOfSeq DEF Init
<1>2. TypeOK
  <2>1. 0 \in 0..MaxTime /\ 0 \in Nat /\ 0 \in Int
    BY MaxTimeAssumption
  <2> QED
    BY <1>1, <2>1, Zenon DEF Init, TypeOK
<1>3. HeapInv
  BY <1>1 DEF HeapInv, IndexTrue, Least
<1>4. CurInv
  BY DEF Init, CurInv
<1> QED
  BY <1>2, <1>3, <1>4 DEF Inv

\* Once and Schedule.
LEMMA AddItemKeeps ==
  ASSUME Inv, NEW i \in Items, NEW t \in Nat, NEW p \in Nat, AddItem(i, t, p)
  PROVE  Inv'
<1>1. TypeOK /\ HeapInv /\ CurInv /\ i \notin made /\ i \notin Elements(timers)
  BY Zenon DEF Inv, AddItem, HeapInv
<1>2. Expire' = [Expire EXCEPT ![i] = t] /\ Insert(i)
  BY Zenon DEF AddItem
<1>3. /\ timers' \in Seq(Items) /\ Elements(timers') = Elements(timers) \cup {i}
      /\ Index' \in [Items -> Int] /\ IndexTrue' /\ Least(timers', Expire')
      /\ timers' # <<>>
  BY <1>1, <1>2, Inserted, Zenon
<1>4. TypeOK'
  <2>1. Expire' \in [Items -> Nat] /\ timers'[1] \in Items
    BY <1>1, <1>2, <1>3, HeadOf DEF TypeOK
  <2>2. signal' \in SUBSET Int
    BY <1>1, <2>1, ArmedAt, Zenon DEF AddItem, TypeOK
  <2> QED
    BY <1>1, <1>3, <2>1, <2>2 DEF AddItem, TypeOK, firingVars
<1>5. HeapInv'
  <2>1. i \notin deleted
    BY <1>1, Zenon DEF TypeOK
  <2> QED
    BY <1>1, <1>3, <2>1 DEF HeapInv, AddItem
<1>6. CurInv'
  <2>1. \A j \in made : interval'[j] = interval[j] /\ j # i /\ j \in made'
    BY <1>1 DEF AddItem, TypeOK
  <2> QED
    BY <1>1, <1>3, <2>1 DEF CurInv, AddItem, firingVars
<1> QED
  BY <1>4, <1>5, <1>6 DEF Inv

LEMMA DeleteKeeps ==
  ASSUME Inv, NEW i \in Items, Delete(i)
  PROVE  Inv'
<1>1. TypeOK /\ HeapInv /\ CurInv /\ i \in made
  BY Zenon DEF Inv, Delete
<1>2. /\ timers' \in Seq(Items) /\ Elements(timers') = Elements(timers) \ {i}
      /\ i \in Elements(timers)
      /\ Index' \in [Items -> Int] /\ IndexTrue' /\ Least(timers', Expire')
      /\ timers' # <<>> <=> Len(timers) > 1
  BY <1>1, Removed, Zenon DEF Delete
<1>3. TypeOK'
  <2>1. Expire' \in [Items -> Nat] /\ (Len(timers) > 1 => timers'[1] \in Items)
    BY <1>1, <1>2, HeadOf DEF TypeOK, Delete
  <2>2. signal' \in SUBSET Int
    BY <1>1, <2>1, ArmedAt, Zenon DEF Delete, TypeOK
  <2> QED
    BY <1>1, <1>2, <2>1, <2>2 DEF Delete, TypeOK, firingVars
<1>4. HeapInv'
  BY <1>1, <1>2 DEF HeapInv, Delete
<1>5. CurInv'
  BY <1>1, <1>2 DEF CurInv, Delete, firingVars
<1> QED
  BY <1>3, <1>4, <1>5 DEF Inv

LEMMA ResetKeeps ==
  ASSUME Inv, NEW i \in Items, NEW delay \in Delays, Reset(i, delay)
  PROVE  Inv'
<1>1. TypeOK /\ HeapInv /\ CurInv /\ delay \in Nat
  BY DelaysAssumption DEF Inv
<1>2. Expire' \in [Items -> Nat]
  BY <1>1, MaxTimeAssumption DEF Reset, TypeOK
<1>3. /\ timers' \in Seq(Items) /\ Elements(timers') = Elements(timers)
      /\ Index' \in [Items -> Int] /\ IndexTrue' /\ Least(timers', Expire')
  BY <1>1, <1>2, Reordered, Zenon DEF Reset
<1>4. TypeOK'
  BY <1>1, <1>2, <1>3 DEF Reset, TypeOK, firingVars, callerVars
<1>5. HeapInv'
  BY <1>1, <1>3 DEF HeapInv, Reset, callerVars
<1>6. CurInv'
  BY <1>1, <1>3 DEF CurInv, Reset, firingVars, callerVars
<1> QED
  BY <1>4, <1>5, <1>6 DEF Inv

\* The steps of the firing goroutine and of the signal that leave the heap alone.
LEMMA QuietKeeps ==
  ASSUME Inv, UNCHANGED <<timers, Index, Expire, made, interval, deleted>>,
         clock' \in 0..MaxTime, clock <= clock',
         signal' \in SUBSET Int, chan' \in BOOLEAN, calm' \in BOOLEAN, excused' \in BOOLEAN,
         \/ UNCHANGED <<pc, cur, stamp>>
         \/ Done
         \/ pc' = "once" /\ UNCHANGED <<cur, stamp>>
         \/ pc = "call" /\ pc' = "append" /\ cur' = cur /\ stamp' = clock /\ clock' = clock
         \/ pc = "user" /\ interval[cur] > 0 /\ pc' = "check" /\ UNCHANGED <<cur, stamp>>
         \/ pc = "check" /\ pc' = "arm" /\ UNCHANGED <<cur, stamp>>
  PROVE  Inv'
<1>1. TypeOK /\ HeapInv /\ CurInv
  BY DEF Inv
<1>2. clock \in Int /\ clock' \in Int /\ 0 <= clock' /\ 0 \in 0..MaxTime
  BY <1>1, MaxTimeAssumption DEF TypeOK
<1>3. TypeOK'
  BY <1>1, <1>2 DEF TypeOK, Done
<1>4. HeapInv'
  BY <1>1 DEF HeapInv, IndexTrue, Least, Elements
<1>5. CurInv'
  <2>1. stamp' <= clock'
    BY <1>1, <1>2 DEF CurInv, TypeOK, Done
  <2>2. Elements(timers') = Elements(timers)
    BY Zenon
  <2> QED
    BY <1>1, <2>1, <2>2 DEF CurInv, Done
<1> QED
  BY <1>3, <1>4, <1>5 DEF Inv

LEMMA OncePopsKeeps ==
  ASSUME Inv, OncePops
  PROVE  Inv'
<1>1. TypeOK /\ HeapInv /\ CurInv /\ timers # <<>>
  BY DEF Inv, OncePops
<1>2. /\ timers' \in Seq(Items) /\ Elements(timers') = Elements(timers) \ {timers[1]}
      /\ timers[1] \in Elements(timers)
      /\ Index' \in [Items -> Int] /\ IndexTrue' /\ Least(timers', Expire')
      /\ timers' # <<>> <=> Len(timers) > 1
  BY <1>1, Popped, Zenon DEF OncePops
<1>3. cur' = timers[1] /\ cur' \in made /\ cur' \notin deleted /\ cur' \in Items
  <2>1. timers \in Seq(Items) /\ timers[1] \in Items
    BY <1>1, HeadOf DEF TypeOK
  <2>2. cur' = timers[1]
    BY <1>1, <2>1, HeadOf DEF OncePops, TypeOK
  <2> QED
    BY <1>1, <1>2, <2>1, <2>2, Zenon DEF HeapInv
<1>4. TypeOK'
  <2>1. Expire' \in [Items -> Nat] /\ (Len(timers) > 1 => timers'[1] \in Items)
    BY <1>1, <1>2, HeadOf DEF TypeOK, OncePops
  <2>2. signal' \in SUBSET Int
    BY <1>1, <2>1, ArmedAt, Zenon DEF OncePops, TypeOK
  <2> QED
    BY <1>1, <1>2, <1>3, <2>1, <2>2 DEF OncePops, TypeOK, callerVars
<1>5. HeapInv'
  BY <1>1, <1>2 DEF HeapInv, OncePops, callerVars
<1>6. CurInv'
  BY <1>1, <1>2, <1>3 DEF CurInv, OncePops, callerVars
<1> QED
  BY <1>4, <1>5, <1>6 DEF Inv

LEMMA AppendAgainKeeps ==
  ASSUME Inv, AppendAgain
  PROVE  Inv'
<1> DEFINE t == stamp + interval[cur]
<1>1. /\ TypeOK /\ HeapInv /\ CurInv
      /\ pc = "append" /\ cur \in made /\ cur \in Items
      /\ cur \notin Elements(timers) /\ cur \notin deleted
  BY DEF Inv, AppendAgain, CurInv, TypeOK
<1>2. t \in Nat
  BY <1>1, MaxTimeAssumption DEF TypeOK
<1>3. Expire' = [Expire EXCEPT ![cur] = t] /\ Insert(cur)
  BY Zenon DEF AppendAgain
<1> HIDE DEF t
<1>4. /\ timers' \in Seq(Items) /\ Elements(timers') = Elements(timers) \cup {cur}
      /\ Index' \in [Items -> Int] /\ IndexTrue' /\ Least(timers', Expire')
  BY <1>1, <1>2, <1>3, Inserted, Zenon
<1>5. TypeOK'
  BY <1>1, <1>2, <1>3, <1>4 DEF AppendAgain, TypeOK, callerVars
<1>6. HeapInv'
  BY <1>1, <1>4 DEF HeapInv, AppendAgain, callerVars
<1>7. CurInv'
  BY <1>1, <1>4 DEF CurInv, AppendAgain, callerVars
<1> QED
  BY <1>5, <1>6, <1>7 DEF Inv

\* The steps in which Next can be, with the bound variables of Calls named.
LEMMA InvHolds == Inv /\ [Next]_vars => Inv'
<1> SUFFICES ASSUME Inv, [Next]_vars PROVE Inv'
  OBVIOUS
<1>0. /\ TypeOK /\ CurInv
      /\ clock \in 0..MaxTime /\ clock <= clock
      /\ signal \in SUBSET Int /\ {} \in SUBSET Int
      /\ calm \in BOOLEAN /\ excused \in BOOLEAN /\ chan \in BOOLEAN
      /\ TRUE \in BOOLEAN /\ FALSE \in BOOLEAN
  <2>1. TypeOK /\ CurInv
    BY DEF Inv
  <2>2. clock <= clock
    BY <2>1 DEF TypeOK
  <2> QED
    BY <2>1, <2>2, Zenon DEF TypeOK
<1>1. CASE UNCHANGED vars
  BY <1>0, <1>1, QuietKeeps DEF vars, callerVars, firingVars
<1>2. CASE \E i \in Items, d \in Delays : Once(i, d)
  <2>1. PICK i \in Items, d \in Delays : Once(i, d)
    BY <1>2
  <2>2. clock + d \in Nat /\ 0 \in Nat
    BY <1>0, DelaysAssumption, MaxTimeAssumption
  <2> QED
    BY <2>1, <2>2, AddItemKeeps DEF Once
<1>3. CASE \E i \in Items, d \in Delays, p \in Intervals : Schedule(i, d, p)
  <2>1. PICK i \in Items, d \in Delays, p \in Intervals : Schedule(i, d, p)
    BY <1>3
  <2>2. clock + d \in Nat /\ p \in Nat
    BY <1>0, DelaysAssumption, MaxTimeAssumption
  <2> QED
    BY <2>1, <2>2, AddItemKeeps DEF Schedule
<1>4. CASE \E i \in Items, d \in Delays : Reset(i, d)
  BY <1>4, ResetKeeps, Zenon
<1>5. CASE \E i \in Items : Delete(i)
  BY <1>5, DeleteKeeps, Zenon
<1>6. CASE Stop
  BY <1>0, <1>6, QuietKeeps DEF Stop, callerVars, firingVars
<1>7. CASE SignalExpires
  BY <1>0, <1>7, QuietKeeps DEF SignalExpires, callerVars, firingVars
<1>8. CASE Receive
  BY <1>0, <1>8, QuietKeeps DEF Receive, callerVars
<1>9. CASE OncePops
  BY <1>9, OncePopsKeeps
<1>10. CASE OnceFindsNothing
  BY <1>0, <1>10, QuietKeeps DEF OnceFindsNothing, callerVars
<1>11. CASE TakeStamp
  BY <1>0, <1>11, QuietKeeps DEF TakeStamp, callerVars
<1>12. CASE AppendAgain
  BY <1>12, AppendAgainKeeps
<1>13. CASE CallbackReturns
  BY <1>0, <1>13, QuietKeeps DEF CallbackReturns, callerVars
<1>14. CASE CallbackPanics
  BY <1>0, <1>14, QuietKeeps DEF CallbackPanics, callerVars
<1>15. CASE CheckHead
  BY <1>0, <1>15, QuietKeeps DEF CheckHead, callerVars
<1>16. CASE ArmAgain
  <2>1. clock + (Expire[cur] - stamp) \in Int
    BY <1>0, <1>16 DEF ArmAgain, CurInv, TypeOK
  <2>2. signal' \in SUBSET Int
    BY <1>16, <2>1, Zenon DEF ArmAgain
  <2>3. calm' \in BOOLEAN
    BY <1>0, <1>16 DEF ArmAgain
  <2> QED
    BY <1>0, <1>16, <2>2, <2>3, QuietKeeps DEF ArmAgain, callerVars
<1>17. CASE Tick
  <2>1. clock' \in 0..MaxTime /\ clock <= clock'
    BY <1>0, <1>17, MaxTimeAssumption DEF Tick
  <2> QED
    BY <1>0, <1>17, <2>1, QuietKeeps DEF Tick, callerVars, firingVars
<1> QED
  BY <1>1, <1>2, <1>3, <1>4, <1>5, <1>6, <1>7, <1>8, <1>9, <1>10, <1>11, <1>12,
     <1>13, <1>14, <1>15, <1>16, <1>17, Zenon DEF Next, Calls, Firing

LEMMA Invariance == Spec => []Inv
<1>1. Init => Inv
  BY InitHolds
<1>2. Inv /\ [Next]_vars => Inv'
  BY InvHolds
<1> QED
  BY <1>1, <1>2, PTL DEF Spec

\* The timer's state keeps its types (timer.go:20-24, :86-90).
THEOREM TypeCorrect == Spec => []TypeOK
<1>1. Inv => TypeOK
  BY DEF Inv
<1> QED
  BY <1>1, Invariance, PTL

\* Every item of the heap knows its place, so that Delete and Reset never touch
\* another one: what Swap writes, what is written before an append, and what
\* nobody writes (timer.go:35-39, :51, :67-70, :97, :120, :125, :157-168,
\* :212-218).
THEOREM IndexIsPlace == Spec => []IndexTrue
<1>1. Inv => IndexTrue
  BY DEF Inv, HeapInv
<1> QED
  BY <1>1, Invariance, PTL

-----------------------------------------------------------------------------
(* The signal is not forgotten.                                            *)

\* Once and Schedule, and the item's return.
LEMMA InsertRemembers ==
  ASSUME Inv, NotForgotten, NEW i \in Items, i \notin Elements(timers), NEW t \in Nat,
         Expire' = [Expire EXCEPT ![i] = t], Insert(i),
         excused' = excused, chan' = chan,
         timers'[1] = i => \/ signal' # {}
                           \/ pc' = "user" /\ cur' = i /\ interval'[i] > 0,
         timers'[1] # i => UNCHANGED <<signal, pc, cur>> \/ (pc = "append" /\ UNCHANGED signal),
         pc \in {"user", "check"} => cur # i /\ interval'[cur] = interval[cur]
  PROVE  NotForgotten'
<1>1. TypeOK /\ HeapInv /\ timers \in Seq(Items)
  BY DEF Inv, TypeOK
<1>2. /\ timers' \in Seq(Items) /\ timers' # <<>>
      /\ timers'[1] = i \/ (timers # <<>> /\ timers'[1] = timers[1])
  BY <1>1, Inserted, Zenon
<1>3. Head(timers') = timers'[1] /\ (timers # <<>> => Head(timers) = timers[1])
  BY <1>1, <1>2, HeadOf, Zenon
<1>4. CASE timers'[1] = i
  BY <1>3, <1>4 DEF NotForgotten
<1>5. CASE timers'[1] # i
  <2>1. timers # <<>> /\ Head(timers') = Head(timers)
    BY <1>2, <1>3, <1>5, Zenon
  <2> QED
    BY <1>5, <2>1 DEF NotForgotten
<1> QED
  BY <1>4, <1>5

LEMMA AddItemRemembers ==
  ASSUME Inv, NotForgotten, NEW i \in Items, NEW t \in Nat, NEW p \in Nat, AddItem(i, t, p)
  PROVE  NotForgotten'
<1>1. TypeOK /\ CurInv /\ i \notin made /\ i \notin Elements(timers)
  BY Zenon DEF Inv, AddItem, HeapInv
<1>2. /\ Expire' = [Expire EXCEPT ![i] = t] /\ Insert(i)
      /\ excused' = excused /\ chan' = chan /\ pc' = pc /\ cur' = cur
      /\ timers'[1] = i => signal' # {}
      /\ timers'[1] # i => signal' = signal
  BY DEF AddItem, ArmForHead, firingVars
<1>3. pc \in {"user", "check"} => cur # i /\ interval'[cur] = interval[cur]
  BY <1>1 DEF AddItem, CurInv, TypeOK
<1> QED
  BY <1>1, <1>2, <1>3, InsertRemembers, Zenon

LEMMA AppendAgainRemembers ==
  ASSUME Inv, NotForgotten, AppendAgain
  PROVE  NotForgotten'
<1> DEFINE t == stamp + interval[cur]
<1>1. /\ TypeOK /\ cur \in Items /\ cur \notin Elements(timers) /\ interval[cur] > 0
      /\ pc = "append"
  BY DEF Inv, AppendAgain, CurInv, TypeOK
<1>2. t \in Nat
  BY <1>1, MaxTimeAssumption DEF TypeOK
<1>3. /\ Expire' = [Expire EXCEPT ![cur] = t] /\ Insert(cur)
      /\ excused' = excused /\ chan' = chan /\ signal' = signal
      /\ pc' = "user" /\ cur' = cur /\ interval' = interval
  BY Zenon DEF AppendAgain, callerVars
<1> HIDE DEF t
<1>4. pc \notin {"user", "check"}
  BY <1>1
<1>5. interval'[cur] > 0
  BY <1>1, <1>3, Zenon
<1> QED
  BY <1>1, <1>2, <1>3, <1>4, <1>5, InsertRemembers, Zenon

LEMMA DeleteRemembers ==
  ASSUME Inv, NotForgotten, NEW i \in Items, Delete(i)
  PROVE  NotForgotten'
<1>1. TypeOK /\ HeapInv /\ timers \in Seq(Items)
  BY DEF Inv, TypeOK
<1>2. /\ timers' \in Seq(Items) /\ i \in Elements(timers)
      /\ Index[i] # 0 => timers' # <<>> /\ timers'[1] = timers[1]
      /\ timers' # <<>> <=> Len(timers) > 1
  BY <1>1, Removed, Zenon DEF Delete
<1>3. timers # <<>>
  BY <1>1, <1>2, ElementsOfSeq, Zenon
<1>4. CASE Index[i] # 0
  <2>1. Head(timers') = Head(timers)
    BY <1>1, <1>2, <1>3, <1>4, HeadOf, Zenon
  <2> QED
    BY <1>3, <1>4, <2>1 DEF Delete, NotForgotten, firingVars
<1>5. CASE Index[i] = 0 /\ Len(timers) > 1
  BY <1>5 DEF Delete, ArmForHead, NotForgotten
<1>6. CASE ~(Len(timers) > 1)
  BY <1>2, <1>6, Zenon DEF NotForgotten
<1> QED
  BY <1>4, <1>5, <1>6, Zenon

LEMMA NotForgottenHolds == Inv /\ NotForgotten /\ [Next]_vars => NotForgotten'
<1> SUFFICES ASSUME Inv, NotForgotten, [Next]_vars PROVE NotForgotten'
  OBVIOUS
<1>0. TypeOK /\ CurInv /\ HeapInv /\ clock \in 0..MaxTime
  BY DEF Inv, TypeOK
<1>1. CASE UNCHANGED vars
  BY <1>1 DEF vars, callerVars, firingVars, NotForgotten
<1>2. CASE \E i \in Items, d \in Delays : Once(i, d)
  <2>1. PICK i \in Items, d \in Delays : Once(i, d)
    BY <1>2
  <2>2. clock + d \in Nat /\ 0 \in Nat
    BY <1>0, DelaysAssumption, MaxTimeAssumption
  <2> QED
    BY <2>1, <2>2, AddItemRemembers DEF Once
<1>3. CASE \E i \in Items, d \in Delays, p \in Intervals : Schedule(i, d, p)
  <2>1. PICK i \in Items, d \in Delays, p \in Intervals : Schedule(i, d, p)
    BY <1>3
  <2>2. clock + d \in Nat /\ p \in Nat
    BY <1>0, DelaysAssumption, MaxTimeAssumption
  <2> QED
    BY <2>1, <2>2, AddItemRemembers DEF Schedule
<1>4. CASE \E i \in Items, d \in Delays : Reset(i, d)
  <2>1. PICK i \in Items, d \in Delays : Reset(i, d)
    BY <1>4
  <2>2. timers # <<>>
    BY <1>0, <2>1 DEF Reset, Valid, TypeOK
  <2> QED
    BY <2>1, <2>2 DEF Reset, NotForgotten, callerVars, firingVars
<1>5. CASE \E i \in Items : Delete(i)
  BY <1>5, DeleteRemembers, Zenon
<1>6. CASE Stop
  BY <1>6 DEF Stop, NotForgotten
<1>7. CASE SignalExpires
  BY <1>7 DEF SignalExpires, NotForgotten
<1>8. CASE Receive
  BY <1>8 DEF Receive, NotForgotten
<1>9. CASE OncePops
  <2>1. timers' # <<>> <=> Len(timers) > 1
    BY <1>0, <1>9, Popped, Zenon DEF OncePops
  <2> QED
    BY <1>9, <2>1 DEF OncePops, ArmForHead, NotForgotten
<1>10. CASE OnceFindsNothing
  BY <1>10 DEF OnceFindsNothing, NotForgotten
<1>11. CASE TakeStamp
  BY <1>11 DEF TakeStamp, NotForgotten, callerVars
<1>12. CASE AppendAgain
  BY <1>12, AppendAgainRemembers
<1>13. CASE CallbackReturns
  <2>1. interval[cur] > 0 /\ interval[cur] = 0 => FALSE
    OBVIOUS
  <2> QED
    BY <1>13, <2>1 DEF CallbackReturns, NotForgotten, callerVars, Done
<1>14. CASE CallbackPanics
  BY <1>14 DEF CallbackPanics, NotForgotten, callerVars, Done
<1>15. CASE CheckHead
  BY <1>15 DEF CheckHead, NotForgotten, callerVars, Done
<1>16. CASE ArmAgain
  BY <1>16 DEF ArmAgain, NotForgotten
<1>17. CASE Tick
  BY <1>17 DEF Tick, NotForgotten, callerVars, firingVars
<1> QED
  BY <1>1, <1>2, <1>3, <1>4, <1>5, <1>6, <1>7, <1>8, <1>9, <1>10, <1>11, <1>12,
     <1>13, <1>14, <1>15, <1>16, <1>17, Zenon DEF Next, Calls, Firing

\* A heap that is not empty has a signal that is armed, has expired or will be
\* armed, but for the three exceptions (timer.go:103, :132-135, :169, :217,
\* :233, :241).
THEOREM SignalRemembered == Spec => []NotForgotten
<1>1. Init => NotForgotten
  BY DEF Init, NotForgotten
<1>2. Inv /\ NotForgotten /\ [Next]_vars => NotForgotten'
  BY NotForgottenHolds
<1> QED
  BY <1>1, <1>2, Invariance, PTL DEF Spec

-----------------------------------------------------------------------------
(* While calm, the signal is never early.                                  *)

LEMMA AtMost ==
  ASSUME NEW a \in Int, NEW b \in Int, NEW c \in Int, a <= b, b <= c
  PROVE  a <= c
OBVIOUS

\* What the head's time becomes when an item enters the heap.
LEMMA InsertedHead ==
  ASSUME Inv, NEW i \in Items, i \notin Elements(timers), NEW t \in Nat,
         Expire' = [Expire EXCEPT ![i] = t], Insert(i)
  PROVE  /\ timers' # <<>>
         /\ Expire'[timers'[1]] \in Int
         /\ timers # <<>> => /\ Expire[timers[1]] \in Int
                             /\ Expire'[timers'[1]] <= Expire[timers[1]]
                             /\ Expire[timers[1]] <= t => timers'[1] # i
         /\ timers = <<>> => timers'[1] = i
<1>1. TypeOK /\ HeapInv /\ timers \in Seq(Items) /\ Expire \in [Items -> Nat]
  BY DEF Inv, TypeOK
<1>2. /\ timers' \in Seq(Items) /\ timers' # <<>>
      /\ timers'[1] = i \/ (timers # <<>> /\ timers'[1] = timers[1])
      /\ timers # <<>> /\ Expire[timers[1]] <= t => timers'[1] = timers[1]
      /\ timers # <<>> => Expire'[timers'[1]] <= Expire[timers[1]]
  BY <1>1, Inserted, Zenon
<1>3. timers'[1] \in Items
  BY <1>2, HeadOf
<1>4. Expire'[timers'[1]] \in Int
  BY <1>1, <1>3
<1>5. ASSUME timers # <<>>
      PROVE  Expire[timers[1]] \in Int /\ timers[1] # i
  <2>1. timers[1] \in Items /\ timers[1] \in Elements(timers)
    BY <1>1, <1>5, HeadOf
  <2> QED
    BY <1>1, <2>1
<1> QED
  BY <1>2, <1>4, <1>5, Zenon

LEMMA AddItemNotEarly ==
  ASSUME Inv, EarlyInv, NEW i \in Items, NEW t \in Nat, clock <= t, NEW p, AddItem(i, t, p)
  PROVE  EarlyInv'
<1> SUFFICES ASSUME calm'
             PROVE  /\ chan' \/ pc' = "once" =>
                         /\ signal' = {}
                         /\ timers' # <<>>
                         /\ Expire'[timers'[1]] <= clock'
                    /\ pc' = "once" => ~chan'
                    /\ \A u \in signal' : timers' # <<>> /\ Expire'[timers'[1]] <= u
  BY Zenon DEF EarlyInv
<1>1. /\ i \notin Elements(timers) /\ clock \in Int /\ t \in Int
      /\ signal \subseteq Int
  BY MaxTimeAssumption DEF Inv, AddItem, HeapInv, TypeOK
<1>2. /\ calm /\ chan' = chan /\ pc' = pc /\ clock' = clock
      /\ Expire' = [Expire EXCEPT ![i] = t] /\ Insert(i)
      /\ timers'[1] = i => signal' = {Expire'[timers'[1]]}
      /\ timers'[1] # i => signal' = signal
  BY Zenon DEF AddItem, ArmForHead, firingVars
<1>3. /\ chan \/ pc = "once" => signal = {} /\ timers # <<>> /\ Expire[timers[1]] <= clock
      /\ pc = "once" => ~chan
      /\ \A u \in signal : timers # <<>> /\ Expire[timers[1]] <= u
  BY <1>2, Zenon DEF EarlyInv
<1>4. /\ timers' # <<>> /\ Expire'[timers'[1]] \in Int
      /\ timers # <<>> => /\ Expire[timers[1]] \in Int
                          /\ Expire'[timers'[1]] <= Expire[timers[1]]
                          /\ Expire[timers[1]] <= t => timers'[1] # i
  BY <1>1, <1>2, InsertedHead, Zenon
<1>5. ASSUME chan \/ pc = "once"
      PROVE  signal' = {} /\ Expire'[timers'[1]] <= clock
  <2>1. timers # <<>> /\ Expire[timers[1]] <= clock /\ signal = {}
    BY <1>3, <1>5, Zenon
  <2>2. Expire[timers[1]] <= t /\ Expire'[timers'[1]] <= clock
    BY <1>1, <1>4, <2>1, AtMost
  <2> QED
    BY <1>2, <1>4, <2>1, <2>2, Zenon
<1>6. ASSUME NEW u \in signal'
      PROVE  Expire'[timers'[1]] <= u
  <2>1. CASE timers'[1] = i
    <3>1. u = Expire'[timers'[1]]
      BY <1>2, <1>6, <2>1, Zenon
    <3> QED
      BY <1>4, <3>1
  <2>2. CASE timers'[1] # i
    <3>1. u \in Int /\ timers # <<>> /\ Expire[timers[1]] <= u
      BY <1>1, <1>2, <1>3, <1>6, <2>2, Zenon
    <3> QED
      BY <1>4, <3>1, AtMost
  <2> QED
    BY <2>1, <2>2
<1> QED
  BY <1>2, <1>3, <1>4, <1>5, <1>6, Zenon

LEMMA AppendAgainNotEarly ==
  ASSUME Inv, EarlyInv, AppendAgain
  PROVE  EarlyInv'
<1> DEFINE t == stamp + interval[cur]
<1> SUFFICES ASSUME calm'
             PROVE  /\ chan' => /\ signal' = {}
                                /\ timers' # <<>>
                                /\ Expire'[timers'[1]] <= clock'
                    /\ \A u \in signal' : timers' # <<>> /\ Expire'[timers'[1]] <= u
  <2>1. pc' # "once"
    BY DEF AppendAgain
  <2> QED
    BY <2>1, Zenon DEF EarlyInv
<1>1. /\ cur \in Items /\ cur \notin Elements(timers) /\ clock \in Int
      /\ signal \subseteq Int /\ t \in Nat
  BY MaxTimeAssumption DEF Inv, AppendAgain, CurInv, TypeOK
<1>2. /\ calm /\ chan' = chan /\ clock' = clock /\ signal' = signal
      /\ Expire' = [Expire EXCEPT ![cur] = t] /\ Insert(cur)
  BY Zenon DEF AppendAgain
<1> HIDE DEF t
<1>3. /\ chan => signal = {} /\ timers # <<>> /\ Expire[timers[1]] <= clock
      /\ \A u \in signal : timers # <<>> /\ Expire[timers[1]] <= u
  BY <1>2, Zenon DEF EarlyInv
<1>4. /\ timers' # <<>> /\ Expire'[timers'[1]] \in Int
      /\ timers # <<>> => /\ Expire[timers[1]] \in Int
                          /\ Expire'[timers'[1]] <= Expire[timers[1]]
  BY <1>1, <1>2, InsertedHead, Zenon
<1>5. ASSUME chan
      PROVE  Expire'[timers'[1]] <= clock
  BY <1>1, <1>3, <1>4, <1>5, AtMost
<1>6. ASSUME NEW u \in signal
      PROVE  Expire'[timers'[1]] <= u
  <2>1. u \in Int /\ timers # <<>> /\ Expire[timers[1]] <= u
    BY <1>1, <1>3, <1>6, Zenon
  <2> QED
    BY <1>4, <2>1, AtMost
<1> QED
  BY <1>2, <1>3, <1>4, <1>5, <1>6, Zenon

\* Steps that leave the head and what EarlyInv says of it, or arm for the head.
LEMMA HeadStaysNotEarly ==
  ASSUME EarlyInv, UNCHANGED <<timers, Expire, calm, clock>>,
         signal' = signal \/ signal' = {},
         chan' \/ pc' = "once" => chan \/ pc = "once",
         pc' = "once" => ~chan'
  PROVE  EarlyInv'
BY Zenon DEF EarlyInv

LEMMA EarlyHolds == Inv /\ EarlyInv /\ [Next]_vars => EarlyInv'
<1> SUFFICES ASSUME Inv, EarlyInv, [Next]_vars PROVE EarlyInv'
  OBVIOUS
<1>0. /\ TypeOK /\ HeapInv /\ CurInv
      /\ clock \in Nat /\ timers \in Seq(Items) /\ Expire \in [Items -> Nat]
      /\ signal \subseteq Int
  BY MaxTimeAssumption DEF Inv, TypeOK
<1>1. CASE UNCHANGED vars
  BY <1>1, Zenon DEF vars, callerVars, firingVars, EarlyInv
<1>2. CASE \E i \in Items, d \in Delays : Once(i, d)
  <2>1. PICK i \in Items, d \in Delays : Once(i, d)
    BY <1>2
  <2>2. clock + d \in Nat /\ clock <= clock + d
    BY <1>0, DelaysAssumption
  <2> QED
    BY <2>1, <2>2, AddItemNotEarly DEF Once
<1>3. CASE \E i \in Items, d \in Delays, p \in Intervals : Schedule(i, d, p)
  <2>1. PICK i \in Items, d \in Delays, p \in Intervals : Schedule(i, d, p)
    BY <1>3
  <2>2. clock + d \in Nat /\ clock <= clock + d
    BY <1>0, DelaysAssumption
  <2> QED
    BY <2>1, <2>2, AddItemNotEarly DEF Schedule
<1>4. CASE \E i \in Items, d \in Delays : Reset(i, d)
  BY <1>4 DEF Reset, EarlyInv
<1>5. CASE \E i \in Items : Delete(i)
  BY <1>5 DEF Delete, EarlyInv
<1>6. CASE Stop
  <2>1. pc = "once" /\ calm => ~chan
    BY DEF EarlyInv
  <2> QED
    BY <1>6, <2>1, Zenon DEF Stop, EarlyInv, firingVars
<1>7. CASE SignalExpires
  <2> SUFFICES ASSUME calm
               PROVE  timers # <<>> /\ Expire[timers[1]] <= clock /\ pc # "once"
    BY <1>7, Zenon DEF SignalExpires, EarlyInv, firingVars
  <2>1. PICK u \in signal : u <= clock
    BY <1>7 DEF SignalExpires
  <2>2. timers # <<>> /\ Expire[timers[1]] <= u /\ pc # "once"
    BY <2>1, Zenon DEF EarlyInv
  <2>3. timers[1] \in Items
    BY <1>0, <2>2, HeadOf
  <2>4. Expire[timers[1]] \in Int /\ u \in Int /\ clock \in Int
    BY <1>0, <2>1, <2>3
  <2> QED
    BY <2>1, <2>2, <2>4, AtMost
<1>8. CASE Receive
  BY <1>8, Zenon DEF Receive, EarlyInv
<1>9. CASE OncePops
  <2> SUFFICES ASSUME calm'
               PROVE  /\ ~chan' /\ pc' # "once"
                      /\ \A u \in signal' : timers' # <<>> /\ Expire'[timers'[1]] <= u
    BY Zenon DEF EarlyInv
  <2>1. ~chan /\ signal = {}
    BY <1>9 DEF OncePops, EarlyInv
  <2>2. timers' \in Seq(Items) /\ (timers' # <<>> <=> Len(timers) > 1)
    BY <1>0, <1>9, Popped, Zenon DEF OncePops
  <2>3. ~chan' /\ pc' # "once"
    BY <1>9, <2>1 DEF OncePops
  <2>4. CASE Len(timers) > 1
    <3>1. timers'[1] \in Items
      BY <2>2, <2>4, HeadOf
    <3>2. Expire'[timers'[1]] \in Int /\ signal' = {Expire'[timers'[1]]}
      BY <1>0, <1>9, <2>4, <3>1 DEF OncePops, ArmForHead
    <3> QED
      BY <2>2, <2>3, <2>4, <3>2
  <2>5. CASE ~(Len(timers) > 1)
    <3>1. signal' = {}
      BY <1>9, <2>1, <2>5 DEF OncePops
    <3> QED
      BY <2>3, <3>1
  <2> QED
    BY <2>4, <2>5
<1>10. CASE OnceFindsNothing
  BY <1>10 DEF OnceFindsNothing, EarlyInv
<1>11. CASE TakeStamp
  BY <1>11, HeadStaysNotEarly DEF TakeStamp
<1>12. CASE AppendAgain
  BY <1>12, AppendAgainNotEarly
<1>13. CASE CallbackReturns
  BY <1>13, HeadStaysNotEarly DEF CallbackReturns, Done
<1>14. CASE CallbackPanics
  BY <1>14, HeadStaysNotEarly DEF CallbackPanics, Done
<1>15. CASE CheckHead
  BY <1>15, HeadStaysNotEarly DEF CheckHead, Done
<1>16. CASE ArmAgain
  <2> SUFFICES ASSUME calm'
               PROVE  /\ ~chan' /\ pc' # "once"
                      /\ \A u \in signal' : timers' # <<>> /\ Expire'[timers'[1]] <= u
    BY Zenon DEF EarlyInv
  <2>1. ~chan' /\ pc' # "once" /\ timers # <<>> /\ Head(timers) = cur
        /\ timers' = timers /\ Expire' = Expire
        /\ signal' = {clock + (Expire[cur] - stamp)}
    BY <1>16 DEF ArmAgain, Done
  <2>2. timers[1] = cur /\ cur \in Items
    BY <1>0, <2>1, HeadOf
  <2>3. Expire[cur] <= clock + (Expire[cur] - stamp)
    <3>1. Expire[cur] \in Int /\ stamp \in Int /\ stamp <= clock
      BY <1>0, <2>2, MaxTimeAssumption DEF CurInv, TypeOK
    <3> QED
      BY <1>0, <3>1
  <2> QED
    BY <2>1, <2>2, <2>3, Zenon
<1>17. CASE Tick
  <2> SUFFICES ASSUME calm, chan \/ pc = "once"
               PROVE  Expire[timers[1]] <= clock + 1
    BY <1>17, Zenon DEF Tick, EarlyInv, firingVars
  <2>1. timers # <<>> /\ Expire[timers[1]] <= clock
    BY Zenon DEF EarlyInv
  <2>2. timers[1] \in Items
    BY <1>0, <2>1, HeadOf
  <2>3. Expire[timers[1]] \in Int
    BY <1>0, <2>2
  <2> QED
    BY <1>0, <2>1, <2>3
<1> QED
  BY <1>1, <1>2, <1>3, <1>4, <1>5, <1>6, <1>7, <1>8, <1>9, <1>10, <1>11, <1>12,
     <1>13, <1>14, <1>15, <1>16, <1>17, Zenon DEF Next, Calls, Firing

-----------------------------------------------------------------------------
(* The refinement.                                                         *)

\* One item's life goes on and the others' do not.
LEMMA OneLife ==
  ASSUME NEW i \in Items, NEW x,
         life'[i] = x,
         \A j \in Items : j # i => life'[j] = life[j]
  PROVE  life' = [life EXCEPT ![i] = x]
<1>1. life' = [j \in Items |-> life'[j]]
  BY DEF life
<1>2. DOMAIN life = Items
  BY DEF life
<1>3. [life EXCEPT ![i] = x] = [j \in Items |-> IF j = i THEN x ELSE life[j]]
  BY <1>2
<1> HIDE DEF life
<1>4. \A j \in Items : life'[j] = IF j = i THEN x ELSE life[j]
  BY Zenon
<1> QED
  BY <1>1, <1>3, <1>4

\* What changes neither the heap's items nor what is mapped is a stutter.
LEMMA Stutters ==
  ASSUME UNCHANGED <<timers, made, deleted, clock, Expire, interval, calm>>
  PROVE  UNCHANGED A!alarmVars
BY DEF A!alarmVars, life, Elements

LEMMA AddItemSets ==
  ASSUME Inv, NEW i \in Items, NEW t \in Nat, clock <= t, NEW p \in Nat, AddItem(i, t, p)
  PROVE  A!Set(i)
<1>1. TypeOK /\ HeapInv /\ i \notin made /\ i \notin Elements(timers)
  BY Zenon DEF Inv, AddItem, HeapInv
<1>2. Expire' = [Expire EXCEPT ![i] = t] /\ Insert(i)
      /\ interval' = [interval EXCEPT ![i] = p]
      /\ made' = made \cup {i} /\ deleted' = deleted /\ clock' = clock /\ calm' = calm
  BY Zenon DEF AddItem
<1>3. Elements(timers') = Elements(timers) \cup {i}
  BY <1>1, <1>2, Inserted, Zenon
<1>4. life[i] = "new" /\ life'[i] = "set"
  BY <1>1, <1>2, <1>3 DEF life
<1>5. \A j \in Items : j # i => life'[j] = life[j]
  BY <1>1, <1>2, <1>3 DEF life
<1>6. life' = [life EXCEPT ![i] = "set"]
  BY <1>4, <1>5, OneLife
<1>7. Expire'[i] = t /\ interval'[i] = p
  BY <1>1, <1>2 DEF TypeOK
<1>8. A!Changes(Expire, Expire', i) /\ A!Changes(interval, interval', i)
  BY <1>2, <1>7, Zenon DEF A!Changes
<1>9. Expire'[i] >= clock
  BY <1>1, <1>7, MaxTimeAssumption DEF TypeOK
<1> QED
  BY <1>2, <1>4, <1>6, <1>8, <1>9, Zenon DEF A!Set

LEMMA DeleteCancels ==
  ASSUME Inv, NEW i \in Items, Delete(i)
  PROVE  A!Cancel(i)
<1>1. TypeOK /\ HeapInv /\ i \in made
  BY Zenon DEF Inv, Delete
<1>2. Elements(timers') = Elements(timers) \ {i} /\ i \in Elements(timers)
  BY <1>1, Removed, Zenon DEF Delete
<1>3. life[i] = "set" /\ life'[i] = "off"
  BY <1>1, <1>2 DEF life, Delete
<1>4. \A j \in Items : j # i => life'[j] = life[j]
  BY <1>1, <1>2 DEF life, Delete
<1>5. life' = [life EXCEPT ![i] = "off"]
  BY <1>3, <1>4, OneLife
<1> QED
  BY <1>3, <1>5, Zenon DEF A!Cancel, Delete

LEMMA ResetMoves ==
  ASSUME Inv, NEW i \in Items, NEW d \in Delays, Reset(i, d)
  PROVE  A!Move(i)
<1>1. TypeOK /\ HeapInv /\ i \in made /\ clock \in Nat /\ d \in Nat
  BY DelaysAssumption, MaxTimeAssumption DEF Inv, Reset, TypeOK
<1>2. Expire' = [Expire EXCEPT ![i] = clock + d] /\ Expire' \in [Items -> Nat]
  BY <1>1 DEF Reset, TypeOK
<1>3. Elements(timers') = Elements(timers)
  BY <1>1, <1>2, Reordered, Zenon DEF Reset
<1>4. i \in Elements(timers)
  <2>1. Index[i] + 1 \in 1..Len(timers) /\ timers[Index[i] + 1] = i
    <3>1. Index[i] \in Int /\ Len(timers) \in Nat
      BY <1>1, LenProperties DEF TypeOK
    <3>2. Index[i] >= 0 /\ Index[i] < Len(timers) /\ timers[Index[i] + 1] = i
      BY Zenon DEF Reset, Valid
    <3>3. \A x \in Int, n \in Nat : x >= 0 /\ x < n => x + 1 \in 1..n
      OBVIOUS
    <3> QED
      BY <3>1, <3>2, <3>3, Zenon
  <2> QED
    BY <2>1, Zenon DEF Elements
<1>5. life[i] = "set" /\ life' = life
  BY <1>1, <1>3, <1>4 DEF life, Reset, callerVars
<1>6. life' = [life EXCEPT ![i] = life'[i]] /\ Expire'[i] = clock + d
  BY <1>1, <1>2, <1>5 DEF life, TypeOK
<1>7. A!Changes(Expire, Expire', i) /\ Expire'[i] >= clock
  <2>1. A!Changes(Expire, Expire', i)
    BY <1>2, <1>6, Zenon DEF A!Changes
  <2> QED
    BY <1>1, <1>6, <2>1
<1> QED
  BY <1>5, <1>7, Zenon DEF A!Move, Reset, callerVars

LEMMA OncePopsRings ==
  ASSUME Inv, EarlyInv, OncePops
  PROVE  \E i \in Items : A!Ring(i)
<1> DEFINE i == timers[1]
<1>1. TypeOK /\ HeapInv /\ timers # <<>> /\ timers \in Seq(Items)
  BY DEF Inv, OncePops, TypeOK
<1>2. Elements(timers') = Elements(timers) \ {i} /\ i \in Elements(timers) /\ i \in Items
  BY <1>1, Popped, HeadOf, Zenon DEF OncePops
<1>3. \A j \in Elements(timers) : Expire[i] <= Expire[j]
  BY <1>1, Zenon DEF HeapInv, Least, Elements
<1>4. calm => Expire[i] <= clock
  BY Zenon DEF EarlyInv, OncePops
<1> HIDE DEF i
<1>5. i \in made /\ i \notin deleted
  BY <1>1, <1>2 DEF HeapInv
<1>6. made' = made /\ deleted' = deleted /\ interval' = interval
      /\ Expire' = Expire /\ clock' = clock /\ calm' = calm
  BY Zenon DEF OncePops, callerVars
<1>7. life[i] = "set" /\ life'[i] = "rang"
  BY <1>2, <1>5, <1>6 DEF life
<1>8. \A j \in Items : j # i => life'[j] = life[j]
  BY <1>2, <1>6 DEF life
<1>9. life' = [life EXCEPT ![i] = "rang"]
  BY <1>2, <1>7, <1>8, OneLife
<1>10. \A j \in Items : life[j] = "set" => j \in Elements(timers)
  BY DEF life
<1>11. A!Next1st(i)
  BY <1>3, <1>7, <1>10, Zenon DEF A!Next1st
<1>12. A!Ring(i)
  BY <1>4, <1>6, <1>9, <1>11, Zenon DEF A!Ring
<1> QED
  BY <1>2, <1>12

LEMMA AppendAgainRings ==
  ASSUME Inv, AppendAgain
  PROVE  A!RingAgain(cur) /\ cur \in Items
<1> DEFINE t == stamp + interval[cur]
<1>1. /\ TypeOK /\ HeapInv /\ CurInv
      /\ cur \in made /\ cur \in Items /\ cur \notin Elements(timers) /\ cur \notin deleted
      /\ interval[cur] > 0
  BY DEF Inv, AppendAgain, CurInv, TypeOK
<1>2. t \in Nat /\ t <= clock + interval[cur]
  BY <1>1, MaxTimeAssumption DEF TypeOK, CurInv
<1>3. Expire' = [Expire EXCEPT ![cur] = t] /\ Insert(cur)
      /\ made' = made /\ deleted' = deleted /\ interval' = interval
      /\ clock' = clock /\ calm' = calm
  BY Zenon DEF AppendAgain, callerVars
<1> HIDE DEF t
<1>4. Elements(timers') = Elements(timers) \cup {cur}
  BY <1>1, <1>2, <1>3, Inserted, Zenon
<1>5. life[cur] = "rang" /\ life'[cur] = "set"
  BY <1>1, <1>3, <1>4 DEF life
<1>6. \A j \in Items : j # cur => life'[j] = life[j]
  BY <1>3, <1>4 DEF life
<1>7. life' = [life EXCEPT ![cur] = "set"]
  BY <1>1, <1>5, <1>6, OneLife
<1>8. Expire'[cur] = t
  BY <1>1, <1>3 DEF TypeOK
<1>9. A!Changes(Expire, Expire', cur)
  BY <1>3, <1>8, Zenon DEF A!Changes
<1> QED
  BY <1>1, <1>2, <1>3, <1>5, <1>7, <1>8, <1>9, Zenon DEF A!RingAgain

LEMMA StepMaps == Inv /\ EarlyInv /\ [Next]_vars => [A!AlarmNext]_(A!alarmVars)
<1> SUFFICES ASSUME Inv, EarlyInv, [Next]_vars PROVE [A!AlarmNext]_(A!alarmVars)
  OBVIOUS
<1>0. clock \in Nat /\ TypeOK /\ CurInv
  BY MaxTimeAssumption DEF Inv, TypeOK
<1>1. CASE UNCHANGED vars
  BY <1>1, Stutters DEF vars, callerVars
<1>2. CASE \E i \in Items, d \in Delays : Once(i, d)
  <2>1. PICK i \in Items, d \in Delays : Once(i, d)
    BY <1>2
  <2>2. clock + d \in Nat /\ clock <= clock + d /\ 0 \in Nat
    BY <1>0, DelaysAssumption
  <2>3. A!Set(i)
    BY <2>1, <2>2, AddItemSets DEF Once
  <2> QED
    BY <2>3, Zenon DEF A!AlarmNext
<1>3. CASE \E i \in Items, d \in Delays, p \in Intervals : Schedule(i, d, p)
  <2>1. PICK i \in Items, d \in Delays, p \in Intervals : Schedule(i, d, p)
    BY <1>3
  <2>2. clock + d \in Nat /\ clock <= clock + d /\ p \in Nat
    BY <1>0, DelaysAssumption
  <2>3. A!Set(i)
    BY <2>1, <2>2, AddItemSets DEF Schedule
  <2> QED
    BY <2>3, Zenon DEF A!AlarmNext
<1>4. CASE \E i \in Items, d \in Delays : Reset(i, d)
  BY <1>4, ResetMoves, Zenon DEF A!AlarmNext
<1>5. CASE \E i \in Items : Delete(i)
  BY <1>5, DeleteCancels, Zenon DEF A!AlarmNext
<1>6. CASE OncePops
  BY <1>6, OncePopsRings, Zenon DEF A!AlarmNext
<1>7. CASE AppendAgain
  BY <1>7, AppendAgainRings, Zenon DEF A!AlarmNext
<1>8. CASE Tick
  <2>1. life' = life
    BY <1>8 DEF Tick, life, callerVars
  <2>2. A!Pass
    BY <1>8, <2>1 DEF Tick, A!Pass, callerVars
  <2> QED
    BY <2>2, Zenon DEF A!AlarmNext
<1>9. CASE ArmAgain
  <2>1. calm' = calm \/ calm' = FALSE
    BY <1>0, <1>9 DEF ArmAgain, TypeOK
  <2>2. CASE calm' = calm
    BY <1>9, <2>2, Stutters DEF ArmAgain, callerVars
  <2>3. CASE calm' = FALSE
    <3>1. life' = life
      BY <1>9 DEF ArmAgain, life, callerVars
    <3>2. cur \in Items /\ interval[cur] > 0 /\ life[cur] # "new"
      BY <1>0, <1>9 DEF ArmAgain, CurInv, TypeOK, life
    <3>3. A!CalmEnds
      BY <1>9, <2>3, <3>1, <3>2, Zenon DEF ArmAgain, A!CalmEnds, callerVars
    <3> QED
      BY <3>3, Zenon DEF A!AlarmNext
  <2> QED
    BY <2>1, <2>2, <2>3
<1>10. CASE \/ Stop \/ SignalExpires \/ Receive \/ OnceFindsNothing \/ TakeStamp
            \/ CallbackReturns \/ CallbackPanics \/ CheckHead
  <2>1. UNCHANGED <<timers, made, deleted, clock, Expire, interval, calm>>
    BY <1>10, Zenon DEF Stop, SignalExpires, Receive, OnceFindsNothing, TakeStamp,
       CallbackReturns, CallbackPanics, CheckHead, callerVars
  <2> QED
    BY <2>1, Stutters
<1> QED
  BY <1>1, <1>2, <1>3, <1>4, <1>5, <1>6, <1>7, <1>8, <1>9, <1>10, Zenon
     DEF Next, Calls, Firing

\* The timer implements the alarms: earliest first, Once items at most once, a
\* deleted item never again, and none early while calm (timer.go:92-252).
THEOREM TimerImplementsAlarms == Spec => ImplementsAlarms
<1>1. Init => A!AlarmInit /\ EarlyInv
  <2> SUFFICES ASSUME Init PROVE A!AlarmInit /\ EarlyInv
    OBVIOUS
  <2>1. life = [i \in Items |-> "new"]
    BY DEF Init, life
  <2>2. A!AlarmInit
    BY <2>1, Zenon DEF Init, A!AlarmInit
  <2>3. EarlyInv
    BY DEF Init, EarlyInv
  <2> QED
    BY <2>2, <2>3
<1>2. Inv /\ EarlyInv /\ [Next]_vars => EarlyInv'
  BY EarlyHolds
<1>3. Inv /\ EarlyInv /\ [Next]_vars => [A!AlarmNext]_(A!alarmVars)
  BY StepMaps
<1> QED
  BY <1>1, <1>2, <1>3, Invariance, PTL DEF Spec, ImplementsAlarms, A!AlarmSpec
=============================================================================
