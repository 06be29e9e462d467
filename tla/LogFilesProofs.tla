--------------------------- MODULE LogFilesProofs ---------------------------
(***************************************************************************)
(* Proofs about LogFiles, for any number of goroutines, any file size and  *)
(* any bounds. A write is two steps on a logger and a disk: a rotation, or *)
(* none, and the writing of one line. The parts of the invariant are       *)
(* stated for any disk and buffer, so that each step needs one lemma.      *)
(***************************************************************************)
EXTENDS LogFiles, FiniteSetTheorems, SequenceTheorems, TLAPS

Loggers == [name : FileNames \cup {NoFile}, sub : Nat, size : Nat,
            opened : BOOLEAN, writer : {"nil", "file", "gone"}, buf : Seq(Nat)]
Disks == [FileNames -> Seq(Nat)]

\* What is open or written to is a file, and only a writer that has one holds lines.
Shape(l) ==
  /\ l \in Loggers
  /\ l.opened \/ l.writer = "file" => l.name \in FileNames
  /\ l.writer # "file" => l.buf = <<>>

\* Only lines of W stand anywhere, each in one place.
Within(dk, b, W) ==
  /\ \A f \in FileNames : \A k \in 1..Len(dk[f]) : dk[f][k] \in W
  /\ \A k \in 1..Len(b) : b[k] \in W
OnceOnDisk(dk) ==
  \A f, g \in FileNames : \A j \in 1..Len(dk[f]), k \in 1..Len(dk[g]) :
    dk[f][j] = dk[g][k] => f = g /\ j = k
OnceInBuffer(b) == \A j, k \in 1..Len(b) : b[j] = b[k] => j = k
Apart(dk, b) ==
  \A f \in FileNames : \A j \in 1..Len(dk[f]), k \in 1..Len(b) : dk[f][j] # b[k]

Placed(dk, b, W) == Within(dk, b, W) /\ OnceOnDisk(dk) /\ OnceInBuffer(b) /\ Apart(dk, b)

\* Lines are with those of their day.
Dated(dk, b, x) ==
  /\ \A f \in FileNames : \A k \in 1..Len(dk[f]) : lines[dk[f][k]].day = f.day
  /\ \A k \in 1..Len(b) : lines[b[k]].day = x.day

\* Line n is somewhere.
Kept(dk, b, n) ==
  \/ \E f \in FileNames : \E k \in 1..Len(dk[f]) : dk[f][k] = n
  \/ \E k \in 1..Len(b) : b[k] = n

\* As long as nothing has failed the logger is fresh or has an open file.
Usable(l) == l.name \in FileNames /\ l.opened /\ l.writer = IF bufio THEN "file" ELSE "nil"
Ready(l) == l = Fresh \/ Usable(l)

\* What a step makes of a disk and of a logger.
WithLine(dk, x, n) == [dk EXCEPT ![x] = Append(@, n)]
WithLines(dk, x, b) == [dk EXCEPT ![x] = @ \o b]
Sized(l, i) == [l EXCEPT !.size = i]
Buffered(l, b) == [l EXCEPT !.buf = b]
Grown(l, i, b) == [l EXCEPT !.size = i, !.buf = b]

-----------------------------------------------------------------------------
(* Sequences and disks.                                                    *)

LEMMA Appended ==
  ASSUME NEW s \in Seq(Nat), NEW n \in Nat
  PROVE  /\ Append(s, n) \in Seq(Nat)
         /\ Len(s) \in Nat
         /\ Len(Append(s, n)) = Len(s) + 1
         /\ \A k \in 1..Len(s) : k \in 1..Len(Append(s, n)) /\ Append(s, n)[k] = s[k]
         /\ Len(s) + 1 \in 1..Len(Append(s, n)) /\ Append(s, n)[Len(s) + 1] = n
         /\ \A k \in 1..Len(Append(s, n)) : k \in 1..Len(s) \/ k = Len(s) + 1
<1>1. Len(s) \in Nat
  BY LenProperties
<1>2. /\ Append(s, n) \in Seq(Nat) /\ Len(Append(s, n)) = Len(s) + 1
      /\ \A k \in 1..Len(s) : Append(s, n)[k] = s[k]
      /\ Append(s, n)[Len(s) + 1] = n
  BY AppendProperties
<1> QED
  BY <1>1, <1>2

LEMMA Joined ==
  ASSUME NEW s \in Seq(Nat), NEW t \in Seq(Nat)
  PROVE  /\ s \o t \in Seq(Nat)
         /\ Len(s) \in Nat /\ Len(t) \in Nat
         /\ Len(s \o t) = Len(s) + Len(t)
         /\ \A k \in 1..Len(s) : k \in 1..Len(s \o t) /\ (s \o t)[k] = s[k]
         /\ \A k \in 1..Len(t) : Len(s) + k \in 1..Len(s \o t) /\ (s \o t)[Len(s) + k] = t[k]
         /\ \A k \in 1..Len(s \o t) :
              k \in 1..Len(s) \/ (k - Len(s) \in 1..Len(t) /\ (s \o t)[k] = t[k - Len(s)])
<1>1. Len(s) \in Nat /\ Len(t) \in Nat
  BY LenProperties
<1>2. /\ s \o t \in Seq(Nat) /\ Len(s \o t) = Len(s) + Len(t)
      /\ \A k \in 1..Len(s) + Len(t) : (s \o t)[k] = IF k <= Len(s) THEN s[k] ELSE t[k - Len(s)]
  BY ConcatProperties
<1> QED
  BY <1>1, <1>2

\* A line at the end of a file.
LEMMA DiskAppended ==
  ASSUME NEW dk \in Disks, NEW x \in FileNames, NEW n \in Nat, NEW dk2,
         dk2 = WithLine(dk, x, n)
  PROVE  /\ dk2 \in Disks /\ Len(dk[x]) \in Nat
         /\ \A f \in FileNames : \A k \in 1..Len(dk[f]) :
              k \in 1..Len(dk2[f]) /\ dk2[f][k] = dk[f][k]
         /\ Len(dk[x]) + 1 \in 1..Len(dk2[x]) /\ dk2[x][Len(dk[x]) + 1] = n
         /\ \A f \in FileNames : \A k \in 1..Len(dk2[f]) :
              \/ k \in 1..Len(dk[f]) /\ dk2[f][k] = dk[f][k]
              \/ f = x /\ k = Len(dk[x]) + 1 /\ dk2[f][k] = n
         /\ Len(dk2[x]) = Len(dk[x]) + 1
         /\ \A f \in FileNames : f # x => dk2[f] = dk[f]
<1>1. dk[x] \in Seq(Nat)
  BY DEF Disks
<1>2. /\ dk2[x] = Append(dk[x], n) /\ \A f \in FileNames : f # x => dk2[f] = dk[f]
  BY DEF Disks, WithLine
<1>3. dk2 \in Disks
  <2>1. Append(dk[x], n) \in Seq(Nat)
    BY <1>1, Appended
  <2> QED
    BY <2>1 DEF Disks, WithLine
<1>4. /\ Len(dk[x]) \in Nat /\ Len(dk2[x]) = Len(dk[x]) + 1
      /\ \A k \in 1..Len(dk[x]) : k \in 1..Len(dk2[x]) /\ dk2[x][k] = dk[x][k]
      /\ Len(dk[x]) + 1 \in 1..Len(dk2[x]) /\ dk2[x][Len(dk[x]) + 1] = n
      /\ \A k \in 1..Len(dk2[x]) : k \in 1..Len(dk[x]) \/ k = Len(dk[x]) + 1
  BY <1>1, <1>2, Appended
<1>5. ASSUME NEW f \in FileNames, NEW k \in 1..Len(dk[f])
      PROVE  k \in 1..Len(dk2[f]) /\ dk2[f][k] = dk[f][k]
  <2>1. CASE f = x
    BY <1>4, <2>1
  <2>2. CASE f # x
    BY <1>2, <2>2
  <2> QED
    BY <2>1, <2>2
<1>6. ASSUME NEW f \in FileNames, NEW k \in 1..Len(dk2[f])
      PROVE  \/ k \in 1..Len(dk[f]) /\ dk2[f][k] = dk[f][k]
             \/ f = x /\ k = Len(dk[x]) + 1 /\ dk2[f][k] = n
  <2>1. CASE f = x
    BY <1>4, <2>1
  <2>2. CASE f # x
    BY <1>2, <2>2
  <2> QED
    BY <2>1, <2>2
<1> QED
  BY <1>2, <1>3, <1>4, <1>5, <1>6

\* What was in the buffer at the end of a file.
LEMMA DiskJoined ==
  ASSUME NEW dk \in Disks, NEW x \in FileNames, NEW b \in Seq(Nat), NEW dk2,
         dk2 = WithLines(dk, x, b)
  PROVE  /\ dk2 \in Disks /\ Len(dk[x]) \in Nat
         /\ \A f \in FileNames : \A k \in 1..Len(dk[f]) :
              k \in 1..Len(dk2[f]) /\ dk2[f][k] = dk[f][k]
         /\ \A k \in 1..Len(b) :
              Len(dk[x]) + k \in 1..Len(dk2[x]) /\ dk2[x][Len(dk[x]) + k] = b[k]
         /\ \A f \in FileNames : \A k \in 1..Len(dk2[f]) :
              \/ k \in 1..Len(dk[f]) /\ dk2[f][k] = dk[f][k]
              \/ f = x /\ k - Len(dk[x]) \in 1..Len(b) /\ dk2[f][k] = b[k - Len(dk[x])]
         /\ Len(dk2[x]) = Len(dk[x]) + Len(b)
         /\ \A f \in FileNames : f # x => dk2[f] = dk[f]
<1>1. dk[x] \in Seq(Nat)
  BY DEF Disks
<1>2. /\ dk2[x] = dk[x] \o b /\ \A f \in FileNames : f # x => dk2[f] = dk[f]
  BY DEF Disks, WithLines
<1>3. dk2 \in Disks
  <2>1. dk[x] \o b \in Seq(Nat)
    BY <1>1, Joined
  <2> QED
    BY <2>1 DEF Disks, WithLines
<1>4. /\ Len(dk[x]) \in Nat /\ Len(dk2[x]) = Len(dk[x]) + Len(b)
      /\ \A k \in 1..Len(dk[x]) : k \in 1..Len(dk2[x]) /\ dk2[x][k] = dk[x][k]
      /\ \A k \in 1..Len(b) :
           Len(dk[x]) + k \in 1..Len(dk2[x]) /\ dk2[x][Len(dk[x]) + k] = b[k]
      /\ \A k \in 1..Len(dk2[x]) :
           \/ k \in 1..Len(dk[x])
           \/ k - Len(dk[x]) \in 1..Len(b) /\ dk2[x][k] = b[k - Len(dk[x])]
  BY <1>1, <1>2, Joined
<1>5. ASSUME NEW f \in FileNames, NEW k \in 1..Len(dk[f])
      PROVE  k \in 1..Len(dk2[f]) /\ dk2[f][k] = dk[f][k]
  <2>1. CASE f = x
    BY <1>4, <2>1
  <2>2. CASE f # x
    BY <1>2, <2>2
  <2> QED
    BY <2>1, <2>2
<1>6. ASSUME NEW f \in FileNames, NEW k \in 1..Len(dk2[f])
      PROVE  \/ k \in 1..Len(dk[f]) /\ dk2[f][k] = dk[f][k]
             \/ f = x /\ k - Len(dk[x]) \in 1..Len(b) /\ dk2[f][k] = b[k - Len(dk[x])]
  <2>1. CASE f = x
    BY <1>4, <2>1
  <2>2. CASE f # x
    BY <1>2, <2>2
  <2> QED
    BY <2>1, <2>2
<1> QED
  BY <1>2, <1>3, <1>4, <1>5, <1>6

-----------------------------------------------------------------------------
(* A new line in the buffer, a new line in a file, the buffer in a file.   *)

LEMMA PlacedInBuffer ==
  ASSUME NEW dk \in Disks, NEW b \in Seq(Nat), NEW W, NEW n \in Nat, n \notin W,
         Placed(dk, b, W)
  PROVE  Placed(dk, Append(b, n), W \cup {n})
<1> DEFINE c == Append(b, n)
<1>1. \A k \in 1..Len(c) : \/ k \in 1..Len(b) /\ c[k] = b[k]
                           \/ k = Len(b) + 1 /\ c[k] = n
  BY Appended
<1>2. /\ \A f \in FileNames : \A k \in 1..Len(dk[f]) : dk[f][k] \in W /\ dk[f][k] # n
      /\ \A k \in 1..Len(b) : b[k] \in W /\ b[k] # n
  BY DEF Placed, Within
<1> HIDE DEF c
<1>3. Within(dk, c, W \cup {n})
  BY <1>1, <1>2 DEF Within
<1>4. OnceInBuffer(c)
  <2> SUFFICES ASSUME NEW j \in 1..Len(c), NEW k \in 1..Len(c), c[j] = c[k] PROVE j = k
    BY DEF OnceInBuffer
  <2>1. CASE j \in 1..Len(b) /\ c[j] = b[j] /\ k \in 1..Len(b) /\ c[k] = b[k]
    BY <2>1 DEF Placed, OnceInBuffer
  <2>2. CASE ~(j \in 1..Len(b) /\ c[j] = b[j]) \/ ~(k \in 1..Len(b) /\ c[k] = b[k])
    BY <1>1, <1>2, <2>2
  <2> QED
    BY <2>1, <2>2
<1>5. Apart(dk, c)
  <2> SUFFICES ASSUME NEW f \in FileNames, NEW j \in 1..Len(dk[f]), NEW k \in 1..Len(c)
               PROVE  dk[f][j] # c[k]
    BY DEF Apart
  <2>1. CASE k \in 1..Len(b) /\ c[k] = b[k]
    BY <2>1 DEF Placed, Apart
  <2>2. CASE c[k] = n
    BY <1>2, <2>2
  <2> QED
    BY <1>1, <2>1, <2>2
<1>6. OnceOnDisk(dk)
  BY DEF Placed
<1> QED
  BY <1>3, <1>4, <1>5, <1>6 DEF Placed, c

LEMMA PlacedInFile ==
  ASSUME NEW dk \in Disks, NEW b \in Seq(Nat), NEW W, NEW n \in Nat, n \notin W,
         Placed(dk, b, W), NEW x \in FileNames, NEW dk2, dk2 = WithLine(dk, x, n)
  PROVE  Placed(dk2, b, W \cup {n})
<1>1. \A f \in FileNames : \A k \in 1..Len(dk2[f]) :
        \/ k \in 1..Len(dk[f]) /\ dk2[f][k] = dk[f][k]
        \/ f = x /\ k = Len(dk[x]) + 1 /\ dk2[f][k] = n
  BY DiskAppended
<1>2. /\ \A f \in FileNames : \A k \in 1..Len(dk[f]) : dk[f][k] \in W /\ dk[f][k] # n
      /\ \A k \in 1..Len(b) : b[k] \in W /\ b[k] # n
  BY DEF Placed, Within
<1>3. Within(dk2, b, W \cup {n})
  BY <1>1, <1>2 DEF Within
<1>4. OnceOnDisk(dk2)
  <2> SUFFICES ASSUME NEW f \in FileNames, NEW g \in FileNames,
                      NEW j \in 1..Len(dk2[f]), NEW k \in 1..Len(dk2[g]),
                      dk2[f][j] = dk2[g][k]
               PROVE  f = g /\ j = k
    BY DEF OnceOnDisk
  <2>1. CASE /\ j \in 1..Len(dk[f]) /\ dk2[f][j] = dk[f][j]
             /\ k \in 1..Len(dk[g]) /\ dk2[g][k] = dk[g][k]
    <3>1. dk[f][j] = dk[g][k]
      BY <2>1
    <3> QED
      BY <2>1, <3>1 DEF Placed, OnceOnDisk
  <2>2. CASE \/ ~(j \in 1..Len(dk[f]) /\ dk2[f][j] = dk[f][j])
             \/ ~(k \in 1..Len(dk[g]) /\ dk2[g][k] = dk[g][k])
    BY <1>1, <1>2, <2>2
  <2> QED
    BY <2>1, <2>2
<1>5. Apart(dk2, b)
  <2> SUFFICES ASSUME NEW f \in FileNames, NEW j \in 1..Len(dk2[f]), NEW k \in 1..Len(b)
               PROVE  dk2[f][j] # b[k]
    BY DEF Apart
  <2>1. CASE j \in 1..Len(dk[f]) /\ dk2[f][j] = dk[f][j]
    BY <2>1 DEF Placed, Apart
  <2>2. CASE dk2[f][j] = n
    BY <1>2, <2>2
  <2> QED
    BY <1>1, <2>1, <2>2
<1>6. OnceInBuffer(b)
  BY DEF Placed
<1> QED
  BY <1>3, <1>4, <1>5, <1>6 DEF Placed

LEMMA PlacedByFlush ==
  ASSUME NEW dk \in Disks, NEW b \in Seq(Nat), NEW W, Placed(dk, b, W),
         NEW x \in FileNames, NEW dk2, dk2 = WithLines(dk, x, b)
  PROVE  Placed(dk2, <<>>, W)
<1>1. /\ \A f \in FileNames : \A k \in 1..Len(dk2[f]) :
           \/ k \in 1..Len(dk[f]) /\ dk2[f][k] = dk[f][k]
           \/ f = x /\ k - Len(dk[x]) \in 1..Len(b) /\ dk2[f][k] = b[k - Len(dk[x])]
      /\ Len(dk[x]) \in Nat
  BY DiskJoined
<1>2. Within(dk2, <<>>, W)
  <2>1. /\ \A f \in FileNames : \A k \in 1..Len(dk[f]) : dk[f][k] \in W
        /\ \A k \in 1..Len(b) : b[k] \in W
    BY DEF Placed, Within
  <2>2. ASSUME NEW f \in FileNames, NEW k \in 1..Len(dk2[f]) PROVE dk2[f][k] \in W
    BY <1>1, <2>1
  <2> QED
    BY <2>2 DEF Within
<1>3. OnceOnDisk(dk2)
  <2> SUFFICES ASSUME NEW f \in FileNames, NEW g \in FileNames,
                      NEW j \in 1..Len(dk2[f]), NEW k \in 1..Len(dk2[g]),
                      dk2[f][j] = dk2[g][k]
               PROVE  f = g /\ j = k
    BY DEF OnceOnDisk
  <2> DEFINE m == Len(dk[x])
  <2>1. \/ j \in 1..Len(dk[f]) /\ dk2[f][j] = dk[f][j]
        \/ f = x /\ j - m \in 1..Len(b) /\ dk2[f][j] = b[j - m]
    BY <1>1
  <2>2. \/ k \in 1..Len(dk[g]) /\ dk2[g][k] = dk[g][k]
        \/ g = x /\ k - m \in 1..Len(b) /\ dk2[g][k] = b[k - m]
    BY <1>1
  <2>3. m \in Nat /\ Len(dk2[f]) \in Nat /\ Len(dk2[g]) \in Nat
    <3>1. dk2 \in Disks
      BY DiskJoined
    <3> QED
      BY <1>1, <3>1, LenProperties DEF Disks
  <2> HIDE DEF m
  <2>4. CASE /\ j \in 1..Len(dk[f]) /\ dk2[f][j] = dk[f][j]
             /\ k \in 1..Len(dk[g]) /\ dk2[g][k] = dk[g][k]
    <3>1. dk[f][j] = dk[g][k]
      BY <2>4
    <3> QED
      BY <2>4, <3>1 DEF Placed, OnceOnDisk
  <2>5. CASE /\ j \in 1..Len(dk[f]) /\ dk2[f][j] = dk[f][j]
             /\ k - m \in 1..Len(b) /\ dk2[g][k] = b[k - m]
    BY <2>5 DEF Placed, Apart
  <2>6. CASE /\ j - m \in 1..Len(b) /\ dk2[f][j] = b[j - m]
             /\ k \in 1..Len(dk[g]) /\ dk2[g][k] = dk[g][k]
    BY <2>6 DEF Placed, Apart
  <2>7. CASE /\ f = x /\ j - m \in 1..Len(b) /\ dk2[f][j] = b[j - m]
             /\ g = x /\ k - m \in 1..Len(b) /\ dk2[g][k] = b[k - m]
    <3>1. j - m = k - m
      BY <2>7 DEF Placed, OnceInBuffer
    <3> QED
      BY <2>3, <2>7, <3>1
  <2> QED
    BY <2>1, <2>2, <2>4, <2>5, <2>6, <2>7
<1>4. OnceInBuffer(<<>>) /\ Apart(dk2, <<>>)
  BY DEF OnceInBuffer, Apart
<1> QED
  BY <1>2, <1>3, <1>4 DEF Placed

\* Of the buffer only the first lines.
LEMMA PlacedPrefix ==
  ASSUME NEW dk \in Disks, NEW b \in Seq(Nat), NEW W, Placed(dk, b, W), NEW i \in 0..Len(b)
  PROVE  SubSeq(b, 1, i) \in Seq(Nat) /\ Placed(dk, SubSeq(b, 1, i), W)
<1> DEFINE c == SubSeq(b, 1, i)
<1>1. Len(b) \in Nat
  BY LenProperties
<1>2. c \in Seq(Nat) /\ \A k \in 1..Len(c) : k \in 1..Len(b) /\ c[k] = b[k]
  <2>1. c \in Seq(Nat) /\ Len(c) = (IF 1 <= i THEN i - 1 + 1 ELSE 0)
        /\ \A k \in 1..i : c[k] = b[1 + k - 1]
    BY <1>1, SubSeqProperties
  <2>2. \A k \in 1..Len(c) : k \in 1..i /\ k \in 1..Len(b) /\ 1 + k - 1 = k
    BY <1>1, <2>1
  <2> QED
    BY <2>1, <2>2
<1> HIDE DEF c
<1>3. Placed(dk, c, W)
  <2>1. Within(dk, c, W)
    BY <1>2 DEF Placed, Within
  <2>2. OnceOnDisk(dk)
    BY DEF Placed
  <2>3. OnceInBuffer(c)
    BY <1>2 DEF Placed, OnceInBuffer
  <2>4. Apart(dk, c)
    BY <1>2 DEF Placed, Apart
  <2> QED
    BY <2>1, <2>2, <2>3, <2>4 DEF Placed
<1> QED
  BY <1>2, <1>3 DEF c

LEMMA DatedInBuffer ==
  ASSUME NEW dk, NEW b \in Seq(Nat), NEW x, NEW n \in Nat, Dated(dk, b, x), lines[n].day = x.day
  PROVE  Dated(dk, Append(b, n), x)
<1>1. \A k \in 1..Len(Append(b, n)) :
        \/ k \in 1..Len(b) /\ Append(b, n)[k] = b[k]
        \/ k = Len(b) + 1 /\ Append(b, n)[k] = n
  BY Appended
<1> QED
  BY <1>1 DEF Dated

LEMMA DatedInFile ==
  ASSUME NEW dk \in Disks, NEW b, NEW x \in FileNames, NEW n \in Nat, Dated(dk, b, x),
         lines[n].day = x.day, NEW dk2, dk2 = WithLine(dk, x, n)
  PROVE  Dated(dk2, b, x)
<1>1. \A f \in FileNames : \A k \in 1..Len(dk2[f]) :
        \/ k \in 1..Len(dk[f]) /\ dk2[f][k] = dk[f][k]
        \/ f = x /\ dk2[f][k] = n
  BY DiskAppended
<1> QED
  BY <1>1 DEF Dated

LEMMA DatedByFlush ==
  ASSUME NEW dk \in Disks, NEW b \in Seq(Nat), NEW x \in FileNames, Dated(dk, b, x),
         NEW dk2, dk2 = WithLines(dk, x, b), NEW y
  PROVE  Dated(dk2, <<>>, y)
<1>1. \A f \in FileNames : \A k \in 1..Len(dk2[f]) :
        \/ k \in 1..Len(dk[f]) /\ dk2[f][k] = dk[f][k]
        \/ f = x /\ k - Len(dk[x]) \in 1..Len(b) /\ dk2[f][k] = b[k - Len(dk[x])]
  BY DiskJoined
<1>2. ASSUME NEW f \in FileNames, NEW k \in 1..Len(dk2[f]) PROVE lines[dk2[f][k]].day = f.day
  <2>1. CASE k \in 1..Len(dk[f]) /\ dk2[f][k] = dk[f][k]
    BY <2>1 DEF Dated
  <2>2. CASE f = x /\ k - Len(dk[x]) \in 1..Len(b) /\ dk2[f][k] = b[k - Len(dk[x])]
    BY <2>2 DEF Dated
  <2> QED
    BY <1>1, <2>1, <2>2
<1> QED
  BY <1>2 DEF Dated

LEMMA KeptInBuffer ==
  ASSUME NEW dk, NEW b \in Seq(Nat), NEW n \in Nat
  PROVE  \A m : Kept(dk, b, m) \/ m = n => Kept(dk, Append(b, n), m)
<1>1. /\ \A k \in 1..Len(b) : k \in 1..Len(Append(b, n)) /\ Append(b, n)[k] = b[k]
      /\ Len(b) + 1 \in 1..Len(Append(b, n)) /\ Append(b, n)[Len(b) + 1] = n
  BY Appended
<1> QED
  BY <1>1 DEF Kept

LEMMA KeptInFile ==
  ASSUME NEW dk \in Disks, NEW b, NEW x \in FileNames, NEW n \in Nat,
         NEW dk2, dk2 = WithLine(dk, x, n), NEW m, Kept(dk, b, m) \/ m = n
  PROVE  Kept(dk2, b, m)
<1>1. /\ \A f \in FileNames : \A k \in 1..Len(dk[f]) :
           k \in 1..Len(dk2[f]) /\ dk2[f][k] = dk[f][k]
      /\ Len(dk[x]) + 1 \in 1..Len(dk2[x]) /\ dk2[x][Len(dk[x]) + 1] = n
  BY DiskAppended
<1> QED
  BY <1>1 DEF Kept

LEMMA KeptByFlush ==
  ASSUME NEW dk \in Disks, NEW b \in Seq(Nat), NEW x \in FileNames,
         NEW dk2, dk2 = WithLines(dk, x, b)
  PROVE  \A m : Kept(dk, b, m) => Kept(dk2, <<>>, m)
<1>1. /\ \A f \in FileNames : \A k \in 1..Len(dk[f]) :
           k \in 1..Len(dk2[f]) /\ dk2[f][k] = dk[f][k]
      /\ \A k \in 1..Len(b) :
           Len(dk[x]) + k \in 1..Len(dk2[x]) /\ dk2[x][Len(dk[x]) + k] = b[k]
  BY DiskJoined, SMTT(30)
<1> SUFFICES ASSUME NEW m, Kept(dk, b, m)
             PROVE  \E f \in FileNames : \E k \in 1..Len(dk2[f]) : dk2[f][k] = m
  BY DEF Kept
<1>2. CASE \E f \in FileNames : \E k \in 1..Len(dk[f]) : dk[f][k] = m
  BY <1>1, <1>2
<1>3. CASE \E k \in 1..Len(b) : b[k] = m
  BY <1>1, <1>3
<1> QED
  BY <1>2, <1>3 DEF Kept

-----------------------------------------------------------------------------
(* Loggers.                                                                *)

LEMMA LoggerFields ==
  ASSUME NEW l \in Loggers
  PROVE  /\ l.name \in FileNames \cup {NoFile} /\ l.sub \in Nat /\ l.size \in Nat
         /\ l.opened \in BOOLEAN /\ l.writer \in {"nil", "file", "gone"}
         /\ l.buf \in Seq(Nat) /\ \A i \in Nat : l.size + i \in Nat
BY DEF Loggers

\* The logger after a line that went to its buffer, to its file, or after a flush.
LEMMA LoggerGrown ==
  ASSUME NEW l \in Loggers, NEW n \in Nat, lines[n].len \in Nat,
         log' = Grown(l, l.size + lines[n].len, Append(l.buf, n))
  PROVE  /\ log' \in Loggers /\ log'.name = l.name /\ log'.sub = l.sub
         /\ log'.opened = l.opened /\ log'.writer = l.writer
         /\ log'.size = l.size + lines[n].len /\ log'.buf = Append(l.buf, n)
<1> DEFINE i == l.size + lines[n].len  b == Append(l.buf, n)
<1>1. i \in Nat /\ b \in Seq(Nat)
  BY LoggerFields, Appended
<1>2. log' = Grown(l, i, b)
  OBVIOUS
<1> HIDE DEF i, b
<1>3. /\ log' \in Loggers /\ log'.name = l.name /\ log'.sub = l.sub /\ log'.opened = l.opened
      /\ log'.writer = l.writer /\ log'.size = i /\ log'.buf = b
  BY <1>1, <1>2 DEF Loggers, Grown
<1> QED
  BY <1>3 DEF i, b

LEMMA LoggerSized ==
  ASSUME NEW l \in Loggers, NEW n \in Nat, lines[n].len \in Nat,
         log' = Sized(l, l.size + lines[n].len)
  PROVE  /\ log' \in Loggers /\ log'.name = l.name /\ log'.sub = l.sub
         /\ log'.opened = l.opened /\ log'.writer = l.writer
         /\ log'.size = l.size + lines[n].len /\ log'.buf = l.buf
<1> DEFINE i == l.size + lines[n].len
<1>1. i \in Nat
  BY LoggerFields
<1>2. log' = Sized(l, i)
  OBVIOUS
<1> HIDE DEF i
<1>3. /\ log' \in Loggers /\ log'.name = l.name /\ log'.sub = l.sub /\ log'.opened = l.opened
      /\ log'.writer = l.writer /\ log'.size = i /\ log'.buf = l.buf
  BY <1>1, <1>2 DEF Loggers, Sized
<1> QED
  BY <1>3 DEF i

LEMMA LoggerBuffered ==
  ASSUME NEW l \in Loggers, log' = Buffered(l, <<>>)
  PROVE  /\ log' \in Loggers /\ log'.name = l.name /\ log'.sub = l.sub
         /\ log'.opened = l.opened /\ log'.writer = l.writer
         /\ log'.size = l.size /\ log'.buf = <<>>
<1>1. <<>> \in Seq(Nat)
  OBVIOUS
<1> QED
  BY <1>1 DEF Loggers, Buffered

LEMMA SameLogger ==
  ASSUME NEW l \in Loggers, NEW l2 \in Loggers, l2.name = l.name, l2.sub = l.sub,
         l2.size = l.size, l2.opened = l.opened, l2.writer = l.writer, l2.buf = l.buf
  PROVE  l2 = l
BY DEF Loggers

LEMMA GoneLogger ==
  ASSUME NEW l, Shape(l)
  PROVE  /\ Shape(Gone(l)) /\ Gone(l).name = l.name /\ Gone(l).sub = l.sub
         /\ Gone(l).size = l.size /\ Gone(l).opened = l.opened /\ Gone(l).buf = <<>>
<1>1. <<>> \in Seq(Nat) /\ l \in Loggers
  BY DEF Shape
<1>2. /\ Gone(l) \in Loggers /\ Gone(l).name = l.name /\ Gone(l).sub = l.sub
      /\ Gone(l).size = l.size /\ Gone(l).opened = l.opened /\ Gone(l).buf = <<>>
      /\ Gone(l).writer # "file"
  BY <1>1 DEF Loggers, Gone
<1> QED
  BY <1>2 DEF Shape

-----------------------------------------------------------------------------
(* Flushing.                                                               *)

\* Whatever comes of a flush, no line is in two places; one that does not fail
\* keeps them all.
LEMMA FlushedLines ==
  ASSUME NEW l, NEW dk \in Disks, Shape(l), NEW W, Placed(dk, l.buf, W)
  PROVE  /\ \A dk2 \in Flushes(l, dk) : dk2 \in Disks /\ Placed(dk2, <<>>, W)
         /\ \A y : Dated(dk, l.buf, l.name) => Dated(Flushed(l, dk), <<>>, y)
         /\ \A m : Kept(dk, l.buf, m) => Kept(Flushed(l, dk), <<>>, m)
         /\ Flushed(l, dk) \in Flushes(l, dk) /\ Flushed(l, dk) \in Disks
<1>1. l.buf \in Seq(Nat) /\ Flushed(l, dk) \in Flushes(l, dk)
  BY LoggerFields DEF Shape, Flushes
<1>2. CASE l.writer = "file"
  <2>1. l.name \in FileNames /\ Flushed(l, dk) = WithLines(dk, l.name, l.buf)
    BY <1>2 DEF Shape, Flushed, WithLines
  <2>2. Flushed(l, dk) \in Disks /\ Placed(Flushed(l, dk), <<>>, W)
    BY <1>1, <2>1, DiskJoined, PlacedByFlush
  <2>3. ASSUME NEW k \in 0..Len(l.buf)
        PROVE  LET dk2 == [dk EXCEPT ![l.name] = @ \o SubSeq(l.buf, 1, k)]
               IN  dk2 \in Disks /\ Placed(dk2, <<>>, W)
    <3> DEFINE c == SubSeq(l.buf, 1, k)
    <3>1. c \in Seq(Nat) /\ Placed(dk, c, W)
      BY <1>1, PlacedPrefix
    <3> HIDE DEF c
    <3>2. WithLines(dk, l.name, c) \in Disks /\ Placed(WithLines(dk, l.name, c), <<>>, W)
      BY <2>1, <3>1, DiskJoined, PlacedByFlush
    <3> QED
      BY <3>2 DEF WithLines, c
  <2>4. \A dk2 \in Flushes(l, dk) : dk2 \in Disks /\ Placed(dk2, <<>>, W)
    BY <2>2, <2>3, <1>2, Zenon DEF Flushes
  <2>5. \A y : Dated(dk, l.buf, l.name) => Dated(Flushed(l, dk), <<>>, y)
    BY <1>1, <2>1, DatedByFlush
  <2>6. \A m : Kept(dk, l.buf, m) => Kept(Flushed(l, dk), <<>>, m)
    BY <1>1, <2>1, KeptByFlush
  <2> QED
    BY <1>1, <2>2, <2>4, <2>5, <2>6
<1>3. CASE l.writer # "file"
  <2>1. l.buf = <<>> /\ Flushed(l, dk) = dk /\ Flushes(l, dk) = {dk}
    BY <1>3 DEF Shape, Flushed, Flushes
  <2>2. \A y : Dated(dk, <<>>, l.name) => Dated(dk, <<>>, y)
    BY DEF Dated
  <2> QED
    BY <2>1, <2>2, Zenon
<1> QED
  BY <1>2, <1>3

-----------------------------------------------------------------------------
(* Writing one line.                                                       *)

\* Put leaves a line in the buffer or in the open file, or something has failed.
LEMMA PutCases ==
  ASSUME NEW l, NEW dk, NEW n, NEW ok, Put(l, dk, n, ok)
  PROVE  \/ /\ bufio /\ l.writer = "file" /\ disk' = dk /\ Counted(l, n, ok)
            /\ log' = Grown(l, l.size + lines[n].len, Append(l.buf, n))
         \/ /\ ~bufio /\ l.opened /\ log' = Sized(l, l.size + lines[n].len)
            /\ disk' = WithLine(dk, l.name, n) /\ Counted(l, n, ok)
         \/ /\ failed' = TRUE /\ bytes' = bytes
            /\ \/ log' = Gone(l) /\ disk' \in Flushes(l, dk)
               \/ log' = l /\ disk' = dk
               \/ log' = Sized(l, l.size + lines[n].len) /\ disk' = dk
BY Zenon DEF Put, PutFails, WithLine, Sized, Grown

\* What Put leaves of a logger and of the disk.
LEMMA PutShape ==
  ASSUME NEW l, NEW dk \in Disks, NEW n \in Nat, lines[n].len \in Nat, NEW ok \in BOOLEAN,
         Shape(l), Put(l, dk, n, ok), NEW W, Placed(dk, l.buf, W)
  PROVE  /\ Shape(log') /\ disk' \in Disks
         /\ log'.name = l.name /\ log'.sub = l.sub
         /\ ~failed' => log'.opened = l.opened /\ log'.writer = l.writer
<1>1. l \in Loggers /\ l.buf \in Seq(Nat) /\ l.size + lines[n].len \in Nat
  BY LoggerFields DEF Shape
<1>2. Append(l.buf, n) \in Seq(Nat)
  BY <1>1, Appended
<1>3. CASE /\ l.writer = "file" /\ disk' = dk
           /\ log' = Grown(l, l.size + lines[n].len, Append(l.buf, n))
  <2>1. /\ log' \in Loggers /\ log'.name = l.name /\ log'.sub = l.sub
        /\ log'.opened = l.opened /\ log'.writer = l.writer
    BY <1>1, <1>2, <1>3, LoggerGrown, Zenon
  <2> QED
    BY <1>3, <2>1 DEF Shape
<1>4. CASE /\ log' = Sized(l, l.size + lines[n].len)
           /\ disk' = dk \/ (l.opened /\ disk' = WithLine(dk, l.name, n))
  <2>1. /\ log' \in Loggers /\ log'.name = l.name /\ log'.sub = l.sub
        /\ log'.opened = l.opened /\ log'.writer = l.writer /\ log'.buf = l.buf
    BY <1>1, <1>4, LoggerSized, Zenon
  <2>2. disk' \in Disks
    BY <1>4, DiskAppended DEF Shape
  <2> QED
    BY <2>1, <2>2 DEF Shape
<1>5. CASE failed' = TRUE /\ log' = Gone(l) /\ disk' \in Flushes(l, dk)
  BY <1>5, GoneLogger, FlushedLines
<1>6. CASE log' = l /\ disk' = dk
  BY <1>6
<1> QED
  BY <1>3, <1>4, <1>5, <1>6, PutCases, Zenon

\* What has been counted.
LEMMA PutBytes ==
  ASSUME NEW l, NEW dk, NEW n, lines[n].len \in Nat, NEW ok \in BOOLEAN, Shape(l),
         Put(l, dk, n, ok), bytes \in [FileNames -> Nat], failed \in BOOLEAN
  PROVE  bytes' \in [FileNames -> Nat] /\ failed' \in BOOLEAN
<1>1. CASE Counted(l, n, ok) /\ (l.opened \/ l.writer = "file")
  <2>1. bytes' = [bytes EXCEPT ![l.name] = @ + lines[n].len] /\ l.name \in FileNames
    BY <1>1 DEF Counted, Shape
  <2>2. bytes[l.name] + lines[n].len \in Nat
    BY <2>1
  <2>3. failed' \in BOOLEAN
    BY <1>1 DEF Counted
  <2> QED
    BY <2>1, <2>2, <2>3
<1>2. CASE failed' = TRUE /\ bytes' = bytes
  BY <1>2
<1> QED
  BY <1>1, <1>2, PutCases, Zenon

\* Where Put leaves the lines.
LEMMA PutLines ==
  ASSUME NEW l, NEW dk \in Disks, NEW n \in Nat, lines[n].len \in Nat, NEW ok, Shape(l),
         Put(l, dk, n, ok), NEW W, Placed(dk, l.buf, W), n \notin W
  PROVE  /\ Placed(disk', log'.buf, W \cup {n})
         /\ failed' \/ (Dated(dk, l.buf, l.name) /\ lines[n].day = l.name.day
                          => Dated(disk', log'.buf, l.name))
         /\ failed' \/ \A m : Kept(dk, l.buf, m) \/ m = n => Kept(disk', log'.buf, m)
<1>1. l \in Loggers /\ l.buf \in Seq(Nat) /\ l.size + lines[n].len \in Nat
  BY LoggerFields DEF Shape
<1>2. Append(l.buf, n) \in Seq(Nat)
  BY <1>1, Appended
<1>3. CASE /\ l.writer = "file" /\ disk' = dk
           /\ log' = Grown(l, l.size + lines[n].len, Append(l.buf, n))
  <2>1. log'.buf = Append(l.buf, n)
    BY <1>1, <1>2, <1>3, LoggerGrown, Zenon
  <2>2. Placed(dk, Append(l.buf, n), W \cup {n})
    BY <1>1, PlacedInBuffer
  <2>3. Dated(dk, l.buf, l.name) /\ lines[n].day = l.name.day
          => Dated(dk, Append(l.buf, n), l.name)
    BY <1>1, DatedInBuffer
  <2>4. \A m : Kept(dk, l.buf, m) \/ m = n => Kept(dk, Append(l.buf, n), m)
    BY <1>1, KeptInBuffer
  <2> QED
    BY <1>3, <2>1, <2>2, <2>3, <2>4, Zenon
<1>4. CASE /\ l.opened /\ log' = Sized(l, l.size + lines[n].len)
           /\ disk' = WithLine(dk, l.name, n)
  <2>1. log'.buf = l.buf /\ l.name \in FileNames
    BY <1>1, <1>4, LoggerSized, Zenon DEF Shape
  <2>2. Placed(disk', l.buf, W \cup {n})
    BY <1>1, <1>4, <2>1, PlacedInFile
  <2>3. Dated(dk, l.buf, l.name) /\ lines[n].day = l.name.day => Dated(disk', l.buf, l.name)
    BY <1>4, <2>1, DatedInFile
  <2>4. \A m : Kept(dk, l.buf, m) \/ m = n => Kept(disk', l.buf, m)
    BY <1>4, <2>1, KeptInFile
  <2> QED
    BY <2>1, <2>2, <2>3, <2>4, Zenon
<1>5. CASE /\ failed' = TRUE
           /\ \/ log' = Gone(l) /\ disk' \in Flushes(l, dk)
              \/ log' = l /\ disk' = dk
              \/ log' = Sized(l, l.size + lines[n].len) /\ disk' = dk
  <2>1. ASSUME log' = Gone(l), disk' \in Flushes(l, dk) PROVE Placed(disk', log'.buf, W)
    <3>1. log'.buf = <<>> /\ Placed(disk', <<>>, W)
      BY <2>1, GoneLogger, FlushedLines
    <3> QED
      BY <3>1
  <2>2. ASSUME disk' = dk, log' = l \/ log' = Sized(l, l.size + lines[n].len)
        PROVE  Placed(disk', log'.buf, W)
    <3>1. CASE log' = l
      BY <2>2, <3>1
    <3>2. CASE log' = Sized(l, l.size + lines[n].len)
      <4>1. log'.buf = l.buf
        BY <1>1, <3>2, LoggerSized, Zenon
      <4> QED
        BY <2>2, <4>1
    <3> QED
      BY <2>2, <3>1, <3>2
  <2>3. Placed(disk', log'.buf, W)
    BY <1>5, <2>1, <2>2
  <2>4. Placed(disk', log'.buf, W \cup {n})
    BY <2>3 DEF Placed, Within
  <2> QED
    BY <1>5, <2>4
<1> QED
  BY <1>3, <1>4, <1>5, PutCases, Zenon

-----------------------------------------------------------------------------
(* Rotating.                                                               *)

LEMMA Rotated ==
  ASSUME Shape(log), NEW f \in FileNames
  PROVE  /\ Shape(Opened(f)) /\ Opened(f).buf = <<>> /\ Opened(f).name = f
         /\ Opened(f).sub = f.sub /\ Opened(f).size = 0 /\ (Ready(log) => Usable(Opened(f)))
         /\ Shape(NotOpened(f)) /\ NotOpened(f).buf = <<>> /\ NotOpened(f).sub = f.sub
<1>1. f.sub \in Nat /\ log \in Loggers
  BY DEF FileNames, Shape
<1>2. log.writer \in {"nil", "file", "gone"} /\ log.size \in Nat
  BY <1>1, LoggerFields
<1>3. Opened(f) \in Loggers
  <2>1. <<>> \in Seq(Nat)
    OBVIOUS
  <2> QED
    BY <1>1, <1>2, <2>1 DEF Opened, Loggers
<1>4. /\ Opened(f).buf = <<>> /\ Opened(f).name = f /\ Opened(f).sub = f.sub /\ Opened(f).size = 0
      /\ Opened(f).opened /\ Opened(f).writer = IF bufio THEN "file" ELSE log.writer
  BY DEF Opened
<1>5. Shape(Opened(f))
  BY <1>3, <1>4 DEF Shape
<1>6. Ready(log) => Usable(Opened(f))
  BY <1>4 DEF Ready, Usable, Fresh
<1>7. Shape(NotOpened(f)) /\ NotOpened(f).buf = <<>> /\ NotOpened(f).sub = f.sub
  <2>1. Gone(log) \in Loggers /\ Gone(log).buf = <<>>
    BY GoneLogger DEF Shape
  <2>2. /\ NotOpened(f) \in Loggers /\ NotOpened(f).name = f /\ NotOpened(f).sub = f.sub
        /\ NotOpened(f).buf = <<>>
    BY <1>1, <2>1 DEF Loggers, NotOpened
  <2> QED
    BY <2>2 DEF Shape
<1> QED
  BY <1>4, <1>5, <1>6, <1>7

-----------------------------------------------------------------------------
(* The invariant.                                                          *)

\* The hands hold different lines, none of them written yet.
LinesInv ==
  /\ Len(lines) <= MaxLines
  /\ written \subseteq 1..Len(lines)
  /\ \A g \in Goroutines : hand[g] # 0 => hand[g] \in 1..Len(lines) /\ hand[g] \notin written
  /\ \A g, h \in Goroutines : hand[g] # 0 /\ hand[g] = hand[h] => g = h

\* Each number costs at least one line, so that the numbers have a bound.
SubInv == log.sub <= Cardinality(written)

PlaceInv == Shape(log) /\ Placed(disk, log.buf, written)

\* Until something fails.
DayInv == ~failed => Ready(log) /\ Dated(disk, log.buf, log.name)
KeptInv == ~failed => \A n \in written : Kept(disk, log.buf, n) \/ n \in lost

IInv == TypeOK /\ LinesInv /\ SubInv /\ PlaceInv /\ DayInv /\ KeptInv

LEMMA CountInRange ==
  ASSUME NEW n \in Nat, NEW W \in SUBSET (1..n)
  PROVE  /\ IsFiniteSet(W) /\ Cardinality(W) \in Nat
         /\ \A x \in 1..n : x \notin W =>
              Cardinality(W) + 1 <= n /\ Cardinality(W \cup {x}) = Cardinality(W) + 1
<1>1. IsFiniteSet(1..n) /\ Cardinality(1..n) = n
  BY FS_Interval
<1>2. IsFiniteSet(W)
  BY <1>1, FS_Subset
<1>3. Cardinality(W) \in Nat
  BY <1>2, FS_CardinalityType
<1>4. ASSUME NEW x \in 1..n, x \notin W
      PROVE  Cardinality(W) + 1 <= n /\ Cardinality(W \cup {x}) = Cardinality(W) + 1
  <2>1. Cardinality(W \cup {x}) = Cardinality(W) + 1
    BY <1>2, <1>4, FS_AddElement
  <2>2. W \cup {x} \subseteq 1..n
    OBVIOUS
  <2>3. Cardinality(W \cup {x}) <= Cardinality(1..n)
    BY <1>1, <2>2, FS_Subset
  <2> QED
    BY <1>1, <2>1, <2>3
<1> QED
  BY <1>2, <1>3, <1>4

\* The line in a hand, and the file that it goes to.
LEMMA Wants ==
  ASSUME TypeOK, LinesInv, SubInv, NEW g \in Goroutines, hand[g] # 0
  PROVE  /\ hand[g] \in Nat /\ hand[g] \notin written /\ hand[g] \in 1..Len(lines)
         /\ lines[hand[g]].day \in Days /\ lines[hand[g]].len \in Nat
         /\ Wanted(hand[g]) \in FileNames
         /\ Wanted(hand[g]).day = lines[hand[g]].day
         /\ Wanted(hand[g]).dir = (IF newdir THEN start ELSE 0)
         /\ log.sub \in Nat /\ Cardinality(written) \in Nat
         /\ Wanted(hand[g]).sub <= Cardinality(written) + 1
         /\ Cardinality(written \cup {hand[g]}) = Cardinality(written) + 1
<1> DEFINE n == hand[g]  d == lines[n].day
<1>1. hand[g] \in Nat /\ hand[g] \notin written /\ hand[g] \in 1..Len(lines)
  BY DEF TypeOK, LinesInv
<1>2. d \in Days /\ lines[n].len \in Nat
  <2>1. lines[n] \in [day : Days, len : Lengths]
    BY <1>1, ElementOfSeq DEF TypeOK
  <2> QED
    BY <2>1, BoundsAssumption
<1>3. Len(lines) \in Nat /\ Len(lines) <= MaxLines /\ written \in SUBSET (1..Len(lines))
  BY LenProperties DEF TypeOK, LinesInv
<1>4. /\ Cardinality(written) \in Nat /\ Cardinality(written) + 1 <= Len(lines)
      /\ Cardinality(written \cup {hand[g]}) = Cardinality(written) + 1
  BY <1>1, <1>3, CountInRange
<1>5. log.sub \in Nat /\ log.sub <= Cardinality(written) /\ start \in 1..MaxStarts
  BY DEF TypeOK, SubInv
<1> HIDE DEF n
<1>6. /\ CurrName(n) \in FileNames /\ CurrName(n).day = d /\ CurrName(n).sub = log.sub
      /\ CurrName(n).dir = (IF newdir THEN start ELSE 0)
  BY <1>2, <1>3, <1>4, <1>5, BoundsAssumption DEF CurrName, FileNames
<1>7. \A i \in 0..MaxLines :
        LET f == [CurrName(n) EXCEPT !.sub = i]
        IN  f \in FileNames /\ f.day = d /\ f.sub = i /\ f.dir = (IF newdir THEN start ELSE 0)
  BY <1>6 DEF FileNames
<1>8. /\ 0 \in 0..MaxLines /\ log.sub + 1 \in 0..MaxLines /\ 0 <= Cardinality(written) + 1
      /\ log.sub + 1 <= Cardinality(written) + 1 /\ log.sub <= Cardinality(written) + 1
  BY <1>3, <1>4, <1>5, BoundsAssumption
<1>9. \/ Wanted(n) = [CurrName(n) EXCEPT !.sub = 0]
      \/ Wanted(n) = [CurrName(n) EXCEPT !.sub = log.sub + 1]
      \/ Wanted(n) = CurrName(n)
  BY <1>6 DEF Wanted
<1>10. /\ Wanted(n) \in FileNames /\ Wanted(n).day = d /\ Wanted(n).sub <= Cardinality(written) + 1
       /\ Wanted(n).dir = (IF newdir THEN start ELSE 0)
  BY <1>6, <1>7, <1>8, <1>9
<1> QED
  BY <1>1, <1>2, <1>4, <1>5, <1>10 DEF n

\* A write to the logger l and the disk dk that the rotation has left.
LEMMA OneWrite ==
  ASSUME IInv, NEW g \in Goroutines, Writes(g), NEW l, NEW dk \in Disks, Shape(l),
         NEW ok \in BOOLEAN, Put(l, dk, hand[g], ok), Placed(dk, l.buf, written), l.sub <= Cardinality(written) + 1,
         late' \in BOOLEAN
  PROVE  /\ TypeOK' /\ LinesInv' /\ SubInv' /\ PlaceInv'
         /\ Usable(l) /\ Dated(dk, l.buf, l.name) /\ lines[hand[g]].day = l.name.day => DayInv'
         /\ (\A n \in written : Kept(dk, l.buf, n) \/ n \in lost) => KeptInv'
<1> DEFINE n == hand[g]
<1>1. /\ n \in Nat /\ n \notin written /\ n \in 1..Len(lines) /\ lines[n].len \in Nat
      /\ Cardinality(written) \in Nat /\ Cardinality(written \cup {n}) = Cardinality(written) + 1
  BY Wants DEF IInv, Writes
<1>2. /\ written' = written \cup {n} /\ hand' = [hand EXCEPT ![g] = 0]
      /\ today' = today /\ start' = start /\ lines' = lines /\ lost' = lost
      /\ newdir' = newdir /\ bufio' = bufio
  BY DEF Writes, confVars
<1>3. Put(l, dk, n, ok)
  OBVIOUS
<1> HIDE DEF n
<1>4. /\ Shape(log') /\ disk' \in Disks
      /\ log'.name = l.name /\ log'.sub = l.sub
      /\ ~failed' => log'.opened = l.opened /\ log'.writer = l.writer
  BY <1>1, <1>3, PutShape
<1>5. /\ Placed(disk', log'.buf, written \cup {n})
      /\ failed' \/ (Dated(dk, l.buf, l.name) /\ lines[n].day = l.name.day
                       => Dated(disk', log'.buf, l.name))
      /\ failed' \/ \A m : Kept(dk, l.buf, m) \/ m = n => Kept(disk', log'.buf, m)
  BY <1>1, <1>3, PutLines
<1>6. TypeOK'
  <2>1. log' \in Loggers /\ disk' \in Disks
    BY <1>4 DEF Shape
  <2>2. hand' \in [Goroutines -> Nat] /\ written' \in SUBSET Nat
    BY <1>1, <1>2 DEF IInv, TypeOK
  <2>3. /\ today' \in Days /\ start' \in 1..MaxStarts /\ newdir' \in BOOLEAN /\ bufio' \in BOOLEAN
        /\ lines' \in Seq([day : Days, len : Lengths]) /\ lost' \in SUBSET Nat
    BY <1>2 DEF IInv, TypeOK
  <2>4. bytes' \in [FileNames -> Nat] /\ failed' \in BOOLEAN
    BY <1>1, <1>3, PutBytes DEF IInv, TypeOK
  <2> QED
    BY <2>1, <2>2, <2>3, <2>4 DEF TypeOK, Loggers, Disks
<1>7. LinesInv'
  <2>1. LinesInv /\ hand \in [Goroutines -> Nat]
    BY DEF IInv, TypeOK
  <2>2. \A h \in Goroutines : h # g => hand'[h] = hand[h] /\ (hand[h] # 0 => hand[h] # n)
    BY <1>2, <2>1, <1>1 DEF LinesInv, n
  <2>3. hand'[g] = 0
    BY <1>2, <2>1
  <2> QED
    BY <1>1, <1>2, <2>1, <2>2, <2>3 DEF LinesInv
<1>8. SubInv'
  BY <1>1, <1>2, <1>4 DEF SubInv
<1>9. PlaceInv'
  <2>1. Shape(log)'
    BY <1>4 DEF Shape
  <2>2. Placed(disk, log.buf, written)'
    BY <1>2, <1>5 DEF Placed, Within, OnceOnDisk, OnceInBuffer, Apart
  <2> QED
    BY <2>1, <2>2 DEF PlaceInv
<1>10. ASSUME Usable(l), Dated(dk, l.buf, l.name), lines[n].day = l.name.day, ~failed'
       PROVE  DayInv'
  <2>1. Usable(log)'
    BY <1>2, <1>4, <1>10 DEF Usable
  <2>2. Dated(disk', log'.buf, log'.name)
    BY <1>4, <1>5, <1>10
  <2>3. Dated(disk, log.buf, log.name)'
    BY <1>2, <2>2 DEF Dated
  <2> QED
    BY <2>1, <2>3 DEF DayInv, Ready
<1>11. ASSUME \A m \in written : Kept(dk, l.buf, m) \/ m \in lost, ~failed' PROVE KeptInv'
  <2>1. \A m \in written \cup {n} : Kept(disk', log'.buf, m) \/ m \in lost
    BY <1>5, <1>11
  <2>2. \A m \in written' : Kept(disk, log.buf, m)' \/ m \in lost'
    BY <1>2, <2>1 DEF Kept
  <2> QED
    BY <2>2 DEF KeptInv
<1>12. failed' => DayInv' /\ KeptInv'
  BY DEF DayInv, KeptInv
<1> QED
  BY <1>6, <1>7, <1>8, <1>9, <1>10, <1>11, <1>12 DEF n

-----------------------------------------------------------------------------
(* The invariant holds initially and in every step.                        *)

LEMMA InitInv == Init => IInv
<1> SUFFICES ASSUME Init PROVE IInv
  OBVIOUS
<1>1. /\ NoFile \notin FileNames
      /\ Fresh \in Loggers /\ Fresh.buf = <<>> /\ Fresh.sub = 0 /\ ~Fresh.opened
      /\ Fresh.writer = "nil"
  <2>1. <<>> \in Seq(Nat)
    OBVIOUS
  <2> QED
    BY <2>1 DEF Fresh, Loggers, NoFile, FileNames, Days
<1>2. lines \in Seq([day : Days, len : Lengths]) /\ Len(lines) = 0 /\ disk \in Disks /\ hand \in [Goroutines -> Nat]
      /\ bytes \in [FileNames -> Nat]
  <2>1. /\ <<>> \in Seq([day : Days, len : Lengths]) /\ Len(<<>>) = 0 /\ <<>> \in Seq(Nat)
        /\ lines = <<>> /\ disk = [f \in FileNames |-> <<>>]
    BY DEF Init
  <2>2. hand \in [Goroutines -> Nat] /\ bytes \in [FileNames -> Nat]
    BY DEF Init
  <2> QED
    BY <2>1, <2>2 DEF Disks
<1>3. TypeOK
  <2>1. /\ today \in Days /\ start \in 1..MaxStarts /\ newdir \in BOOLEAN /\ bufio \in BOOLEAN
        /\ written \in SUBSET Nat /\ lost \in SUBSET Nat /\ failed \in BOOLEAN /\ late \in BOOLEAN
    <3>1. today \in Days /\ start \in 1..MaxStarts
      BY BoundsAssumption DEF Init, Days
    <3>2. /\ newdir \in BOOLEAN /\ bufio \in BOOLEAN /\ failed \in BOOLEAN /\ late \in BOOLEAN
          /\ written \in SUBSET Nat /\ lost \in SUBSET Nat
      BY Zenon DEF Init
    <3> QED
      BY <3>1, <3>2
  <2>2. log \in Loggers
    BY <1>1 DEF Init
  <2> QED
    BY <1>2, <2>1, <2>2 DEF TypeOK, Loggers, Disks
<1>4. LinesInv
  BY <1>2, BoundsAssumption DEF Init, LinesInv
<1>5. SubInv
  BY <1>1, FS_EmptySet DEF Init, SubInv
<1>6. \A f \in FileNames : 1..Len(disk[f]) = {} /\ 1..Len(log.buf) = {}
  BY <1>1 DEF Init
<1>7. PlaceInv
  <2>1. Shape(log)
    BY <1>1 DEF Init, Shape
  <2>2. Placed(disk, log.buf, written)
    <3>1. 1..Len(log.buf) = {}
      BY <1>1 DEF Init
    <3> QED
      BY <1>6, <3>1 DEF Placed, Within, OnceOnDisk, OnceInBuffer, Apart
  <2> QED
    BY <2>1, <2>2 DEF PlaceInv
<1>8. DayInv /\ KeptInv
  <2>1. 1..Len(log.buf) = {}
    BY <1>1 DEF Init
  <2> QED
    BY <1>6, <2>1 DEF DayInv, KeptInv, Init, Ready, Dated
<1> QED
  BY <1>3, <1>4, <1>5, <1>7, <1>8 DEF IInv

LEMMA ReadyNamed ==
  ASSUME Ready(log), log.name \in FileNames
  PROVE  Usable(log)
<1>1. NoFile \notin FileNames
  BY DEF NoFile, FileNames, Days
<1> QED
  BY <1>1 DEF Ready, Fresh

LEMMA WriteToOpenInv ==
  ASSUME IInv, NEW g \in Goroutines, WriteToOpen(g)
  PROVE  IInv'
<1>1. /\ Writes(g) /\ Put(log, disk, hand[g], TRUE) /\ late' = late
      /\ Wanted(hand[g]) = log.name
  BY DEF WriteToOpen, Rotates
<1>2. /\ log.name \in FileNames /\ log.name.day = lines[hand[g]].day
      /\ hand[g] \in Nat /\ lines[hand[g]].len \in Nat
      /\ log.sub <= Cardinality(written) + 1
  <2>1. /\ Wanted(hand[g]) \in FileNames
        /\ Wanted(hand[g]).day = lines[hand[g]].day
        /\ hand[g] \in Nat /\ lines[hand[g]].len \in Nat
        /\ log.sub \in Nat /\ Cardinality(written) \in Nat
    BY <1>1, Wants DEF IInv, Writes
  <2> QED
    BY <1>1, <2>1 DEF IInv, SubInv
<1>3. /\ disk \in Disks /\ Shape(log) /\ Placed(disk, log.buf, written)
      /\ late' \in BOOLEAN /\ TRUE \in BOOLEAN
  BY <1>1 DEF IInv, TypeOK, PlaceInv, Disks
<1>4. /\ TypeOK' /\ LinesInv' /\ SubInv' /\ PlaceInv'
      /\ Usable(log) /\ Dated(disk, log.buf, log.name) /\ lines[hand[g]].day = log.name.day
           => DayInv'
      /\ (\A n \in written : Kept(disk, log.buf, n) \/ n \in lost) => KeptInv'
  BY <1>1, <1>2, <1>3, OneWrite
<1>5. CASE ~failed
  <2>1. /\ Usable(log) /\ Dated(disk, log.buf, log.name)
        /\ \A n \in written : Kept(disk, log.buf, n) \/ n \in lost
    BY <1>2, <1>5, ReadyNamed DEF IInv, DayInv, KeptInv
  <2> QED
    BY <1>2, <1>4, <2>1 DEF IInv
<1>6. CASE failed
  <2>1. failed'
    BY <1>1, <1>6, PutCases DEF Counted
  <2>2. DayInv' /\ KeptInv'
    BY <2>1 DEF DayInv, KeptInv
  <2> QED
    BY <1>4, <2>2 DEF IInv
<1> QED
  BY <1>5, <1>6

\* Flushed, or not all of it, for the next file.
LEMMA BeforeNext ==
  ASSUME IInv, NEW g \in Goroutines, hand[g] # 0
  PROVE  LET f == Wanted(hand[g])
         IN  /\ f \in FileNames /\ f.day = lines[hand[g]].day
             /\ \A dk \in Flushes(log, disk) : dk \in Disks /\ Placed(dk, <<>>, written)
             /\ Dated(disk, log.buf, log.name) => Dated(Flushed(log, disk), <<>>, f)
             /\ \A m : Kept(disk, log.buf, m) => Kept(Flushed(log, disk), <<>>, m)
             /\ Shape(Opened(f)) /\ Opened(f).buf = <<>> /\ Opened(f).name = f
             /\ Opened(f).sub <= Cardinality(written) + 1
             /\ Ready(log) => Usable(Opened(f))
             /\ Shape(NotOpened(f)) /\ NotOpened(f).buf = <<>>
             /\ NotOpened(f).sub <= Cardinality(written) + 1
<1> DEFINE f == Wanted(hand[g])
<1>1. f \in FileNames /\ f.day = lines[hand[g]].day /\ f.sub <= Cardinality(written) + 1
  BY Wants DEF IInv
<1> HIDE DEF f
<1>2. Shape(log) /\ disk \in Disks /\ Placed(disk, log.buf, written)
  BY DEF IInv, TypeOK, PlaceInv, Disks
<1>3. /\ \A dk \in Flushes(log, disk) : dk \in Disks /\ Placed(dk, <<>>, written)
      /\ Dated(disk, log.buf, log.name) => Dated(Flushed(log, disk), <<>>, f)
      /\ \A m : Kept(disk, log.buf, m) => Kept(Flushed(log, disk), <<>>, m)
  BY <1>2, FlushedLines
<1>4. /\ Shape(Opened(f)) /\ Opened(f).buf = <<>> /\ Opened(f).name = f
      /\ Opened(f).sub = f.sub /\ (Ready(log) => Usable(Opened(f)))
      /\ Shape(NotOpened(f)) /\ NotOpened(f).buf = <<>> /\ NotOpened(f).sub = f.sub
  BY <1>1, <1>2, Rotated
<1> QED
  BY <1>1, <1>3, <1>4 DEF f

LEMMA WriteToNextInv ==
  ASSUME IInv, NEW g \in Goroutines, WriteToNext(g)
  PROVE  IInv'
<1> DEFINE f == Wanted(hand[g])
<1> PICK dk \in Flushes(log, disk) : Put(Opened(f), dk, hand[g], dk = Flushed(log, disk))
  BY DEF WriteToNext
<1> DEFINE ok == dk = Flushed(log, disk)
<1>1. /\ Writes(g) /\ hand[g] # 0 /\ Put(Opened(f), dk, hand[g], ok)
      /\ late' = (late \/ lines[hand[g]].day < log.name.day)
  BY DEF WriteToNext, Writes
<1>2. late' \in BOOLEAN /\ ok \in BOOLEAN
  BY <1>1 DEF IInv, TypeOK
<1>3. /\ f.day = lines[hand[g]].day
      /\ dk \in Disks /\ Placed(dk, <<>>, written)
      /\ ok /\ Dated(disk, log.buf, log.name) => Dated(dk, <<>>, f)
      /\ ok => \A m : Kept(disk, log.buf, m) => Kept(dk, <<>>, m)
      /\ Shape(Opened(f)) /\ Opened(f).buf = <<>> /\ Opened(f).name = f
      /\ Opened(f).sub <= Cardinality(written) + 1
      /\ Ready(log) => Usable(Opened(f))
  BY <1>1, BeforeNext
<1>4. failed \/ ~ok => failed'
  BY <1>1, PutCases DEF Counted
<1> HIDE DEF f, ok
<1> DEFINE l == Opened(f)
<1>5. /\ Put(l, dk, hand[g], ok) /\ Shape(l) /\ dk \in Disks /\ Placed(dk, l.buf, written)
      /\ l.sub <= Cardinality(written) + 1
  BY <1>1, <1>3
<1>6. /\ l.name = f /\ (Ready(log) => Usable(l))
      /\ ok /\ Dated(disk, log.buf, log.name) => Dated(dk, l.buf, l.name)
      /\ ok => \A m : Kept(disk, log.buf, m) => Kept(dk, l.buf, m)
  BY <1>3
<1> HIDE DEF l
<1>7. /\ TypeOK' /\ LinesInv' /\ SubInv' /\ PlaceInv'
      /\ Usable(l) /\ Dated(dk, l.buf, l.name) /\ lines[hand[g]].day = l.name.day => DayInv'
      /\ (\A n \in written : Kept(dk, l.buf, n) \/ n \in lost) => KeptInv'
  BY <1>1, <1>2, <1>5, OneWrite
<1>8. CASE ~failed /\ ok
  <2>1. /\ Ready(log) /\ Dated(disk, log.buf, log.name)
        /\ \A n \in written : Kept(disk, log.buf, n) \/ n \in lost
    BY <1>8 DEF IInv, DayInv, KeptInv
  <2>2. /\ Usable(l) /\ Dated(dk, l.buf, l.name) /\ lines[hand[g]].day = l.name.day
        /\ \A n \in written : Kept(dk, l.buf, n) \/ n \in lost
    BY <1>3, <1>6, <1>8, <2>1
  <2> QED
    BY <1>7, <2>2 DEF IInv
<1>9. CASE failed \/ ~ok
  <2>1. DayInv' /\ KeptInv'
    BY <1>4, <1>9 DEF DayInv, KeptInv
  <2> QED
    BY <1>7, <2>1 DEF IInv
<1> QED
  BY <1>8, <1>9

LEMMA OpenFailsInv ==
  ASSUME IInv, NEW g \in Goroutines, OpenFails(g)
  PROVE  IInv'
<1> DEFINE f == Wanted(hand[g])
<1> PICK dk \in Flushes(log, disk) : Put(NotOpened(f), dk, hand[g], FALSE)
  BY DEF OpenFails
<1>1. /\ Writes(g) /\ hand[g] # 0 /\ Put(NotOpened(f), dk, hand[g], FALSE)
      /\ late' = (late \/ lines[hand[g]].day < log.name.day)
  BY DEF OpenFails, Writes
<1>2. failed' = TRUE \/ failed' = (failed \/ ~FALSE)
  BY <1>1, PutCases DEF Counted
<1>3. late' \in BOOLEAN /\ FALSE \in BOOLEAN
  BY <1>1 DEF IInv, TypeOK
<1>4. /\ dk \in Disks /\ Placed(dk, <<>>, written)
      /\ Shape(NotOpened(f)) /\ NotOpened(f).buf = <<>>
      /\ NotOpened(f).sub <= Cardinality(written) + 1
  BY <1>1, BeforeNext
<1> HIDE DEF f
<1> DEFINE l == NotOpened(f)
<1>5. /\ Put(l, dk, hand[g], FALSE) /\ Shape(l) /\ dk \in Disks /\ Placed(dk, l.buf, written)
      /\ l.sub <= Cardinality(written) + 1
  BY <1>1, <1>4
<1> HIDE DEF l
<1>6. TypeOK' /\ LinesInv' /\ SubInv' /\ PlaceInv'
  BY <1>1, <1>3, <1>5, OneWrite
<1>7. DayInv' /\ KeptInv'
  BY <1>2 DEF DayInv, KeptInv
<1> QED
  BY <1>6, <1>7 DEF IInv

LEMMA MakeDirFailsInv ==
  ASSUME IInv, NEW g \in Goroutines, MakeDirFails(g)
  PROVE  IInv'
<1>1. Writes(g) /\ Put(log, disk, hand[g], FALSE) /\ late' = late
  BY DEF MakeDirFails
<1>2. /\ disk \in Disks /\ Shape(log) /\ Placed(disk, log.buf, written)
      /\ late' \in BOOLEAN /\ FALSE \in BOOLEAN
  BY <1>1 DEF IInv, TypeOK, PlaceInv, Disks
<1>3. log.sub <= Cardinality(written) + 1
  <2>1. log.sub \in Nat /\ Cardinality(written) \in Nat
    BY <1>1, Wants DEF IInv, Writes
  <2> QED
    BY <2>1 DEF IInv, SubInv
<1>4. TypeOK' /\ LinesInv' /\ SubInv' /\ PlaceInv'
  BY <1>1, <1>2, <1>3, OneWrite
<1>5. failed'
  BY <1>1, PutCases DEF Counted
<1>6. DayInv' /\ KeptInv'
  BY <1>5 DEF DayInv, KeptInv
<1> QED
  BY <1>4, <1>6 DEF IInv

LEMMA SyncInv ==
  ASSUME IInv, syncLogFile
  PROVE  IInv'
<1>1. /\ bufio /\ disk' = Flushed(log, disk) /\ log' = Buffered(log, <<>>)
      /\ today' = today /\ start' = start /\ lines' = lines /\ hand' = hand
      /\ written' = written /\ lost' = lost /\ bytes' = bytes
      /\ failed' = failed /\ late' = late /\ newdir' = newdir /\ bufio' = bufio
  BY DEF syncLogFile, confVars, Buffered
<1>2. Shape(log) /\ disk \in Disks /\ Placed(disk, log.buf, written)
  BY DEF IInv, TypeOK, PlaceInv, Disks
<1>3. /\ Flushed(log, disk) \in Disks /\ Placed(Flushed(log, disk), <<>>, written)
      /\ Dated(disk, log.buf, log.name) => Dated(Flushed(log, disk), <<>>, log.name)
      /\ \A m : Kept(disk, log.buf, m) => Kept(Flushed(log, disk), <<>>, m)
  BY <1>2, FlushedLines
<1>4. /\ log' \in Loggers /\ log'.name = log.name /\ log'.sub = log.sub /\ log'.buf = <<>>
      /\ log'.opened = log.opened /\ log'.writer = log.writer /\ log'.size = log.size
  <2>1. log \in Loggers /\ <<>> \in Seq(Nat) /\ log' = Buffered(log, <<>>)
    BY <1>1, <1>2 DEF Shape
  <2> QED
    BY <2>1, LoggerBuffered, Zenon
<1>5. TypeOK'
  <2>1. log' \in Loggers /\ disk' \in Disks
    BY <1>1, <1>3, <1>4
  <2> QED
    BY <1>1, <2>1 DEF IInv, TypeOK, Loggers, Disks
<1>6. LinesInv' /\ SubInv'
  BY <1>1, <1>4 DEF IInv, LinesInv, SubInv
<1>7. PlaceInv'
  <2>1. Shape(log)'
    BY <1>2, <1>4 DEF Shape
  <2>2. Placed(disk', log'.buf, written)
    BY <1>1, <1>3, <1>4
  <2>3. Placed(disk, log.buf, written)'
    BY <1>1, <2>2 DEF Placed, Within, OnceOnDisk, OnceInBuffer, Apart
  <2> QED
    BY <2>1, <2>3 DEF PlaceInv
<1>8. DayInv'
  <2> SUFFICES ASSUME ~failed' PROVE Ready(log)' /\ Dated(disk, log.buf, log.name)'
    BY DEF DayInv
  <2>1. Ready(log) /\ Dated(disk, log.buf, log.name)
    BY <1>1 DEF IInv, DayInv
  <2>2. Dated(disk', log'.buf, log'.name)
    BY <1>1, <1>3, <1>4, <2>1
  <2>3. Dated(disk, log.buf, log.name)'
    BY <1>1, <2>2 DEF Dated
  <2>4. CASE Usable(log)
    <3>1. Usable(log)'
      BY <1>1, <1>4, <2>4 DEF Usable
    <3> QED
      BY <2>3, <3>1 DEF Ready
  <2>5. CASE log = Fresh
    <3>1. log' = log
      <4>1. log.buf = <<>>
        BY <2>5 DEF Fresh
      <4>2. log \in Loggers
        BY <1>2 DEF Shape
      <4> QED
        BY <1>4, <4>1, <4>2, SameLogger
    <3> QED
      BY <2>3, <2>5, <3>1 DEF Ready, Fresh, NoFile
  <2> QED
    BY <2>1, <2>3, <2>4, <2>5 DEF Ready
<1>9. KeptInv'
  <2> SUFFICES ASSUME ~failed', NEW n \in written' PROVE Kept(disk, log.buf, n)' \/ n \in lost'
    BY DEF KeptInv
  <2>1. Kept(disk, log.buf, n) \/ n \in lost
    BY <1>1 DEF IInv, KeptInv
  <2>2. Kept(disk', log'.buf, n) \/ n \in lost
    BY <1>1, <1>3, <1>4, <2>1
  <2> QED
    BY <1>1, <2>2 DEF Kept
<1> QED
  BY <1>5, <1>6, <1>7, <1>8, <1>9 DEF IInv

LEMMA SyncFailsInv ==
  ASSUME IInv, syncFails
  PROVE  IInv'
<1>1. /\ disk' \in Flushes(log, disk) /\ log' = Gone(log) /\ failed' = TRUE
      /\ today' = today /\ start' = start /\ lines' = lines /\ hand' = hand
      /\ written' = written /\ lost' = lost /\ bytes' = bytes
      /\ late' = late /\ newdir' = newdir /\ bufio' = bufio
  BY DEF syncFails, confVars
<1>2. Shape(log) /\ disk \in Disks /\ Placed(disk, log.buf, written)
  BY DEF IInv, TypeOK, PlaceInv, Disks
<1>3. disk' \in Disks /\ Placed(disk', <<>>, written)
  BY <1>1, <1>2, FlushedLines
<1>4. Shape(log') /\ log'.sub = log.sub /\ log'.buf = <<>>
  BY <1>1, <1>2, GoneLogger
<1>5. TypeOK'
  BY <1>1, <1>3, <1>4 DEF IInv, TypeOK, Shape, Loggers, Disks
<1>6. LinesInv' /\ SubInv'
  BY <1>1, <1>4 DEF IInv, LinesInv, SubInv
<1>7. PlaceInv'
  <2>1. Shape(log)'
    BY <1>4 DEF Shape
  <2>2. Placed(disk', log'.buf, written)
    BY <1>3, <1>4
  <2>3. Placed(disk, log.buf, written)'
    BY <1>1, <2>2 DEF Placed, Within, OnceOnDisk, OnceInBuffer, Apart
  <2> QED
    BY <2>1, <2>3 DEF PlaceInv
<1>8. DayInv' /\ KeptInv'
  BY <1>1 DEF DayInv, KeptInv
<1> QED
  BY <1>5, <1>6, <1>7, <1>8 DEF IInv

LEMMA RestartInv ==
  ASSUME IInv, Restart
  PROVE  IInv'
<1>1. /\ start < MaxStarts /\ start' = start + 1 /\ hand' = [g \in Goroutines |-> 0]
      /\ log' = Fresh /\ lost' = lost \cup {log.buf[k] : k \in 1..Len(log.buf)}
      /\ today' = today /\ lines' = lines /\ disk' = disk /\ written' = written
      /\ bytes' = bytes /\ failed' = failed /\ late' = late /\ newdir' = newdir /\ bufio' = bufio
  BY DEF Restart, confVars
<1>2. /\ Fresh \in Loggers /\ Fresh.buf = <<>> /\ Fresh.sub = 0 /\ ~Fresh.opened
      /\ Fresh.writer = "nil" /\ 1..Len(Fresh.buf) = {}
  <2>1. <<>> \in Seq(Nat)
    OBVIOUS
  <2> QED
    BY <2>1 DEF Fresh, Loggers, NoFile, FileNames, Days
<1>3. log.buf \in Seq(Nat)
  BY LoggerFields DEF IInv, PlaceInv, Shape
<1>4. TypeOK'
  <2>1. start' \in 1..MaxStarts
    BY <1>1, BoundsAssumption DEF IInv, TypeOK
  <2>2. lost' \in SUBSET Nat
    <3>1. \A k \in 1..Len(log.buf) : log.buf[k] \in Nat
      BY <1>3, ElementOfSeq
    <3> QED
      BY <1>1, <3>1 DEF IInv, TypeOK
  <2>3. hand' \in [Goroutines -> Nat] /\ log' \in Loggers /\ disk' \in Disks
    BY <1>1, <1>2 DEF IInv, TypeOK, Disks
  <2> QED
    BY <1>1, <2>1, <2>2, <2>3 DEF IInv, TypeOK, Loggers, Disks
<1>5. LinesInv'
  <2>1. \A g \in Goroutines : hand'[g] = 0
    BY <1>1
  <2> QED
    BY <1>1, <2>1 DEF IInv, LinesInv
<1>6. SubInv'
  <2>1. Cardinality(written) \in Nat
    BY CountInRange, LenProperties DEF IInv, TypeOK, LinesInv
  <2> QED
    BY <1>1, <1>2, <2>1 DEF SubInv
<1>7. PlaceInv'
  <2>1. Shape(log)'
    BY <1>1, <1>2 DEF Shape
  <2>2. Placed(disk, <<>>, written)
    BY DEF IInv, PlaceInv, Placed, Within, OnceOnDisk, OnceInBuffer, Apart
  <2>3. Placed(disk, log.buf, written)'
    BY <1>1, <1>2, <2>2 DEF Placed, Within, OnceOnDisk, OnceInBuffer, Apart
  <2> QED
    BY <2>1, <2>3 DEF PlaceInv
<1>8. DayInv'
  <2> SUFFICES ASSUME ~failed' PROVE Ready(log)' /\ Dated(disk, log.buf, log.name)'
    BY DEF DayInv
  <2>1. Dated(disk, log.buf, log.name)
    BY <1>1 DEF IInv, DayInv
  <2>2. Dated(disk, log.buf, log.name)'
    BY <1>1, <1>2, <2>1 DEF Dated
  <2> QED
    BY <1>1, <2>2 DEF Ready, Fresh, NoFile
<1>9. KeptInv'
  <2> SUFFICES ASSUME ~failed', NEW n \in written' PROVE Kept(disk, log.buf, n)' \/ n \in lost'
    BY DEF KeptInv
  <2>1. Kept(disk, log.buf, n) \/ n \in lost
    BY <1>1 DEF IInv, KeptInv
  <2> QED
    BY <1>1, <2>1 DEF Kept
<1> QED
  BY <1>4, <1>5, <1>6, <1>7, <1>8, <1>9 DEF IInv

LEMMA TakeTimeInv ==
  ASSUME IInv, NEW g \in Goroutines, TakeTime(g)
  PROVE  IInv'
<1> PICK len \in Lengths : lines' = Append(lines, [day |-> today, len |-> len])
  BY DEF TakeTime
<1> DEFINE line == [day |-> today, len |-> len]
<1>1. /\ hand[g] = 0 /\ Len(lines) < MaxLines /\ lines' = Append(lines, line)
      /\ hand' = [hand EXCEPT ![g] = Len(lines) + 1]
      /\ today' = today /\ start' = start /\ log' = log /\ disk' = disk /\ written' = written
      /\ lost' = lost /\ bytes' = bytes
      /\ failed' = failed /\ late' = late /\ newdir' = newdir /\ bufio' = bufio
  BY DEF TakeTime, confVars
<1>2. /\ lines \in Seq([day : Days, len : Lengths]) /\ line \in [day : Days, len : Lengths]
      /\ today \in Days /\ Len(lines) \in Nat
      /\ hand \in [Goroutines -> Nat]
  BY LenProperties DEF IInv, TypeOK
<1> HIDE DEF line
<1>3. /\ lines' \in Seq([day : Days, len : Lengths]) /\ Len(lines') = Len(lines) + 1
      /\ \A k \in 1..Len(lines) : lines'[k] = lines[k]
  BY <1>1, <1>2, AppendProperties
<1>4. TypeOK'
  <2>1. hand' \in [Goroutines -> Nat]
    BY <1>1, <1>2
  <2> QED
    BY <1>1, <1>3, <2>1 DEF IInv, TypeOK
<1>5. LinesInv'
  <2>1. /\ \A h \in Goroutines : h # g => hand'[h] = hand[h]
        /\ hand'[g] = Len(lines) + 1
    BY <1>1, <1>2
  <2>2. \A n \in written : n \in 1..Len(lines)
    BY DEF IInv, LinesInv
  <2>3. /\ Len(lines) + 1 \notin written
        /\ \A h \in Goroutines : hand[h] # Len(lines) + 1
    BY <1>2, <2>2 DEF IInv, LinesInv
  <2>4. Len(lines') <= MaxLines /\ written' \subseteq 1..Len(lines')
    BY <1>1, <1>2, <1>3, <2>2, BoundsAssumption
  <2>5. \A h \in Goroutines : hand'[h] # 0 => hand'[h] \in 1..Len(lines')
                                             /\ hand'[h] \notin written'
    BY <1>1, <1>2, <1>3, <2>1, <2>3 DEF IInv, LinesInv
  <2>6. \A h, i \in Goroutines : hand'[h] # 0 /\ hand'[h] = hand'[i] => h = i
    BY <2>1, <2>3 DEF IInv, LinesInv
  <2> QED
    BY <2>4, <2>5, <2>6 DEF LinesInv
<1>6. SubInv'
  BY <1>1 DEF IInv, SubInv
<1>7. PlaceInv'
  BY <1>1 DEF IInv, PlaceInv, Shape, Placed, Within, OnceOnDisk, OnceInBuffer, Apart
<1>8. DayInv'
  <2> SUFFICES ASSUME ~failed' PROVE Ready(log)' /\ Dated(disk, log.buf, log.name)'
    BY DEF DayInv
  <2>1. Ready(log)' /\ Dated(disk, log.buf, log.name)
    BY <1>1 DEF IInv, DayInv, Ready, Usable, Fresh, NoFile
  <2>2. Within(disk, log.buf, 1..Len(lines))
    BY DEF IInv, PlaceInv, Placed, Within, LinesInv
  <2>3. \A f \in FileNames : \A k \in 1..Len(disk[f]) : lines'[disk[f][k]].day = f.day
    BY <1>3, <2>1, <2>2 DEF Dated, Within
  <2>4. \A k \in 1..Len(log.buf) : lines'[log.buf[k]].day = log.name.day
    BY <1>3, <2>1, <2>2 DEF Dated, Within
  <2> QED
    BY <1>1, <2>1, <2>3, <2>4 DEF Dated
<1>9. KeptInv'
  BY <1>1 DEF IInv, KeptInv, Kept
<1> QED
  BY <1>4, <1>5, <1>6, <1>7, <1>8, <1>9 DEF IInv

LEMMA StillInv ==
  ASSUME IInv, Midnight \/ UNCHANGED vars
  PROVE  IInv'
<1>1. /\ start' = start /\ lines' = lines /\ hand' = hand /\ log' = log /\ disk' = disk
      /\ written' = written /\ lost' = lost /\ bytes' = bytes
      /\ failed' = failed /\ late' = late /\ newdir' = newdir /\ bufio' = bufio
  BY Zenon DEF Midnight, vars, confVars
<1>2. today' \in Days
  <2>1. today \in 0..MaxDay
    BY DEF IInv, TypeOK, Days
  <2>2. CASE Midnight
    BY <2>1, <2>2, BoundsAssumption DEF Midnight, Days
  <2>3. CASE UNCHANGED vars
    BY <2>1, <2>3 DEF vars, Days
  <2> QED
    BY <2>2, <2>3
<1>3. TypeOK' /\ LinesInv' /\ SubInv'
  BY <1>1, <1>2 DEF IInv, TypeOK, LinesInv, SubInv
<1>4. PlaceInv'
  BY <1>1 DEF IInv, PlaceInv, Shape, Placed, Within, OnceOnDisk, OnceInBuffer, Apart
<1>5. DayInv' /\ KeptInv'
  BY <1>1 DEF IInv, DayInv, Ready, Usable, Fresh, NoFile, Dated, KeptInv, Kept
<1> QED
  BY <1>3, <1>4, <1>5 DEF IInv

LEMMA StepInv == IInv /\ [Next]_vars => IInv'
<1> SUFFICES ASSUME IInv, [Next]_vars PROVE IInv'
  OBVIOUS
<1>1. CASE \E g \in Goroutines : TakeTime(g)
  BY <1>1, TakeTimeInv
<1>2. CASE \E g \in Goroutines : WriteToOpen(g)
  BY <1>2, WriteToOpenInv
<1>3. CASE \E g \in Goroutines : WriteToNext(g)
  BY <1>3, WriteToNextInv
<1>4. CASE \E g \in Goroutines : OpenFails(g)
  BY <1>4, OpenFailsInv
<1>5. CASE \E g \in Goroutines : MakeDirFails(g)
  BY <1>5, MakeDirFailsInv
<1>6. CASE syncLogFile
  BY <1>6, SyncInv
<1>7. CASE Restart
  BY <1>7, RestartInv
<1>8. CASE Midnight \/ UNCHANGED vars
  BY <1>8, StillInv
<1>9. CASE syncFails
  BY <1>9, SyncFailsInv
<1> QED
  BY <1>1, <1>2, <1>3, <1>4, <1>5, <1>6, <1>7, <1>8, <1>9, Zenon DEF Next

LEMMA Invariance == Spec => []IInv
BY InitInv, StepInv, PTL DEF Spec

\* The variables have their types; every file that a line asks for has a name
\* within the bounds (log.go:160-233).
THEOREM TypeCorrect == Spec => []TypeOK
BY Invariance, PTL DEF IInv

\* Until something fails a line is with those of its own day (log.go:162, :322).
THEOREM EachInItsDay == Spec => []RightDay
<1>1. IInv => RightDay
  BY DEF IInv, DayInv, Dated, RightDay
<1> QED
  BY <1>1, Invariance, PTL

\* Rotation, flushing and stopping leave each written line in one place
\* (log.go:134-138, :176-187).
THEOREM EachInOnePlace == Spec => []KeptOnce
<1>1. ASSUME IInv PROVE KeptOnce
  <2> DEFINE files == {f \in FileNames : disk[f] # <<>>}
  <2>1. \A f, g \in files : \A j \in 1..Len(disk[f]), k \in 1..Len(disk[g]) :
          disk[f][j] = disk[g][k] => f = g /\ j = k
    BY <1>1 DEF IInv, PlaceInv, Placed, OnceOnDisk
  <2>2. \A f \in FileNames : \A k \in 1..Len(disk[f]) : f \in files
    BY <1>1 DEF IInv, TypeOK
  <2>3. ~failed => \A n \in written :
          \/ \E f \in files : \E k \in 1..Len(disk[f]) : disk[f][k] = n
          \/ \E k \in 1..Len(log.buf) : log.buf[k] = n
          \/ n \in lost
    <3> HIDE DEF files
    <3> QED
      BY <1>1, <2>2 DEF IInv, KeptInv, Kept
  <2> QED
    BY <2>1, <2>3 DEF KeptOnce
<1> QED
  BY <1>1, Invariance, PTL

-----------------------------------------------------------------------------
(* The size of the files.                                                  *)

\* The directory of this start, and the order in which it gets its files.
Here == IF newdir THEN start ELSE 0
Upto(f, x) == f.day < x.day \/ (f.day = x.day /\ f.sub <= x.sub)

\* The excuses of LimitKept.
Calm == ~late /\ ~failed /\ (newdir \/ start = 1)

\* The number of lines in f and in the buffer of l for it.
Inside(l, dk, f) == Len(dk[f]) + IF f = l.name THEN Len(l.buf) ELSE 0

\* The open file is the last of its directory, and its size is known: the next
\* one is empty, so that its size may be counted from 0.
FrontOf(l, dk, bs) ==
  /\ \A f \in FileNames : dk[f] # <<>> \/ bs[f] # 0 =>
       f.dir < Here \/ (Usable(l) /\ f.dir = Here /\ Upto(f, l.name))
  /\ Usable(l) => l.name.dir = Here /\ l.sub = l.name.sub /\ l.size = bs[l.name]
  /\ MaxFileSize > 0 => \A f \in FileNames : bs[f] <= MaxFileSize \/ Inside(l, dk, f) <= 1
FrontInv == Calm => FrontOf(log, disk, bytes)

LEMMA InsideNat ==
  ASSUME NEW l, Shape(l), NEW dk \in Disks, NEW f \in FileNames
  PROVE  /\ Inside(l, dk, f) \in Nat /\ Len(dk[f]) \in Nat /\ Len(dk[f]) <= Inside(l, dk, f)
         /\ l.buf = <<>> => Inside(l, dk, f) = Len(dk[f])
<1>1. Len(dk[f]) \in Nat /\ Len(l.buf) \in Nat /\ (l.buf = <<>> => Len(l.buf) = 0)
  BY LoggerFields, LenProperties DEF Shape, Disks
<1> DEFINE a == Len(dk[f])  b == Len(l.buf)
<1> HIDE DEF a, b
<1>2. a \in Nat /\ b \in Nat /\ (l.buf = <<>> => b = 0)
  BY <1>1 DEF a, b
<1>3. Inside(l, dk, f) = a + IF f = l.name THEN b ELSE 0
  BY DEF Inside, a, b
<1>4. Inside(l, dk, f) \in Nat /\ a <= Inside(l, dk, f) /\ (l.buf = <<>> => Inside(l, dk, f) = a)
  BY <1>2, <1>3
<1> QED
  BY <1>1, <1>4, Zenon DEF a

\* A line more in the open file or its buffer.
LEMMA PutSizes ==
  ASSUME NEW l, NEW dk \in Disks, NEW n \in Nat, lines[n].len \in Nat, NEW ok \in BOOLEAN,
         Shape(l), Usable(l), Put(l, dk, n, ok), ~failed', bytes \in [FileNames -> Nat]
  PROVE  /\ log'.name = l.name /\ log'.sub = l.sub /\ Usable(log')
         /\ log'.size = l.size + lines[n].len
         /\ bytes'[l.name] = bytes[l.name] + lines[n].len
         /\ Inside(log', disk', l.name) = Inside(l, dk, l.name) + 1
         /\ \A f \in FileNames : f # l.name =>
              /\ disk'[f] = dk[f] /\ bytes'[f] = bytes[f]
              /\ Inside(log', disk', f) = Inside(l, dk, f)
<1>1. /\ l \in Loggers /\ l.buf \in Seq(Nat) /\ l.size + lines[n].len \in Nat
      /\ l.name \in FileNames /\ l.opened /\ dk[l.name] \in Seq(Nat)
  BY LoggerFields DEF Shape, Usable, Disks
<1>2. /\ Append(l.buf, n) \in Seq(Nat) /\ Len(l.buf) \in Nat
      /\ Len(Append(l.buf, n)) = Len(l.buf) + 1 /\ Len(dk[l.name]) \in Nat
  BY <1>1, Appended, LenProperties
<1>3. /\ log' \in Loggers /\ log'.name = l.name /\ log'.sub = l.sub /\ log'.opened = l.opened
      /\ log'.writer = l.writer /\ log'.size = l.size + lines[n].len /\ Counted(l, n, ok)
      /\ \A f \in FileNames : f # l.name => disk'[f] = dk[f]
      /\ \/ disk'[l.name] = dk[l.name] /\ Len(log'.buf) = Len(l.buf) + 1
         \/ Len(disk'[l.name]) = Len(dk[l.name]) + 1 /\ log'.buf = l.buf
  <2>1. CASE /\ disk' = dk /\ Counted(l, n, ok)
             /\ log' = Grown(l, l.size + lines[n].len, Append(l.buf, n))
    <3>1. /\ log' \in Loggers /\ log'.name = l.name /\ log'.sub = l.sub
          /\ log'.opened = l.opened /\ log'.writer = l.writer
          /\ log'.size = l.size + lines[n].len /\ log'.buf = Append(l.buf, n)
      BY <1>1, <1>2, <2>1, LoggerGrown, Zenon
    <3>2. Len(log'.buf) = Len(l.buf) + 1
      BY <1>2, <3>1, Zenon
    <3>3. disk'[l.name] = dk[l.name] /\ \A f \in FileNames : disk'[f] = dk[f]
      BY <2>1
    <3> QED
      BY <2>1, <3>1, <3>2, <3>3, Zenon
  <2>2. CASE /\ log' = Sized(l, l.size + lines[n].len) /\ Counted(l, n, ok)
             /\ disk' = WithLine(dk, l.name, n)
    <3>1. /\ log' \in Loggers /\ log'.name = l.name /\ log'.sub = l.sub
          /\ log'.opened = l.opened /\ log'.writer = l.writer
          /\ log'.size = l.size + lines[n].len /\ log'.buf = l.buf
      BY <1>1, <2>2, LoggerSized, Zenon
    <3>2. /\ Len(disk'[l.name]) = Len(dk[l.name]) + 1
          /\ \A f \in FileNames : f # l.name => disk'[f] = dk[f]
      BY <1>1, <2>2, DiskAppended
    <3> QED
      BY <2>2, <3>1, <3>2, Zenon
  <2> QED
    BY <2>1, <2>2, PutCases, Zenon
<1>4. /\ bytes'[l.name] = bytes[l.name] + lines[n].len
      /\ \A f \in FileNames : f # l.name => bytes'[f] = bytes[f]
  BY <1>1, <1>3 DEF Counted
<1>5. Inside(log', disk', l.name) = Inside(l, dk, l.name) + 1
  <2> DEFINE a == Len(dk[l.name])  b == Len(l.buf)
             c == Len(disk'[l.name])  d == Len(log'.buf)
  <2>1. a \in Nat /\ b \in Nat /\ ((c = a /\ d = b + 1) \/ (c = a + 1 /\ d = b))
    BY <1>2, <1>3, Zenon
  <2>2. Inside(l, dk, l.name) = a + b /\ Inside(log', disk', l.name) = c + d
    BY <1>3 DEF Inside
  <2> HIDE DEF a, b, c, d
  <2> QED
    BY <2>1, <2>2
<1>6. \A f \in FileNames : f # l.name => Inside(log', disk', f) = Inside(l, dk, f)
  BY <1>3 DEF Inside
<1>7. Usable(log')
  BY <1>3, Zenon DEF Usable
<1> QED
  BY <1>3, <1>4, <1>5, <1>6, <1>7

LEMMA FrontWrite ==
  ASSUME NEW l, NEW dk \in Disks, NEW n \in Nat, lines[n].len \in Nat, NEW ok \in BOOLEAN,
         Shape(l), Usable(l), Put(l, dk, n, ok), ~failed', bytes \in [FileNames -> Nat],
         FrontOf(l, dk, bytes),
         MaxFileSize > 0 =>
           l.size + lines[n].len <= MaxFileSize \/ Inside(l, dk, l.name) = 0
  PROVE  FrontOf(log', disk', bytes')
<1>1. /\ log'.name = l.name /\ log'.sub = l.sub /\ Usable(log')
      /\ log'.size = l.size + lines[n].len
      /\ bytes'[l.name] = bytes[l.name] + lines[n].len
      /\ Inside(log', disk', l.name) = Inside(l, dk, l.name) + 1
      /\ \A f \in FileNames : f # l.name =>
           /\ disk'[f] = dk[f] /\ bytes'[f] = bytes[f]
           /\ Inside(log', disk', f) = Inside(l, dk, f)
  BY PutSizes
<1>2. l.name \in FileNames /\ Inside(l, dk, l.name) \in Nat
  BY InsideNat DEF Usable
<1>3. l.name.dir = Here /\ l.sub = l.name.sub /\ l.size = bytes[l.name]
  BY DEF FrontOf
<1>4. ASSUME NEW f \in FileNames, disk'[f] # <<>> \/ bytes'[f] # 0
      PROVE  f.dir < Here \/ (Usable(log') /\ f.dir = Here /\ Upto(f, log'.name))
  <2>1. CASE f = l.name
    <3>1. Upto(f, f)
      BY DEF Upto, FileNames, Days
    <3> QED
      BY <1>1, <1>3, <2>1, <3>1
  <2>2. CASE f # l.name
    BY <1>1, <1>4, <2>2 DEF FrontOf
  <2> QED
    BY <2>1, <2>2
<1>5. log'.name.dir = Here /\ log'.sub = log'.name.sub /\ log'.size = bytes'[log'.name]
  BY <1>1, <1>3
<1>6. ASSUME MaxFileSize > 0, NEW f \in FileNames
      PROVE  bytes'[f] <= MaxFileSize \/ Inside(log', disk', f) <= 1
  <2>1. CASE f = l.name
    BY <1>1, <1>2, <1>3, <1>6, <2>1
  <2>2. CASE f # l.name
    BY <1>1, <1>6, <2>2 DEF FrontOf
  <2> QED
    BY <2>1, <2>2
<1> QED
  BY <1>4, <1>5, <1>6 DEF FrontOf

LEMMA FrontFlushed ==
  ASSUME Shape(log), disk \in Disks, Ready(log), FrontOf(log, disk, bytes)
  PROVE  /\ Flushed(log, disk) \in Disks
         /\ \A f \in FileNames : Flushed(log, disk)[f] # <<>> \/ bytes[f] # 0 =>
              f.dir < Here \/ (Usable(log) /\ f.dir = Here /\ Upto(f, log.name))
         /\ \A f \in FileNames : Len(Flushed(log, disk)[f]) = Inside(log, disk, f)
<1>1. log.buf \in Seq(Nat) /\ Len(log.buf) \in Nat
  BY LoggerFields, LenProperties DEF Shape
<1>2. CASE log.writer = "file"
  <2> DEFINE x == log.name  b == log.buf
  <2>1. x \in FileNames /\ b \in Seq(Nat) /\ Flushed(log, disk) = WithLines(disk, x, b)
    BY <1>1, <1>2 DEF Shape, Flushed, WithLines
  <2>2. Usable(log) /\ Upto(x, x)
    BY <1>2, <2>1, ReadyNamed DEF Upto, FileNames, Days
  <2> HIDE DEF x, b
  <2>3. /\ Flushed(log, disk) \in Disks
        /\ Len(Flushed(log, disk)[x]) = Len(disk[x]) + Len(b)
        /\ \A f \in FileNames : f # x => Flushed(log, disk)[f] = disk[f]
    BY <2>1, DiskJoined
  <2>4. ASSUME NEW f \in FileNames, Flushed(log, disk)[f] # <<>> \/ bytes[f] # 0
        PROVE  f.dir < Here \/ (Usable(log) /\ f.dir = Here /\ Upto(f, log.name))
    <3>1. CASE f = x
      BY <2>2, <3>1 DEF FrontOf, x
    <3>2. CASE f # x
      BY <2>3, <2>4, <3>2 DEF FrontOf
    <3> QED
      BY <3>1, <3>2
  <2>5. ASSUME NEW f \in FileNames PROVE Len(Flushed(log, disk)[f]) = Inside(log, disk, f)
    <3>1. CASE f = x
      BY <2>3, <3>1 DEF Inside, x, b
    <3>2. CASE f # x
      <4>1. Len(disk[f]) \in Nat
        BY LenProperties DEF Disks
      <4> QED
        BY <2>3, <3>2, <4>1 DEF Inside, x
    <3> QED
      BY <3>1, <3>2
  <2> QED
    BY <2>3, <2>4, <2>5
<1>3. CASE log.writer # "file"
  <2>1. Flushed(log, disk) = disk /\ log.buf = <<>>
    BY <1>3 DEF Shape, Flushed
  <2>2. \A f \in FileNames : Inside(log, disk, f) = Len(disk[f])
    BY <2>1, InsideNat
  <2> QED
    BY <2>1, <2>2 DEF FrontOf
<1> QED
  BY <1>2, <1>3

\* The next file is empty.
LEMMA FrontOpened ==
  ASSUME IInv, FrontOf(log, disk, bytes), Ready(log), NEW g \in Goroutines, hand[g] # 0,
         Rotates(hand[g]), ~(lines[hand[g]].day < log.name.day)
  PROVE  LET l == Opened(Wanted(hand[g]))
             dk == Flushed(log, disk)
         IN  FrontOf(l, dk, bytes) /\ Inside(l, dk, l.name) = 0
<1> DEFINE n == hand[g]  d == lines[n].day  f == Wanted(n)  dk == Flushed(log, disk)
<1>1. /\ f \in FileNames /\ f.day = d /\ f.dir = Here /\ d \in Nat /\ log.sub \in Nat
      /\ start \in 1..MaxStarts
  <2>1. /\ f \in FileNames /\ f.day = d /\ f.dir = Here /\ d \in Days /\ log.sub \in Nat
    BY Wants DEF IInv, Here
  <2> QED
    BY <2>1 DEF IInv, TypeOK, Days
<1>2. Shape(log) /\ disk \in Disks
  BY DEF IInv, TypeOK, PlaceInv, Disks
<1>3. /\ dk \in Disks
      /\ \A x \in FileNames : dk[x] # <<>> \/ bytes[x] # 0 =>
           x.dir < Here \/ (Usable(log) /\ x.dir = Here /\ Upto(x, log.name))
      /\ \A x \in FileNames : Len(dk[x]) = Inside(log, disk, x)
  BY <1>2, FrontFlushed
<1>4. /\ Opened(f).name = f /\ Opened(f).buf = <<>> /\ Opened(f).size = 0
      /\ Opened(f).sub = f.sub /\ Usable(Opened(f)) /\ Shape(Opened(f))
  BY <1>1, <1>2, Rotated
<1>5. ASSUME Usable(log)
      PROVE  ~Upto(f, log.name) /\ \A x \in FileNames : Upto(x, log.name) => Upto(x, f)
  <2>1. /\ log.name \in FileNames /\ log.name.dir = Here /\ log.sub = log.name.sub
        /\ log.name.day \in Nat /\ log.name.sub \in Nat
    <3>1. log.name \in FileNames
      BY <1>5 DEF Usable
    <3>2. log.name.dir = Here /\ log.sub = log.name.sub
      BY <1>5 DEF FrontOf
    <3> QED
      BY <3>1, <3>2 DEF FileNames, Days
  <2>2. CASE log.name # CurrName(n)
    <3>1. log.name.day # d
      BY <2>1, <2>2 DEF CurrName, FileNames, Here
    <3>2. log.name.day < d
      BY <1>1, <2>1, <3>1
    <3> QED
      BY <1>1, <2>1, <3>2 DEF Upto, FileNames, Days
  <2>3. CASE log.name = CurrName(n)
    <3>1. f = [CurrName(n) EXCEPT !.sub = log.sub + 1]
      BY <2>3 DEF Wanted, Rotates, CurrName
    <3>2. f.sub = log.name.sub + 1 /\ log.name.day = d
      BY <2>1, <2>3, <3>1 DEF CurrName
    <3> QED
      BY <1>1, <2>1, <3>2 DEF Upto, FileNames, Days
  <2> QED
    BY <2>2, <2>3
<1> HIDE DEF f, d, n, dk
<1>6. dk[f] = <<>> /\ bytes[f] = 0
  <2>1. ~(f.dir < Here)
    BY <1>1 DEF Here
  <2> QED
    BY <1>1, <1>3, <1>5, <2>1
<1>7. \A x \in FileNames : Inside(Opened(f), dk, x) = Inside(log, disk, x)
  <2>1. \A x \in FileNames : Inside(Opened(f), dk, x) = Len(dk[x])
    BY <1>3, <1>4, InsideNat
  <2> QED
    BY <1>3, <2>1
<1>8. ASSUME NEW x \in FileNames, dk[x] # <<>> \/ bytes[x] # 0
      PROVE  x.dir < Here \/ (Usable(Opened(f)) /\ x.dir = Here /\ Upto(x, f))
  BY <1>3, <1>4, <1>5, <1>8
<1>9. Inside(Opened(f), dk, f) = 0
  <2>1. Inside(Opened(f), dk, f) = Len(dk[f])
    BY <1>1, <1>3, <1>4, InsideNat
  <2> QED
    BY <1>6, <2>1
<1>10. MaxFileSize > 0 =>
         \A x \in FileNames : bytes[x] <= MaxFileSize \/ Inside(Opened(f), dk, x) <= 1
  BY <1>7 DEF FrontOf
<1>11. FrontOf(Opened(f), dk, bytes)
  BY <1>1, <1>4, <1>6, <1>8, <1>10 DEF FrontOf
<1> QED
  BY <1>4, <1>9, <1>11 DEF f, n, dk

\* A line that goes to the open file still fits.
LEMMA StillFits ==
  ASSUME IInv, NEW g \in Goroutines, hand[g] # 0, ~Rotates(hand[g]),
         log.sub = log.name.sub
  PROVE  MaxFileSize > 0 => log.size + lines[hand[g]].len <= MaxFileSize
<1> DEFINE n == hand[g]
<1>1. Wanted(n) = log.name /\ log.sub \in Nat /\ lines[n].len \in Nat
  BY Wants DEF IInv, Rotates
<1> HIDE DEF n
<1>2. log.name = CurrName(n)
  <2> SUFFICES ASSUME log.name # CurrName(n) PROVE FALSE
    OBVIOUS
  <2>1. log.name = [CurrName(n) EXCEPT !.sub = 0]
    BY <1>1 DEF Wanted
  <2>2. log.sub = 0
    BY <2>1 DEF CurrName
  <2> QED
    BY <2>1, <2>2 DEF CurrName
<1>3. ~Overflows(n)
  <2> SUFFICES ASSUME Overflows(n) PROVE FALSE
    OBVIOUS
  <2>1. log.name = [CurrName(n) EXCEPT !.sub = log.sub + 1]
    BY <1>1, <1>2 DEF Wanted, CurrName
  <2>2. log.name.sub = log.sub + 1
    BY <2>1 DEF CurrName
  <2> QED
    BY <1>1, <2>2
<1>4. log.size \in Nat
  BY DEF IInv, TypeOK
<1> QED
  BY <1>1, <1>3, <1>4, BoundsAssumption DEF Overflows, n

LEMMA FrontSync ==
  ASSUME IInv, syncLogFile, Ready(log), FrontOf(log, disk, bytes)
  PROVE  FrontOf(log', disk', bytes)
<1>1. disk' = Flushed(log, disk) /\ log' = Buffered(log, <<>>) /\ Shape(log) /\ disk \in Disks
  BY DEF syncLogFile, IInv, PlaceInv, TypeOK, Disks, Buffered
<1>2. /\ disk' \in Disks
      /\ \A f \in FileNames : disk'[f] # <<>> \/ bytes[f] # 0 =>
           f.dir < Here \/ (Usable(log) /\ f.dir = Here /\ Upto(f, log.name))
      /\ \A f \in FileNames : Len(disk'[f]) = Inside(log, disk, f)
  BY <1>1, FrontFlushed
<1>3. /\ log' \in Loggers /\ log'.name = log.name /\ log'.sub = log.sub
      /\ log'.opened = log.opened /\ log'.writer = log.writer /\ log'.size = log.size
      /\ log'.buf = <<>>
  <2>1. log \in Loggers /\ <<>> \in Seq(Nat)
    BY <1>1 DEF Shape
  <2> QED
    BY <1>1, <2>1, LoggerBuffered, Zenon
<1>4. (Usable(log') <=> Usable(log)) /\ Shape(log')
  BY <1>1, <1>3 DEF Usable, Shape
<1>5. \A f \in FileNames : Inside(log', disk', f) = Inside(log, disk, f)
  BY <1>2, <1>3, <1>4, InsideNat
<1>6. MaxFileSize > 0 =>
        \A f \in FileNames : bytes[f] <= MaxFileSize \/ Inside(log', disk', f) <= 1
  BY <1>5 DEF FrontOf
<1>7. Usable(log') => /\ log'.name.dir = Here /\ log'.sub = log'.name.sub
                      /\ log'.size = bytes[log'.name]
  BY <1>3, <1>4 DEF FrontOf
<1> QED
  BY <1>2, <1>3, <1>4, <1>6, <1>7 DEF FrontOf

LEMMA FrontRestart ==
  ASSUME IInv, Restart, FrontOf(log, disk, bytes), newdir
  PROVE  FrontOf(log, disk, bytes)'
<1>1. /\ start' = start + 1 /\ log' = Fresh /\ disk' = disk /\ bytes' = bytes
      /\ newdir' = newdir /\ start \in Nat
  BY DEF Restart, confVars, IInv, TypeOK
<1>2. Here = start /\ Here' = start + 1
  BY <1>1 DEF Here
<1>3. NoFile \notin FileNames
  BY DEF NoFile, FileNames, Days
<1>4. Fresh.name = NoFile
  BY DEF Fresh
<1>5. ~Usable(log)'
  BY <1>1, <1>3, <1>4 DEF Usable
<1>6. ASSUME NEW f \in FileNames, disk[f] # <<>> \/ bytes[f] # 0 PROVE f.dir < Here'
  <2>1. f.dir < Here \/ f.dir = Here
    BY <1>6 DEF FrontOf
  <2> QED
    BY <1>1, <1>2, <2>1 DEF FileNames
<1>7. ASSUME MaxFileSize > 0, NEW f \in FileNames
      PROVE  bytes[f] <= MaxFileSize \/ Inside(Fresh, disk, f) <= 1
  <2>1. bytes[f] <= MaxFileSize \/ Inside(log, disk, f) <= 1
    BY <1>7 DEF FrontOf
  <2>2. /\ Len(disk[f]) \in Nat /\ Inside(log, disk, f) \in Nat
        /\ Len(disk[f]) <= Inside(log, disk, f)
    BY InsideNat DEF IInv, PlaceInv, TypeOK, Disks
  <2>3. Inside(Fresh, disk, f) = Len(disk[f])
    <3> DEFINE a == Len(disk[f])
    <3>1. Inside(Fresh, disk, f) = a + 0 /\ a \in Nat
      BY <1>3, <1>4, <2>2 DEF Inside
    <3> HIDE DEF a
    <3>2. Inside(Fresh, disk, f) = a
      BY <3>1
    <3> QED
      BY <3>2 DEF a
  <2> QED
    BY <2>1, <2>2, <2>3
<1>8. MaxFileSize > 0 =>
        \A f \in FileNames : bytes'[f] <= MaxFileSize \/ Inside(log, disk, f)' <= 1
  BY <1>1, <1>7 DEF Inside, Fresh
<1> QED
  BY <1>1, <1>5, <1>6, <1>8 DEF FrontOf

LEMMA FrontStep == IInv /\ FrontInv /\ [Next]_vars => FrontInv'
<1> SUFFICES ASSUME IInv, FrontInv, [Next]_vars, Calm'
             PROVE  FrontOf(log, disk, bytes)'
  BY DEF FrontInv
<1>1. ASSUME start' = start, newdir' = newdir, bufio' = bufio, FrontOf(log', disk', bytes')
      PROVE  FrontOf(log, disk, bytes)'
  BY <1>1 DEF FrontOf, Usable, Here, Inside
<1>2. ASSUME Calm PROVE FrontOf(log, disk, bytes) /\ Ready(log)
  BY <1>2 DEF FrontInv, Calm, IInv, DayInv
<1>3. /\ Shape(log) /\ disk \in Disks /\ bytes \in [FileNames -> Nat] /\ TRUE \in BOOLEAN
      /\ ~failed' /\ ~late'
  BY DEF IInv, PlaceInv, TypeOK, Disks, Calm
<1>4. ASSUME NEW g \in Goroutines, WriteToOpen(g) PROVE FrontOf(log, disk, bytes)'
  <2>1. /\ Put(log, disk, hand[g], TRUE) /\ hand[g] # 0 /\ ~Rotates(hand[g])
        /\ late' = late /\ start' = start /\ newdir' = newdir /\ bufio' = bufio
    BY <1>4 DEF WriteToOpen, Writes, confVars
  <2>2. failed' = (failed \/ ~TRUE)
    BY <1>3, <2>1, PutCases DEF Counted
  <2>3. Calm
    BY <1>3, <2>1, <2>2 DEF Calm
  <2>4. FrontOf(log, disk, bytes) /\ Ready(log)
    BY <1>2, <2>3
  <2>5. Usable(log) /\ hand[g] \in Nat /\ lines[hand[g]].len \in Nat
    <3>1. Wanted(hand[g]) \in FileNames /\ hand[g] \in Nat /\ lines[hand[g]].len \in Nat
      BY <2>1, Wants DEF IInv
    <3> QED
      BY <2>1, <2>4, <3>1, ReadyNamed DEF Rotates
  <2>6. MaxFileSize > 0 => log.size + lines[hand[g]].len <= MaxFileSize
    BY <2>1, <2>4, <2>5, StillFits DEF FrontOf
  <2>7. FrontOf(log', disk', bytes')
    BY <1>3, <2>1, <2>4, <2>5, <2>6, FrontWrite
  <2> QED
    BY <1>1, <2>1, <2>7
<1>5. ASSUME NEW g \in Goroutines, WriteToNext(g) PROVE FrontOf(log, disk, bytes)'
  <2> DEFINE f == Wanted(hand[g])
  <2> PICK dk \in Flushes(log, disk) : Put(Opened(f), dk, hand[g], dk = Flushed(log, disk))
    BY <1>5 DEF WriteToNext
  <2> DEFINE ok == dk = Flushed(log, disk)
  <2>1. /\ Put(Opened(f), dk, hand[g], ok) /\ hand[g] # 0 /\ Rotates(hand[g])
        /\ late' = (late \/ lines[hand[g]].day < log.name.day)
        /\ start' = start /\ newdir' = newdir /\ bufio' = bufio /\ ok \in BOOLEAN
    BY <1>5 DEF WriteToNext, Writes, confVars
  <2>2. failed' = (failed \/ ~ok)
    BY <1>3, <2>1, PutCases DEF Counted
  <2>3. Calm /\ ~(lines[hand[g]].day < log.name.day) /\ ok
    BY <1>3, <2>1, <2>2 DEF Calm
  <2>4. FrontOf(log, disk, bytes) /\ Ready(log)
    BY <1>2, <2>3
  <2>5. FrontOf(Opened(f), dk, bytes) /\ Inside(Opened(f), dk, Opened(f).name) = 0
    BY <2>1, <2>3, <2>4, FrontOpened
  <2>6. /\ dk \in Disks /\ Shape(Opened(f)) /\ Usable(Opened(f))
        /\ hand[g] \in Nat /\ lines[hand[g]].len \in Nat
    <3>1. hand[g] \in Nat /\ lines[hand[g]].len \in Nat
      BY <2>1, Wants DEF IInv
    <3> QED
      BY <2>1, <2>4, <3>1, BeforeNext
  <2> HIDE DEF f, ok
  <2> DEFINE l == Opened(f)
  <2>7. /\ Put(l, dk, hand[g], ok) /\ FrontOf(l, dk, bytes) /\ dk \in Disks /\ Shape(l)
        /\ Usable(l) /\ Inside(l, dk, l.name) = 0
    BY <2>1, <2>5, <2>6
  <2> HIDE DEF l
  <2>8. FrontOf(log', disk', bytes')
    BY <1>3, <2>1, <2>6, <2>7, FrontWrite
  <2> QED
    BY <1>1, <2>1, <2>8
<1>6. ASSUME NEW g \in Goroutines, OpenFails(g) \/ MakeDirFails(g) PROVE FALSE
  <2>1. \E l, dk : Put(l, dk, hand[g], FALSE)
    BY <1>6 DEF OpenFails, MakeDirFails
  <2>2. failed' = TRUE \/ failed' = (failed \/ ~FALSE)
    BY <2>1, PutCases DEF Counted
  <2> QED
    BY <1>3, <2>2
<1>7. CASE syncLogFile
  <2>1. /\ failed' = failed /\ late' = late /\ start' = start /\ newdir' = newdir
        /\ bufio' = bufio /\ bytes' = bytes
    BY <1>7 DEF syncLogFile, confVars
  <2>2. Calm
    BY <2>1 DEF Calm
  <2>3. FrontOf(log', disk', bytes')
    BY <1>2, <1>7, <2>1, <2>2, FrontSync
  <2> QED
    BY <1>1, <2>1, <2>3
<1>8. CASE Restart
  <2>1. /\ failed' = failed /\ late' = late /\ newdir' = newdir /\ start' = start + 1
    BY <1>8 DEF Restart, confVars
  <2>2. newdir
    <3>1. start' # 1
      BY <2>1 DEF IInv, TypeOK
    <3> QED
      BY <2>1, <3>1 DEF Calm
  <2>3. Calm
    BY <2>1, <2>2 DEF Calm
  <2> QED
    BY <1>2, <1>8, <2>2, <2>3, FrontRestart
<1>9. CASE (\E g \in Goroutines : TakeTime(g)) \/ Midnight \/ UNCHANGED vars
  <2>1. /\ failed' = failed /\ late' = late /\ start' = start /\ newdir' = newdir /\ bufio' = bufio
        /\ log' = log /\ disk' = disk /\ bytes' = bytes
    BY <1>9, Zenon DEF TakeTime, Midnight, vars, confVars
  <2>2. Calm
    BY <2>1 DEF Calm
  <2>3. FrontOf(log', disk', bytes')
    BY <1>2, <2>1, <2>2
  <2> QED
    BY <1>1, <2>1, <2>3
<1>10. ~syncFails
  BY <1>3 DEF syncFails
<1> QED
  BY <1>4, <1>5, <1>6, <1>7, <1>8, <1>9, <1>10, Zenon DEF Next

LEMMA InitFront == Init => FrontInv
<1> SUFFICES ASSUME Init PROVE FrontOf(log, disk, bytes)
  BY DEF FrontInv
<1>1. NoFile \notin FileNames
  BY DEF NoFile, FileNames, Days
<1>2. log.name = NoFile /\ ~Usable(log)
  BY <1>1 DEF Init, Fresh, Usable
<1>3. \A f \in FileNames : disk[f] = <<>> /\ bytes[f] = 0
  BY DEF Init
<1>4. MaxFileSize > 0 => \A f \in FileNames : bytes[f] <= MaxFileSize
  BY <1>3, BoundsAssumption
<1> QED
  BY <1>2, <1>3, <1>4 DEF FrontOf

\* No file exceeds maxfilesize but by its only line, unless something failed or
\* the file was opened twice: by a start without a directory of its own, or by a
\* line that came after midnight with the date of the day before (log.go:173,
\* :205, :245-254, :401).
THEOREM FilesKeepLimit == Spec => []LimitKept
<1>1. FrontInv => LimitKept
  BY DEF FrontInv, Calm, FrontOf, Inside, LimitKept, LinesIn
<1> QED
  BY <1>1, InitFront, FrontStep, Invariance, PTL DEF Spec
=============================================================================
