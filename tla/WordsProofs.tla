----------------------------- MODULE WordsProofs -----------------------------
(***************************************************************************)
(* Proofs about the two modules on the words of a message, BadWords and    *)
(* PopularWords. Both are built from recursive functions: the reading of a *)
(* list, the scan of a text, the loop that deletes a word, the sum over    *)
(* the seconds. A lemma says that each satisfies its equation (by          *)
(* PrimitiveRecursion, or by a function that does) and another, by         *)
(* Induction, what it computes: InitTreeReads, FoundRight, DelFromFile and *)
(* CountedSomewhere. With these the invariants are inductive.              *)
(*                                                                         *)
(* BadWords: any words, any texts, any list with no blank line and no line *)
(* twice. PopularWords: any goroutines and words, any hold time and clock. *)
(***************************************************************************)
EXTENDS BadWords, PopularWords, SequenceTheorems, WellFoundedInduction, TLAPS

\* Every set of numbers has a least one.
LEMMA LeastElement ==
  ASSUME NEW T \in SUBSET Nat, T # {}
  PROVE  \E x \in T : \A y \in T : x <= y
<1> DEFINE R == OpToRel(<, Nat)
<1>1. IsWellFoundedOn(R, Nat)
  BY NatLessThanWellFounded
<1>2. \E x \in T : \A y \in T : <<y, x>> \notin R
  <2> HIDE DEF R
  <2> QED BY <1>1, WFMin
<1>3. \A x, y \in Nat : <<y, x>> \notin R => x <= y
  BY DEF OpToRel
<1> QED BY <1>2, <1>3

\* Induction with a set for the predicate, since a predicate cannot be handed
\* to a lemma here.
LEMMA Induction ==
  ASSUME NEW S, 0 \in S, \A n \in Nat : n \in S => n + 1 \in S
  PROVE  Nat \subseteq S
<1> SUFFICES ASSUME Nat \ S # {} PROVE FALSE
  OBVIOUS
<1>1. PICK x \in Nat \ S : \A y \in Nat \ S : x <= y
  BY LeastElement
<1>2. x # 0 /\ x - 1 \in Nat
  OBVIOUS
<1>3. x - 1 \notin S
  BY <1>2
<1> QED BY <1>1, <1>2, <1>3

\* f takes the values v0, step[1][v0], step[2][step[1][v0]] and so on.
IsStepOn(V, v0, n, step) == n \in Nat /\ v0 \in V /\ step \in [1..n -> [V -> V]]

Iterates(f, V, v0, n, step) ==
  /\ f \in [0..n -> V]
  /\ f[0] = v0
  /\ \A i \in 1..n : f[i] = step[i][f[i - 1]]

\* A function defined by primitive recursion up to n exists. The library has
\* this with an operator for the step, here the step is a function.
LEMMA PrimitiveRecursion ==
  ASSUME NEW V, NEW v0, NEW n, NEW step, IsStepOn(V, v0, n, step)
  PROVE  \E f : Iterates(f, V, v0, n, step)
<1> USE DEF IsStepOn
<1> DEFINE S == {k \in Nat : k <= n => \E f : Iterates(f, V, v0, k, step)}
<1>1. 0 \in S
  <2>1. Iterates([j \in 0..0 |-> v0], V, v0, 0, step)
    BY DEF Iterates
  <2> QED BY <2>1
<1>2. ASSUME NEW k \in Nat, k \in S PROVE k + 1 \in S
  <2> SUFFICES ASSUME k + 1 <= n PROVE \E f : Iterates(f, V, v0, k + 1, step)
    OBVIOUS
  <2>1. PICK f : Iterates(f, V, v0, k, step)
    BY <1>2
  <2> DEFINE g == [j \in 0..k + 1 |-> IF j = k + 1 THEN step[k + 1][f[k]] ELSE f[j]]
  <2>2. g \in [0..k + 1 -> V]
    BY <2>1, k + 1 \in 1..n DEF Iterates
  <2>3. Iterates(g, V, v0, k + 1, step)
    BY <2>1, <2>2 DEF Iterates
  <2> QED BY <2>3
<1>3. n \in S
  <2> HIDE DEF S
  <2> QED BY <1>1, <1>2, Induction
<1> QED BY <1>3

-----------------------------------------------------------------------------
NonEmpty == Seq(Chars) \ {<<>>}

\* A tree with words under their first characters, and their lengths.
Trees ==
  {t \in [lenSlice : [Chars -> SUBSET Nat], words : [Chars -> SUBSET NonEmpty]] :
     \A c \in Chars : /\ \A w \in t.words[c] : w[1] = c /\ Len(w) \in t.lenSlice[c]
                      /\ \A n \in t.lenSlice[c] : n >= 1}

\* wordTree.add puts its word in the tree, and nothing else.
LEMMA AddTree ==
  ASSUME NEW t \in Trees, NEW w \in NonEmpty
  PROVE  add(t, w) \in Trees /\ InMemory(add(t, w)) = InMemory(t) \cup {w}
<1> DEFINE u == add(t, w)
<1>1. w[1] \in Chars /\ Len(w) \in Nat /\ Len(w) >= 1
  BY DEF NonEmpty
<1>2. /\ u.lenSlice = [t.lenSlice EXCEPT ![w[1]] = @ \cup {Len(w)}]
      /\ u.words = [t.words EXCEPT ![w[1]] = @ \cup {w}]
      /\ u \in [lenSlice : [Chars -> SUBSET Nat], words : [Chars -> SUBSET NonEmpty]]
  BY <1>1 DEF add, Trees
<1>3. \A c \in Chars : /\ u.words[c] = t.words[c] \cup (IF c = w[1] THEN {w} ELSE {})
                       /\ u.lenSlice[c] = t.lenSlice[c] \cup (IF c = w[1] THEN {Len(w)} ELSE {})
  BY <1>1, <1>2 DEF Trees
<1> HIDE DEF u
<1>4. u \in Trees
  BY <1>1, <1>2, <1>3 DEF Trees
<1>5. InMemory(u) = InMemory(t) \cup {w}
  BY <1>1, <1>3 DEF InMemory
<1> QED BY <1>4, <1>5 DEF u

LEMMA NoWordsTree == NoWords \in Trees /\ InMemory(NoWords) = {}
BY DEF NoWords, Trees, InMemory

LEMMA MemoryNonEmpty ==
  ASSUME NEW t \in Trees PROVE InMemory(t) \subseteq NonEmpty
BY DEF Trees, InMemory

\* One step of treeUpTo, on the n-th line, as a function on trees.
AddLine(L) == [n \in 1..Len(L) |-> [t \in Trees |-> add(t, L[n])]]

TreeBody(L, g) == [n \in 0..Len(L) |-> IF n = 0 THEN NoWords ELSE add(g[n - 1], L[n])]

\* treeUpTo satisfies the equation that defines it.
LEMMA TreeUpToEquation ==
  ASSUME NEW f, Lines(f) \in Seq(NonEmpty)
  PROVE  treeUpTo(f) = TreeBody(Lines(f), treeUpTo(f))
<1> DEFINE L == Lines(f)
<1>1. \A n \in 1..Len(L) : L[n] \in NonEmpty
  OBVIOUS
<1>2. AddLine(L) \in [1..Len(L) -> [Trees -> Trees]]
  BY <1>1, AddTree DEF AddLine
<1>3. Len(L) \in Nat
  OBVIOUS
<1>4. IsStepOn(Trees, NoWords, Len(L), AddLine(L))
  BY <1>2, <1>3, NoWordsTree DEF IsStepOn
<1>5. PICK g : Iterates(g, Trees, NoWords, Len(L), AddLine(L))
  BY <1>4, PrimitiveRecursion, Zenon
<1>6. \A n \in 1..Len(L) : g[n] = add(g[n - 1], L[n])
  <2> TAKE n \in 1..Len(L)
  <2>1. g[n - 1] \in Trees
    BY <1>3, <1>5 DEF Iterates
  <2> QED BY <2>1, <1>5 DEF AddLine, Iterates
<1>7. g = TreeBody(L, g)
  BY <1>3, <1>5, <1>6 DEF TreeBody, Iterates
<1> QED BY <1>7, Zenon DEF treeUpTo, TreeBody

\* The words of the tree are those of the lines that were read.
LEMMA TreeUpTo ==
  ASSUME NEW f, Lines(f) \in Seq(NonEmpty), NEW k \in 0..Len(Lines(f))
  PROVE  /\ treeUpTo(f)[k] \in Trees
         /\ InMemory(treeUpTo(f)[k]) = {Lines(f)[n] : n \in 1..k}
<1> DEFINE L == Lines(f)
           tr == treeUpTo(f)
           S == {j \in Nat : j <= Len(L) => /\ tr[j] \in Trees
                                           /\ InMemory(tr[j]) = {L[n] : n \in 1..j}}
<1>1. tr[0] = NoWords /\ \A n \in 1..Len(L) : tr[n] = add(tr[n - 1], L[n])
  BY TreeUpToEquation DEF TreeBody
<1> HIDE DEF tr
<1>2. 0 \in S
  BY <1>1, NoWordsTree
<1>3. ASSUME NEW j \in Nat, j \in S PROVE j + 1 \in S
  <2> SUFFICES ASSUME j + 1 <= Len(L)
               PROVE  /\ tr[j + 1] \in Trees
                      /\ InMemory(tr[j + 1]) = {L[n] : n \in 1..j + 1}
    OBVIOUS
  <2>1. tr[j] \in Trees /\ InMemory(tr[j]) = {L[n] : n \in 1..j}
    BY <1>3
  <2>2. tr[j + 1] = add(tr[j], L[j + 1]) /\ L[j + 1] \in NonEmpty
    BY <1>1
  <2>3. {L[n] : n \in 1..j + 1} = {L[n] : n \in 1..j} \cup {L[j + 1]}
    OBVIOUS
  <2> QED BY <2>1, <2>2, <2>3, AddTree
<1>4. k \in S
  <2> HIDE DEF S
  <2> QED BY <1>2, <1>3, Induction
<1> QED BY <1>4 DEF tr

\* A function on 1..n is a sequence of length n.
LEMMA FunctionIsSeq ==
  ASSUME NEW S, NEW n \in Nat, NEW b \in [1..n -> S]
  PROVE  b \in Seq(S) /\ Len(b) = n
<1>1. b \in Seq(S)
  BY SeqDef
<1>2. DOMAIN b = 1..n /\ DOMAIN b = 1..Len(b) /\ Len(b) \in Nat
  BY <1>1, LenProperties
<1> QED BY <1>1, <1>2

LEMMA Prefix ==
  ASSUME NEW S, NEW f \in Seq(S), NEW n \in 0..Len(f)
  PROVE  /\ SubSeq(f, 1, n) \in Seq(S)
         /\ Len(SubSeq(f, 1, n)) = n
         /\ \A k \in 1..n : SubSeq(f, 1, n)[k] = f[k]
<1>1. \A i \in 1..n : f[i] \in S
  OBVIOUS
<1>2. n \in Int /\ 1 \in Int
  OBVIOUS
<1> QED BY <1>1, <1>2, SubSeqProperties


\* The places of a line that hold no space.
Places(l) == {k \in 1..Len(l) : l[k] # Space}

LEMMA PlacesMinMax ==
  ASSUME NEW l \in Seq(Chars), Places(l) # {}
  PROVE  /\ Min(Places(l)) \in Places(l) /\ Max(Places(l)) \in Places(l)
         /\ \A k \in Places(l) : Min(Places(l)) <= k /\ k <= Max(Places(l))
<1> DEFINE S == Places(l)
           T == {n \in 0..Len(l) : Len(l) - n \in S}
<1>1. S \subseteq 1..Len(l) /\ Len(l) \in Nat
  BY DEF Places
<1> HIDE DEF S
<1>2. S \in SUBSET Nat /\ S # {}
  BY <1>1 DEF S
<1>3. \E x \in S : \A y \in S : x <= y
  BY <1>2, LeastElement
<1>4. \E x \in S : \A y \in S : x >= y
  <2>1. PICK k \in S : TRUE
    BY <1>2
  <2>2. Len(l) - k \in T
    BY <1>1, <2>1
  <2>3. PICK n \in T : \A m \in T : n <= m
    <3>0. 0..Len(l) \subseteq Nat
      BY <1>1
    <3>1. T \in SUBSET Nat /\ T # {}
      BY <2>2, <3>0
    <3> HIDE DEF T
    <3> QED BY <3>1, LeastElement
  <2>4. \A y \in S : Len(l) - y \in T
    BY <1>1
  <2>5. \A y \in S : Len(l) - n >= y
    BY <1>1, <2>3, <2>4
  <2> QED BY <2>3, <2>5
<1>5. Min(S) \in S /\ \A y \in S : Min(S) <= y
  BY <1>3, Zenon DEF Min
<1>6. Max(S) \in S /\ \A y \in S : Max(S) >= y
  BY <1>4, Zenon DEF Max
<1> QED BY <1>1, <1>5, <1>6 DEF S

\* Trimming leaves a line, and nothing of a line of spaces only.
LEMMA Trimmed ==
  ASSUME NEW l \in Seq(Chars)
  PROVE  /\ TrimSpace(l) \in Seq(Chars)
         /\ TrimSpace(l) = <<>> <=> Places(l) = {}
<1>1. CASE Places(l) = {}
  BY <1>1 DEF TrimSpace, Places
<1>2. CASE Places(l) # {}
  <2> DEFINE m == Min(Places(l))
             n == Max(Places(l))
  <2>1. m \in 1..Len(l) /\ n \in 1..Len(l) /\ m <= n
    BY <1>2, PlacesMinMax DEF Places
  <2>2. TrimSpace(l) = SubSeq(l, m, n)
    BY <1>2 DEF TrimSpace, Places
  <2> HIDE DEF m, n
  <2>3. \A k \in m..n : l[k] \in Chars
    BY <2>1
  <2>4. SubSeq(l, m, n) \in Seq(Chars) /\ Len(SubSeq(l, m, n)) = n - m + 1
    BY <2>1, <2>3, SubSeqProperties
  <2>5. Len(SubSeq(l, m, n)) # 0
    BY <2>1, <2>4
  <2>6. SubSeq(l, m, n) # <<>>
    BY <2>4, <2>5, EmptySeq
  <2> QED BY <1>2, <2>2, <2>4, <2>6
<1> QED BY <1>1, <1>2

\* A line with a word behind it is not blank.
LEMMA TornNotBlank ==
  ASSUME NEW l \in Seq(Chars), NEW w \in Seq(Chars), TrimSpace(w) # <<>>
  PROVE  TrimSpace(l \o w) # <<>>
<1>1. PICK k \in 1..Len(w) : w[k] # Space
  BY Trimmed DEF Places
<1>2. /\ l \o w \in Seq(Chars) /\ Len(l \o w) = Len(l) + Len(w)
      /\ Len(l) + k \in 1..Len(l \o w) /\ (l \o w)[Len(l) + k] = w[k]
  OBVIOUS
<1>3. Len(l) + k \in Places(l \o w)
  BY <1>1, <1>2 DEF Places
<1> QED BY <1>2, <1>3, Trimmed

LinesOf(f) == {f[k] : k \in 1..Len(f)}

\* Nothing in a file is blank but the part behind its last newline.
NotBlank(f) == \A l \in LinesOf(f) : l # <<>> => TrimSpace(l) # <<>>

\* What Init reads: the lines that are not blank, without the space around them.
LEMMA InitTreeReads ==
  ASSUME NEW f \in Seq(Seq(Chars)), f # <<>>, \A k \in 1..Len(f) - 1 : f[k] # <<>>,
         NotBlank(f)
  PROVE  /\ InitTree(f) \in Trees
         /\ InMemory(InitTree(f)) = {TrimSpace(l) : l \in LinesOf(f) \ {<<>>}}
<1> DEFINE L == Lines(f)
           N == IF f[Len(f)] = <<>> THEN Len(f) - 1 ELSE Len(f)
<1>1. Len(f) \in Nat /\ Len(f) >= 1
  OBVIOUS
<1>2. N \in Nat /\ N \in Len(f) - 1..Len(f)
  BY <1>1
<1>3. \A k \in 1..N : k \in 1..Len(f) /\ f[k] # <<>>
  BY <1>1
<1>4. LinesOf(f) \ {<<>>} = {f[k] : k \in 1..N}
  <2>1. \A k \in 1..Len(f) : f[k] # <<>> => k \in 1..N
    BY <1>1
  <2> QED BY <1>3, <2>1 DEF LinesOf
<1>5. L = [k \in 1..N |-> TrimSpace(f[k])]
  BY DEF Lines
<1> HIDE DEF N, L
<1>6. \A k \in 1..N : TrimSpace(f[k]) \in NonEmpty
  <2> TAKE k \in 1..N
  <2>1. f[k] \in Seq(Chars) /\ f[k] \in LinesOf(f) /\ f[k] # <<>>
    BY <1>3 DEF LinesOf
  <2> QED BY <2>1, Trimmed DEF NotBlank, NonEmpty
<1>7. L \in [1..N -> NonEmpty]
  BY <1>5, <1>6
<1>8. L \in Seq(NonEmpty) /\ Len(L) = N
  BY <1>2, <1>7, FunctionIsSeq, Zenon
<1>9. {L[k] : k \in 1..N} = {TrimSpace(l) : l \in LinesOf(f) \ {<<>>}}
  BY <1>4, <1>5
<1>10. Len(L) \in 0..Len(L)
  BY <1>8
<1>11. /\ treeUpTo(f)[Len(L)] \in Trees
       /\ InMemory(treeUpTo(f)[Len(L)]) = {L[k] : k \in 1..Len(L)}
  BY <1>8, <1>10, TreeUpTo DEF L
<1> QED BY <1>8, <1>9, <1>11 DEF InitTree, L
-----------------------------------------------------------------------------
\* The scan.

LEMMA ShortestIn ==
  ASSUME NEW L \in SUBSET Nat, L # {}
  PROVE  Shortest(L) \in L
<1>1. \E n \in L : \A m \in L : n <= m
  BY LeastElement
<1> QED BY <1>1, Zenon DEF Shortest

\* The lengths at a place are those of the words of the tree that stand there.
LEMMA LengthsOfWords ==
  ASSUME NEW t \in Trees, NEW txt \in Seq(Chars), NEW i \in 1..Len(txt)
  PROVE  /\ LengthsAt(t, txt, i) \subseteq 1..Len(txt) + 1 - i
         /\ \A n \in LengthsAt(t, txt, i) :
              \E w \in InMemory(t) : StandsAt(w, txt, i) /\ Len(w) = n
         /\ \A w \in InMemory(t) : StandsAt(w, txt, i) => Len(w) \in LengthsAt(t, txt, i)
<1>1. Len(txt) \in Nat /\ txt[i] \in Chars
  OBVIOUS
<1>2. \A n \in t.lenSlice[txt[i]] : n \in Nat /\ n >= 1
  BY <1>1 DEF Trees
<1>3. LengthsAt(t, txt, i) \subseteq 1..Len(txt) + 1 - i
  BY <1>1, <1>2 DEF LengthsAt
<1>4. ASSUME NEW n \in LengthsAt(t, txt, i)
      PROVE  \E w \in InMemory(t) : StandsAt(w, txt, i) /\ Len(w) = n
  <2>1. /\ n \in Nat /\ n >= 1
        /\ i + n - 1 <= Len(txt)
        /\ SubSeq(txt, i, i + n - 1) \in t.words[txt[i]]
    BY <1>2, <1>4 DEF LengthsAt
  <2>2. Len(SubSeq(txt, i, i + n - 1)) = n
    <3>1. i \in Int /\ i + n - 1 \in Int /\ i <= i + n - 1 /\ (i + n - 1) - i + 1 = n
      BY <2>1
    <3>2. \A k \in i..i + n - 1 : txt[k] \in Chars
      BY <2>1
    <3> QED BY <3>1, <3>2, SubSeqProperties
  <2>3. SubSeq(txt, i, i + n - 1) \in InMemory(t)
    BY <1>1, <2>1 DEF InMemory
  <2>4. StandsAt(SubSeq(txt, i, i + n - 1), txt, i)
    BY <2>1, <2>2 DEF StandsAt
  <2> QED BY <2>2, <2>3, <2>4
<1>5. ASSUME NEW w \in InMemory(t), StandsAt(w, txt, i)
      PROVE  Len(w) \in LengthsAt(t, txt, i)
  <2>1. PICK c \in Chars : w \in t.words[c] /\ w[1] = c /\ Len(w) \in t.lenSlice[c] /\ w \in NonEmpty
    BY <1>5 DEF InMemory, Trees
  <2>2. Len(w) \in Nat /\ Len(w) >= 1
    BY <2>1 DEF NonEmpty
  <2>3. SubSeq(txt, i, i + Len(w) - 1)[1] = txt[i]
    <3>1. i \in Int /\ i + Len(w) - 1 \in Int /\ 1 \in 1..(i + Len(w) - 1) - i + 1 /\ i + 1 - 1 = i
      BY <2>2
    <3>2. \A k \in i..i + Len(w) - 1 : txt[k] \in Chars
      BY <1>5, <2>2 DEF StandsAt
    <3> QED BY <3>1, <3>2, SubSeqProperties
  <2>4. c = txt[i]
    BY <1>5, <2>1, <2>3 DEF StandsAt
  <2> QED BY <1>5, <2>1, <2>4 DEF LengthsAt, StandsAt
<1> QED BY <1>3, <1>4, <1>5

\* The body of foundFrom, with f for what it finds further on.
ScanStep(t, txt, f, i) ==
  IF i > Len(txt) THEN {}
  ELSE LET L == LengthsAt(t, txt, i)
       IN  IF L = {} THEN f[i + 1]
           ELSE {<<i, i + Shortest(L) - 1>>} \cup f[i + Shortest(L)]

ScanBody(t, txt, f, lo) == [i \in lo..Len(txt) + 1 |-> ScanStep(t, txt, f, i)]

\* A word at i is within the text, and the scan goes on at a later place.
LEMMA ScanGoesOn ==
  ASSUME NEW t \in Trees, NEW txt \in Seq(Chars), NEW i \in 1..Len(txt),
         LengthsAt(t, txt, i) # {}
  PROVE  LET n == Shortest(LengthsAt(t, txt, i))
         IN  n \in LengthsAt(t, txt, i) /\ n \in Nat /\ i + n \in i + 1..Len(txt) + 1
<1>1. LengthsAt(t, txt, i) \subseteq 1..Len(txt) + 1 - i
  BY LengthsOfWords
<1>2. Shortest(LengthsAt(t, txt, i)) \in LengthsAt(t, txt, i)
  BY <1>1, ShortestIn
<1> QED BY <1>1, <1>2

\* A step of the scan depends on what is found further on only.
LEMMA ScanStepLocal ==
  ASSUME NEW t \in Trees, NEW txt \in Seq(Chars), NEW i \in 1..Len(txt) + 1,
         NEW f, NEW g, \A j \in i + 1..Len(txt) + 1 : f[j] = g[j]
  PROVE  ScanStep(t, txt, f, i) = ScanStep(t, txt, g, i)
<1>1. Len(txt) \in Nat
  OBVIOUS
<1>2. CASE i > Len(txt)
  BY <1>2 DEF ScanStep
<1>3. CASE ~(i > Len(txt)) /\ LengthsAt(t, txt, i) = {}
  <2>1. f[i + 1] = g[i + 1]
    BY <1>1, <1>3
  <2> QED BY <1>3, <2>1 DEF ScanStep
<1>4. CASE ~(i > Len(txt)) /\ LengthsAt(t, txt, i) # {}
  <2>1. i \in 1..Len(txt)
    BY <1>1, <1>4
  <2>2. f[i + Shortest(LengthsAt(t, txt, i))] = g[i + Shortest(LengthsAt(t, txt, i))]
    BY <1>4, <2>1, ScanGoesOn
  <2> QED BY <1>4, <2>2 DEF ScanStep
<1> QED BY <1>2, <1>3, <1>4

\* foundFrom satisfies the equation that defines it. It runs downwards: a
\* function for the last k places is extended by one place at a time.
LEMMA FoundFromEquation ==
  ASSUME NEW t \in Trees, NEW txt \in Seq(Chars)
  PROVE  foundFrom(t, txt) = ScanBody(t, txt, foundFrom(t, txt), 1)
<1> DEFINE N == Len(txt)
           S == {d \in Nat : d <= N => \E f : f = ScanBody(t, txt, f, N + 1 - d)}
<1>1. N \in Nat
  OBVIOUS
<1> HIDE DEF N
<1>2. 0 \in S
  <2> DEFINE f == [i \in N + 1..N + 1 |-> {}]
  <2>1. f = ScanBody(t, txt, f, N + 1 - 0)
    BY <1>1 DEF ScanBody, ScanStep, N
  <2> QED BY <2>1
<1>3. ASSUME NEW d \in Nat, d \in S PROVE d + 1 \in S
  <2> SUFFICES ASSUME d + 1 <= N PROVE \E f : f = ScanBody(t, txt, f, N + 1 - (d + 1))
    OBVIOUS
  <2>1. PICK f : f = ScanBody(t, txt, f, N + 1 - d)
    BY <1>1, <1>3
  <2> DEFINE g == [i \in N + 1 - (d + 1)..N + 1 |->
                     IF i = N + 1 - (d + 1) THEN ScanStep(t, txt, f, i) ELSE f[i]]
  <2>2. \A i \in N + 1 - d..N + 1 : g[i] = f[i]
    BY <1>1
  <2>3. ASSUME NEW i \in N + 1 - (d + 1)..N + 1
        PROVE  g[i] = ScanStep(t, txt, g, i)
    <3>1. \A j \in i + 1..N + 1 : f[j] = g[j]
      BY <1>1, <2>2
    <3>2. i \in 1..N + 1
      BY <1>1
    <3> HIDE DEF g
    <3>3. ScanStep(t, txt, f, i) = ScanStep(t, txt, g, i)
      BY <3>1, <3>2, ScanStepLocal DEF N
    <3>4. g[i] = ScanStep(t, txt, f, i)
      <4>1. CASE i = N + 1 - (d + 1)
        BY <4>1 DEF g
      <4>2. CASE i # N + 1 - (d + 1)
        <5>1. i \in N + 1 - d..N + 1
          BY <1>1, <4>2
        <5> QED BY <2>1, <2>2, <5>1 DEF ScanBody, N
      <4> QED BY <4>1, <4>2
    <3> QED BY <3>3, <3>4
  <2>4. g = ScanBody(t, txt, g, N + 1 - (d + 1))
    BY <2>3 DEF ScanBody, N
  <2> QED BY <2>4
<1>4. N \in S
  <2> HIDE DEF S
  <2> QED BY <1>1, <1>2, <1>3, Induction
<1>5. PICK f : f = ScanBody(t, txt, f, 1)
  <2>1. N + 1 - N = 1
    BY <1>1
  <2> QED BY <1>4, <1>1, <2>1
<1> QED BY <1>5, Zenon DEF foundFrom, ScanBody, ScanStep

\* What is found from place i on: each pair is a word of the tree that stands
\* there, and every place at which a word stands is within some pair.
Sound(t, txt, i) ==
  \A p \in foundFrom(t, txt)[i] :
    \E j \in i..Len(txt) : \E n \in LengthsAt(t, txt, j) : p = <<j, j + n - 1>>

Complete(t, txt, i) ==
  \A j \in i..Len(txt) :
    LengthsAt(t, txt, j) # {} => \E p \in foundFrom(t, txt)[i] : p[1] <= j /\ j <= p[2]

LEMMA FoundFromStep ==
  ASSUME NEW t \in Trees, NEW txt \in Seq(Chars), NEW i \in 1..Len(txt) + 1,
         \A j \in i + 1..Len(txt) + 1 : Sound(t, txt, j) /\ Complete(t, txt, j)
  PROVE  Sound(t, txt, i) /\ Complete(t, txt, i)
<1> DEFINE F == foundFrom(t, txt)
           L == LengthsAt(t, txt, i)
           n == Shortest(L)
<1>1. Len(txt) \in Nat
  OBVIOUS
<1>2. F[i] = ScanStep(t, txt, F, i)
  BY FoundFromEquation DEF ScanBody
<1> HIDE DEF F
<1>3. CASE i > Len(txt)
  <2>1. F[i] = {} /\ i..Len(txt) = {}
    BY <1>1, <1>2, <1>3 DEF ScanStep
  <2> QED BY <2>1 DEF Sound, Complete, F
<1>4. CASE i <= Len(txt) /\ L = {}
  <2>1. F[i] = F[i + 1]
    BY <1>1, <1>2, <1>4 DEF ScanStep
  <2>2. Sound(t, txt, i + 1) /\ Complete(t, txt, i + 1)
    BY <1>1, <1>4
  <2>3. Sound(t, txt, i)
    BY <1>1, <2>1, <2>2 DEF Sound, F
  <2>4. Complete(t, txt, i)
    <3> SUFFICES ASSUME NEW j \in i..Len(txt), LengthsAt(t, txt, j) # {}
                 PROVE  \E p \in F[i] : p[1] <= j /\ j <= p[2]
      BY DEF Complete, F
    <3>1. j \in i + 1..Len(txt)
      BY <1>1, <1>4
    <3> QED BY <2>1, <2>2, <3>1 DEF Complete, F
  <2> QED BY <2>3, <2>4
<1>5. CASE i <= Len(txt) /\ L # {}
  <2>1. n \in L /\ n \in Nat /\ i + n \in i + 1..Len(txt) + 1
    BY <1>1, <1>5, ScanGoesOn
  <2> HIDE DEF n
  <2>2. F[i] = {<<i, i + n - 1>>} \cup F[i + n]
    BY <1>1, <1>2, <1>5 DEF ScanStep, n
  <2>3. Sound(t, txt, i + n) /\ Complete(t, txt, i + n)
    BY <2>1
  <2>4. Sound(t, txt, i)
    <3> SUFFICES ASSUME NEW p \in F[i]
                 PROVE  \E j \in i..Len(txt) : \E m \in LengthsAt(t, txt, j) : p = <<j, j + m - 1>>
      BY DEF Sound, F
    <3>1. CASE p = <<i, i + n - 1>>
      <4>1. i \in i..Len(txt)
        BY <1>1, <1>5
      <4> QED BY <2>1, <3>1, <4>1
    <3>2. CASE p \in F[i + n]
      <4>1. PICK j \in i + n..Len(txt) : \E m \in LengthsAt(t, txt, j) : p = <<j, j + m - 1>>
        BY <2>3, <3>2 DEF Sound, F
      <4>2. j \in i..Len(txt)
        BY <1>1, <2>1
      <4> QED BY <4>1, <4>2
    <3> QED BY <2>2, <3>1, <3>2
  <2>5. Complete(t, txt, i)
    <3> SUFFICES ASSUME NEW j \in i..Len(txt), LengthsAt(t, txt, j) # {}
                 PROVE  \E p \in F[i] : p[1] <= j /\ j <= p[2]
      BY DEF Complete, F
    <3>1. CASE j <= i + n - 1
      <4> DEFINE p == <<i, i + n - 1>>
      <4>1. p[1] <= j /\ j <= p[2]
        BY <3>1
      <4> QED BY <2>2, <4>1
    <3>2. CASE j > i + n - 1
      <4>1. j \in i + n..Len(txt)
        BY <1>1, <2>1, <3>2
      <4> QED BY <2>2, <2>3, <4>1 DEF Complete, F
    <3> QED BY <1>1, <2>1, <3>1, <3>2
  <2> QED BY <2>4, <2>5
<1> QED BY <1>1, <1>3, <1>4, <1>5

\* So it is from every place on, by induction from the end of the text.
LEMMA FoundRight ==
  ASSUME NEW t \in Trees, NEW txt \in Seq(Chars)
  PROVE  Sound(t, txt, 1) /\ Complete(t, txt, 1)
<1> DEFINE N == Len(txt)
           S == {d \in Nat : \A i \in 1..N + 1 :
                               i >= N + 1 - d => Sound(t, txt, i) /\ Complete(t, txt, i)}
<1>1. N \in Nat
  OBVIOUS
<1> HIDE DEF N
<1>2. 0 \in S
  <2>1. ASSUME NEW i \in 1..N + 1, i >= N + 1 PROVE Sound(t, txt, i) /\ Complete(t, txt, i)
    <3>1. \A j \in i + 1..N + 1 : Sound(t, txt, j) /\ Complete(t, txt, j)
      BY <1>1, <2>1
    <3> QED BY <3>1, FoundFromStep DEF N
  <2> QED BY <1>1, <2>1
<1>3. ASSUME NEW d \in Nat, d \in S PROVE d + 1 \in S
  <2>1. ASSUME NEW i \in 1..N + 1, i >= N + 1 - (d + 1)
        PROVE  Sound(t, txt, i) /\ Complete(t, txt, i)
    <3>1. \A j \in i + 1..N + 1 : Sound(t, txt, j) /\ Complete(t, txt, j)
      BY <1>1, <1>3, <2>1
    <3> QED BY <3>1, FoundFromStep DEF N
  <2> QED BY <1>1, <2>1
<1>4. N \in S
  <2> HIDE DEF S
  <2> QED BY <1>1, <1>2, <1>3, Induction
<1> QED BY <1>1, <1>4

\* The verdict on any text whatever, with any tree.
LEMMA VerdictOnText ==
  ASSUME NEW t \in Trees, NEW txt \in Seq(Chars)
  PROVE  Found(t, txt) # {} <=> \E w \in InMemory(t) : Occurs(w, txt)
<1>1. ASSUME NEW p \in Found(t, txt) PROVE \E w \in InMemory(t) : Occurs(w, txt)
  <2>1. PICK j \in 1..Len(txt) : LengthsAt(t, txt, j) # {}
    BY <1>1, FoundRight DEF Found, Sound
  <2> QED BY <2>1, LengthsOfWords DEF Occurs
<1>2. ASSUME NEW w \in InMemory(t), Occurs(w, txt) PROVE Found(t, txt) # {}
  <2>1. PICK j \in 1..Len(txt) : StandsAt(w, txt, j)
    BY <1>2 DEF Occurs
  <2>2. LengthsAt(t, txt, j) # {}
    BY <2>1, LengthsOfWords
  <2> QED BY <2>2, FoundRight DEF Found, Complete
<1> QED BY <1>1, <1>2

\* A word of the tree that stands in the masked text has a "*" where another was
\* masked: it would overlap a place that was found, or be found itself.
LEMMA MaskingOfText ==
  ASSUME NEW t \in Trees, NEW txt \in Seq(Chars)
  PROVE  LET m == Masked(t, txt)
             In(k) == \E v \in InMemory(t), i \in 1..k : StandsAt(v, txt, i) /\ k < i + Len(v)
         IN  /\ \A w \in InMemory(t), i \in 1..Len(txt) :
                  StandsAt(w, m, i) => \E k \in 1..Len(w) : w[k] = Mask /\ In(i + k - 1)
             /\ \A k \in 1..Len(txt) : m[k] # txt[k] => m[k] = Mask /\ In(k)
<1> DEFINE N == Len(txt)
           m == Masked(t, txt)
           Within(k) == \E p \in Found(t, txt) : p[1] <= k /\ k <= p[2]
           In(k) == \E v \in InMemory(t), i \in 1..k : StandsAt(v, txt, i) /\ k < i + Len(v)
<1>1. N \in Nat /\ Len(m) = N /\ m \in Seq(Chars \cup {Mask})
  <2>1. N \in Nat /\ m \in [1..N -> Chars \cup {Mask}]
    BY DEF Masked
  <2>2. m \in Seq(Chars \cup {Mask})
    BY <2>1, SeqDef
  <2>3. DOMAIN m = 1..N /\ DOMAIN m = 1..Len(m) /\ Len(m) \in Nat
    BY <2>1, <2>2, LenProperties
  <2> HIDE DEF m, N
  <2> QED BY <2>1, <2>2, <2>3
<1>2. \A k \in 1..N : m[k] = IF Within(k) THEN Mask ELSE txt[k]
  BY DEF Masked
<1>3. \A k \in 1..N : txt[k] \in Chars
  OBVIOUS
<1> HIDE DEF m, N
<1>4. ASSUME NEW k \in 1..N, Within(k) PROVE In(k)
  <2>1. PICK p \in Found(t, txt) : p[1] <= k /\ k <= p[2]
    BY <1>4
  <2>2. PICK j \in 1..N : \E n \in LengthsAt(t, txt, j) : p = <<j, j + n - 1>>
    BY FoundRight DEF Found, Sound, N
  <2>3. PICK n \in LengthsAt(t, txt, j) : p = <<j, j + n - 1>>
    BY <2>2
  <2>4. PICK v \in InMemory(t) : StandsAt(v, txt, j) /\ Len(v) = n
    BY LengthsOfWords DEF N
  <2>5. n \in Nat
    BY <1>1, LengthsOfWords DEF N
  <2>6. j \in 1..k /\ k < j + Len(v)
    BY <1>1, <2>1, <2>3, <2>4, <2>5
  <2> QED BY <2>4, <2>6
<1>5. ASSUME NEW w \in InMemory(t), NEW j \in 1..N, StandsAt(w, m, j),
             ~\E k \in 1..Len(w) : w[k] = Mask /\ In(j + k - 1)
      PROVE  FALSE
  <2>2. w \in Seq(Chars) /\ Len(w) \in Nat /\ Len(w) >= 1
    BY MemoryNonEmpty DEF NonEmpty
  <2>3. j + Len(w) - 1 <= N /\ w = SubSeq(m, j, j + Len(w) - 1)
    BY <1>1, <1>5 DEF StandsAt
  <2>4. \A k \in 1..Len(w) : w[k] = m[j + k - 1]
    <3>1. j \in Int /\ j + Len(w) - 1 \in Int /\ (j + Len(w) - 1) - j + 1 = Len(w)
      BY <2>2
    <3>2. \A k \in j..j + Len(w) - 1 : m[k] \in Chars \cup {Mask}
      BY <1>1, <2>2, <2>3
    <3> QED BY <2>3, <3>1, <3>2, SubSeqProperties
  <2>5. \A k \in 1..Len(w) : w[k] = txt[j + k - 1] /\ ~Within(j + k - 1)
    <3> TAKE k \in 1..Len(w)
    <3>1. j + k - 1 \in 1..N
      BY <1>1, <2>2, <2>3
    <3>2. ~Within(j + k - 1)
      <4> SUFFICES ASSUME Within(j + k - 1) PROVE FALSE
        OBVIOUS
      <4>1. w[k] = Mask
        BY <1>2, <2>4, <3>1
      <4>2. In(j + k - 1)
        BY <1>4, <3>1
      <4> HIDE DEF In, Within
      <4> QED BY <1>5, <4>1, <4>2
    <3> QED BY <1>2, <2>4, <3>1, <3>2
  <2>6. StandsAt(w, txt, j)
    <3>1. j \in Int /\ j + Len(w) - 1 \in Int /\ (j + Len(w) - 1) - j + 1 = Len(w) /\ j <= j + Len(w) - 1
      BY <2>2
    <3>2. \A k \in j..j + Len(w) - 1 : txt[k] \in Chars
      BY <1>1, <1>3, <2>2, <2>3
    <3> DEFINE s == SubSeq(txt, j, j + Len(w) - 1)
    <3>3. s \in Seq(Chars) /\ Len(s) = Len(w) /\ \A k \in 1..Len(w) : s[k] = txt[j + k - 1]
      BY <3>1, <3>2, SubSeqProperties
    <3> HIDE DEF s
    <3>4. s = w
      BY <2>2, <2>5, <3>3, SeqEqual
    <3> QED BY <1>1, <2>3, <3>4 DEF StandsAt, s, N
  <2>7. LengthsAt(t, txt, j) # {}
    BY <2>6, LengthsOfWords DEF N
  <2>8. Within(j)
    BY <2>7, FoundRight DEF Found, Complete, N
  <2> QED BY <2>2, <2>5, <2>8
<1>6. ASSUME NEW k \in 1..N, m[k] # txt[k] PROVE m[k] = Mask /\ In(k)
  BY <1>2, <1>4, <1>6
<1> HIDE DEF In
<1>7. \A w \in InMemory(t), i \in 1..N :
        StandsAt(w, m, i) => \E k \in 1..Len(w) : w[k] = Mask /\ In(i + k - 1)
  BY <1>5
<1> QED BY <1>6, <1>7 DEF N, m, In
-----------------------------------------------------------------------------
\* The file.

FileOK(f) ==
  /\ f \in Seq(Seq(Chars))
  /\ f # <<>>
  /\ \A k \in 1..Len(f) - 1 : f[k] # <<>>

NoLineTwice(f) == \A k, l \in 1..Len(f) : f[k] = f[l] => k = l

\* What addToFile writes when no line is the word: to all lines but the last
\* nothing happens.
LEMMA AddToFile ==
  ASSUME NEW f, FileOK(f), NEW w \in NonEmpty, w \notin LinesOf(f)
  PROVE  LET g == addToFile(f, w)
         IN  /\ FileOK(g)
             /\ g # f
             /\ g[Len(g)] = <<>>
             /\ LinesOf(f) \ {f[Len(f)]} \subseteq LinesOf(g)
             /\ LinesOf(g) \subseteq LinesOf(f) \cup {f[Len(f)] \o w, <<>>}
             /\ f[Len(f)] = <<>> =>
                  /\ LinesOf(g) = LinesOf(f) \cup {w}
                  /\ NoLineTwice(f) => NoLineTwice(g)
<1> DEFINE N == Len(f)
           last == f[N] \o w
           e == [f EXCEPT ![N] = last]
           g == Append(e, <<>>)
<1>1. /\ f \in Seq(Seq(Chars)) /\ N \in Nat /\ N >= 1 /\ w \in Seq(Chars) /\ w # <<>>
      /\ \A k \in 1..N - 1 : f[k] # <<>>
  BY DEF FileOK, NonEmpty
<1>n. N \in Nat /\ N >= 1
  BY <1>1
<1>2. last \in Seq(Chars) /\ last # <<>> /\ (f[N] = <<>> => last = w)
  <2>1. f[N] \in Seq(Chars)
    BY <1>1
  <2> USE DEF last
  <2>2. last \in Seq(Chars)
    BY <1>1, <2>1, ConcatProperties, Zenon
  <2>3. last # <<>>
    <3>1. f[N] \o w = <<>> <=> f[N] = <<>> /\ w = <<>>
      <4> HIDE DEF N
      <4> QED BY <1>1, <2>1, ConcatEqualIffEmpty
    <3> QED BY <1>1, <3>1
  <2>4. f[N] = <<>> => last = w
    <3> SUFFICES ASSUME f[N] = <<>> PROVE <<>> \o w = w
      OBVIOUS
    <3> QED BY <1>1, ConcatEmptySeq, Zenon
  <2> QED BY <2>2, <2>3, <2>4
<1> HIDE DEF last
<1>3. /\ e \in Seq(Seq(Chars)) /\ Len(e) = N
      /\ \A k \in 1..N : e[k] = IF k = N THEN last ELSE f[k]
  BY <1>1, <1>2, ExceptSeq
<1> HIDE DEF e
<1>4. /\ g \in Seq(Seq(Chars)) /\ Len(g) = N + 1
      /\ \A k \in 1..N + 1 : g[k] = IF k = N + 1 THEN <<>> ELSE e[k]
  BY <1>1, <1>3, <<>> \in Seq(Chars)
<1>5. addToFile(f, w) = g
  BY DEF addToFile, LinesOf, e, last
<1> HIDE DEF g, N
<1>6. ASSUME NEW k \in 1..N - 1 PROVE g[k] = f[k] /\ f[k] # <<>>
  <2>1. k \in 1..N /\ k \in 1..N + 1 /\ k # N /\ k # N + 1
    BY <1>n
  <2> QED BY <1>1, <1>3, <1>4, <2>1, Zenon
<1>7. g[N] = last /\ g[N] # <<>> /\ g[N + 1] = <<>>
  BY <1>1, <1>2, <1>3, <1>4
<1>8. FileOK(g) /\ g[Len(g)] = <<>>
  <2>1. g # <<>>
    BY <1>1, <1>4
  <2>2. ASSUME NEW k \in 1..Len(g) - 1 PROVE g[k] # <<>>
    <3>1. Len(g) = N + 1
      BY <1>4
    <3>2. k \in 1..N - 1 \/ k = N
      BY <1>n, <3>1
    <3> QED BY <1>6, <1>7, <3>2, Zenon
  <2> QED BY <1>4, <1>7, <2>1, <2>2 DEF FileOK
<1>9. g # f
  BY <1>1, <1>4 DEF N
<1>10. LinesOf(f) \ {f[N]} \subseteq LinesOf(g)
  <2> SUFFICES ASSUME NEW k \in 1..N, f[k] # f[N] PROVE f[k] \in LinesOf(g)
    BY DEF LinesOf, N
  <2>1. k \in 1..N - 1 /\ k \in 1..N + 1
    BY <1>1
  <2> QED BY <1>4, <1>6, <2>1 DEF LinesOf
<1>11. ASSUME f[N] = <<>> PROVE LinesOf(g) = LinesOf(f) \cup {w}
  <2>1. g[N] = w
    BY <1>2, <1>7, <1>11
  <2>2. ASSUME NEW k \in 1..N + 1 PROVE g[k] \in LinesOf(f) \cup {w}
    <3>1. (k \in 1..N - 1 /\ k \in 1..N) \/ k = N \/ k = N + 1
      BY <1>n
    <3>2. f[N] \in LinesOf(f)
      BY <1>n DEF LinesOf, N
    <3>3. k \in 1..N => f[k] \in LinesOf(f)
      BY DEF LinesOf, N
    <3> QED BY <1>6, <1>7, <1>11, <2>1, <3>1, <3>2, <3>3, Zenon
  <2>3. \A k \in 1..N : f[k] \in LinesOf(g)
    <3> TAKE k \in 1..N
    <3>1. CASE k = N
      BY <1>1, <1>4, <1>7, <1>11, <3>1 DEF LinesOf
    <3>2. CASE k # N
      BY <1>1, <1>4, <1>6, <3>2 DEF LinesOf
    <3> QED BY <3>1, <3>2
  <2>4. w \in LinesOf(g)
    BY <1>1, <1>4, <2>1 DEF LinesOf
  <2> QED BY <1>4, <2>2, <2>3, <2>4 DEF LinesOf, N
<1>12. ASSUME f[N] = <<>>, NoLineTwice(f) PROVE NoLineTwice(g)
  <2>1. g[N] = w
    BY <1>2, <1>7, <1>12
  <2>2. \A k \in 1..N - 1 : k \in 1..N
    BY <1>n
  <2>3. \A k \in 1..N - 1 : g[k] # w /\ g[k] # <<>>
    BY <1>6, <2>2, Zenon DEF LinesOf, N
  <2>5. \A k, l \in 1..N - 1 : g[k] = g[l] => k = l
    BY <1>6, <1>12, <2>2, Zenon DEF NoLineTwice, N
  <2>4. \A k, l \in 1..N + 1 : g[k] = g[l] => k = l
    <3> SUFFICES ASSUME NEW k \in 1..N + 1, NEW l \in 1..N + 1, g[k] = g[l], k < l PROVE FALSE
      BY <1>n
    <3>1. (k \in 1..N - 1 /\ l # k) \/ (k = N /\ l = N + 1)
      BY <1>n
    <3>2. l \in 1..N - 1 \/ l = N \/ l = N + 1
      BY <1>n
    <3> QED BY <1>7, <2>1, <2>3, <2>5, <3>1, <3>2, Zenon
  <2> QED BY <1>4, <2>4 DEF NoLineTwice
<1>13. LinesOf(g) \subseteq LinesOf(f) \cup {last, <<>>}
  <2> SUFFICES ASSUME NEW k \in 1..N + 1 PROVE g[k] \in LinesOf(f) \cup {last, <<>>}
    BY <1>4 DEF LinesOf
  <2>1. (k \in 1..N - 1 /\ k \in 1..N) \/ k = N \/ k = N + 1
    BY <1>n
  <2>2. k \in 1..N => f[k] \in LinesOf(f)
    BY DEF LinesOf, N
  <2> QED BY <1>6, <1>7, <2>1, <2>2, Zenon
<1> QED BY <1>5, <1>8, <1>9, <1>10, <1>11, <1>12, <1>13 DEF N, last

\* The states of delFromFile's loop on a file of N lines, and its rounds.
Sweeps(f) == [lines : {a \in Seq(Seq(Chars)) : Len(a) = Len(f)}, len : 0..Len(f)]

DelRound(w, i, s) ==
  IF i <= s.len /\ s.lines[i] = w
  THEN [lines |-> moved(s.lines, i, s.len), len |-> s.len - 1]
  ELSE s

DelRounds(f, w) == [i \in 1..Len(f) |-> [s \in Sweeps(f) |-> DelRound(w, i, s)]]

DelBody(f, w, g) ==
  [i \in 0..Len(f) |-> IF i = 0 THEN [lines |-> f, len |-> Len(f)] ELSE DelRound(w, i, g[i - 1])]

\* What the slicing in place does to the array.
LEMMA Moved ==
  ASSUME NEW a \in Seq(Seq(Chars)), NEW n \in 1..Len(a), NEW i \in 1..n
  PROVE  /\ moved(a, i, n) \in Seq(Seq(Chars))
         /\ Len(moved(a, i, n)) = Len(a)
         /\ \A k \in 1..Len(a) : moved(a, i, n)[k] = IF i <= k /\ k < n THEN a[k + 1] ELSE a[k]
<1> DEFINE b == moved(a, i, n)
<1>1. Len(a) \in Nat /\ \A k \in 1..Len(a) : a[k] \in Seq(Chars)
  OBVIOUS
<1>2. /\ b \in [1..Len(a) -> Seq(Chars)]
      /\ \A k \in 1..Len(a) : b[k] = IF i <= k /\ k < n THEN a[k + 1] ELSE a[k]
  BY <1>1 DEF moved
<1> HIDE DEF b
<1>3. b \in Seq(Seq(Chars)) /\ Len(b) = Len(a)
  BY <1>1, <1>2, FunctionIsSeq, Zenon
<1> QED BY <1>2, <1>3 DEF b

LEMMA DelRoundSweeps ==
  ASSUME NEW f, FileOK(f), NEW w, NEW i \in 1..Len(f), NEW s \in Sweeps(f)
  PROVE  DelRound(w, i, s) \in Sweeps(f)
<1>1. CASE i <= s.len /\ s.lines[i] = w
  <2>1. /\ s.lines \in Seq(Seq(Chars)) /\ Len(s.lines) = Len(f)
        /\ s.len \in 1..Len(f) /\ i \in 1..s.len /\ s.len - 1 \in 0..Len(f)
    BY <1>1 DEF Sweeps, FileOK
  <2>2. moved(s.lines, i, s.len) \in {a \in Seq(Seq(Chars)) : Len(a) = Len(f)}
    BY <2>1, Moved
  <2> QED BY <1>1, <2>1, <2>2 DEF DelRound, Sweeps
<1>2. CASE ~(i <= s.len /\ s.lines[i] = w)
  BY <1>2 DEF DelRound
<1> QED BY <1>1, <1>2

\* linesAfter satisfies the equation that defines it.
LEMMA LinesAfterEquation ==
  ASSUME NEW f, FileOK(f), NEW w
  PROVE  linesAfter(f, w) = DelBody(f, w, linesAfter(f, w))
<1> DEFINE s0 == [lines |-> f, len |-> Len(f)]
<1>1. Len(f) \in Nat /\ s0 \in Sweeps(f)
  BY DEF FileOK, Sweeps
<1>2. DelRounds(f, w) \in [1..Len(f) -> [Sweeps(f) -> Sweeps(f)]]
  BY DelRoundSweeps DEF DelRounds
<1> HIDE DEF s0
<1>3. IsStepOn(Sweeps(f), s0, Len(f), DelRounds(f, w))
  BY <1>1, <1>2 DEF IsStepOn
<1>4. PICK g : Iterates(g, Sweeps(f), s0, Len(f), DelRounds(f, w))
  BY <1>3, PrimitiveRecursion, Zenon
<1>5. \A i \in 1..Len(f) : g[i] = DelRound(w, i, g[i - 1])
  <2> TAKE i \in 1..Len(f)
  <2>1. g[i - 1] \in Sweeps(f)
    BY <1>1, <1>4 DEF Iterates
  <2> QED BY <2>1, <1>4 DEF DelRounds, Iterates
<1>6. g = DelBody(f, w, g)
  BY <1>1, <1>4, <1>5 DEF DelBody, Iterates, s0
<1> QED BY <1>6, Zenon DEF linesAfter, DelBody, DelRound

\* What the loop keeps, after round i in state s: the lines that are left are
\* all lines but perhaps the word, in which no line but the last is blank; a
\* blank last line stays, and fills what is behind; of a file with no line
\* twice the word has been met once or is still to come.
Kept(f, w, i, s) ==
  LET left == {s.lines[k] : k \in 1..s.len}
  IN  LinesOf(f) \ {w} \subseteq left /\ left \subseteq LinesOf(f)

NoneBlank(s) == \A k \in 1..s.len - 1 : s.lines[k] # <<>>

BlankStays(f, s) ==
  f[Len(f)] = <<>> => s.len >= 1 /\ \A k \in s.len..Len(f) : s.lines[k] = <<>>

NoneTwice(f, w, i, s) ==
  NoLineTwice(f) =>
    /\ \A k, l \in 1..s.len : s.lines[k] = s.lines[l] => k = l
    /\ \/ s.lines = f /\ s.len = Len(f) /\ \A k \in 1..i : f[k] # w
       \/ \A k \in 1..Len(f) : k > i \/ k <= s.len => s.lines[k] # w

DelInv(f, w, i, s) ==
  /\ s \in Sweeps(f)
  /\ Kept(f, w, i, s)
  /\ NoneBlank(s)
  /\ BlankStays(f, s)
  /\ NoneTwice(f, w, i, s)

LEMMA DelStart ==
  ASSUME NEW f, FileOK(f), NEW w
  PROVE  DelInv(f, w, 0, [lines |-> f, len |-> Len(f)])
<1> DEFINE s == [lines |-> f, len |-> Len(f)]
<1>1. f \in Seq(Seq(Chars)) /\ Len(f) \in Nat /\ Len(f) >= 1
  BY DEF FileOK
<1>2. s \in Sweeps(f) /\ NoneBlank(s)
  BY <1>1 DEF Sweeps, NoneBlank, FileOK
<1>3. Kept(f, w, 0, s)
  BY DEF Kept, LinesOf
<1>4. BlankStays(f, s)
  BY <1>1 DEF BlankStays
<1>5. NoneTwice(f, w, 0, s)
  BY <1>1 DEF NoneTwice, NoLineTwice
<1> QED BY <1>2, <1>3, <1>4, <1>5 DEF DelInv

\* A round that removes line i.
LEMMA DelRemoves ==
  ASSUME NEW f, FileOK(f), NEW w, w # <<>>, NEW i \in 1..Len(f), NEW s,
         DelInv(f, w, i - 1, s), i <= s.len, s.lines[i] = w
  PROVE  DelInv(f, w, i, DelRound(w, i, s))
<1> DEFINE N == Len(f)
           a == s.lines
           n == s.len
           r == DelRound(w, i, s)
           b == r.lines
<1>1. N \in Nat /\ n \in 1..N /\ i \in 1..n /\ a \in Seq(Seq(Chars)) /\ Len(a) = N
  BY DEF DelInv, Sweeps, FileOK
<1>n. N \in Nat /\ n \in 1..N /\ i \in 1..n
  BY <1>1
<1>2. r = [lines |-> moved(a, i, n), len |-> n - 1]
  BY DEF DelRound
<1>3. r \in Sweeps(f)
  BY DelRoundSweeps DEF DelInv
<1>4. r.len = n - 1 /\ \A k \in 1..N : b[k] = IF i <= k /\ k < n THEN a[k + 1] ELSE a[k]
  <2>1. r.len = n - 1 /\ b = moved(a, i, n)
    BY <1>2
  <2> HIDE DEF r, n, N, a, b
  <2> QED BY <1>1, <2>1, Moved
<1> HIDE DEF r, n, N, a, b
\* The line at each place comes from this place or the next.
<1>5. /\ \A k \in 1..i - 1 : b[k] = a[k] /\ k \in 1..n /\ k \in 1..N
      /\ \A k \in i..n - 1 : b[k] = a[k + 1] /\ k \in 1..N /\ k + 1 \in 1..n
      /\ \A k \in n..N : b[k] = a[k] /\ k \in 1..N
  BY <1>1, <1>4
<1>6. \A k \in 1..n - 1 : k \in 1..i - 1 \/ k \in i..n - 1
  BY <1>1
<1>7. a[i] = w
  BY DEF a
<1>8. LinesOf(f) \ {w} \subseteq {a[k] : k \in 1..n} /\ {a[k] : k \in 1..n} \subseteq LinesOf(f)
  BY DEF DelInv, Kept, a, n
<1>9. Kept(f, w, i, r)
  <2>1. ASSUME NEW v \in {a[k] : k \in 1..n}, v # w PROVE v \in {b[k] : k \in 1..n - 1}
    <3>1. PICK k \in 1..n : v = a[k]
      BY <2>1
    <3>2. k # i
      BY <1>7, <2>1, <3>1
    <3>3. CASE k < i
      <4>1. k \in 1..i - 1 /\ k \in 1..n - 1
        BY <1>1, <3>3
      <4> QED BY <1>5, <3>1, <4>1
    <3>4. CASE k > i
      <4>1. k - 1 \in i..n - 1 /\ k - 1 \in 1..n - 1 /\ (k - 1) + 1 = k
        BY <1>1, <3>4
      <4> QED BY <1>5, <3>1, <4>1
    <3> QED BY <1>1, <3>2, <3>3, <3>4
  <2>2. {b[k] : k \in 1..n - 1} \subseteq {a[k] : k \in 1..n}
    BY <1>5, <1>6
  <2> QED BY <1>4, <1>8, <2>1, <2>2 DEF Kept, b
<1>10. NoneBlank(r)
  <2>1. \A k \in 1..n - 1 : a[k] # <<>>
    BY DEF DelInv, NoneBlank, a, n
  <2> SUFFICES ASSUME NEW k \in 1..r.len - 1 PROVE b[k] # <<>>
    BY DEF NoneBlank, b
  <2>2. CASE k \in 1..i - 1
    <3>1. k \in 1..n - 1
      BY <1>1, <2>2
    <3> QED BY <1>5, <2>1, <2>2, <3>1
  <2>3. CASE k \in i..n - 1
    <3>1. k + 1 \in 1..n - 1
      BY <1>1, <1>4, <2>3
    <3> QED BY <1>5, <2>1, <2>3, <3>1
  <2> QED BY <1>1, <1>4, <2>2, <2>3
<1>11. BlankStays(f, r)
  <2> SUFFICES ASSUME f[N] = <<>> PROVE r.len >= 1 /\ \A k \in r.len..N : b[k] = <<>>
    BY DEF BlankStays, N, b
  <2>1. \A k \in n..N : a[k] = <<>>
    BY DEF DelInv, BlankStays, a, n, N
  <2>2. i < n
    BY <1>1, <1>7, <2>1
  <2>3. ASSUME NEW k \in n - 1..N PROVE b[k] = <<>>
    <3>1. CASE k = n - 1
      <4>1. k \in i..n - 1 /\ k + 1 = n /\ n \in n..N
        BY <1>1, <2>2, <3>1
      <4>2. b[k] = a[n]
        BY <1>5, <4>1
      <4> QED BY <2>1, <4>1, <4>2, Zenon
    <3>2. CASE k \in n..N
      BY <1>5, <2>1, <3>2, Zenon
    <3>3. k = n - 1 \/ k \in n..N
      BY <1>n
    <3> QED BY <3>1, <3>2, <3>3
  <2>4. r.len = n - 1 /\ n - 1 >= 1
    BY <1>1, <1>4, <2>2
  <2> QED BY <2>3, <2>4
<1>12. NoneTwice(f, w, i, r)
  <2> SUFFICES ASSUME NoLineTwice(f)
               PROVE  /\ \A k, l \in 1..n - 1 : b[k] = b[l] => k = l
                      /\ \A k \in 1..N : k > i \/ k <= n - 1 => b[k] # w
    BY <1>4 DEF NoneTwice, N, b
  <2>1. \A k, l \in 1..n : a[k] = a[l] => k = l
    BY DEF DelInv, NoneTwice, a, n
  <2>2. \A k, l \in 1..n - 1 : b[k] = b[l] => k = l
    <3> TAKE k \in 1..n - 1, l \in 1..n - 1
    <3>1. CASE k \in 1..i - 1 /\ l \in 1..i - 1
      BY <1>5, <2>1, <3>1
    <3>2. CASE k \in i..n - 1 /\ l \in i..n - 1
      <4>1. b[k] = a[k + 1] /\ b[l] = a[l + 1] /\ k + 1 \in 1..n /\ l + 1 \in 1..n
        BY <1>5, <3>2, Zenon
      <4>2. b[k] = b[l] => k + 1 = l + 1
        BY <2>1, <4>1, Zenon
      <4> QED BY <4>2
    <3>3. CASE k \in 1..i - 1 /\ l \in i..n - 1
      BY <1>1, <1>5, <2>1, <3>3
    <3>4. CASE k \in i..n - 1 /\ l \in 1..i - 1
      BY <1>1, <1>5, <2>1, <3>4
    <3> QED BY <1>6, <3>1, <3>2, <3>3, <3>4
  <2>3. a = f /\ n = N
    <3>1. ~(\A k \in 1..N : k > i - 1 \/ k <= n => a[k] # w)
      BY <1>1, <1>7
    <3> QED BY <3>1 DEF DelInv, NoneTwice, a, n, N
  <2>4. \A k \in 1..N : k # i => a[k] # w
    BY <1>1, <1>7, <2>1, <2>3
  <2>5. ASSUME NEW k \in 1..N, k > i \/ k <= n - 1 PROVE b[k] # w
    <3>1. CASE k \in 1..i - 1
      BY <1>1, <1>5, <2>4, <3>1
    <3>2. CASE k \in i..n - 1
      <4>1. k + 1 \in 1..N /\ k + 1 # i
        BY <1>1, <3>2
      <4> QED BY <1>5, <2>4, <3>2, <4>1
    <3>3. CASE k \in n..N
      <4>1. k # i
        BY <1>1, <2>5, <3>3
      <4> QED BY <1>5, <2>4, <3>3, <4>1
    <3> QED BY <1>1, <3>1, <3>2, <3>3
  <2> QED BY <2>2, <2>5
<1> QED BY <1>3, <1>9, <1>10, <1>11, <1>12 DEF DelInv, r

\* A round that leaves everything as it is.
LEMMA DelPasses ==
  ASSUME NEW f, FileOK(f), NEW w, NEW i \in 1..Len(f), NEW s,
         DelInv(f, w, i - 1, s), ~(i <= s.len /\ s.lines[i] = w)
  PROVE  DelInv(f, w, i, DelRound(w, i, s))
<1>1. DelRound(w, i, s) = s
  BY DEF DelRound
<1>2. NoneTwice(f, w, i, s)
  <2> SUFFICES ASSUME NoLineTwice(f), s.lines = f, s.len = Len(f), \A k \in 1..i - 1 : f[k] # w
               PROVE  \A k \in 1..i : f[k] # w
    BY DEF DelInv, NoneTwice, Sweeps
  <2> QED OBVIOUS
<1> QED BY <1>1, <1>2 DEF DelInv, Kept

\* The loop keeps DelInv, by induction over its rounds.
LEMMA DelLoop ==
  ASSUME NEW f, FileOK(f), NEW w, w # <<>>, NEW i \in 0..Len(f)
  PROVE  DelInv(f, w, i, linesAfter(f, w)[i])
<1> DEFINE S == {k \in Nat : k <= Len(f) => DelInv(f, w, k, linesAfter(f, w)[k])}
<1>1. Len(f) \in Nat
  BY DEF FileOK
<1>2. 0 \in S
  BY <1>1, DelStart, LinesAfterEquation DEF DelBody
<1>3. ASSUME NEW k \in Nat, k \in S PROVE k + 1 \in S
  <2> SUFFICES ASSUME k + 1 <= Len(f) PROVE DelInv(f, w, k + 1, linesAfter(f, w)[k + 1])
    OBVIOUS
  <2> DEFINE s == linesAfter(f, w)[k]
  <2>1. k + 1 \in 1..Len(f) /\ (k + 1) - 1 = k
    BY <1>1
  <2>2. linesAfter(f, w)[k + 1] = DelRound(w, k + 1, s)
    BY <1>1, <2>1, LinesAfterEquation DEF DelBody
  <2>3. DelInv(f, w, (k + 1) - 1, s)
    BY <1>3, <2>1
  <2> HIDE DEF s
  <2> QED BY <2>1, <2>2, <2>3, DelRemoves, DelPasses
<1>4. i \in S
  <2> HIDE DEF S
  <2> QED BY <1>1, <1>2, <1>3, Induction
<1> QED BY <1>4

\* What delFromFile leaves of a file.
LEMMA DelFromFile ==
  ASSUME NEW f, FileOK(f), NEW w, w # <<>>
  PROVE  LET g == delFromFile(f, w)
         IN  /\ FileOK(g)
             /\ LinesOf(f) \ {w} \subseteq LinesOf(g)
             /\ LinesOf(g) \subseteq LinesOf(f) \cup {<<>>}
             /\ f[Len(f)] = <<>> => g[Len(g)] = <<>>
             /\ NoLineTwice(f) => NoLineTwice(g) /\ w \notin LinesOf(g)
<1> DEFINE N == Len(f)
           s == linesAfter(f, w)[N]
           a == s.lines
           n == s.len
           g == delFromFile(f, w)
<1>1. N \in Nat /\ N >= 1 /\ DelInv(f, w, N, s)
  BY DelLoop DEF FileOK
<1>2. a \in Seq(Seq(Chars)) /\ Len(a) = N /\ n \in 0..N
  BY <1>1 DEF DelInv, Sweeps
<1>3. LinesOf(f) \ {w} \subseteq {a[k] : k \in 1..n} /\ {a[k] : k \in 1..n} \subseteq LinesOf(f)
  BY <1>1 DEF DelInv, Kept
<1>4. g = IF n = 0 THEN << <<>> >> ELSE SubSeq(a, 1, n)
  BY DEF delFromFile
<1>5. \A k \in 1..n - 1 : a[k] # <<>>
  BY <1>1 DEF DelInv, NoneBlank
<1>6. f[N] = <<>> => n >= 1 /\ a[n] = <<>>
  BY <1>1, <1>2 DEF DelInv, BlankStays
<1>7. ASSUME NoLineTwice(f)
      PROVE  (\A k, l \in 1..n : a[k] = a[l] => k = l) /\ \A k \in 1..n : a[k] # w
  BY <1>1, <1>2, <1>7 DEF DelInv, NoneTwice
<1> HIDE DEF s, g
<1>8. CASE n = 0
  <2>1. g = << <<>> >> /\ Len(g) = 1 /\ g[1] = <<>> /\ g \in Seq(Seq(Chars)) /\ g # <<>>
    BY <1>4, <1>8, <<>> \in Seq(Chars)
  <2>2. LinesOf(g) = {<<>>}
    BY <2>1 DEF LinesOf
  <2>3. FileOK(g) /\ NoLineTwice(g)
    BY <2>1 DEF FileOK, NoLineTwice
  <2>4. LinesOf(f) \ {w} = {}
    BY <1>3, <1>8
  <2> QED BY <2>1, <2>2, <2>3, <2>4 DEF g
<1>9. CASE n >= 1
  <2> HIDE DEF a, n, N
  <2>1. g \in Seq(Seq(Chars)) /\ Len(g) = n /\ \A k \in 1..n : g[k] = a[k]
    BY <1>2, <1>4, <1>9, Prefix
  <2>2. LinesOf(g) = {a[k] : k \in 1..n}
    BY <2>1 DEF LinesOf
  <2>3. \A k \in 1..n - 1 : g[k] # <<>>
    BY <1>2, <1>5, <2>1
  <2>4. g # <<>>
    BY <1>9, <2>1
  <2>5. FileOK(g)
    BY <2>1, <2>3, <2>4 DEF FileOK
  <2>6. n \in 1..n
    BY <1>2, <1>9
  <2>7. f[N] = <<>> => g[Len(g)] = <<>>
    BY <1>6, <2>1, <2>6
  <2>8. NoLineTwice(f) => NoLineTwice(g) /\ w \notin LinesOf(g)
    BY <1>7, <2>1, <2>2 DEF NoLineTwice
  <2> QED BY <1>3, <2>2, <2>5, <2>7, <2>8 DEF g, N
<1> QED BY <1>2, <1>8, <1>9

-----------------------------------------------------------------------------
\* The inductive invariant. Memory holds words of the trimmed list, of the
\* deleted and of the torn only; until a word is torn no line is in the file
\* twice and none is a deleted word; and once one was torn the file ends with a
\* newline, so that it cannot happen again.
TypeInv ==
  /\ tree \in Trees
  /\ FileOK(file)
  /\ NotBlank(file)
  /\ deleted \subseteq Words

MemoryInv == InMemory(tree) \subseteq {TrimSpace(l) : l \in LinesOf(file)} \cup deleted \cup torn

FileInv ==
  /\ torn = {} => NoLineTwice(file) /\ LinesOf(file) \cap deleted = {}
  /\ file[Len(file)] # <<>> => torn = {}

IInv == TypeInv /\ MemoryInv /\ FileInv

LEMMA WordsNonEmpty ==
  ASSUME NEW w \in Words
  PROVE  w \in NonEmpty /\ w # <<>> /\ w \in Seq(Chars) /\ TrimSpace(w) = w
BY WordsAssumption DEF NonEmpty

\* What is read from a file.
LEMMA InitReads ==
  ASSUME NEW f, FileOK(f), NotBlank(f)
  PROVE  InitTree(f) \in Trees /\ InMemory(InitTree(f)) \subseteq {TrimSpace(l) : l \in LinesOf(f)}
BY InitTreeReads DEF FileOK

LEMMA InitIInv == Init => IInv
<1> SUFFICES ASSUME Init PROVE IInv
  OBVIOUS
<1>1. /\ file \in Seq(Seq(Chars)) /\ file # <<>>
      /\ \A k \in 1..Len(file) : (k < Len(file) \/ file[k] # <<>>) => TrimSpace(file[k]) # <<>>
      /\ NoLineTwice(file)
  BY FilesAssumption DEF Init, NoLineTwice
<1>2. NotBlank(file)
  BY <1>1 DEF NotBlank, LinesOf
<1>3. FileOK(file)
  <2>1. Len(file) \in Nat
    BY <1>1
  <2>2. TrimSpace(<<>>) = <<>>
    <3>1. <<>> \in Seq(Chars) /\ Places(<<>>) = {}
      BY DEF Places
    <3> QED BY <3>1, Trimmed
  <2>3. ASSUME NEW k \in 1..Len(file) - 1 PROVE file[k] # <<>>
    <3>1. k \in 1..Len(file) /\ k < Len(file)
      BY <2>1
    <3> QED BY <1>1, <2>2, <3>1
  <2> QED BY <1>1, <2>3 DEF FileOK
<1>4. tree \in Trees /\ InMemory(tree) \subseteq {TrimSpace(l) : l \in LinesOf(file)}
  BY <1>2, <1>3, InitReads DEF Init
<1>5. deleted = {} /\ torn = {}
  BY DEF Init
<1> QED BY <1>1, <1>2, <1>3, <1>4, <1>5 DEF IInv, TypeInv, MemoryInv, FileInv

LEMMA RestartIInv == IInv /\ Restart => IInv'
<1> SUFFICES ASSUME IInv, Restart PROVE IInv'
  OBVIOUS
<1> USE DEF IInv, TypeInv, MemoryInv, FileInv
<1>1. tree' = InitTree(file) /\ deleted' = {} /\ file' = file /\ torn' = torn
  BY DEF Restart
<1>2. tree' \in Trees /\ InMemory(tree') \subseteq {TrimSpace(l) : l \in LinesOf(file)}
  BY <1>1, InitReads
<1> QED BY <1>1, <1>2

LEMMA AddIInv ==
  ASSUME NEW w \in Words, IInv, Add(w)
  PROVE  IInv'
<1> USE DEF IInv, TypeInv, MemoryInv, FileInv
<1> DEFINE N == Len(file)
           T(f) == {TrimSpace(l) : l \in LinesOf(f)}
<1>1. w \in NonEmpty /\ w # <<>> /\ w \in Seq(Chars) /\ TrimSpace(w) = w /\ FileOK(file)
  BY WordsNonEmpty
<1>2. /\ tree' = add(tree, w) /\ file' = addToFile(file, w) /\ deleted' = deleted \ {w}
      /\ torn' = IF file' # file /\ file[N] # <<>> THEN torn \cup {w, TrimSpace(file[N])} ELSE torn
  BY DEF Add
<1>3. tree' \in Trees /\ InMemory(tree') = InMemory(tree) \cup {w}
  BY <1>1, <1>2, AddTree
<1>4. <<>> \notin deleted
  BY WordsNonEmpty
<1>5. CASE w \in LinesOf(file)
  <2>1. file' = file
    BY <1>2, <1>5 DEF addToFile, LinesOf
  <2>2. torn' = torn
    BY <1>2, <2>1
  <2>3. w \in T(file')
    BY <1>1, <1>5, <2>1
  <2> QED BY <1>1, <1>2, <1>3, <1>5, <2>1, <2>2, <2>3
<1>6. CASE w \notin LinesOf(file)
  <2>1. /\ FileOK(file') /\ file' # file /\ file'[Len(file')] = <<>>
        /\ LinesOf(file) \ {file[N]} \subseteq LinesOf(file')
        /\ LinesOf(file') \subseteq LinesOf(file) \cup {file[N] \o w, <<>>}
        /\ file[N] = <<>> => /\ LinesOf(file') = LinesOf(file) \cup {w}
                             /\ NoLineTwice(file) => NoLineTwice(file')
    BY <1>1, <1>2, <1>6, AddToFile
  <2>2. NotBlank(file')
    <3>1. file[N] \in Seq(Chars)
      BY <1>1 DEF FileOK
    <3>2. TrimSpace(file[N] \o w) # <<>>
      BY <1>1, <3>1, TornNotBlank
    <3> QED BY <2>1, <3>2 DEF NotBlank
  <2>3. CASE file[N] = <<>>
    <3>1. torn' = torn
      BY <1>2, <2>3
    <3>2. w \in LinesOf(file') /\ LinesOf(file) \subseteq LinesOf(file')
      BY <2>1, <2>3
    <3>3. w \in T(file') /\ T(file) \subseteq T(file')
      BY <1>1, <3>2
    <3>4. MemoryInv'
      BY <1>2, <1>3, <3>1, <3>3
    <3>5. FileInv'
      BY <1>2, <1>4, <2>1, <2>3, <3>1
    <3> QED BY <1>2, <1>3, <2>1, <2>2, <3>4, <3>5
  <2>4. CASE file[N] # <<>>
    <3>1. torn' = torn \cup {w, TrimSpace(file[N])}
      BY <1>2, <2>1, <2>4
    <3>2. T(file) \subseteq T(file') \cup {TrimSpace(file[N])}
      BY <2>1
    <3>3. MemoryInv'
      BY <1>2, <1>3, <3>1, <3>2
    <3> QED BY <1>2, <1>3, <2>1, <2>2, <3>1, <3>3
  <2> QED BY <2>3, <2>4
<1> QED BY <1>5, <1>6

LEMMA DelIInv ==
  ASSUME NEW w \in Words, IInv, Del(w)
  PROVE  IInv'
<1> USE DEF IInv, TypeInv, MemoryInv, FileInv
<1> DEFINE T(f) == {TrimSpace(l) : l \in LinesOf(f)}
<1>1. FileOK(file) /\ w # <<>> /\ TrimSpace(w) = w
  BY WordsNonEmpty
<1>2. file' = delFromFile(file, w) /\ deleted' = deleted \cup {w} /\ tree' = tree /\ torn' = torn
  BY DEF Del
<1>3. /\ FileOK(file')
      /\ LinesOf(file) \ {w} \subseteq LinesOf(file')
      /\ LinesOf(file') \subseteq LinesOf(file) \cup {<<>>}
      /\ file[Len(file)] = <<>> => file'[Len(file')] = <<>>
      /\ NoLineTwice(file) => NoLineTwice(file') /\ w \notin LinesOf(file')
  BY <1>1, <1>2, DelFromFile
<1>4. <<>> \notin deleted
  BY WordsNonEmpty
<1>5. NotBlank(file')
  BY <1>3 DEF NotBlank
<1>6. T(file) \subseteq T(file') \cup {w}
  BY <1>1, <1>3
<1>7. MemoryInv'
  BY <1>2, <1>6
<1>8. FileInv'
  BY <1>1, <1>2, <1>3, <1>4
<1> QED BY <1>2, <1>3, <1>5, <1>7, <1>8

\* The inductive invariant holds in every reachable state.
THEOREM Invariance == Spec => []IInv
<1>1. IInv /\ [Next]_vars => IInv'
  <2> SUFFICES ASSUME IInv, [Next]_vars PROVE IInv'
    OBVIOUS
  <2>1. CASE Restart
    BY <2>1, RestartIInv
  <2>2. ASSUME NEW w \in Words, Add(w) PROVE IInv'
    BY <2>2, AddIInv
  <2>3. ASSUME NEW w \in Words, Del(w) PROVE IInv'
    BY <2>3, DelIInv
  <2>4. CASE UNCHANGED vars
    BY <2>4 DEF vars, IInv, TypeInv, MemoryInv, FileInv
  <2> QED BY <2>1, <2>2, <2>3, <2>4 DEF Next
<1> QED BY InitIInv, <1>1, PTL DEF Spec

\* The verdict on a text is that some word of the list stands in it, whatever
\* the words, their overlaps and the text are (search.run).
THEOREM VerdictIsRight == Spec => []VerdictRight
<1>1. IInv => VerdictRight
  BY VerdictOnText, TextsAssumption DEF IInv, TypeInv, VerdictRight
<1> QED BY <1>1, Invariance, PTL

\* What is broadcast holds no listed word without a "*", one with a "*" only
\* over the place of another, and nothing else was masked, whatever the words,
\* their overlaps and the text are (search.run, search.replace).
THEOREM MaskingIsRight == Spec => []MaskingRight
<1>1. IInv => MaskingRight
  BY MaskingOfText, TextsAssumption DEF IInv, TypeInv, MaskingRight, Listed
<1> QED BY <1>1, Invariance, PTL

\* The file keeps up with what was added and deleted, but for torn words and
\* for words the list has with space around them (addToFile, delFromFile).
THEOREM FileKeepsUpAlways == Spec => []FileKeepsUp
<1>1. IInv => FileKeepsUp
  <2> SUFFICES ASSUME IInv PROVE FileKeepsUp
    OBVIOUS
  <2> USE DEF IInv, TypeInv
  <2>1. \A w \in InMemory(tree) :
          (\E k \in 1..Len(file) : TrimSpace(file[k]) = w) \/ w \in deleted \cup torn
    BY DEF MemoryInv, LinesOf
  <2>2. torn = {} => \A k \in 1..Len(file) :
                       TrimSpace(file[k]) \in deleted => file[k] # TrimSpace(file[k])
    BY DEF FileInv, LinesOf
  <2>3. \A k \in 1..Len(file) :
          (k < Len(file) \/ file[k] # <<>>) => TrimSpace(file[k]) # <<>>
    <3> SUFFICES ASSUME NEW k \in 1..Len(file), k < Len(file) \/ file[k] # <<>>
                 PROVE  TrimSpace(file[k]) # <<>>
      OBVIOUS
    <3>1. file[k] # <<>>
      BY DEF FileOK
    <3> QED BY <3>1 DEF NotBlank, LinesOf
  <2> QED BY <2>1, <2>2, <2>3 DEF FileKeepsUp
<1> QED BY <1>1, Invariance, PTL

-----------------------------------------------------------------------------
\* delFromFile slices lines[i+1:] of the lines that are left, while it ranges
\* over all there were: a word met behind them would panic.
DelInRange ==
  \A w \in Words : \A i \in 1..Len(file) :
    LET s == linesAfter(file, w)[i - 1]
    IN  s.lines[i] = w => i <= s.len

\* No reachable file makes the deletion of a word panic: the loop never meets
\* the word behind the lines that are left (badwords.go:93-104).
THEOREM DeletionInRange == Spec => []DelInRange
<1>1. IInv => DelInRange
  <2> SUFFICES ASSUME IInv, NEW w \in Words, NEW i \in 1..Len(file),
                      linesAfter(file, w)[i - 1].lines[i] = w
               PROVE  i <= linesAfter(file, w)[i - 1].len
    BY DEF DelInRange
  <2> DEFINE s == linesAfter(file, w)[i - 1]
  <2>1. FileOK(file) /\ Len(file) \in Nat /\ i - 1 \in 0..Len(file) /\ w # <<>>
    BY WordsNonEmpty DEF IInv, TypeInv, FileOK
  <2>2. DelInv(file, w, i - 1, s)
    BY <2>1, DelLoop
  <2> HIDE DEF s
  <2>3. s.len \in 0..Len(file) /\ s.lines[i] = w
    BY <2>2 DEF DelInv, Sweeps, s
  <2>4. CASE file[Len(file)] = <<>>
    BY <2>1, <2>2, <2>3, <2>4 DEF DelInv, BlankStays, s
  <2>5. CASE file[Len(file)] # <<>>
    <3>1. NoLineTwice(file)
      BY <2>5 DEF IInv, FileInv
    <3>2. s.lines = file /\ s.len = Len(file)
      BY <2>1, <2>2, <2>3, <3>1 DEF DelInv, NoneTwice
    <3> QED BY <3>2 DEF s
  <2> QED BY <2>4, <2>5
<1> QED BY <1>1, Invariance, PTL

-----------------------------------------------------------------------------
(* PopularWords.                                                           *)

\* Nobody has read a time that is still to come.
ClockInv == \A g \in Adders \cup Getters : curTime[g] <= now

\* From now on every second has just what was said in it: none is deleted
\* before it is over, whoever lags behind with clear.
ComingInv == \A t \in Seconds : t >= now => CountsOf(t) = added[t]

-----------------------------------------------------------------------------

LEMMA SecondsFacts == \A t \in Seconds : t \in Nat
BY SizesAssumption DEF Seconds

LEMMA CountsType ==
  ASSUME PopularTypeOK, NEW t
  PROVE  CountsOf(t) \in Counts
BY DEF PopularTypeOK, CountsOf, Counts

\* The critical section of add counts one word of one second.
LEMMA AddCounts ==
  ASSUME PopularTypeOK, NEW a \in Adders, AddLocked(a), NEW x \in Seconds, x = curTime[a]
  PROVE  /\ word[a] \in SaidWords
         /\ CountsOf(x)' = [CountsOf(x) EXCEPT ![word[a]] = @ + 1]
         /\ added'[x] = [added[x] EXCEPT ![word[a]] = @ + 1]
         /\ CountsOf(x)' \in Counts /\ CountsOf(x)'[word[a]] > 0 /\ added'[x] \in Counts
         /\ \A t \in Seconds : t # x => CountsOf(t)' = CountsOf(t) /\ added'[t] = added[t]
         /\ DOMAIN popularWords' = DOMAIN popularWords \cup {x} /\ added' \in [Seconds -> Counts]
<1> DEFINE u == word[a]
           c == [CountsOf(x) EXCEPT ![u] = @ + 1]
           d == [added[x] EXCEPT ![u] = @ + 1]
<1>1. u \in SaidWords /\ CountsOf(x) \in Counts /\ added[x] \in Counts /\ added \in [Seconds -> Counts]
  BY CountsType DEF PopularTypeOK
<1>2. c \in Counts /\ c[u] > 0 /\ d \in Counts
  BY <1>1 DEF Counts
<1>3. popularWords' = [s \in DOMAIN popularWords \cup {x} |->
                         IF s = x THEN c ELSE popularWords[s]]
  BY DEF AddLocked, One
<1>4. added' = [added EXCEPT ![x] = d]
  BY DEF AddLocked
<1> HIDE DEF c, d, u
<1>5. CountsOf(x)' = c
  BY <1>3 DEF CountsOf
<1>6. \A t \in Seconds : t # x => CountsOf(t)' = CountsOf(t)
  BY <1>3 DEF CountsOf
<1>7. DOMAIN popularWords' = DOMAIN popularWords \cup {x}
  BY <1>3
<1>8. /\ added'[x] = d /\ added' \in [Seconds -> Counts]
      /\ \A t \in Seconds : t # x => added'[t] = added[t]
  BY <1>1, <1>2, <1>4
<1> QED
  BY <1>1, <1>2, <1>5, <1>6, <1>7, <1>8 DEF c, d, u

LEMMA InitInv == PopularInit => PopularTypeOK /\ ClockInv /\ ComingInv /\ NothingInvented
<1> SUFFICES ASSUME PopularInit PROVE PopularTypeOK /\ ClockInv /\ ComingInv /\ NothingInvented
  OBVIOUS
<1>1. PopularTypeOK
  BY SizesAssumption DEF PopularInit, PopularTypeOK, Seconds, Counts
<1>2. ClockInv
  BY DEF PopularInit, ClockInv
<1>3. \A t \in Seconds : CountsOf(t) = added[t] /\ \A w \in SaidWords : CountsOf(t)[w] = 0
  BY DEF PopularInit, CountsOf
<1> QED
  BY <1>1, <1>2, <1>3 DEF ComingInv, NothingInvented, PopularTypeOK, Counts

LEMMA NextClock == PopularTypeOK /\ ClockInv /\ PopularNext => ClockInv'
<1> SUFFICES ASSUME PopularTypeOK, ClockInv, PopularNext PROVE ClockInv'
  OBVIOUS
<1>1. now \in Nat /\ now' \in Nat /\ now <= now' /\ \A g \in Adders \cup Getters : curTime[g] \in Nat
  <2>1. now' = now \/ now' = now + 1
    BY DEF PopularNext, Tick, CallAdd, AddLocked, TestSize, Delete, CallGet, Get
  <2> QED
    BY <2>1, SecondsFacts DEF PopularTypeOK
<1>2. curTime' = curTime \/ (now' = now /\ \E g \in Adders \cup Getters : curTime' = [curTime EXCEPT ![g] = now])
  BY DEF PopularNext, Tick, CallAdd, AddLocked, TestSize, Delete, CallGet, Get, ReadClock
<1> QED
  BY <1>1, <1>2 DEF ClockInv, PopularTypeOK

LEMMA NextType == PopularTypeOK /\ PopularNext => PopularTypeOK'
<1> SUFFICES ASSUME PopularTypeOK, PopularNext PROVE PopularTypeOK'
  OBVIOUS
<1> USE DEF PopularTypeOK
<1>1. CASE Tick
  BY <1>1, SizesAssumption DEF Tick, Seconds
<1>2. ASSUME NEW a \in Adders, NEW w \in SaidWords, CallAdd(a, w) PROVE PopularTypeOK'
  BY <1>2, SizesAssumption DEF CallAdd, ReadClock, Goto
<1>3. ASSUME NEW a \in Adders, AddLocked(a) PROVE PopularTypeOK'
  <2>1. /\ UNCHANGED <<now, curTime, word, top, calls>>
        /\ pc' \in [Adders \cup Getters -> {"idle", "add", "clear", "delete", "get"}]
    BY <1>3 DEF AddLocked, Goto
  <2>2. PICK x \in Seconds : x = curTime[a]
    OBVIOUS
  <2>3. /\ CountsOf(x)' \in Counts /\ word[a] \in SaidWords /\ CountsOf(x)'[word[a]] > 0
        /\ \A t \in Seconds : t # x => CountsOf(t)' = CountsOf(t)
        /\ DOMAIN popularWords' = DOMAIN popularWords \cup {x} /\ added' \in [Seconds -> Counts]
    BY <1>3, <2>2, AddCounts
  <2>4. ASSUME NEW t \in DOMAIN popularWords'
        PROVE  popularWords'[t] \in Counts /\ \E w \in SaidWords : popularWords'[t][w] > 0
    <3>1. CountsOf(t)' = popularWords'[t]
      BY DEF CountsOf
    <3>2. CASE t = x
      BY <2>3, <3>1, <3>2
    <3>3. CASE t # x
      <4>1. t \in Seconds /\ t \in DOMAIN popularWords /\ CountsOf(t)' = popularWords[t]
        BY <2>3, <3>3 DEF CountsOf
      <4> QED
        BY <3>1, <4>1
    <3> QED
      BY <3>2, <3>3
  <2>5. DOMAIN popularWords' \subseteq Seconds
    BY <2>3
  <2> QED
    BY <2>1, <2>3, <2>4, <2>5
<1>4. ASSUME NEW a \in Adders, TestSize(a) PROVE PopularTypeOK'
  BY <1>4 DEF TestSize, ReadClock, Goto
<1>5. ASSUME NEW a \in Adders, Delete(a) PROVE PopularTypeOK'
  BY <1>5 DEF Delete, Goto
<1>6. ASSUME NEW g \in Getters, CallGet(g) \/ Get(g) PROVE PopularTypeOK'
  BY <1>6 DEF CallGet, Get, ReadClock, Goto
<1> QED
  BY <1>1, <1>2, <1>3, <1>4, <1>5, <1>6, Zenon DEF PopularNext

\* What add and clear do to the counts.
LEMMA NextCounts ==
  PopularTypeOK /\ ClockInv /\ ComingInv /\ NothingInvented /\ PopularNext => ComingInv' /\ NothingInvented'
<1> SUFFICES ASSUME PopularTypeOK, ClockInv, ComingInv, NothingInvented, PopularNext
             PROVE  ComingInv' /\ NothingInvented'
  OBVIOUS
<1>0. /\ \A t \in Seconds : t \in Nat
      /\ \A t \in Seconds, w \in SaidWords : CountsOf(t)[w] \in Nat /\ added[t][w] \in Nat
  BY SecondsFacts, CountsType DEF PopularTypeOK, Counts
<1>1. ASSUME NEW a \in Adders, AddLocked(a) PROVE ComingInv' /\ NothingInvented'
  <2>1. PICK x \in Seconds : x = curTime[a]
    BY DEF PopularTypeOK
  <2>2. /\ word[a] \in SaidWords /\ now' = now /\ CountsOf(x) \in Counts /\ added[x] \in Counts
        /\ CountsOf(x)' = [CountsOf(x) EXCEPT ![word[a]] = @ + 1]
        /\ added'[x] = [added[x] EXCEPT ![word[a]] = @ + 1]
        /\ \A t \in Seconds : t # x => CountsOf(t)' = CountsOf(t) /\ added'[t] = added[t]
    BY <1>1, <2>1, AddCounts, CountsType DEF AddLocked, PopularTypeOK
  <2>3. CountsOf(x) = added[x] => CountsOf(x)' = added'[x]
    BY <2>2
  <2>4. \A w \in SaidWords : CountsOf(x)'[w] <= added'[x][w]
    BY <1>0, <2>2 DEF Counts, NothingInvented
  <2>5. ComingInv'
    BY <2>2, <2>3 DEF ComingInv
  <2>6. NothingInvented'
    BY <2>2, <2>4 DEF NothingInvented
  <2> QED
    BY <2>5, <2>6
<1>2. ASSUME NEW a \in Adders, Delete(a) PROVE ComingInv' /\ NothingInvented'
  <2>1. /\ UNCHANGED <<now, added>>
        /\ popularWords' = [t \in DOMAIN popularWords \ {curTime[a] - 1} |-> popularWords[t]]
    BY <1>2 DEF Delete, OldTime
  <2>2. \A t : CountsOf(t)' = IF t = curTime[a] - 1 THEN [w \in SaidWords |-> 0] ELSE CountsOf(t)
    BY <2>1 DEF CountsOf
  <2>3. curTime[a] \in Nat /\ now \in Nat /\ curTime[a] <= now
    BY <1>0 DEF ClockInv, PopularTypeOK
  <2>4. \A t \in Seconds : t >= now => t # curTime[a] - 1
    BY <1>0, <2>3
  <2>5. ComingInv'
    BY <2>1, <2>2, <2>4 DEF ComingInv
  <2>6. NothingInvented'
    BY <1>0, <2>1, <2>2 DEF NothingInvented
  <2> QED
    BY <2>5, <2>6
<1>3. CASE Tick
  <2>1. UNCHANGED <<popularWords, added>> /\ now' = now + 1 /\ now \in Nat
    BY <1>0, <1>3 DEF Tick, PopularTypeOK
  <2>2. \A t : CountsOf(t)' = CountsOf(t)
    BY <2>1 DEF CountsOf
  <2>3. \A t \in Seconds : t >= now' => t >= now
    BY <1>0, <2>1
  <2> QED
    BY <2>1, <2>2, <2>3 DEF ComingInv, NothingInvented
<1>4. CASE ~Tick /\ \A a \in Adders : ~AddLocked(a) /\ ~Delete(a)
  <2>1. UNCHANGED <<now, popularWords, added>>
    BY <1>4 DEF PopularNext, CallAdd, TestSize, CallGet, Get
  <2>2. \A t : CountsOf(t)' = CountsOf(t)
    BY <2>1 DEF CountsOf
  <2> QED
    BY <2>1, <2>2 DEF ComingInv, NothingInvented
<1> QED
  BY <1>1, <1>2, <1>3, <1>4, Zenon

-----------------------------------------------------------------------------
\* What get sums up.

\* A word that counts in an answer is counted in one of its seconds.
LEMMA CountedSomewhere ==
  ASSUME NEW t \in Nat, NEW w, tempWord(t, w)[t] > 0
  PROVE  \E i \in start(t) + 1..t : CountsOf(i)[w] # 0
<1> SUFFICES ASSUME \A i \in start(t) + 1..t : CountsOf(i)[w] = 0 PROVE FALSE
  OBVIOUS
<1> DEFINE s == start(t)
           Body(f) == [i \in s..t |-> IF i = s THEN 0 ELSE f[i - 1] + CountsOf(i)[w]]
           h == tempWord(t, w)
           T == {n \in Nat : s + n <= t /\ h[s + n] # 0}
<1>1. s \in Int /\ s < t
  BY SizesAssumption DEF start
<1>2. \E f : f = Body(f)
  <2> DEFINE f == [i \in s..t |-> 0]
  <2>1. ASSUME NEW i \in s..t PROVE (IF i = s THEN 0 ELSE f[i - 1] + CountsOf(i)[w]) = 0
    <3> HIDE DEF s
    <3>1. CASE i = s
      BY <3>1
    <3>2. CASE i # s
      <4>1. i \in s + 1..t /\ i - 1 \in s..t
        BY <1>1, <3>2
      <4>2. CountsOf(i)[w] = 0
        BY <4>1 DEF s
      <4> QED BY <3>2, <4>1, <4>2
    <3> QED BY <3>1, <3>2
  <2>2. f = Body(f)
    BY <2>1
  <2> QED BY <2>2
<1>3. h = Body(h)
  BY <1>2, Zenon DEF tempWord
<1> HIDE DEF h, s
<1>4. T = {}
  <2> SUFFICES ASSUME T # {} PROVE FALSE
    OBVIOUS
  <2>1. PICK n \in T : \A m \in T : n <= m
    BY LeastElement
  <2>2. n # 0
    BY <1>1, <1>3, <2>1
  <2>3. n - 1 \in Nat /\ n - 1 \notin T /\ s + (n - 1) <= t
    BY <1>1, <2>1, <2>2
  <2>4. h[s + (n - 1)] = 0 /\ s + n \in s + 1..t /\ (s + n) - 1 = s + (n - 1)
    BY <1>1, <2>1, <2>2, <2>3
  <2>5. CountsOf(s + n)[w] = 0
    BY <2>4 DEF s
  <2>6. h[s + n] = 0 + 0
    BY <1>1, <1>3, <2>4, <2>5
  <2> QED BY <2>1, <2>6
<1>5. t - s \in Nat /\ s + (t - s) = t
  BY <1>1
<1>6. h[t] = 0
  BY <1>4, <1>5
<1> QED BY <1>6 DEF h

\* An answer holds words that were said in the seconds it covers.
LEMMA GetRecent ==
  ASSUME PopularTypeOK, NothingInvented, NEW g \in Getters, Get(g), NEW w \in top'[g]
  PROVE  \E t \in Seconds : /\ curTime[g] - HoldTime < t /\ t <= curTime[g]
                            /\ added[t][w] > 0
<1>1. curTime[g] \in Nat /\ HoldTime \in Nat
  BY SizesAssumption DEF PopularTypeOK, Seconds
<1>2. PICK ws \in SUBSET SaidWords : IsTop(g, ws) /\ top' = [top EXCEPT ![g] = ws]
  BY DEF Get
<1>3. w \in SaidWords /\ Sum(g, w) > 0
  BY <1>2 DEF PopularTypeOK, IsTop
<1>4. PICK i \in start(curTime[g]) + 1..curTime[g] : CountsOf(i)[w] # 0
  BY <1>1, <1>3, CountedSomewhere DEF Sum
<1>5. i \in Seconds
  BY <1>3, <1>4 DEF CountsOf, PopularTypeOK
<1>6. CountsOf(i)[w] \in Nat /\ added[i][w] \in Nat /\ CountsOf(i)[w] <= added[i][w]
  BY <1>3, <1>5, CountsType DEF PopularTypeOK, Counts, NothingInvented
<1>7. added[i][w] > 0
  BY <1>4, <1>6
<1>8. curTime[g] - HoldTime < i /\ i <= curTime[g]
  BY <1>1, <1>4 DEF start
<1> QED BY <1>5, <1>7, <1>8

\* What was said stays said.
LEMMA AddedGrows ==
  ASSUME PopularTypeOK, PopularNext, NEW t \in Seconds, NEW w \in SaidWords, added[t][w] > 0
  PROVE  added'[t][w] > 0
<1>1. added[t][w] \in Nat /\ added[t] \in Counts
  BY DEF PopularTypeOK, Counts
<1>2. ASSUME NEW a \in Adders, AddLocked(a) PROVE added'[t][w] > 0
  <2>1. PICK x \in Seconds : x = curTime[a]
    BY DEF PopularTypeOK
  <2>2. /\ added'[x] = [added[x] EXCEPT ![word[a]] = @ + 1]
        /\ t # x => added'[t] = added[t]
    BY <1>2, <2>1, AddCounts
  <2>3. CASE t = x
    BY <1>1, <2>2, <2>3 DEF Counts
  <2> QED BY <2>2, <2>3
<1>3. CASE \A a \in Adders : ~AddLocked(a)
  <2>1. added' = added
    BY <1>3 DEF PopularNext, Tick, CallAdd, TestSize, Delete, CallGet, Get
  <2> QED BY <2>1
<1> QED BY <1>2, <1>3

LEMMA NextRecent ==
  PopularTypeOK /\ NothingInvented /\ AnswersAreRecent /\ PopularNext => AnswersAreRecent'
<1> SUFFICES ASSUME PopularTypeOK, NothingInvented, AnswersAreRecent, PopularNext,
                    NEW g \in Getters, pc'[g] = "idle", NEW w \in top'[g]
             PROVE  \E t \in Seconds : /\ curTime'[g] - HoldTime < t /\ t <= curTime'[g]
                                       /\ added'[t][w] > 0
  BY DEF AnswersAreRecent
<1> DEFINE Said(t) == curTime[g] - HoldTime < t /\ t <= curTime[g] /\ added[t][w] > 0
<1>1. CASE Get(g)
  <2>1. \E t \in Seconds : Said(t)
    BY <1>1, GetRecent
  <2>2. curTime' = curTime /\ added' = added
    BY <1>1 DEF Get
  <2> QED BY <2>1, <2>2
<1>2. CASE ~Get(g)
  <2>1. ~CallGet(g)
    BY DEF CallGet, Goto, PopularTypeOK
  <2>2. g \notin Adders
    BY GoroutinesAssumption
  <2>3. pc[g] = "idle" /\ curTime'[g] = curTime[g] /\ top'[g] = top[g]
    <3> USE DEF PopularTypeOK, Goto, ReadClock
    <3>1. CASE Tick
      BY <3>1 DEF Tick
    <3>2. ASSUME NEW a \in Adders, NEW v \in SaidWords, CallAdd(a, v) PROVE <2>3
      BY <2>2, <3>2 DEF CallAdd
    <3>3. ASSUME NEW a \in Adders, AddLocked(a) \/ TestSize(a) \/ Delete(a) PROVE <2>3
      BY <2>2, <3>3 DEF AddLocked, TestSize, Delete
    <3>4. ASSUME NEW f \in Getters, f # g, CallGet(f) \/ Get(f) PROVE <2>3
      BY <3>4 DEF CallGet, Get
    <3> QED BY <1>2, <2>1, <3>1, <3>2, <3>3, <3>4, Zenon DEF PopularNext
  <2>4. PICK t \in Seconds : Said(t)
    BY <2>3 DEF AnswersAreRecent
  <2>5. w \in SaidWords
    BY <2>3 DEF PopularTypeOK
  <2>6. added'[t][w] > 0
    BY <2>4, <2>5, AddedGrows
  <2> QED BY <2>3, <2>4, <2>6
<1> QED BY <1>1, <1>2

-----------------------------------------------------------------------------

PopularInv == PopularTypeOK /\ ClockInv /\ ComingInv /\ NothingInvented /\ AnswersAreRecent

LEMMA PopularInvariance == PopularSpec => []PopularInv
<1>1. PopularInv /\ UNCHANGED popularVars => PopularInv'
  BY DEF PopularInv, PopularTypeOK, ClockInv, ComingInv, NothingInvented,
         AnswersAreRecent, CountsOf, popularVars
<1>2. PopularInv /\ [PopularNext]_popularVars => PopularInv'
  BY <1>1, NextType, NextClock, NextCounts, NextRecent DEF PopularInv
<1>3. PopularInit => AnswersAreRecent
  BY DEF PopularInit, AnswersAreRecent
<1>4. PopularInit => PopularInv
  BY <1>3, InitInv DEF PopularInv
<1> QED
  BY <1>2, <1>4, PTL DEF PopularSpec

\* The map's seconds are seconds, and none of them is there without a word.
THEOREM PopularTypeCorrect == PopularSpec => []PopularTypeOK
BY PopularInvariance, PTL DEF PopularInv

\* The words of the current second are all counted: clear, which tests the size
\* without the mutex and deletes by a clock it has read before, never deletes a
\* second that is not over (popular.go:27-37).
THEOREM NeverClearedEarly == PopularSpec => []CurrentSecondCounted
<1>1. PopularInv => CurrentSecondCounted
  BY SecondsFacts DEF PopularInv, PopularTypeOK, ComingInv, CurrentSecondCounted
<1> QED
  BY <1>1, PopularInvariance, PTL

\* No word counts more often than it was said, although a late add can start a
\* deleted second anew (popular.go:42-48).
THEOREM NoneInvented == PopularSpec => []NothingInvented
BY PopularInvariance, PTL DEF PopularInv

\* Every word of an answer was said within the hold time before get looked at
\* its clock, whatever add and clear did while it waited for the mutex
\* (popular.go:53-90).
THEOREM AnswersRecent == PopularSpec => []AnswersAreRecent
BY PopularInvariance, PTL DEF PopularInv
=============================================================================
