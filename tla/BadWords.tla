------------------------------ MODULE BadWords ------------------------------
(***************************************************************************)
(* badwords/badwords.go: the words that the chat masks, in memory as a map *)
(* from first character to words and word lengths, and in a file with one  *)
(* word a line. Search scans a text from left to right; at each place the  *)
(* shortest word that begins there is masked and the scan goes on behind   *)
(* it. Add and Del change memory and file, a restart reads the file again. *)
(*                                                                         *)
(* A text, a word or a line is a sequence of characters.                   *)
(***************************************************************************)
EXTENDS Integers, Sequences, FiniteSetsExt

CONSTANTS
  Chars,    \* characters of texts and words
  Mask,     \* the replacement "*", which texts and words may hold too
  Space,    \* white space
  Words,    \* words that are listed, added or deleted
  Texts,    \* bound: the texts that are searched
  Files     \* the lists the program may be started on

\* strings.TrimSpace.
TrimSpace(l) ==
  LET places == {k \in 1..Len(l) : l[k] # Space}
  IN  IF places = {} THEN <<>> ELSE SubSeq(l, Min(places), Max(places))

\* Add and Del have no caller in the repository. They are given a word without
\* space around it: memory would hold that space, and lose it at a restart.
ASSUME WordsAssumption ==
  \A w \in Words : w \in Seq(Chars) \ {<<>>} /\ TrimSpace(w) = w
ASSUME TextsAssumption == Texts \subseteq Seq(Chars)

\* A list has no blank line, which would panic the start (see Lines), and no
\* line twice; so has bin/list.txt, in which some lines end in a space.
ASSUME FilesAssumption ==
  /\ Files \subseteq Seq(Seq(Chars)) \ {<<>>}
  /\ \A f \in Files :
       /\ \A k \in 1..Len(f) : (k < Len(f) \/ f[k] # <<>>) => TrimSpace(f[k]) # <<>>
       /\ \A k, l \in 1..Len(f) : f[k] = f[l] => k = l

VARIABLES
  tree,    \* the wordTree in memory
  file,    \* the file, split at its newlines: the last part is the text behind
           \* the last newline, empty if the file ends with one
  deleted, \* history: words deleted since the last start
  torn     \* history: words that were put on one line with another

vars == <<tree, file, deleted, torn>>

-----------------------------------------------------------------------------
(* The tree.                                                               *)

NoWords == [lenSlice |-> [c \in Chars |-> {}], words |-> [c \in Chars |-> {}]]

\* wordTree.add: the word and its length, under its first character.
add(t, w) ==
  [t EXCEPT !.lenSlice[w[1]] = @ \cup {Len(w)}, !.words[w[1]] = @ \cup {w}]

InMemory(t) == UNION {t.words[c] : c \in Chars}

\* Init trims every line but the empty rest behind the last newline, which
\* Scanner does not return. A blank line elsewhere would be a word without a
\* first character, and a panic.
Lines(f) ==
  [k \in 1..(IF f[Len(f)] = <<>> THEN Len(f) - 1 ELSE Len(f)) |-> TrimSpace(f[k])]

\* The trees after the first n lines.
treeUpTo(f) ==
  LET tr[n \in 0..Len(Lines(f))] ==
        IF n = 0 THEN NoWords ELSE add(tr[n - 1], Lines(f)[n])
  IN  tr

InitTree(f) == treeUpTo(f)[Len(Lines(f))]

\* mutant: a word at the very end is not found
LengthsBeforeEnd(t, txt, i) ==
  {n \in t.lenSlice[txt[i]] : /\ i + n - 1 < Len(txt)
                              /\ SubSeq(txt, i, i + n - 1) \in t.words[txt[i]]}

\* The lengths of the words that begin at place i of txt and end within it.
LengthsAt(t, txt, i) ==
  {n \in t.lenSlice[txt[i]] : /\ i + n - 1 <= Len(txt)
                              /\ SubSeq(txt, i, i + n - 1) \in t.words[txt[i]]}

Shortest(S) == CHOOSE n \in S : \A m \in S : n <= m

\* search.run: where words are found from place i on, as pairs of first and
\* last place. The text is masked behind the scan only, so that masking does
\* not disturb it.
foundFrom(t, txt) ==
  LET from[i \in 1..Len(txt) + 1] ==
        IF i > Len(txt) THEN {}
        ELSE LET L == LengthsAt(t, txt, i)
             IN  IF L = {} THEN from[i + 1]
                 ELSE {<<i, i + Shortest(L) - 1>>} \cup from[i + Shortest(L)]
  IN  from

Found(t, txt) == foundFrom(t, txt)[1]

\* mutant: the last character stays
MaskedButLast(t, txt) ==
  LET places == Found(t, txt)
  IN  [k \in 1..Len(txt) |->
         IF \E p \in places : p[1] <= k /\ k < p[2] THEN Mask ELSE txt[k]]

\* search.replace, for all that was found.
Masked(t, txt) ==
  LET places == Found(t, txt)
  IN  [k \in 1..Len(txt) |->
         IF \E p \in places : p[1] <= k /\ k <= p[2] THEN Mask ELSE txt[k]]

-----------------------------------------------------------------------------
(* The file.                                                               *)

\* addToFile: nothing if some line is the word, untrimmed; else the word and a
\* newline at the very end, which is on the last line if that has no newline.
addToFile(f, w) ==
  IF \E k \in 1..Len(f) : f[k] = w THEN f
  ELSE Append([f EXCEPT ![Len(f)] = @ \o w], <<>>)

\* mutant: the newline stays
blankInFile(f, w) == [k \in 1..Len(f) |-> IF f[k] = w THEN <<>> ELSE f[k]]

\* lines[:i] and lines[i+1:] put together in place: of the first n lines the
\* ones behind i move up, and the array keeps its length.
moved(a, i, n) == [k \in 1..Len(a) |-> IF i <= k /\ k < n THEN a[k + 1] ELSE a[k]]

\* delFromFile ranges over the lines while it removes from them: what follows a
\* removed line moves up, and the loop does not see the one that took its
\* place. (A word that is met behind the lines that are left would be sliced
\* out of range.) The lines and their number after each round.
linesAfter(f, w) ==
  LET after[i \in 0..Len(f)] ==
        IF i = 0 THEN [lines |-> f, len |-> Len(f)]
        ELSE IF i <= after[i - 1].len /\ after[i - 1].lines[i] = w
             THEN [lines |-> moved(after[i - 1].lines, i, after[i - 1].len),
                   len   |-> after[i - 1].len - 1]
             ELSE after[i - 1]
  IN  after

delFromFile(f, w) ==
  LET end == linesAfter(f, w)[Len(f)]
  IN  IF end.len = 0 THEN << <<>> >> ELSE SubSeq(end.lines, 1, end.len)

-----------------------------------------------------------------------------

Init ==
  /\ file \in Files
  /\ tree = InitTree(file)
  /\ deleted = {}
  /\ torn = {}

\* Add. A word added to an unfinished last line tears both.
Add(w) ==
  /\ tree' = add(tree, w)
  /\ file' = addToFile(file, w)
  /\ torn' = IF file' # file /\ file[Len(file)] # <<>>
             THEN torn \cup {w, TrimSpace(file[Len(file)])} ELSE torn
  /\ deleted' = deleted \ {w}

\* Del. del reads the file into a new tree and drops it: the tree in use stays.
Del(w) ==
  /\ file' = delFromFile(file, w)
  /\ deleted' = deleted \cup {w}
  /\ UNCHANGED <<tree, torn>>

\* The program ends and starts again on the file it has left.
Restart ==
  /\ tree' = InitTree(file)
  /\ deleted' = {}
  /\ UNCHANGED <<file, torn>>

Next == Restart \/ \E w \in Words : Add(w) \/ Del(w)

Spec == Init /\ [][Next]_vars

-----------------------------------------------------------------------------
(* Properties.                                                             *)

\* Word w stands in txt, and in places i to i + Len(w) - 1 of it.
StandsAt(w, txt, i) ==
  i + Len(w) - 1 <= Len(txt) /\ SubSeq(txt, i, i + Len(w) - 1) = w

Occurs(w, txt) == \E i \in 1..Len(txt) : StandsAt(w, txt, i)

\* The scan finds something exactly in the texts in which some word of the list
\* stands somewhere, although it looks at one length after the other, stops at
\* the first that fits and skips what it has masked (badwords.go:141-161). On
\* this verdict the chat decides what goes to the history (service.go:199).
VerdictRight ==
  \A txt \in Texts :
    Found(tree, txt) # {} <=> \E w \in InMemory(tree) : Occurs(w, txt)

\* A listed word stands in txt over place k.
Listed(txt, k) ==
  \E v \in InMemory(tree), i \in 1..k : StandsAt(v, txt, i) /\ k < i + Len(v)

\* What is broadcast holds no word of the list any more, and nothing is masked
\* but places of such words (badwords.go:132-157). The exception is a word with
\* a "*" of its own, as bin/list.txt:265: it may stand in the masked text, but
\* only if a "*" of it is where another listed word was masked.
MaskingRight ==
  \A txt \in Texts :
    LET m == Masked(tree, txt)
    IN  /\ \A w \in InMemory(tree), i \in 1..Len(txt) :
             StandsAt(w, m, i) =>
               \E k \in 1..Len(w) : w[k] = Mask /\ Listed(txt, i + k - 1)
        /\ \A k \in 1..Len(txt) : m[k] # txt[k] => m[k] = Mask /\ Listed(txt, k)

\* The file keeps up with Add and Del: a word that is filtered now is so after
\* a restart unless it was deleted, a deleted one is not, and the program can
\* start on the file. There are two exceptions, and the shipped bin/list.txt
\* invites both. A last line without a newline takes up the next word added,
\* which tears both (badwords.go:65-76, :99-107). And a word that the list has
\* with space around it cannot be deleted: the start trims its line, delFromFile
\* does not (:99-101, :174).
FileKeepsUp ==
  /\ \A w \in InMemory(tree) :
       (\E k \in 1..Len(file) : TrimSpace(file[k]) = w) \/ w \in deleted \cup torn
  /\ torn = {} => \A k \in 1..Len(file) :
                    TrimSpace(file[k]) \in deleted => file[k] # TrimSpace(file[k])
  /\ \A k \in 1..Len(file) :
       (k < Len(file) \/ file[k] # <<>>) => TrimSpace(file[k]) # <<>>
=============================================================================
