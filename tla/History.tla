------------------------------ MODULE History ------------------------------
(***************************************************************************)
(* history.go down to its memory. historyRecord.history is a Go slice: a   *)
(* window on a backing array. addHistory appends to it, in place while the *)
(* array has room, and moves the window's start when it gets too long;     *)
(* getHistory returns the window itself, which the caller reads            *)
(* (json.Marshal in onAuth) after the mutex is released, while other       *)
(* goroutines go on appending to the same array.                           *)
(***************************************************************************)
EXTENDS Integers, Sequences

CONSTANTS
  Readers,     \* handlers of onAuth
  HistorySize, \* historyRecordCount, 50 in the program
  MaxAdds      \* bound: messages added

ASSUME SizesAssumption == HistorySize \in Nat \ {0} /\ MaxAdds \in Nat

VARIABLES
  adds,    \* how many messages were added
  heap,    \* the backing arrays allocated so far; a cell never written holds 0
  history, \* historyRecord.history
  snap     \* snap[r]: the slice that getHistory returned to r

vars == <<adds, heap, history, snap>>

Slice == [arr : Nat, off : Nat, len : Nat]

\* A nil slice has no array; this one has the empty array.
NilSlice == [arr |-> 1, off |-> 0, len |-> 0]

TypeOK ==
  /\ adds \in 0..MaxAdds
  /\ heap \in Seq(Seq(Nat))
  /\ history \in Slice
  /\ history.len <= HistorySize
  /\ snap \in [Readers -> Slice]
  /\ \A s \in {history} \cup {snap[r] : r \in Readers} :
       s.arr \in DOMAIN heap /\ s.off + s.len <= Len(heap[s.arr])

Init ==
  /\ adds = 0
  /\ heap = << <<>> >>
  /\ history = NilSlice
  /\ snap = [r \in Readers |-> NilSlice]

\* What the holder of slice s reads.
Contents(s) == [i \in 1..s.len |-> heap[s.arr][s.off + i]]

-----------------------------------------------------------------------------

\* The room behind a slice, cap(s) - len(s) in Go.
Room(s) == Len(heap[s.arr]) - s.off - s.len

\* append in place: the cell behind the window is written.
AppendInPlace(m) ==
  /\ Room(history) > 0
  /\ heap' = [heap EXCEPT ![history.arr][history.off + history.len + 1] = m]

\* append when the array is full: the runtime copies the window to a new array
\* with some room to spare.
Grown(m, spare) ==
  Contents(history) \o <<m>> \o [i \in 1..spare |-> 0]

AppendByCopy(m) ==
  /\ Room(history) = 0
  /\ \E spare \in 0..(history.len + 1) : heap' = Append(heap, Grown(m, spare))

\* The window once the message is in: its array, its start and its length.
KeepAll(s) == s  \* mutant
KeepOldest(s) == [s EXCEPT !.len = IF @ > HistorySize THEN HistorySize ELSE @]  \* mutant
Trim(s) ==
  IF s.len > HistorySize
  THEN [s EXCEPT !.off = @ + (s.len - HistorySize), !.len = HistorySize]
  ELSE s

\* mutant: the oldest message is dropped by moving the others down
AddHistoryShift ==
  /\ adds < MaxAdds
  /\ adds' = adds + 1
  /\ IF history.len = HistorySize
     THEN /\ heap' = [heap EXCEPT ![history.arr] =
                        [i \in DOMAIN @ |->
                           IF i < HistorySize THEN @[i + 1]
                           ELSE IF i = HistorySize THEN adds + 1 ELSE @[i]]]
          /\ UNCHANGED history
     ELSE \/ /\ AppendInPlace(adds + 1)
             /\ history' = [history EXCEPT !.len = @ + 1]
          \/ /\ AppendByCopy(adds + 1)
             /\ history' = [arr |-> Len(heap) + 1, off |-> 0, len |-> history.len + 1]
  /\ UNCHANGED snap

AddHistory ==
  /\ adds < MaxAdds
  /\ adds' = adds + 1
  /\ \/ /\ AppendInPlace(adds + 1)
        /\ history' = Trim([history EXCEPT !.len = @ + 1])
     \/ /\ AppendByCopy(adds + 1)
        /\ history' = Trim([arr |-> Len(heap) + 1, off |-> 0, len |-> history.len + 1])
  /\ UNCHANGED snap

GetHistory(r) ==
  /\ snap' = [snap EXCEPT ![r] = history]
  /\ UNCHANGED <<adds, heap, history>>

Next == AddHistory \/ \E r \in Readers : GetHistory(r)

Spec == Init /\ [][Next]_vars

-----------------------------------------------------------------------------

Log == INSTANCE HistoryLog
         WITH log <- Contents(history),
              got <- [r \in Readers |-> Contents(snap[r])]

\* The slices implement a list whose readers keep what they were given: no
\* append ever changes what a reader of an older slice sees, although they share
\* the array and the reader holds no lock (history.go:24-28, :33-36).
ImplementsLog == Log!LogSpec

\* The history is always the newest messages, all of them, in order, and so is
\* what any reader holds, as of the time it asked (history.go:33-37).
HoldsTheNewest == Log!ExactlyNewest

\* Why an append cannot reach a reader: a slice that was handed out ends where
\* the history ends or before, on the same array, so the cell that the append
\* writes is behind all of them.
AppendsBehindReaders ==
  \A r \in Readers : snap[r].arr = history.arr =>
    snap[r].off + snap[r].len <= history.off + history.len
=============================================================================
