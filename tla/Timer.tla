------------------------------- MODULE Timer --------------------------------
(***************************************************************************)
(* timer/timer.go: a heap of TimeItems, one time.Timer (the signal) that   *)
(* should be armed for the head of the heap, and a goroutine that takes    *)
(* the signal and runs the head's callback. Callers use Once, Schedule,    *)
(* Delete, Reset and Stop from any goroutine, callbacks included; each is  *)
(* one critical section, so a caller has no state of its own. The firing   *)
(* goroutine has: what it does in once and in the callback of Schedule is  *)
(* done partly without the mutex.                                          *)
(*                                                                         *)
(* A signal that has expired leaves a value in the channel, which Reset of *)
(* a time.Timer does not take out again (Go before 1.23; the program has   *)
(* no go.mod that asks for more).                                          *)
(***************************************************************************)
EXTENDS Integers, Sequences

CONSTANTS
  Items,     \* TimeItems that callers may make
  Delays,    \* timeouts and delays
  Intervals, \* intervals of Schedule
  NoItem,    \* no item
  MaxTime    \* bound: the clock

ASSUME DelaysAssumption == Delays \subseteq Nat /\ Intervals \subseteq Nat \ {0}
ASSUME MaxTimeAssumption == MaxTime \in Nat
ASSUME NoItemAssumption == NoItem \notin Items

VARIABLES
  clock,    \* time.Now()
  timers,   \* Timer.timers, the head first
  Index,    \* Index[i] of a TimeItem
  Expire,   \* Expire[i] of a TimeItem
  interval, \* interval[i]: that of Schedule, 0 for an item of Once
  made,     \* the items that exist
  signal,   \* when the time.Timer will expire: one time, or none
  chan,     \* there is a value in signal.C, which holds one
  pc,       \* where the firing goroutine is
  cur,      \* the item whose callback it runs, or NoItem
  stamp,    \* now, in the closure of Schedule
  deleted,  \* history: the items that Delete has removed
  calm,     \* history: nothing was deleted or reset, and Schedule never armed
            \* the signal late: beside a value in chan, or not for the head
  excused   \* history: a call or a panic has left the signal behind

callerVars == <<made, interval, deleted>>
firingVars == <<pc, cur, stamp>>
vars == <<clock, timers, Index, Expire, signal, chan, calm, excused,
          callerVars, firingVars>>

TypeOK ==
  /\ clock \in 0..MaxTime
  /\ timers \in Seq(Items)
  /\ Index \in [Items -> Int]
  /\ Expire \in [Items -> Nat]
  /\ interval \in [Items -> Nat]
  /\ made \in SUBSET Items
  /\ signal \in SUBSET Int
  /\ chan \in BOOLEAN
  /\ pc \in {"wait", "once", "call", "append", "user", "check", "arm"}
  /\ cur \in Items \cup {NoItem}
  /\ stamp \in 0..MaxTime
  /\ deleted \in SUBSET made
  /\ calm \in BOOLEAN /\ excused \in BOOLEAN

Init ==
  /\ clock = 0
  /\ timers = <<>>
  /\ Index = [i \in Items |-> 0]
  /\ Expire = [i \in Items |-> 0]
  /\ interval = [i \in Items |-> 0]
  /\ made = {}
  /\ signal = {}
  /\ chan = FALSE
  /\ pc = "wait"
  /\ cur = NoItem
  /\ stamp = 0
  /\ deleted = {}
  /\ calm = TRUE
  /\ excused = FALSE

-----------------------------------------------------------------------------
(* The heap.                                                               *)

Elements(s) == {s[k] : k \in 1..Len(s)}

\* heap.Fix by its contract, as far as the code relies on it: the same items,
\* one with the least Expire at the root, which is the old one if it is.
Fixed(s, e) ==
  {h \in [1..Len(s) -> Elements(s)] :
     /\ \A i \in Elements(s) : \E k \in 1..Len(s) : h[k] = i
     /\ \A j, k \in 1..Len(s) : h[j] = h[k] => j = k
     /\ \A k \in 1..Len(s) : e[h[1]] <= e[h[k]]
     /\ s # <<>> /\ (\A k \in 1..Len(s) : e[s[1]] <= e[s[k]]) => h[1] = s[1]}

\* What Swap has written when heap.Fix has turned s into h: its new place into
\* every item that is no longer where it was, and nothing into the others.
Swapped(s, h, idx) ==
  [i \in Items |-> IF \E k \in 1..Len(h) : h[k] = i /\ s[k] # i
                   THEN (CHOOSE k \in 1..Len(h) : h[k] = i) - 1
                   ELSE idx[i]]

\* heap.Fix on the slice s, when the items' Index is idx.
Reheap(s, idx) ==
  \E h \in Fixed(s, Expire') :
    /\ timers' = h
    /\ Index' = Swapped(s, h, idx)

NotPlaced(i) == Index  \* mutant: a new item has 0, one that rang -1

\* The Index that Once and Schedule give an item before they append it.
Placed(i) == [Index EXCEPT ![i] = Len(timers)]

\* append and heap.Fix.
Insert(i) == Reheap(Append(timers, i), Placed(i))

\* Swap of place k with the last one, after which the slice ends before it.
WithLastAt(s, k) == [j \in 1..Len(s) - 1 |-> IF j = k THEN s[Len(s)] ELSE s[j]]
SwappedWithLast(k) == [Index EXCEPT ![timers[Len(timers)]] = k - 1,
                                    ![timers[k]] = Len(timers) - 1]

\* Timers.Remove leaves in the item the last place it had.
Remove(i) == LET k == Index[i] + 1 IN Reheap(WithLastAt(timers, k), SwappedWithLast(k))

\* Timers.Pop, which leaves -1 in it.
Pop == Reheap(WithLastAt(timers, 1), [SwappedWithLast(1) EXCEPT ![timers[1]] = -1])

\* signal.Reset to the time of the new head.
ArmForHead == signal' = {Expire'[timers'[1]]}

ValidPlace(i) == Index[i] >= 0 /\ Index[i] < Len(timers)  \* mutant

\* item is what its Index says it is: the check of Delete and of Reset.
Valid(i) == /\ Index[i] >= 0 /\ Index[i] < Len(timers)
            /\ timers[Index[i] + 1] = i

-----------------------------------------------------------------------------
(* Callers.                                                                *)

\* A new item, due at t, the signal armed again if it is the head.
AddItem(i, t, p) ==
  /\ i \notin made
  /\ made' = made \cup {i}
  /\ interval' = [interval EXCEPT ![i] = p]
  /\ Expire' = [Expire EXCEPT ![i] = t]
  /\ Insert(i)
  /\ IF timers'[1] = i THEN ArmForHead ELSE UNCHANGED signal
  /\ UNCHANGED <<clock, chan, deleted, calm, excused, firingVars>>

OnceBefore(i, timeout) == AddItem(i, clock - timeout, 0)  \* mutant
Once(i, timeout) == AddItem(i, clock + timeout, 0)

Schedule(i, delay, p) == p > 0 /\ AddItem(i, clock + delay, p)

\* Delete. A wrong Index is only logged. The signal is armed again when the
\* head is removed, and left alone when the heap becomes empty.
Delete(i) ==
  /\ i \in made
  /\ Valid(i)
  /\ UNCHANGED Expire
  /\ Remove(i)
  /\ IF Index[i] = 0 /\ Len(timers) > 1 THEN ArmForHead ELSE UNCHANGED signal
  /\ deleted' = deleted \cup {i}
  /\ calm' = FALSE
  /\ UNCHANGED <<clock, made, interval, chan, excused, firingVars>>

\* Reset. It never arms the signal. On an item that was popped it panics (its
\* Index is -1), which changes nothing here.
Reset(i, delay) ==
  /\ i \in made
  /\ Valid(i)
  /\ Expire' = [Expire EXCEPT ![i] = clock + delay]
  /\ Reheap(timers, Index)
  /\ calm' = FALSE
  /\ excused' = (excused \/ (pc \in {"user", "check"} /\ interval[cur] > 0))
  /\ UNCHANGED <<clock, signal, chan, callerVars, firingVars>>

\* Stop stops the signal and nothing else.
Stop ==
  /\ signal' = {}
  /\ excused' = TRUE
  /\ UNCHANGED <<clock, timers, Index, Expire, chan, calm, callerVars, firingVars>>

-----------------------------------------------------------------------------
(* The signal and the goroutine that takes it.                             *)

\* Back to the loop: what once and the closure hold is gone.
Done == pc' = "wait" /\ cur' = NoItem /\ stamp' = 0

SignalExpires ==
  /\ \E t \in signal : t <= clock
  /\ signal' = {}
  /\ chan' = TRUE
  /\ UNCHANGED <<clock, timers, Index, Expire, calm, excused, callerVars, firingVars>>

Receive ==
  /\ pc = "wait"
  /\ chan
  /\ chan' = FALSE
  /\ pc' = "once"
  /\ UNCHANGED <<clock, timers, Index, Expire, signal, calm, excused, callerVars, cur, stamp>>

\* mutant: the signal is not armed for the next head
OncePopsOnly ==
  /\ pc = "once"
  /\ timers # <<>>
  /\ UNCHANGED Expire
  /\ Pop
  /\ cur' = Head(timers)
  /\ pc' = IF interval[cur'] > 0 THEN "call" ELSE "user"
  /\ UNCHANGED <<clock, signal, chan, calm, excused, callerVars, stamp>>

\* The critical section of once, which does not look at Expire.
OncePops ==
  /\ pc = "once"
  /\ timers # <<>>
  /\ UNCHANGED Expire
  /\ Pop
  /\ IF Len(timers) > 1 THEN ArmForHead ELSE UNCHANGED signal
  /\ cur' = Head(timers)
  /\ pc' = IF interval[cur'] > 0 THEN "call" ELSE "user"
  /\ UNCHANGED <<clock, chan, calm, excused, callerVars, stamp>>

OnceFindsNothing ==
  /\ pc = "once"
  /\ timers = <<>>
  /\ signal' = {}
  /\ Done
  /\ UNCHANGED <<clock, timers, Index, Expire, chan, calm, excused, callerVars>>

\* The callback of Schedule: the time, then the item's return to the heap.
TakeStamp ==
  /\ pc = "call"
  /\ stamp' = clock
  /\ pc' = "append"
  /\ UNCHANGED <<clock, timers, Index, Expire, signal, chan, calm, excused, callerVars, cur>>

AppendAgain ==
  /\ pc = "append"
  /\ Expire' = [Expire EXCEPT ![cur] = stamp + interval[cur]]
  /\ Insert(cur)
  /\ pc' = "user"
  /\ UNCHANGED <<clock, signal, chan, calm, excused, callerVars, cur, stamp>>

\* The user's callback is over; Schedule has still to look at the head.
CallbackReturns ==
  /\ pc = "user"
  /\ \/ interval[cur] > 0 /\ pc' = "check" /\ UNCHANGED <<cur, stamp>>
     \/ interval[cur] = 0 /\ Done
  /\ UNCHANGED <<clock, timers, Index, Expire, signal, chan, calm, excused, callerVars>>

\* HandlePanic of once ends the callback of Schedule with it.
CallbackPanics ==
  /\ pc = "user"
  /\ Done
  /\ excused' = (excused \/ interval[cur] > 0)
  /\ UNCHANGED <<clock, timers, Index, Expire, signal, chan, calm, callerVars>>

\* Without the mutex: is the item the head, and then, Reset of the signal.
CheckHead ==
  /\ pc = "check"
  /\ IF timers # <<>> /\ Head(timers) = cur
     THEN pc' = "arm" /\ UNCHANGED <<cur, stamp>>
     ELSE Done
  /\ UNCHANGED <<clock, timers, Index, Expire, signal, chan, calm, excused, callerVars>>

ArmAgain ==
  /\ pc = "arm"
  /\ signal' = {clock + (Expire[cur] - stamp)}
  /\ calm' = (calm /\ ~chan /\ timers # <<>> /\ Head(timers) = cur)
  /\ Done
  /\ UNCHANGED <<clock, timers, Index, Expire, chan, excused, callerVars>>

Tick ==
  /\ clock < MaxTime
  /\ clock' = clock + 1
  /\ UNCHANGED <<timers, Index, Expire, signal, chan, calm, excused, callerVars, firingVars>>

Calls ==
  \/ \E i \in Items, d \in Delays :
       \/ Once(i, d)
       \/ \E p \in Intervals : Schedule(i, d, p)
       \/ Reset(i, d)
  \/ \E i \in Items : Delete(i)
  \/ Stop

Firing ==
  \/ Receive \/ OncePops \/ OnceFindsNothing
  \/ TakeStamp \/ AppendAgain \/ CallbackReturns \/ CallbackPanics
  \/ CheckHead \/ ArmAgain

Next == Calls \/ SignalExpires \/ Firing \/ Tick

Spec == Init /\ [][Next]_vars

-----------------------------------------------------------------------------
(* Properties.                                                             *)

\* Every item of the heap knows its place and stands there once, whatever was
\* deleted, reset or fired in between, although Index is written in five places
\* and kept by items that are out of the heap: on that rests that Delete and
\* Reset, which trust it, never touch another item (timer.go:35-39, :51, :67-70,
\* :97, :120, :125, :157-168, :212-218).
IndexTrue ==
  \A k \in 1..Len(timers) : Index[timers[k]] = k - 1

\* The signal is never forgotten: a heap that is not empty has a signal that
\* is armed or has expired, or the firing goroutine will still arm it. Every
\* exception is one of three: Stop, a callback of Schedule that panicked, and a
\* Reset while such a callback ran (timer.go:103, :132-135, :169, :217, :233, :241).
NotForgotten ==
  timers = <<>> \/ excused \/ signal # {} \/ chan \/ pc \in {"once", "arm"}
    \/ (pc \in {"user", "check"} /\ interval[cur] > 0 /\ Head(timers) = cur)

\* The abstract alarms: set while in the heap, rung from the moment once has
\* popped them.
life == [i \in Items |-> IF i \notin made THEN "new"
                         ELSE IF i \in Elements(timers) THEN "set"
                         ELSE IF i \in deleted THEN "off" ELSE "rang"]

A == INSTANCE Alarms WITH due <- Expire, period <- interval

\* The timer implements Alarms: earliest first, Once items ring at most once,
\* a deleted item never again, also when Delete, the signal and a callback that
\* puts its item back overlap; and no item rings early while calm: a
\* signal that is left for an item no longer there is obeyed by once all the
\* same, whatever the head is then (timer.go:236-247).
ImplementsAlarms == A!AlarmSpec
=============================================================================
