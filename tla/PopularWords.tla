---------------------------- MODULE PopularWords ----------------------------
(***************************************************************************)
(* popular.go: the words of the last popularHoldTime seconds, counted in   *)
(* one map per second. The goroutine that onChat starts for a clean        *)
(* message calls add for each of its words; the one it starts for          *)
(* "/popular" calls get. add and get read the clock before they lock, and  *)
(* clear, at the end of add, reads the clock and the size of the map       *)
(* without locking at all.                                                 *)
(***************************************************************************)
EXTENDS Integers, FiniteSets

CONSTANTS
  Adders,   \* goroutines that add words
  Getters,  \* goroutines that ask for the popular words
  SaidWords, \* the words that are said
  HoldTime, \* popularHoldTime, 5 in the program
  TopSize,  \* how many words get returns at most, 10 in the program
  MaxTime,  \* bound: seconds on the clock
  MaxAdds   \* bound: words added

ASSUME GoroutinesAssumption == Adders \cap Getters = {}
ASSUME SizesAssumption ==
  /\ HoldTime \in Nat \ {0} /\ TopSize \in Nat
  /\ MaxTime \in Nat /\ MaxAdds \in Nat

VARIABLES
  now,          \* time.Now().Unix()
  popularWords, \* mgr.popularWords: for some seconds, the count of each word
  pc,           \* where each goroutine is
  curTime,      \* curTime[g]: what g read on the clock
  word,         \* word[a]: the word a is adding
  top,          \* top[g]: what get returned to g
  calls,        \* how many words were added
  added         \* history variable: how often each word was added in each second

popularVars == <<now, popularWords, pc, curTime, word, top, calls, added>>

Seconds == 0..MaxTime
Counts == [SaidWords -> Nat]

PopularTypeOK ==
  /\ now \in Seconds
  /\ DOMAIN popularWords \subseteq Seconds
  /\ \A t \in DOMAIN popularWords :
       popularWords[t] \in Counts /\ \E w \in SaidWords : popularWords[t][w] > 0
  /\ pc \in [Adders \cup Getters -> {"idle", "add", "clear", "delete", "get"}]
  /\ curTime \in [Adders \cup Getters -> Seconds]
  /\ word \in [Adders -> SaidWords]
  /\ top \in [Getters -> SUBSET SaidWords]
  /\ calls \in 0..MaxAdds
  /\ added \in [Seconds -> Counts]

PopularInit ==
  /\ now = 0
  /\ popularWords = [t \in {} |-> 0]
  /\ pc = [g \in Adders \cup Getters |-> "idle"]
  /\ curTime = [g \in Adders \cup Getters |-> 0]
  /\ word \in [Adders -> SaidWords]
  /\ top = [g \in Getters |-> {}]
  /\ calls = 0
  /\ added = [t \in Seconds |-> [w \in SaidWords |-> 0]]

Goto(g, label) == pc' = [pc EXCEPT ![g] = label]

-----------------------------------------------------------------------------

\* The wall clock is taken to go forward.
Tick ==
  /\ now < MaxTime
  /\ now' = now + 1
  /\ UNCHANGED <<popularWords, pc, curTime, word, top, calls, added>>

ReadClock(g) == curTime' = [curTime EXCEPT ![g] = now]

\* add(w): the clock is read first.
CallAdd(a, w) ==
  /\ pc[a] = "idle"
  /\ calls < MaxAdds
  /\ calls' = calls + 1
  /\ ReadClock(a)
  /\ word' = [word EXCEPT ![a] = w]
  /\ Goto(a, "add")
  /\ UNCHANGED <<now, popularWords, top, added>>

\* What is counted for second t; a second that is not in the map has nothing.
CountsOf(t) ==
  IF t \in DOMAIN popularWords THEN popularWords[t] ELSE [w \in SaidWords |-> 0]

\* mutant: the first word of a second is not counted
AddFrom(t) == IF t \in DOMAIN popularWords THEN 1 ELSE 0
Twice(t) == 2  \* mutant
One(t) == 1

\* The critical section of add.
AddLocked(a) ==
  /\ pc[a] = "add"
  /\ LET t == curTime[a]
         counts == [CountsOf(t) EXCEPT ![word[a]] = @ + One(t)]
     IN  /\ popularWords' = [s \in DOMAIN popularWords \cup {t} |->
                               IF s = t THEN counts ELSE popularWords[s]]
         /\ added' = [added EXCEPT ![t][word[a]] = @ + 1]
  /\ Goto(a, "clear")
  /\ UNCHANGED <<now, curTime, word, top, calls>>

\* clear: the clock and the number of seconds in the map, read without the mutex.
TooMany == Cardinality(DOMAIN popularWords) > HoldTime

TestSize(a) ==
  /\ pc[a] = "clear"
  /\ ReadClock(a)
  /\ Goto(a, IF TooMany THEN "delete" ELSE "idle")
  /\ UNCHANGED <<now, popularWords, word, top, calls, added>>

\* The second that clear deletes: the one before the current.
ThisSecond(t) == t  \* mutant
OldTime(t) == t - 1

Delete(a) ==
  /\ pc[a] = "delete"
  /\ popularWords' = [t \in DOMAIN popularWords \ {OldTime(curTime[a])} |-> popularWords[t]]
  /\ Goto(a, "idle")
  /\ UNCHANGED <<now, curTime, word, top, calls, added>>

-----------------------------------------------------------------------------

CallGet(g) ==
  /\ pc[g] = "idle"
  /\ ReadClock(g)
  /\ Goto(g, "get")
  /\ UNCHANGED <<now, popularWords, word, top, calls, added>>

\* The seconds that count for an answer given at time t are those behind start.
HeldBefore(t) == t - HoldTime - 1  \* mutant
start(t) == t - HoldTime

\* tempWord: how often w counts in an answer given at time t, second by second.
tempWord(t, w) ==
  LET upTo[i \in start(t)..t] ==
        IF i = start(t) THEN 0 ELSE upTo[i - 1] + CountsOf(i)[w]
  IN  upTo

Sum(g, w) == tempWord(curTime[g], w)[curTime[g]]

\* The words counted most often come first and get stops after TopSize of them;
\* words counted equally often come in any order.
IsTop(g, ws) ==
  LET counted == {w \in SaidWords : Sum(g, w) > 0}
  IN  /\ ws \subseteq counted
      /\ Cardinality(ws) = IF Cardinality(counted) < TopSize
                           THEN Cardinality(counted) ELSE TopSize
      /\ \A v \in ws, w \in counted \ ws : Sum(g, v) >= Sum(g, w)

Get(g) ==
  /\ pc[g] = "get"
  /\ \E ws \in SUBSET SaidWords : IsTop(g, ws) /\ top' = [top EXCEPT ![g] = ws]
  /\ Goto(g, "idle")
  /\ UNCHANGED <<now, popularWords, curTime, word, calls, added>>

-----------------------------------------------------------------------------

PopularNext ==
  \/ Tick
  \/ \E a \in Adders : \/ \E w \in SaidWords : CallAdd(a, w)
                       \/ AddLocked(a) \/ TestSize(a) \/ Delete(a)
  \/ \E g \in Getters : CallGet(g) \/ Get(g)

PopularSpec == PopularInit /\ [][PopularNext]_popularVars

-----------------------------------------------------------------------------
(* Properties.                                                             *)

\* The words of the current second are all counted, whatever else is added and
\* cleared meanwhile: clear, even when it lags behind, only ever deletes a
\* second that is over (popular.go:27-37).
CurrentSecondCounted == CountsOf(now) = added[now]

\* No word counts more often than it was said, although a second that was
\* deleted can start anew when an add comes late for it (popular.go:42-48).
NothingInvented ==
  \A t \in Seconds, w \in SaidWords : CountsOf(t)[w] <= added[t][w]

\* Whatever get has returned was said in the HoldTime seconds before it looked
\* at its clock.
AnswersAreRecent ==
  \A g \in Getters : pc[g] = "idle" => \A w \in top[g] :
    \E t \in Seconds : /\ curTime[g] - HoldTime < t /\ t <= curTime[g]
                       /\ added[t][w] > 0

\* What the note of the author says, the popular words "within 5 seconds": an
\* answer given now would count every word of the last HoldTime seconds.
HoldTimeCounted ==
  \A t \in Seconds : now - HoldTime < t /\ t <= now => CountsOf(t) = added[t]
=============================================================================
