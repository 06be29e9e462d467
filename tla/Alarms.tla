------------------------------- MODULE Alarms -------------------------------
(***************************************************************************)
(* What timer/timer.go promises its callers: alarms that are set to a      *)
(* time, ring once when it has come, earliest first, ring again only if    *)
(* they repeat, and never ring after they were cancelled. That none rings  *)
(* too early is promised only while calm. Calm ends for good with the      *)
(* first alarm that is cancelled or moved, and may end after one that      *)
(* repeats has rung.                                                       *)
(***************************************************************************)
EXTENDS Integers

CONSTANTS
  Items,   \* the alarms
  MaxTime  \* bound: the clock

VARIABLES
  clock,
  life,   \* life[i]: "new", "set", "rang" or "off"
  due,    \* due[i]: when i should ring, once it is set
  period, \* period[i]: 0 if i rings only once
  calm    \* no alarm rings early

alarmVars == <<clock, life, due, period, calm>>

AlarmInit ==
  /\ clock = 0
  /\ life = [i \in Items |-> "new"]
  /\ due = [i \in Items |-> 0]
  /\ period = [i \in Items |-> 0]
  /\ calm = TRUE

\* i is set and no other alarm comes before it.
Next1st(i) ==
  /\ life[i] = "set"
  /\ \A j \in Items : life[j] = "set" => due[i] <= due[j]

\* Between f and g only what belongs to i may differ.
Changes(f, g, i) == g = [f EXCEPT ![i] = g[i]]

Set(i) ==
  /\ life[i] = "new"
  /\ life' = [life EXCEPT ![i] = "set"]
  /\ Changes(due, due', i) /\ due'[i] >= clock
  /\ Changes(period, period', i)
  /\ UNCHANGED <<clock, calm>>

Ring(i) ==
  /\ Next1st(i)
  /\ calm => due[i] <= clock
  /\ life' = [life EXCEPT ![i] = "rang"]
  /\ UNCHANGED <<clock, due, period, calm>>

RingAgain(i) ==
  /\ life[i] = "rang"
  /\ period[i] > 0
  /\ life' = [life EXCEPT ![i] = "set"]
  /\ Changes(due, due', i) /\ due'[i] <= clock + period[i]
  /\ UNCHANGED <<clock, period, calm>>

\* Calm may end at any time once an alarm that repeats has rung.
CalmEnds ==
  /\ \E i \in Items : period[i] > 0 /\ life[i] # "new"
  /\ calm' = FALSE
  /\ UNCHANGED <<clock, life, due, period>>

Cancel(i) ==
  /\ life[i] = "set"
  /\ life' = [life EXCEPT ![i] = "off"]
  /\ calm' = FALSE
  /\ UNCHANGED <<clock, due, period>>

Move(i) ==
  /\ life[i] = "set"
  /\ Changes(due, due', i) /\ due'[i] >= clock
  /\ calm' = FALSE
  /\ UNCHANGED <<clock, life, period>>

Pass ==
  /\ clock < MaxTime
  /\ clock' = clock + 1
  /\ UNCHANGED <<life, due, period, calm>>

AlarmNext ==
  \/ Pass \/ CalmEnds
  \/ \E i \in Items : Set(i) \/ Ring(i) \/ RingAgain(i) \/ Cancel(i) \/ Move(i)

AlarmSpec == AlarmInit /\ [][AlarmNext]_alarmVars
=============================================================================
