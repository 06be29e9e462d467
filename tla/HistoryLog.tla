----------------------------- MODULE HistoryLog -----------------------------
(***************************************************************************)
(* What the history of the chat promises: a list of the newest messages,   *)
(* in the order they were added, and readers that keep the list as it was  *)
(* when they asked for it. A message is its number.                        *)
(***************************************************************************)
EXTENDS Integers, Sequences

CONSTANTS
  Readers,     \* who asks for the history
  HistorySize, \* historyRecordCount
  MaxAdds      \* bound: messages added

VARIABLES
  adds, \* how many messages were added
  log,  \* the newest of them
  got   \* got[r]: what r was last given

logVars == <<adds, log, got>>

LogInit ==
  /\ adds = 0
  /\ log = <<>>
  /\ got = [r \in Readers |-> <<>>]

Newest(s) ==
  IF Len(s) > HistorySize
  THEN SubSeq(s, Len(s) - HistorySize + 1, Len(s))
  ELSE s

Add ==
  /\ adds < MaxAdds
  /\ adds' = adds + 1
  /\ log' = Newest(Append(log, adds + 1))
  /\ UNCHANGED got

Get(r) ==
  /\ got' = [got EXCEPT ![r] = log]
  /\ UNCHANGED <<adds, log>>

LogNext == Add \/ \E r \in Readers : Get(r)

LogSpec == LogInit /\ [][LogNext]_logVars

-----------------------------------------------------------------------------

\* The numbers of the newest messages once n were added.
NewestOf(n) ==
  LET k == IF n > HistorySize THEN HistorySize ELSE n
  IN  [i \in 1..k |-> n - k + i]

\* The list holds the newest messages, all of them, in order; and whatever a
\* reader holds was the whole list at some time (history.go:30-37).
ExactlyNewest ==
  /\ log = NewestOf(adds)
  /\ \A r \in Readers : \E n \in 0..adds : got[r] = NewestOf(n)
=============================================================================
