------------------------------ MODULE LogFiles ------------------------------
(***************************************************************************)
(* log/log.go: lines that go to files named for the day and a number, a    *)
(* new number when a file is full. Debug, Info and the others read the     *)
(* clock, build the line, and only then lock logmtx, choose the file by    *)
(* that time (checkFile) and write; goroutines may lock in another order   *)
(* than they read the clock. With enablebufio the line goes to a           *)
(* bufio.Writer, which rotation, Save and the sync goroutine flush. The    *)
(* program may stop at any time and start again.                           *)
(*                                                                         *)
(* A line is known by its number. A directory or a file may fail to be     *)
(* made, and a write or a flush to an open file may fail.                  *)
(***************************************************************************)
EXTENDS Integers, Sequences

CONSTANTS
  Goroutines,  \* callers of Debug, Info, ...
  MaxFileSize, \* maxfilesize, 0 for no limit
  Lengths,     \* lengths of lines, which may exceed MaxFileSize
  MaxDay,      \* bound: days
  MaxLines,    \* bound: lines
  MaxStarts    \* bound: starts of the program

ASSUME BoundsAssumption ==
  /\ MaxFileSize \in Nat /\ Lengths \subseteq Nat
  /\ MaxDay \in Nat /\ MaxLines \in Nat /\ MaxStarts \in Nat \ {0}

VARIABLES
  today,   \* the date of time.Now()
  start,   \* how often the program was started, which inittime tells
  newdir,  \* enablenewdir
  bufio,   \* enablebufio
  lines,   \* lines[n]: the day that was read for line n, and its length
  hand,    \* hand[g]: the line that g is about to write, or 0
  log,     \* logfilename, logfilesubnum, logfilesize, logfile, filewriter
  disk,    \* disk[f]: the lines in file f, none if there is no such file
  written, \* history: lines whose writetofile has returned
  lost,    \* history: lines that were in the buffer when the program stopped
  bytes,   \* history: bytes[f]: the length of the lines put in f or its buffer
  failed,  \* history: a directory or a file could not be made, or a line written
  late     \* history: a line came for a day before that of the open file

confVars == <<newdir, bufio>>
vars == <<today, start, lines, hand, log, disk, written, lost, bytes, failed, late, confVars>>

Days == 0..MaxDay

\* A file: its directory (named for the start with enablenewdir), day, number.
FileNames == [dir : 0..MaxStarts, day : Days, sub : 0..MaxLines]
NoFile == [dir |-> 0, day |-> -1, sub |-> 0]

\* Package log before its first line. opened: logfile is an open file; writer:
\* where filewriter writes to, "nil", that "file", or "gone": to a file that is
\* closed, or nowhere any more after an error. What is meant for it is lost.
Fresh == [name |-> NoFile, sub |-> 0, size |-> 0,
          opened |-> FALSE, writer |-> "nil", buf |-> <<>>]

TypeOK ==
  /\ today \in Days
  /\ start \in 1..MaxStarts
  /\ newdir \in BOOLEAN /\ bufio \in BOOLEAN
  /\ lines \in Seq([day : Days, len : Lengths])
  /\ hand \in [Goroutines -> Nat]
  /\ log \in [name : FileNames \cup {NoFile}, sub : Nat, size : Nat,
              opened : BOOLEAN, writer : {"nil", "file", "gone"}, buf : Seq(Nat)]
  /\ disk \in [FileNames -> Seq(Nat)]
  /\ written \in SUBSET Nat /\ lost \in SUBSET Nat
  /\ bytes \in [FileNames -> Nat]
  /\ failed \in BOOLEAN /\ late \in BOOLEAN

Init ==
  /\ today = 0
  /\ start = 1
  /\ newdir \in BOOLEAN /\ bufio \in BOOLEAN
  /\ lines = <<>>
  /\ hand = [g \in Goroutines |-> 0]
  /\ log = Fresh
  /\ disk = [f \in FileNames |-> <<>>]
  /\ bytes = [f \in FileNames |-> 0]
  /\ written = {} /\ lost = {}
  /\ failed = FALSE /\ late = FALSE

-----------------------------------------------------------------------------
(* Choosing the file.                                                      *)

OpenName(n) == [dir |-> IF newdir THEN start ELSE 0,  \* mutant: whatever the day
                day |-> IF log.opened THEN log.name.day ELSE lines[n].day, sub |-> log.sub]

\* The file that checkFile expects for line n.
CurrName(n) == [dir |-> IF newdir THEN start ELSE 0, day |-> lines[n].day, sub |-> log.sub]

OverflowsNow(n) == MaxFileSize > 0 /\ log.size > MaxFileSize  \* mutant
Overflows(n) == MaxFileSize > 0 /\ log.size + lines[n].len > MaxFileSize

\* The file that it wants open: the first of the day when the open one is of
\* another day, the next when it is full, else the open one. Line n is the
\* first of a new file whatever its length.
Wanted(n) ==
  IF log.name # CurrName(n) THEN [CurrName(n) EXCEPT !.sub = 0]
  ELSE IF Overflows(n) THEN [CurrName(n) EXCEPT !.sub = @ + 1]
  ELSE log.name

Rotates(n) == Wanted(n) # log.name

Unsaved(l, dk) == dk  \* mutant: no Flush

\* Flush of filewriter writes the buffer to the file, or, until an error, the
\* first lines of it. (A buffer that is full is flushed by WriteString: for the
\* lines in it this is a syncLogFile before the write.)
Flushed(l, dk) ==
  IF l.writer = "file" THEN [dk EXCEPT ![l.name] = @ \o l.buf] ELSE dk

Flushes(l, dk) ==
  {Flushed(l, dk)} \cup
  IF l.writer = "file"
  THEN {[dk EXCEPT ![l.name] = @ \o SubSeq(l.buf, 1, k)] : k \in 0..Len(l.buf)}
  ELSE {}

\* After an error bufio.Writer takes and writes nothing until it is Reset.
Gone(l) == [l EXCEPT !.writer = IF @ = "file" THEN "gone" ELSE @, !.buf = <<>>]

\* After a rotation to f; newFile has given the writer a new start.
Opened(f) ==
  [name |-> f, sub |-> f.sub, size |-> 0, opened |-> TRUE,
   writer |-> IF bufio THEN "file" ELSE log.writer, buf |-> <<>>]

\* After a rotation that could not open f: the old file is closed, its size and
\* the name of the new one are kept.
NotOpened(f) == [Gone(log) EXCEPT !.name = f, !.sub = f.sub, !.opened = FALSE]

\* Line n is in the file or the buffer of l; ok: nothing has failed on the way.
Counted(l, n, ok) ==
  /\ bytes' = [bytes EXCEPT ![l.name] = @ + lines[n].len]
  /\ failed' = (failed \/ ~ok)

\* The write fails: in WriteString's flush, on a writer that is gone, which may
\* take the line without knowing, or on the file. Some of the line may be
\* there; that counts for nothing.
PutFails(l, dk, n) ==
  /\ \/ bufio /\ l.writer = "file" /\ log' = Gone(l) /\ disk' \in Flushes(l, dk)
     \/ bufio /\ l.writer # "file" /\ log' = l /\ disk' = dk
     \/ /\ bufio /\ l.writer = "gone"
        /\ log' = [l EXCEPT !.size = @ + lines[n].len] /\ disk' = dk
     \/ ~bufio /\ log' = l /\ disk' = dk
  /\ failed' = TRUE
  /\ UNCHANGED bytes

\* writetofile of line n to the logger l: into the buffer, or to the file.
Put(l, dk, n, ok) ==
  \/ /\ bufio /\ l.writer = "file"
     /\ log' = [l EXCEPT !.size = @ + lines[n].len, !.buf = Append(@, n)]
     /\ disk' = dk
     /\ Counted(l, n, ok)
  \/ /\ ~bufio /\ l.opened
     /\ log' = [l EXCEPT !.size = @ + lines[n].len]
     /\ disk' = [dk EXCEPT ![l.name] = Append(@, n)]
     /\ Counted(l, n, ok)
  \/ PutFails(l, dk, n)

-----------------------------------------------------------------------------

\* Debug, Info, ... up to the call of writetofile: now := time.Now().
TakeTime(g) ==
  /\ hand[g] = 0
  /\ Len(lines) < MaxLines
  /\ \E len \in Lengths : lines' = Append(lines, [day |-> today, len |-> len])
  /\ hand' = [hand EXCEPT ![g] = Len(lines) + 1]
  /\ UNCHANGED <<today, start, log, disk, written, lost, bytes, failed, late, confVars>>

\* The end of writetofile, whatever has become of the line.
Writes(g) ==
  /\ hand[g] # 0
  /\ written' = written \cup {hand[g]}
  /\ hand' = [hand EXCEPT ![g] = 0]
  /\ UNCHANGED <<today, start, lines, lost, confVars>>

WriteToOpen(g) ==
  /\ Writes(g)
  /\ ~Rotates(hand[g])
  /\ Put(log, disk, hand[g], TRUE)
  /\ UNCHANGED late

WriteToNext(g) ==
  /\ Writes(g)
  /\ Rotates(hand[g])
  /\ \E dk \in Flushes(log, disk) :
       Put(Opened(Wanted(hand[g])), dk, hand[g], dk = Flushed(log, disk))
  /\ late' = (late \/ lines[hand[g]].day < log.name.day)

\* os.OpenFile fails. The name is kept, so that it is not tried again.
OpenFails(g) ==
  /\ Writes(g)
  /\ Rotates(hand[g])
  /\ \E dk \in Flushes(log, disk) : Put(NotOpened(Wanted(hand[g])), dk, hand[g], FALSE)
  /\ late' = (late \/ lines[hand[g]].day < log.name.day)

\* os.MkdirAll fails: checkFile gives up, the line goes to what is open.
MakeDirFails(g) ==
  /\ Writes(g)
  /\ Put(log, disk, hand[g], FALSE)
  /\ UNCHANGED late

\* syncLogFile, from Save or from the ticker of startSync.
syncLogFile ==
  /\ bufio
  /\ disk' = Flushed(log, disk)
  /\ log' = [log EXCEPT !.buf = <<>>]
  /\ UNCHANGED <<today, start, lines, hand, written, lost, bytes, failed, late, confVars>>

syncFails ==
  /\ bufio
  /\ disk' \in Flushes(log, disk) \ {Flushed(log, disk)}
  /\ log' = Gone(log)
  /\ failed' = TRUE
  /\ UNCHANGED <<today, start, lines, hand, written, lost, bytes, late, confVars>>

\* The program stops, nothing is flushed, and starts again.
Restart ==
  /\ start < MaxStarts
  /\ start' = start + 1
  /\ hand' = [g \in Goroutines |-> 0]
  /\ log' = Fresh
  /\ lost' = lost \cup {log.buf[k] : k \in 1..Len(log.buf)}
  /\ UNCHANGED <<today, lines, disk, written, bytes, failed, late, confVars>>

Midnight ==
  /\ today < MaxDay
  /\ today' = today + 1
  /\ UNCHANGED <<start, lines, hand, log, disk, written, lost, bytes, failed, late, confVars>>

Next ==
  \/ \E g \in Goroutines : \/ TakeTime(g) \/ WriteToOpen(g) \/ WriteToNext(g)
                           \/ OpenFails(g) \/ MakeDirFails(g)
  \/ syncLogFile \/ syncFails \/ Restart \/ Midnight

Spec == Init /\ [][Next]_vars

-----------------------------------------------------------------------------
(* Properties.                                                             *)

\* A line is in the file of its own day, also when goroutines write across
\* midnight in another order than they read the clock, and when it was flushed
\* only after the next day had begun (log.go:162, :173-187, :322, :401). Until
\* then no directory, file, write or flush may have failed: after a file that
\* could not be made, lines go on to what was open before.
RightDay ==
  ~failed =>
    /\ \A f \in FileNames : \A k \in 1..Len(disk[f]) : lines[disk[f][k]].day = f.day
    /\ \A k \in 1..Len(log.buf) : lines[log.buf[k]].day = log.name.day

\* A line whose write has returned is in exactly one place: in a file, in the
\* buffer, or lost with the buffer when the program stopped. Rotation loses
\* none and writes none twice (log.go:134-138, :176-187, :222-233). A line may be
\* nowhere, but not twice, once a directory or a file could not be made or an
\* error cut off a write or a flush (:178, :224, :329-351, :360), which the code
\* prints and forgets.
KeptOnce ==
  LET files == {f \in FileNames : disk[f] # <<>>}
  IN  /\ \A f, g \in files : \A j \in 1..Len(disk[f]), k \in 1..Len(disk[g]) :
           disk[f][j] = disk[g][k] => f = g /\ j = k
      /\ ~failed => \A n \in written :
           \/ \E f \in files : \E k \in 1..Len(disk[f]) : disk[f][k] = n
           \/ \E k \in 1..Len(log.buf) : log.buf[k] = n
           \/ n \in lost

\* The number of lines in f and in the buffer for it.
LinesIn(f) == Len(disk[f]) + IF f = log.name THEN Len(log.buf) ELSE 0

\* No file exceeds maxfilesize but by its only line, which a new file takes
\* whatever its length (log.go:200-210, :245-254); nor unless something failed
\* or a file is opened a second time. Two things open one again, and count its
\* size from 0: a start without a new directory, which the test's comment warns
\* of (log_test.go:31), and a line that read the clock before midnight and
\* writes after the first line of the new day, which nothing warns of (log.go:173,
\* :205, :401).
LimitKept ==
  MaxFileSize > 0 /\ ~late /\ ~failed /\ (newdir \/ start = 1) =>
    \A f \in FileNames : bytes[f] <= MaxFileSize \/ LinesIn(f) <= 1
=============================================================================
