# A verification of the chat server

The program is a chat server in Go (`src/chat_test/src/chat-system/`): clients
connect over TCP, log in with a name, receive the recent history, and send chat
messages that the server filters and broadcasts to everybody. A client may also
ask for statistics and for the popular words of the last seconds. This
directory holds TLA+ modules that model it, the TLC runs that check them, and
the TLAPS proofs of what matters most. File names below are relative to
`chat-system/`; every comment on a property names the lines it is about.

## 1. Inventory

| Component | State | Operations | Used by / uses |
|---|---|---|---|
| Accepted connection, `tcp/tcpclient.go` | mutex, `Running`, `Conn`, `chSend` (256 messages), `closeCB` | `SendAsync`, `Stop`, `reader`, `writer`, `Connect`, `StopAsync` | handlers call `SendAsync`, the server calls `Stop`, `Stop` calls back into the server |
| Server, `tcp/tcpserver.go`, `util/signal.go` | mutex, `Running`, `listener`, `clients`, `currLoad`, `WaitGroup` | `Start` and the accept loop, `addClient`, `deleClient`, `stopClients`, `Stop`, `Serve` | starts connections, is called by them when they close |
| Delegate and framing, `tcp/netdelegate.go`, `tcp/netmsg.go` | handler table | `RecvMsg`, `SendMsg`, `HandleMsg` | between a connection, its coder and the service's handlers |
| Chat service, `service.go` | `RWMutex`, `clients`, `nameVerb` | `onAuth`, `onChat`, `onEcho`, `onPopular`, `onStats`, `addClient`, `broadcast`, `deleteClient` | handlers run on the readers of the connections; a broadcast sends on all of them |
| History, `history.go` | mutex, slice of 50 messages | `addHistory`, `getHistory` | a goroutine per clean message appends, logins read |
| Popular words, `popular.go` | mutex, map second -> word -> count | `add` (with `clear`), `get` | goroutines of `onChat` |
| Coders, `coder/` | key, round and packet count per direction | `Encrypt`, `Decrypt` of `ClientCoder` and `ServerCoder` | one coder per connection at the server, one for the life of a client |
| Timer, `timer/timer.go` | heap of items, one `time.Timer`, the value in its channel | `Once`, `Schedule`, `Delete`, `Reset`, `Stop`, the firing goroutine | `StopAsync` only |
| Bad words, `badwords/` | a tree of words by first character, the file it was read from | `Init`, `Add`, `Del`, `View`, `Search` | `onChat` searches, `init` reads the file; nothing calls `Add` or `Del` |
| Log, `log/log.go` | name, number, size, handle and buffer of the open file | `Debug`, `Info`, ..., `checkFile`, `newFile`, `Save`, the sync goroutine | everybody |
| Panic and type helpers, `util/` | none | `HandlePanic`, `Safe`, conversions | everybody |
| `main.go`, `proto/`, `src/index.js`, `src/node_modules` | | start-up, message types, an unrelated script, third-party code | |

How they interact: the accept loop makes a connection and starts its reader and
its writer; the reader takes a packet, the delegate runs the handler on that
goroutine, counted in the server's `WaitGroup`. A handler answers with
`SendAsync` on its own connection, and a chat message with `SendAsync` on all of
them, under the service's read lock. The reply that reports an error carries a
callback that stops the connection once it is written. `Stop` runs the close
callbacks, one of which removes the connection from the server. On a signal the
server closes its listener, waits for the handlers, and stops every connection.

What is hard about it, and what correctness means for each component:

* **Connection.** `Stop` is called by the reader, by the writer's callback and by
  the server at once, and it works on `Running`, `chSend` and `Conn` partly
  inside and partly outside the mutex that `SendAsync` holds. Right: one
  teardown, no send on a closed channel, the order of messages kept, nothing
  accepted left unwritten while the writer runs, an error reply ends the
  connection unless the peer lets a write hang.
* **Server.** Registering a connection, its close callback, the load and the
  shutdown interleave; the shutdown takes its mutex in callbacks. Right: load and
  map agree, no handler runs after the drain, shutdown reaches every connection,
  a signal ends the process.
* **Chat service.** Broadcasts under the read lock, logins under the write lock,
  the history in a goroutine of its own. Right: one sender's broadcasts in order, a
  login misses no message, broadcasts and logins end.
* **History.** The slice is read after the mutex is released while the array
  behind it is written. Right: a reader keeps what it was given; exactly the
  newest messages.
* **Popular words.** Clock and map are read without the mutex. Right: nothing
  invented, the current second complete, answers recent.
* **Coders.** Each packet can be deciphered only with what all earlier ones left
  on both sides; the padding is cut off before sending. Right: received as sent,
  both sides agree, nothing in the clear but what is too long.
* **Timer.** There is one signal for all items. One that is left over from an item
  deleted or reset meanwhile, a callback that puts its item back without the
  mutex, and callers that change the heap race the firing. Right: earliest first,
  an item of `Once` at most once, none after a `Delete` that succeeded, none
  early, and the signal never forgotten while an item waits.
* **Bad words.** An algorithm, and a list kept in two places. Right: the verdict of
  the scan is that of the word list, nothing bad is left after masking and nothing
  else is masked, and file and memory agree across restarts.
* **Log.** Goroutines read the clock and write later, in another order; files
  rotate by day and by size; a buffer stands in between. Right: a line is in the
  file of its day, in exactly one place, and files keep their limit.

`PROJECT.json` lists every hazard at its line, with the properties that would
catch it going wrong.

## 2. Modules

| Module | Models | State and actions |
|---|---|---|
| `Connection` | abstract: the life of one connection as its users see it | how far it has come, whether its reader is in a handler, whether an accepted callback will stop it, whether its mutex is lost; one action for each thing that can happen to it |
| `TcpClient` | one accepted connection, its reader, writer, senders and stoppers; implements `Connection` | mutex, `Running`, `chSend` and its buffer, socket and who is in a call on it, wire; one action per step between two points where another goroutine can run: a critical section of `SendAsync`, the parts of `Stop`, the writer's receive, write and callback |
| `TcpClientProofs` | theorems about it, the refinement among them | |
| `TcpServer` | accept loop, registry, load, `WaitGroup`, shutdown, stop timer | program counters of the acceptor and of the signalling goroutine, the life of each connection (`live`, `closing`, `dele`, `closed`), its close callback, its reader |
| `TcpServerProofs` | theorems about it, its use of `Connection` among them | |
| `ChatService` | `onAuth`, `onChat`, `addClient`, `broadcast`, the `RWMutex`, the history's goroutines | the client list, lock holders, what each client was sent; connections as `Connection` shows them: accept, refuse, drop, be in a write, or lose the mutex |
| `ChatServiceProofs` | theorems about it, its use of `Connection` among them | |
| `HistoryLog` | abstract: a list of the newest messages | `Add`, `Get` |
| `History` | `history.go` on slices and backing arrays; implements `HistoryLog` | heap of arrays, windows on them, `AppendInPlace`, `AppendByCopy`, `Trim` |
| `HistoryProofs` | theorems about it, the refinement among them | |
| `PopularWords` | `popular.go` and its clock | the map, per goroutine the time it read |
| `Alarms` | abstract: alarms that are set, ring, ring again, are cancelled or moved | one action for each |
| `Timer` | `timer/timer.go`; implements `Alarms` | the heap with the `Index` and `Expire` of its items, the `time.Timer`, the value in its channel, the program counter of the firing goroutine; one action per critical section and per unlocked step of `Schedule`'s callback |
| `TimerProofs` | theorems about it, the refinement among them | |
| `BadWords` | `badwords/badwords.go`: the scan and the masking as functions, `Add`, `Del`, `Init` on tree and file | tree, lines of the file |
| `WordsProofs` | theorems about `PopularWords` and `BadWords` | |
| `LogFiles` | `log/log.go`: choice of the file, rotation, buffer, failing opens, writes and flushes, restarts | the open file, where the writer writes, the buffer, every file's lines and length, per goroutine the line in its hands |
| `LogFilesProofs` | theorems about it | |
| `CoderKeys`, `Coder` | the tables and both coders at full width: bytes, DWORDs, 16-bit seeds, the limit on the length and what is sent beyond it | pure operators |
| `Session` | a client that reconnects and the server, seen by the coders | both coders, packets on their way, failing writes, `Disconnect`, `Reconnect` |
| `SessionProofs` | theorems about both | |
| `MC...` | instances for TLC | |

Composition: `TcpServer` and `ChatService` know their connections by a few states
(live, closing, closed, the mutex lost). `Connection` says what those states are
and which steps lead from one to the next, and stands between the modules:
`TcpClient` implements it (`ImplementsConnection`, with `Phase`, `Handling`,
`StopDue` and `Wedged` as the mapping), and each step of the two others is, for each
of their connections `c`, a step of `Conn(c)` or none (`KeepsConnections`). Both
directions are checked by TLC and proved. What `Connection` leaves open, and the
mapping of each module closes in its own way: whether somebody outside may stop
the connection (`Outside`), and which accepted messages are counted (all, the
broadcasts, none).

The mapping found something that no property had: the reader takes packets until
the *socket* is closed, not until `Running` is cleared. When the writer's callback
or `stopClients` is in `Stop`, one more request can be received and its handler
run. Both modules once denied that; `Receive` of `TcpServer` and `Request` of
`ChatService` (by its variable `open`) have it now, and all properties hold with it.

`ChatService` uses the list that `History` is shown to implement; `Session`
extends `Coder`, which extends `CoderKeys`.

Operators marked `mutant` next to a definition are the mistakes that each
property must notice; nothing in a specification uses them.

### Choices

* A Go mutex is modelled by its holder only where a critical section lasts
  longer than a step: when it contains a blocking call, a callback or another
  lock. Otherwise the whole section is one action.
* `chSend` is `open`, `closed` or `nil`; a send on a closed channel would be a
  panic, and `NoSendOnClosedChannel` says it cannot happen.
* `TcpClient.Stop` iterates `closeCB` without the mutex while `RemoveCloseCB`
  deletes from it. The Go runtime may notice and end the process; that is the
  action `MapRaceAborts` of `TcpServer`, a choice the run may take or not.
* The `WaitGroup`'s counter can become negative when `Stop` runs before `Start`
  has added to it; the panic that follows ends `Stop`, then the process.
* A socket write succeeds or fails at any time; a failed write is ignored by the
  code, so it leaves a gap on the wire but an advanced coder.
* `newTcpClient` takes `conn.File()` and its `Fd()` (`tcpclient.go:477-480`), which
  puts the socket in blocking mode on everything but Windows. A read or write that
  has entered the system is ended by neither its deadline nor `Conn.Close()`, and
  `Conn.Close()` waits for it. So `TcpClient` has the goroutines that are `inside`
  such a call; it may last for ever, and `CloseChannel` comes after it.
  `CloseReturns` of `TcpServer` and `WriteStarts`, `WriteEnds` of `ChatService` are
  the same as seen from there.
* The answer to a login takes the history that was read and is then accepted,
  refused by a full queue, dropped on a stopped connection, or sent with no body
  because it is too long for a packet (`SendHistory`). How long a JSON text is, is
  left out: any answer may be too long.
* `append` to a full slice allocates an array with some room to spare; how much
  is the runtime's choice, any amount up to doubling in the model. Go's size
  classes may give slightly more; no property depends on how much.
* The clock never goes backwards. `time.Now().Unix()` is wall time and might.
* The bad word filter's verdict is a free choice of `ChatService`; `BadWords` is
  about the verdict itself. Texts and words may hold the mask `*`, and lines of the
  list may have space around the word, as in `bin/list.txt`. `Add` and `Del`, which
  nothing calls, are given words without such space (`WordsAssumption`).
* Beyond `SOCKET_PACKET` bytes, 16376 in the code, `Encrypt` refuses and the message
  goes out as it is. `NewNetMsg` makes none so long, and gives a plain packet a
  length that is eight too high; an echo may be so long, and goes back with the
  length and check code it came with (`PlainPackets`). The model has the limit as a
  constant, so that a run can cross it with short messages.
* A `time.Timer` that is reset after it has expired keeps the value in its
  channel, as it does before Go 1.23 and for programs without a newer `go.mod`;
  this one has none.
* `heap.Fix` is taken by its contract: the same items, one with the least
  `Expire` at the root, the old root if it is one. Each call follows the change of
  one item, as the contract asks. What stands below the root is left open: only the
  root is relied on.
* A line of the log has any length of `Lengths`, also more than `maxfilesize`.
  `bufio.Writer` flushes by itself when it is full; in the model `syncLogFile` may
  run at any time, which has the same effect on the lines it holds.
* A write or a flush may fail on an open file. Then some of the buffer, from its
  front, is in the file and the rest is gone, and the `bufio.Writer` takes nothing
  until a rotation gives it a new start (`writer = "gone"`). Part of a line in a
  file counts for nothing.
* `OpenFails` and `MakeDirFails` may happen to any write. The name of a file that
  could not be opened is kept, as in the code, so that the open is not retried.

## 3. Runs

| Run | Question | Bounds and why they are enough |
|---|---|---|
| `tcpclient` | does a connection end cleanly, keep its order and stop after an error reply, whoever calls what when? | two senders, one outside stopper, a queue of two, three calls of `SendAsync`: the queue fills, drains and overflows, three goroutines can race in `Stop` |
| `tcpserver` | do registry, load, drain and shutdown hold together? | three peers at a limit of two connections, one of which sends requests: the limit is met, a refused connection and one accepted during shutdown occur |
| `chatservice` | order of broadcasts and what a login may miss | three connections, three requests, a history of one: a broadcast, a login and a third message can overlap, the history can displace a message and an answer be refused. That writes take time only delays senders, and is left to the next run (`Slow` is empty) |
| `chatlive` | do broadcasts and logins end? | two connections whose writes may take any time, four requests: both lock modes wait for each other, and both for a writer |
| `history` | do slices implement the list? | history of three, seven messages, two readers: arrays are filled, left and shared by windows that moved twice |
| `popular` | counting, clearing and asking in every interleaving | two adders, one getter, two words, a window of two seconds on a clock of five, four words added: `clear` lags by a second or more |
| `timer` | do the heap and its one signal implement alarms? | three items, delays 0 and 2, intervals of 1, a clock of two: two items can share a time, one can be put in front of another, and a signal can be left over while two items wait |
| `badwords` | does the scan find and mask what it should, and does the file keep up? | all texts of up to five of two characters and the mask, and those of three with spaces, against every list that four words reach: words that overlap, that begin with one another, that are others put together, and one with a mask of its own, on files with and without a last newline and with spaces behind a word |
| `logfiles` | where do lines go? | two goroutines, four lines of length 1 or 3, a limit of 2, one midnight, two starts: files that two lines fill and that one overfills, several files on one day, a line late over midnight, a start on the files of the last one, an error at any open, write or flush |
| `session` | both coders end to end | three messages that reach the cases of the algorithm (bytes adding up to zero and a last DWORD that lacks three bytes; one that fills its last DWORD, makes the round wrap and is exactly as long as the coders take; one a byte longer), a limit of 92 bytes, two first keys, two connections |
| `chatwedge` (violation) | does every broadcast reach everybody? | two connections suffice |
| `popularloss` (violation) | do the words of the last seconds all count? | a window of two seconds, a clock of five |

`CHECK_DEADLOCK FALSE` appears where the system may rightly stop: a connection
torn down, a process ended, or a bound reached.

Invariants and what they say are stated in the modules, under "Properties".
The type invariants of
`TcpClient`, `TcpServer` and `ChatService` are proved and in no run. Properties
worth knowing:

* `TeardownOnce`, `NoSendOnClosedChannel`, `WireOrder`, `NothingLeftBehind`: the
  unlocked parts of `Stop` are safe. The last one has an exception that the code
  really shows: a writer scheduled only after `Stop` finds a nil channel and
  leaves everything unwritten.
* `ImplementsConnection`, `KeepsConnections`: see the composition above. The first
  would fail if an accepted callback could get lost, or a connection be torn down
  by somebody who did not stop it; the second if the service or the server
  received, sent or stopped where a connection would not.
* `OnlyCallbackWedges`: the one way to lose a connection's mutex for ever. When
  a handler answers with an error reply on a connection already stopped,
  `SendAsync` runs the callback under the mutex, and the callback is `Stop`.
* `ErrorReplyStops`, `StopCompletes`: both are conditional. An error reply stops the
  connection if no write lasts for ever (`WritesEnd`); a stopped connection is torn
  down and its writer ends if no read does either (`ReadsEnd`) and the mutex is not
  lost. With a peer that stays connected and silent, whoever stops the connection
  waits in `Conn.Close()`.
* `LoadCounts`, `StaleOnlyIfUnregistered`, `StopReachesAll`, `DrainedMeansQuiet`,
  `StuckOnlyOnLastAccepted`: the shutdown is orderly up to the one connection
  the acceptor has in its hands. The last three have an exception, `RunsAgain`:
  when the `Listen` of `startListener` was under way while `Stop` closed the listener
  of before, the acceptor sets `Running` after `Stop` has cleared it
  (`tcpserver.go:89`) and goes on accepting. Then handlers run while `stopClients`
  works, it may hang at a connection that is no longer the last, and any number of
  connections stay live.
* `SignalEndsProcess`: the process ends all the same, if need be by the stop timer.
  A panic of the `WaitGroup` and the runtime's abort over `closeCB` count as ends.
* `BroadcastOrder` is about broadcasts. The history that a login is sent may have two
  messages of one sender the other way round, since `addHistory` runs in a goroutine
  per message, and it may come after newer broadcasts.
* `MissedOnlyIfPending`: a login misses a message only if its `addHistory`
  goroutine had not run or newer messages had displaced it when the history was
  read (`excused`), or if what would have brought it, the broadcast or the answer
  with the history, met a full queue or had its body left out (`refused`).
* `ReceivedAsSent` holds of a sound connection: its keys came in its first packet, no
  write failed, and nothing beyond the coder's limit was sent.
* `NeverInTheClear`: the server sends nothing in the clear but what is too long for its
  coder. It has a key once it has enciphered anything, on any connection, and once it
  has received anything on one whose keys came; otherwise it took four bytes of a
  message for the key, which may be zero.
* `NotForgotten` names the three ways in which the timer forgets its signal: `Stop`
  (which is meant), a panic in a callback of `Schedule`, and a `Reset` while such
  a callback runs. `Reset` never arms the signal; otherwise the signal of the old
  head is still there, and fires early or late.
* `ImplementsAlarms`: "not early" holds only while nothing was deleted or reset
  and no scheduled item was armed beside the head: `once` pops the head without a
  look at its time. All else (earliest first, at most once, never after `Delete`)
  holds always.
* `IndexTrue`: the model writes `Index` where the code does, before an append, in
  `Swap` and in `Pop`, and nowhere else; that this always is the place is the
  property.
* `MaskingRight` has an exception: a word with a `*` of its own, such as the
  `masterbat*` of `bin/list.txt:265`, may appear in the masked text, over a place where
  another word was masked.
* `FileKeepsUp` has two: the word added to a last line without a newline, and a word
  that the list has with space around it (`bin/list.txt:81`), which cannot be deleted,
  because the start trims its lines and `delFromFile` does not.
* `RightDay`, and of `KeptOnce` that a written line is somewhere, end with the first
  failing directory, file, write or flush; that no line is in two places holds always. `LimitKept` lets
  a file exceed the limit by its only line, and excuses failures and a file that is
  opened a second time.

### Fairness

`TcpClient` and `ChatService` give weak fairness to goroutines that can take a
step, which the Go scheduler justifies, and strong fairness to the steps that
lock a mutex: since Go 1.9 `sync.Mutex` hands over to a waiter that has waited
for a millisecond, and a waiting `RWMutex.Lock` bars new readers, so neither
starves. (In `ChatService` every step of a handler that sends locks a mutex, and the
whole handler is strongly fair.) `TcpServer` has the signalling goroutine and the
timer run when they can, but not `Conn.Close()` return. Nothing is assumed of peers,
signals, the time a handler of `TcpClient` or `TcpServer` takes, or the time of a call
on a socket: a peer may go silent or stop reading, a handler may never return, a write
may fail or last for ever. What does depend on the end of such a call says so in the
property (`WritesEnd`, `ReadsEnd`).

### Disagreements found

* **A broadcast may never end** (`chatwedge`, `BroadcastReachesAll`). `service.go:57`
  says "广播消息给所有client". A connection that lost its mutex as above is still
  in the list; the next broadcast waits for its mutex with the read lock held, and
  every later login waits for the write lock.
* **Words are lost** (`popularloss`, `HoldTimeCounted`). The note `备注.txt:2` says
  "5秒内流行词". When the map holds more than `popularHoldTime` seconds, `clear`
  deletes the second before the current one and not the oldest.

Seen while modelling, without a run of their own, because a property of them would
repeat the code:

* Nobody leaves the client list: `service.go:44` says "client断开从列表移除", and
  `deleteClient` is never called.
* `Del` is commented as deleting from memory too; `del` builds a new tree from the
  file and drops it, so the word is masked until the next start (`deleted` in
  `FileKeepsUp`).
* `bin/list.txt` has no last newline. The first word that `Add` writes would run
  into its last word; both are lost at the next start (`torn` in `FileKeepsUp`).
* `Reset` of the timer never arms the signal, and on an item that was popped it
  would index the heap with -1.
* A deleted word whose line in the list ends in a space stays in the file, and is
  filtered again after the next start (`FileKeepsUp`).
* The client keeps its coder when it reconnects (`ClientCoder.go:54`): only the first
  packet of its life carries the key, so that the server takes message bytes for one.
  What it then understands depends on those bytes, and no property says it.
* The write deadline (`netdelegate.go:296`) does not end a write on the blocking socket.
* An echo of more than 16376 bytes goes back in the clear.
* The log opens the file of yesterday again for a line that comes late over
  midnight, and after it that of today; their sizes are counted from 0
  (`late` in `LimitKept`).

## 4. Proofs

The proofs hold for every value of the constants: any number of goroutines, any
queue, history or file size, any bound on calls. They assume no more than the
named `ASSUME`s of the modules (goroutines are distinct, sizes are positive,
delays are numbers), which TLC evaluates on every run. Some properties that no
run checks are proved all the same: `AppendsBehindReaders` and five type
invariants, because other proofs rest on them; `StoppedForGood`, because it
follows from the abstract connection alone; `DelInRange`, because it says of the
loop itself that it does not panic. In each module one inductive invariant,
checked by TLC on the module's run before it was proved, implies the properties;
each action has a lemma, or a step of one lemma per conjunct.

`TcpClientProofs`

| Theorem | Property | Argument |
|---|---|---|
| `TypeCorrect` | `TypeOK` | inductive with `InflightInv`: the writer has a message in hand exactly between receive and callback |
| `TornDownOnce`, `SendsMeetOpenChannel` | `TeardownOnce`, `NoSendOnClosedChannel` | `StopInv`: at most one goroutine is past the swap of `Running`; channel and socket are open while `Running`; the teardown counter is what its place says |
| `MutexHolders` | `OnlyCallbackWedges` | `LockInv`: who holds the mutex between two steps, and where |
| `WrittenInOrder` | `WireOrder` | `OrderInv`: wire, hand and queue ascend, each below the next; `WireOrder`, which speaks of their concatenation, follows by `PipelineParts` |
| `DrainedOrNeverStarted` | `NothingLeftBehind` | `LeftInv`: a writer that has not started has written nothing, and what was accepted is all queued; one that ended is on a stopped connection |
| `GoroutinesImplementConnection` | `ImplementsConnection` | `PlaceInv`: senders never leave their place, and the socket is closed once somebody is past `CloseConn`; with `StopInv`, `LockInv` and `InflightInv`. A lemma for each group of steps (`ReaderConn`, `SendConn`, `CallStopConn`, `StopConn`, `WriterConn`) says which abstract step it is, or that nothing is seen of it (`Same`). `PendingParts` takes the callbacks on their way apart into queue and hand, so that the writer's receive and write can be shown to lose none |
| `StoppedStaysStopped` | | of the abstract connection, where a lost mutex means a reader in its handler and no way up (`AbstractWedge`), and by the refinement of the goroutines |

`HistoryProofs`

| Theorem | Property | Argument |
|---|---|---|
| `TypeCorrect`, `WritesBehindReaders` | `TypeOK`, `AppendsBehindReaders` | inductive together. `AppendsBehindReaders` is needed for the refinement: without it a cell behind the history could lie inside a reader's window |
| `SlicesImplementLog` | `ImplementsLog` | `InPlace` and `ByCopy` show that both kinds of append leave a window with the old contents and the new message and touch no reader's cells (`Appended`); `TrimmedWindow` then gives the list after the step (`NewestByElements`) |
| `NewestHeld` | `HoldsTheNewest` | by the refinement, from the abstract list: `NewestOfNext` says that appending and trimming takes the newest of `n` to the newest of `n + 1` |

`TcpServerProofs`. The invariant joins seven parts, because the shutdown is orderly
only by what each of three goroutines has and has not done yet.

| Theorem | Property | Argument |
|---|---|---|
| `TypeCorrect` | `TypeOK` | `WgInv`: the `WaitGroup` counts the running handlers and what `Start` and `Stop` have done to it, so it is never below -1 |
| `LoadIsClients` | `LoadCounts` | `LoadInv`: whoever may still give load back (`Owing`) is in the map until `stopClients` drops it, and is in the load even then |
| `RegisteredIsDeleted` | `StaleOnlyIfUnregistered` | `LiveInv`, `PlaceInv`: a connection whose callback is registered passes through it before it is closed |
| `WaitDrains` | `DrainedMeansQuiet` | `WgInv`: a handler that runs is counted, and the counter was zero when `Wait` returned; a later one must have seen `Running` |
| `ShutdownReaches` | `StopReachesAll` | `ReachInv`: unless `RunsAgain`, who is live while `stopClients` works is still to be visited or in the acceptor's hands; by `ShutInv` nothing more is accepted |
| `StuckOnLast` | `StuckOnlyOnLastAccepted` | `StuckInv`: a callback found after `RemoveCloseCB` was registered by the acceptor in between; unless `RunsAgain`, the acceptor has not gone on since |
| `ServerKeepsConnections` | `KeepsConnections` | `WedgeInv`: a connection that lost its mutex is not live and its reader is in the handler; `Untouched`: a step that changes nothing of `c` is no step of `Conn(c)`. One lemma per goroutine: acceptor, signaller, connection |

`ChatServiceProofs`

| Theorem | Property | Argument |
|---|---|---|
| `TypeCorrect` | `TypeOK` | with `CurInv`: what a handler broadcasts is a message, its sender's newest |
| `SentInOrder` | `BroadcastOrder` | `CurInv`, `InboxInv`: what was broadcast to a connection from one sender is no newer than what that sender broadcasts now, since a reader ends one broadcast before it starts the next |
| `NothingBetween` | `MissedOnlyIfPending` | `MissInv`: a clean message is accounted for at every listed connection (received, refused, in the history that was read, or excused) or its broadcast has still to come to it; an answer that is not accepted moves what was read to the refused; a login takes the write lock, so it falls before or after a broadcast |
| `ServiceKeepsConnections` | `KeepsConnections` | `WedgeInv`: whoever lost its mutex is for ever answering a bad request. A broadcast of one handler is a step of another's connection: `SendTo(c, d)` is `Accept` of `Conn(d)` and no step of any other |

`WordsProofs`. Both modules are built from recursive functions. The lemmas of the
library for those take an operator as a parameter, which the provers cannot
instantiate; instead `Induction` has a set for its predicate, and follows from the
library's fact that numbers are well-founded, and `PrimitiveRecursion` has a function
for its step. By them, or by a function that is given and shown to do (the scan, the
sum), each recursive function satisfies its equation; what it computes is then shown
by induction. The constants keep their generality: `Texts` may be all texts, `Words`
all words, the mask and spaces among their characters. `FilesAssumption` holds of the
`bin/list.txt` that is shipped: no line in it is blank, when trimmed, but the rest
behind the last, and no line stands there twice.

| Theorem | Property | Argument |
|---|---|---|
| `PopularTypeCorrect` | | |
| `NeverClearedEarly` | `CurrentSecondCounted` | `ClockInv`: whatever a goroutine has read of the clock is not after now, so `clear` deletes a second that is over; `ComingInv`: from now on each second has exactly what was said in it |
| `NoneInvented` | `NothingInvented` | by itself: `add` counts once, and `clear` only takes away |
| `AnswersRecent` | `AnswersAreRecent` | `CountedSomewhere`: a sum over seconds that is not zero has a second that is not; by `NoneInvented` the word was said in it, and `added` only grows |
| `VerdictIsRight` | `VerdictRight` | `FoundRight`: downwards over the places of a text, the scan from a place on finds only words that stand there, and finds something if one does. `TypeInv`: a word is in the tree under its first character and with its length |
| `MaskingIsRight` | `MaskingRight` | a word in the masked text either has a mask of its own over a place that was masked, or overlaps nothing that was found; but the scan comes past its first place and would have found it |
| `FileKeepsUpAlways` | `FileKeepsUp` | `MemoryInv`: what is in memory is in the file, trimmed, or deleted or torn; `FileInv`: while nothing is torn no line stands twice and no deleted word stands there untrimmed; a last line with text means that nothing is torn. `Trimmed`, `NotBlank`: trimming leaves a word as it is, and only what is blank empty. `DelFromFile`: the loop that removes from what it ranges over takes out the one line it should |
| `DeletionInRange` | | a file without a last newline has no line twice, so the loop meets the word at most once; in any other, all that the array holds behind the lines that are left is blank, and a word is not |

`SessionProofs`, for any limit `SOCKET_PACKET`. `MapsAssumption`, that the two tables
undo each other, is evaluated by TLC over all bytes and assumed here.

| Theorem | Property | Argument |
|---|---|---|
| `TypeCorrect` | `TypeOK` | bytes stay bytes through maps, exclusive or, seeds and check code |
| `Understood` | `ReceivedAsSent` | `DecryptUndoes`: block by block the receiver finds the keys the sender used, in the last one too, whose filling was cut off. `UpInv`, `DownInv`: the packets under way lead from the receiver's round and key to the sender's, one message each. `KeylessInv`, `QuietInv`: until the first packet arrives the server has a new coder, and the client still receives with the round and key that its sending began with. `SoundStays`: a connection that is sound after a step was so before, and nothing too long was sent |
| `AlwaysEnciphered` | `NeverInTheClear` | `SeedGap`: no seed of 16 bits yields 0x1FBF, since none lies between the lines that this would need; so neither the first key nor one that a block yields is null; `KeyInv` keeps it so while the client's packets carry keys, whatever the server sends in the clear |

`TimerProofs`

| Theorem | Property | Argument |
|---|---|---|
| `TypeCorrect`, `IndexIsPlace` | `TypeOK`, `IndexTrue` | `HeapInv`: items stand in the heap once and exist, and `Index` is their place; an item is given its place before it is appended (`Placed`), the one that takes the place of another in the swap that removes it (`SwappedWithLast`), and `heap.Fix` writes those it moves and no others (`Swapped`) |
| `SignalRemembered` | `NotForgotten` | with `CurInv`: what the firing goroutine has in hand is not in the heap until it puts it back |
| `TimerImplementsAlarms` | `ImplementsAlarms` | an item is set while it is in the heap. `EarlyInv`: while calm, a signal that is armed does not expire before the head is due, and one that has expired is the only one |

`LogFilesProofs`. A write is a rotation, or none, and then the writing of one line;
the parts of the invariant are stated for any disk and buffer, so that each half
of the write has one lemma.

| Theorem | Property | Argument |
|---|---|---|
| `TypeCorrect` | | `SubInv`: a file's number costs at least one line, so there are no more numbers than lines |
| `EachInItsDay` | `RightDay` | `DayInv`: until something fails the buffer is for the open file, and is flushed before another is opened |
| `EachInOnePlace` | `KeptOnce` | `PlaceInv`, which failures do not disturb: only written lines stand anywhere, each once, and a writer without a file holds none; `LinesInv`: hands hold different ones; `KeptInv`: until something fails each written line stands somewhere or was lost |
| `FilesKeepLimit` | `LimitKept` | `FrontInv`: while nothing is opened twice, the open file is the last of its directory in the order of day and number, so the next one is empty and its size may be counted from 0; `bytes` of it is that size, and within the limit unless it holds one line |

Model-checked only:

* liveness (`ErrorReplyStops`, `StopCompletes`, `BroadcastEnds`, `LoginEnds`,
  `SignalEndsProcess`): it rests on fairness and `ENABLED`, which the prover does
  not handle.

## 5. Not modelled, and why

* `StopAsync`, `Connect`, and the second writer of a client that reconnects: only
  the test client reconnects, and its coder is in `Session`; the writers are the
  first item of the plan.
* `DeleteItemInCall` of the timer is `Delete` without the mutex, and nothing calls
  it; `Size` reads. `View` of the bad words reads.
* `writebuftofile` (the log as an `io.Writer`), `saveEach`, the output to the
  terminal or to the user's writer, and the setters of the log: each adds an output
  without a state, or sets what the model leaves free.
* Header parsing, and the length of JSON text: that a body may be too long for a
  packet is a free choice of `ChatService`.
* `nameVerb` is written and never read; `onHeartBeat`, `onEcho`, `onPopular` and `onStats` change
  nothing but the reply queue of one client, which `TcpClient` covers;
  `onStats` also takes the service's read lock, for no longer than a look-up.
* `stopClients` stops connections of `TcpServer` only; in `ChatService` a
  connection stops by its peer, by a failed read or by an error reply.
* Set-up, the registry of servers by name, third-party code: I/O or no
  state that another part depends on.

## 6. Plan

Done, in this order: connection (`TcpClient`, proofs), server (`TcpServer`), chat
service (`ChatService`), history (`HistoryLog`, `History`, proofs), popular words
(`PopularWords`), coders (`Coder`, `Session`), timer (`Alarms`, `Timer`, proofs), bad
words (`BadWords`), log (`LogFiles`, proofs), the proofs of server, chat service,
popular words, bad words and session, and the composition over `Connection`.

Still to come, most important first:

1. The reconnecting client in `TcpClient`'s terms: two writers on one channel,
   `Stop`, `Connect` and `StopAsync` on the `Timer`; what becomes of `WireOrder`.
2. That each step of `ChatService` on its history is a step of `HistoryLog`. The
   two say the same of the list today, and only a reader checks it.
3. The order of the history against the broadcasts that a login is sent: in what
   ways the two may differ.

## 7. Running it

    tlc -workers 2 -config MCTcpClient.cfg MCTcpClient
    tlapm HistoryProofs.tla

`PROJECT.json` names the configuration of each run, the lines every definition
models and the mutant that shows each property can fail.
