# Verification of wyd-go and of the client's ports

TLA+ models of the Go game server under `src/server/wyd-go` and of two parts of
the C++ client under `src/client`, the checks TLC runs on small instances of
them, and theorems about them that TLAPS checks for every instance. Paths below
are relative to `src/server/wyd-go/internal/` unless they start with `src/`.

The repository holds a port of an MMO of 2003: a graphical client in C++
(`src/client`), the deployment files (`src/server/deploy`) and a new server in
Go. The server is the authority over accounts, items and gold, and the code that
keeps them whole is where mistakes are costly and tests are blind: a world that
is one goroutine, connections and password checks that are others, a persistence
goroutine behind a queue, saves that may have happened although they report an
error, and processes that die between two writes. Most of the models are about
that. Two are about the code the ports to Linux and to the Switch put under a
client that was written for the messages of Windows: the connection and the
input, both driven by a loop that handles one message per turn.

## The system and its parts

| Part | State | Operations | What makes it correct |
| --- | --- | --- | --- |
| World loop (`game/world.go`) | channel of commands, left-overs, the batch, ticker, jobs | `Enqueue`, `Run`, `processCommandBatch`, ticks, `AdminCall` | commands of a session are handled once and in order; ticks, jobs and every session get their turn |
| Sessions (`game/world.go`, `handlers.go`, `shutdown.go`, `admin_ops.go`) | `players`, `accountSessions`, `authClientsByIP`, `authPending`, `authSlots` | login, its answer, enter, play, save, logout, disconnect, kick, panic, shutdown | one open session per account, nothing leaks, what was confirmed is stored |
| Trades and ground items (`game/trade.go`, `handlers.go`, `ground_expiry.go`) | `Player.Trade`, inventories, gold, `groundItems` | invite, offer, confirm, commit, cancel, drop, pick up, turn coins into gold, expire | only what both confirmed moves; no item or gold appears or vanishes |
| PostgresStore (`store/postgres.go`) | `writeQueue`, overflow, generations, fences, retry timers, the database | asynchronous and critical saves, `persistLoop`, `Flush`, `Close`, derived exports | no old snapshot over a newer one; confirmed saves survive; a barrier drains |
| Fences (`store/postgres_fence.go`) | a map of reference-counted mutexes | `lock`, the returned unlock | exclusion per key, no deadlock, no leak |
| JSONStore queue (`store/store.go`) | `writeQueue`, overflow, files | `enqueueWrite`, `nextWrite`, `persistLoop`, `flushWrites` | as PostgresStore, by the order of the places and without generations |
| JSONStore transactions (`store/store.go`) | files, journal directories | `saveGameState`, `recoverAccountTransactions` | all or nothing across crashes |
| Game client: socket, framing, message pump (`src/client`: `CPSock.cpp`, `SendBuffer.h`, `socket_poll_linux.cpp`, `winuser_sdl.cpp` of Linux, `NewApp::Run`) | receive and send buffers with their cursors, `read_pending`, the queue of messages, the scene | connect, poll, `Receive`, `ReadMessage`, `SendPacket`, `CloseSocket` | scenes get whole frames of the open connection in order; packets reach the wire once and in order; frames arrive |
| Game client: touch HUD and input of the Switch port (`switch_input.cpp`, `TouchControlsUI.cpp`, `winuser_sdl.cpp` of the Switch) | fingers and their owners, held buttons, the delayed press, the picker, the walk of the stick, the queue | `WYD_Switch_PollInput`, `OnPointerDown/Move/Up`, `FrameMove`, `PeekMessage` | no button, click or walk outlives what asked for it; no tap is lost; the frame runs |
| Ghost shops, parties, guilds, instances (`game/`) | shops, party lists, the guild registry, rooms | see the plan below | not modelled yet |
| Rules of the game (`game/`: combat, crafting, quests, ...) | characters and tables | one command changes one account | not modelled: arithmetic over tables inside one step |
| Network (`net`, `wire`, `networkpolicy`) | sockets, output queues, admission per origin | accept, serve, send | only the life of a connection, in AccountSessions |
| Accounts, registration, administration, catalogues, tools | files, forms, command lines | | not modelled: input and output around the server |

How they interact:

- A connection is a goroutine that sends commands over a channel to the World and
  ends with one command that says it is gone. A password check is a goroutine of
  its own; its answer is one more command of the session.
- The World calls the store from its own goroutine. Autosaves are handed over as
  snapshots and written later by the persistence goroutine; an operation that
  moves items waits for its transaction and rolls the memory back when it fails.
- World and persistence goroutine share the fences of PostgresStore, which decide
  who may write a key.
- Operators, the tick and the shutdown enter the loop through channels of their
  own.
- The client is one thread. `NewApp::Run` polls the sockets and takes one message
  out of a queue per turn: a socket that can be read posts `WM_USER+100`, whose
  handler reads it once and hands the frames to the scene; a scene may close the
  socket while the handler still runs. On the Switch the call that takes the
  message also polls the fingers and the pad, which append messages of the mouse
  to the same queue, and the frame is drawn only in a turn that found it empty.

What is hard: the World and the persistence goroutine race for the same keys; a
save that returns an error may be stored; a barrier competes with an overflow
that is served before the channel; answers of password checks come after the
end of their session or after the shutdown; a panic leaves half an operation in
memory; a crash may hit any step of a journal, and of the recovery from it. In
the client, notifications do not say which socket they are about, a stream may be
cut anywhere, fingers are lifted while a panel opens or the scene changes, and
messages that are appended at every turn keep the frame from running. The hazards are listed one by one, with their lines and properties, in `PROJECT.json`.

## Modules

`SnapshotStore`, `KeyLocks` and `SessionMailboxes` are abstract specifications.
The others are translations of the code:

```
SnapshotStore <--implements-- PostgresQueue     KeyLocks <--implements-- FenceSet
SessionMailboxes <--implements-- CommandLoop
JsonWriteQueue      StoreJournal        AccountSessions        Trade
ClientSocket        TouchInput
PostgresStoreProofs: theorems about PostgresQueue and FenceSet
<module>Proofs: theorems about JsonWriteQueue, StoreJournal, AccountSessions,
                CommandLoop, Trade, ClientSocket, TouchInput
MC<module>: the small instance of <module>
MCLoopFences, MCTradeJournal: two small instances in one run
```

The last two put unrelated modules side by side (CommandLoop and FenceSet, Trade and
StoreJournal): a behaviour is one of the first or one of the second (`part`), while
the other rests in its initial state. What a run of them shows is what two runs would.
MCStoreJournal and MCCommandLoop have the instances on which a violation is shown. The names of
Trade and FenceSet that another module has too begin with `Trade` and `Fence`
(`TradeSpec`, `FenceTypeOK`, ...).

The components are put together through these abstractions. PostgresQueue takes
the fences of a save in one step, as `KeyLocks` says, and FenceSet shows that
`lock` behaves like that (`QueueKeepsToKeyLocks` and `FencesImplementKeyLocks` under
*Proofs*). AccountSessions handles the next command of any
session, as `SessionMailboxes` says, and CommandLoop shows that the loop does.
PostgresStore implements `SnapshotStore`, which is what the World relies on. The queue
of JSONStore does not: a file may go back (finding 2).

### PostgresQueue

`store/postgres.go`: `SaveAccountAsync`, `SaveCharStateAsync`, `enqueue`,
`SaveAccount`, `SaveCharState`, `SavePlayerState`, `SaveGameState`, `persistLoop`,
`Flush`, `Close`, `scheduleGuildExport`, `retryDerived`.

A snapshot is the number (`writeSeq`) it was stamped with, and `db[k]` is the
number of what the database holds for `k`. `latest` is `latestAccountSeq` and
`latestStateSeq`; `queue`, `overflow`, `pending`, `batch` are the variables of
those names in the code. The World is between two steps of one store call
(`phase`), holding the fences `held`; the worker stands at a place of its loop
(`wpc`), holding `fenced`. `SaveAsync`, `SaveBegin`, `SaveCommit`, `SaveFail`,
`FlushBegin`, `FlushSend` are the World's calls, cut where the code waits or may be
overtaken; `PickOverflow`, `PickPending`, `PickWait`, `Receive`, `Collect`, `Lock`,
`Write`, `RunBarrier`, `RunExport` are the places of `persistLoop`. A transaction is one
step that commits, fails, or commits and reports an error. `Crash` keeps the
database and the file and nothing else.

`enqueue` is two steps, as in the code, where `overflowMu` is taken only for the
second: `Enqueue` tries the channel, and when it was full `InsertOverflow` (for a retry
timer `RetryInsert`) goes to the overflow, whatever the worker has done in between.
Three sets are history and belong to the newest snapshot of a key only: its write
`failed`, it was `dropped` from `pending`, it was `stranded` in the overflow of a worker
that already slept. A newer snapshot takes its key out of all three (`Forgive`).

### FenceSet and KeyLocks

`store/postgres_fence.go`. An entry (`postgresFenceEntry`) is an address that may
be allocated again once nobody points at it. `Register` is the part of `lock`
under the mutex of the map, `LockNext` one mutex of an entry, in the order of the
keys, `Unlock` and `Unregister` the two halves of the returned function. The
refinement mapping gives a goroutine the keys of its call while it stands between
its last `LockNext` and its first `Unlock`.

### JsonWriteQueue

`store/store.go`: `enqueueWrite`, `nextWrite`, `persistLoop`, `flushWrites`,
`SaveAccount`, `SaveAccountAsync`, `SaveCharState`, `SaveCharStateAsync`. Snapshots
are numbered per file. `Poll`, `Check` and `Wake` are the three places of
`nextWrite`: the channel without the mutex, the overflow under it, the channel again.
The World may run between any two of them. When `Check` takes a job from the overflow with
an older write left in the channel, the history says so: `overtaken[k]` is the newest
snapshot of `k` that was served that way, `released` the files whose writes a
barrier left behind. `SaveBegin`, `RunBarrier`, `SaveEnd` are a synchronous save that waits
for its barrier and then writes by itself.

### StoreJournal

`store/store.go`: `saveGameState`, `applyTransaction`, `recoverAccountTransactions`,
`writeFileAtomic`, and the scan of the accounts at the start
(`initializeItemUIDs`). The World makes one call at a time; `files[t]` is the number of the call
whose contents the file holds. A journal is the set of files in its directory,
`COMMIT` and the manifest among them. The deletion of a directory (`Remove`) takes
one file per step, in any order; that of a journal without `COMMIT` at the start
(`Discard`) is one step, because what a crash leaves of it has no `COMMIT` either. `SaveFile` is a save of one file
outside transactions.

### AccountSessions

`game/handlers.go`, `world.go`, `shutdown.go`, `admin_ops.go`. What a player does is
a set of operations: `ram[s]` is what session `s` shows of its account, `db[a]` what
is stored, `confirmed[a]` what a client was told is stored. A connection has a
queue of commands (`mail`); `Handle(s)` is the World handling the next one, with an
action for every outcome: a packet that does nothing, a login, its answer
(dropped, claimed in vain, admitted), entering, playing, an operation that is
stored or whose save fails, a logout, a panic, a late packet, the end. `AutoSave`,
`AdminKick`, `AdminSaveAll`, `RunShutdown` are the World's own steps. `AdminSaveAll`
saves poisoned players too, as in the code; `PartialStaysOut` is about every other
save, and finding 5 is about this one.

### CommandLoop and SessionMailboxes

`game/world.go`: `Enqueue`, `Run`, `processCommandBatch`,
`requeuePreparedCommandBatch`; `AdminCall` of `game/admin_ops.go`. A command is its
sender and a number. `Start`, `RunJobs` and `RunTick` are the cases `Run` selects
among; `Collect` and `CollectTick` fill a batch, `HandleNext`, `SkipTurn` and
`NextRound` go round its sessions, `ExecuteTick` and `BatchDone` end it. A budget of
time may end the batch after any command, a tick may become due at any moment.

The queues of `prepareCommandBatchQueues` are sets of places of the batch: `From(s, q)`
are the places of a session, `Of` its commands in the order they stand there, `Firsts`
the places where a session occurs first, from which `FirstSeen` is the order of the
rounds. What `requeuePreparedCommandBatch` puts back (`BySession`) is a rearrangement of
what is left: a place comes behind all the places of sessions with an earlier turn and
behind the earlier places of its own session (`UpTo`).

### Trade

`game/trade.go`, `onDropItem` and `onGetItem` of `game/handlers.go`,
`game/ground_expiry.go`, and the ledger of items of `store/postgres.go`. An item
is its UID, an inventory a set of them. A trade names the other player by the
identifier that is used again after a departure, as in the code. `TradeCommit` is the
second confirmation with everything it calls: both inventories computed, checked,
stored in one transaction, then published, and both trades cancelled whatever the
outcome. The ledger (`item_instances`, one row per UID) refuses a transaction that
would give an item to two accounts. `agreed` is history: both offers at the moment
a player confirmed. `PickUp` and `CashIn` are the two branches of `onGetItem`: an item
whose rule is `ground_gold` (`Coins`) becomes gold of its `Worth` and leaves the ground
for good (`cashed`).

### ClientSocket

Below `src/client`: `CPSock.cpp` and `SendBuffer.h`, `socket_poll_linux.cpp`, the
queue of `winuser_sdl.cpp` (Linux), `NewApp::Run` and `NewApp::MsgProc`, the login of
`TMSelectServerScene` and the change of scene of `ObjectManager`.

A unit stands for a run of bytes and a frame or packet for one or more units, the
first of which has the header. `recvBuf` up to `nRecvPosition`, `proc`
(`nProcPosition`), `sendBuf` and `sentPos` are the buffers of `CPSock`; `queue` is
`g_queue`, `pending` the `read_pending` of the watch, `reading` says that the loop
over `ReadPacketView` is under way. `Poll` posts a notification; `MainLoop` is one
turn: a login (`ConnectServer` and the packets it sends), a scene that leaves,
`Receive` with its three outcomes, or one call of `ReadMessage` (`ReadFrame`,
`ReadEnds` with the reasons a loop ends: nothing left, a rest of a frame, a bad
checksum, no header). `Send` tries one packet with everything `AddMessage` and
`SendMessageA` do, `send()` taking any part of what is offered. `ServerSends` and
`ServerCloses` are the other side. `got`, `wire` and `accepted` are history.

### TouchInput

Below `src/client/platform`: `switch/switch_input.cpp`, `TouchControlsUI.cpp`, the
Switch's `winuser_sdl.cpp`, with `NewApp::Run`.

A position is the control that is drawn there. `touch` is what the screen reports,
`at` and `owner` what the slots of `g_touch` remember; `delay`, `release`, `lmb` are
`g_touchPressDelay`, `g_touchReleasePending`, `g_lmbDown`; `hud` is `TouchControlsUI`.
A turn (`Turn`) is the poll (`MapSticks`, then one step per finger: `FingerDown`,
`FingerMove`, `FingerUp`, then `MapButtons`), and then the message that is taken out
(`HandleMessage`) or the frame. `MoveFinger` and `UsePad` are the player,
`PacketArrives` is the server, which opens panels, changes the scene, and takes the
character out of the field: `WYD_Linux_InFieldScene` asks for both (`InField`), the HUD
only for the scene (`FieldScene`).

## Runs

All instances were explored completely. Sizes are distinct states.

| Run | Instance and bounds | States | Shows |
| --- | --- | --- | --- |
| `pg_queue` | an account and a charstate, saves of each and of both, channel of 1, batches of 2, 4 generations, 1 crash | 400,707 | no stale overwrite, confirmed saves durable, the export never goes back, SnapshotStore implemented, `Flush` returns; a barrier leaves behind, and the store forgets, only what failed, was put aside and lost, or came when the worker slept |
| `pg_barrier` | the same without a crash | violation | `BarrierDrainsAll` fails: a barrier overtakes a snapshot on its way to the overflow |
| `json_queue` | 2 files, channel of 2, 3 snapshots each, 1 crash | 287,905 | files go back, flushes leave something behind and autosaves are lost only where `nextWrite` was overtaken; every flush returns |
| `json_overtaken` | the same | violation | `NoStaleOverwrite` fails: the overflow is served before a full channel |
| `trade_journal` | 3 players, 2 items, one a coin, 2 units of gold, a purse of 1, 1 doubtful save; 2 accounts and the guild registry, 3 calls, 1 error, 2 crashes | 692,081 | only what both confirmed moves, items and gold are conserved; transactions are atomic, refused ones that were thrown away stay away, only a doubtful call replaces a confirmed one |
| `journal_replay` | the journal with 2 calls, 1 crash | violation | `ConfirmedSurvives` fails: a refused transaction is replayed over a confirmed save |
| `sessions` | 2 connections, 2 accounts, 1 slot per address, 1 password check, 1 waiting command each, 1 operation | 249,244 | the tables agree, nothing leaks, confirmed operations are kept, the shutdown keeps everything, the World itself stores no half operation, sessions end |
| `sessions_takeover` | the same with 2 slots | violation | `ConfirmedSurvives` fails: a dead session overwrites its successor |
| `sessions_saveall` | the same as `sessions` | violation | `PartialNeverStored` fails: `AdminSaveAll` stores what a panic left half done |
| `loop_fences` | 2 sessions with 2 commands in flight, channel of 2, batch of 3; 3 goroutines, 2 keys, 3 addresses | 28,249 | mailboxes implemented, left-overs bounded, ticks run, rounds that fit in the budget serve everyone; exclusion, no leak, no circular wait, every `lock` returns, KeyLocks implemented |
| `client_net` | 2 connections, receive buffer of 3 units, send buffer of 4, frames of 1 and 2 units, 2 packets of 2 units, 2 clicks | 259,770 | frames in order, the send stream intact, only a stale notification closes a connection the server keeps, frames arrive |
| `touch` | 2 fingers, 1 skill and 1 other button, 3 inputs, 1 packet | 879,982 | no button stays held, no tap is lost, nothing goes on alone, frames go on |

Three more configurations are run by hand and are not in `PROJECT.json`; TLC finds
each of them violated, as said under *What was found*: `StoreJournal_cleanup.cfg`
with MCStoreJournal (`StartsAgain`), `CommandLoop_starved.cfg` with MCCommandLoop
(`EveryoneAdvances`) and `Trade_doubt.cfg` with MCTradeJournal (`NoGoldMade`).

The type invariants are proved for all instances and not among the properties of
the runs.

### Why the bounds are enough

- The queue has a channel of one slot, so it is full after one autosave: the
  overflow, coalescing and the order against the channel are
  reached with four generations (an autosave in the channel, one in the overflow,
  a critical save and a barrier). An account and a charstate are two kinds of jobs:
  one is put aside while the other is collected, also a second time while `pending` is
  taken, and a critical save covers a key of each. One crash is
  enough, because nothing but the database and the file survives it. `dropped` and
  `stranded` are both reached: without either, `BarrierDrains` is violated. Two accounts beside
  the charstate multiply the states and add only batches of two snapshots of one kind,
  which the theorems cover.
- The queue of files has a channel of two, so that an older snapshot and one of another
  file can fill it between the two looks of `nextWrite`, and three snapshots per file:
  stored, in the channel, in the overflow.
- A fence problem needs a user, one that waits with an old entry and one that
  would create a new entry: three goroutines, on two keys for a circle. Three
  addresses let a freed one be allocated again while the others are in use.
- The journal needs two transactions that share a file and one save in between for
  a replay to be visible (three calls), and a second crash inside the recovery.
- One operation is enough for the sessions: every property relates it to one
  account, and the operation of a session that comes later is the same operation
  seen by another session. One waiting command per connection does not limit the
  end and the answer of the password check, which are queued whatever the bound is.
- A batch of three with two commands per sender is the smallest where a batch cuts
  through the commands of a sender, leaves some over, and meets newer ones of the
  same sender in the channel. Numbers of commands are used again, so the run has
  no bound on the number of commands.
- A third player is the stranger who gets in between two others, and takes an
  identifier that has become free. An inventory of one item and a purse of one
  unit make every limit bite; a coin can be traded, dropped, cashed in, or refused
  because the purse is full. After a save whose outcome is unknown the memory
  diverges from the store in many ways; `DoubtCrowd` says that such a save happens only
  while nobody but the two who have the items is in the world, and that nobody else comes
  from then on, and `MaxDoubts` allows one such save.
- A frame of two units in a receive buffer of three is cut in its header, in its
  body and against the end of the buffer; a second connection is what a stale
  notification and left-over bytes are about. A send buffer of four with packets
  of two is partly sent, compacted and full. A third click (1,011,021 states, by
  hand) shows nothing new.
- Two fingers are the HUD's and the mouse's, or two for the same button. Three
  inputs put one down, move or lift it, and put another down; the packet opens a
  panel or changes the scene at any point in between. `MaxMoves` leaves out moves
  that would only make a queue longer that already holds some.

`CHECK_DEADLOCK FALSE` is set for the runs of PostgresQueue, StoreJournal (with Trade
beside it), AccountSessions and ClientSocket only: generations, calls, clicks and
connections are bounded there, and a server that has shut down, or whose connections
have all ended, stops, as does a client that has no connection and no message. In the
other runs TLC also shows that the system never stops.

## Fairness

- PostgresQueue: `persistLoop` waits only for the channel, a fence or the database,
  whose calls carry deadlines: weak fairness. The World finishes the call it has
  begun. Retry timers fire; an export that is tried again and again, seconds
  apart, succeeds at some time (strong fairness; without it a file system that
  always fails keeps retrying, which is not what `FlushReturns` is about).
- FenceSet: strong fairness for `LockNext(g)`, because a mutex of Go hands over to a
  waiter that has waited for a millisecond; weak fairness for giving back.
- JsonWriteQueue: the worker goes on, the World finishes its save.
- AccountSessions: `Serve` returns once its socket is closed, and the World handles
  what a session has waiting. The second half is `RoundsAreFair`; it holds as long
  as the rounds of a batch fit in its budget (see *What was found* on `CommandLoop_starved.cfg`).
- CommandLoop: the goroutine runs, and `select` picks among the ready cases at
  random, so a case that is ready infinitely often is taken (strong fairness of
  `Start`, `RunJobs`, `RunTick`).
- ClientSocket and TouchInput: `NewApp::Run` never stops, so the poll and the turn
  are weakly fair. Nothing is assumed of the server, the player or `send()`.
- Trade and StoreJournal have safety properties only.

## What was found

Five runs show the program doing what a comment or a document of the repository says it
does not; `PROJECT.json` quotes them.

1. `pg_barrier` (`store/postgres.go:421`). `enqueue` finds the channel full and takes
   `overflowMu` only afterwards. When the worker has emptied the channel in between and
   sleeps on it, the snapshot lies in the overflow until something else is
   sent: the barrier of a `Flush` is received first and confirmed without it. There is a
   second way to the same end: while a batch that came from the overflow is
   collected, a job of another kind is put aside in `pending` (297, 354), which may
   already hold one. `BarrierDrains` and `SnapshotLands` name these two, and the theorem says that
   there is no third one. (The second way alone is reached by the instance of `pg_queue` too.)
2. `json_overtaken` (`store/store.go:252`). `nextWrite` looks at the channel without the
   mutex and finds it empty, the World fills it and spills a newer snapshot of the same file
   into the overflow, and `nextWrite` serves the overflow: the older snapshot is written
   last. A barrier may be served the same way before the writes it should wait for. The
   channel of the code has 256 places, so this takes a burst of saves in a short window.
   What is left of the promise is in `StaleOnlyIfOvertaken`, `FlushDrains` and `SnapshotLands`.
3. `journal_replay` (`store/store.go:662`). A transaction that fails after `COMMIT` is
   refused but its journal stays; the next start applies it over saves that were
   confirmed in between.
4. `sessions_takeover` (`game/handlers.go:2075`). An account is given to a new session
   while a dead one is still in `players`; what the dead one has in memory is stored
   over what the new one was told is stored.
5. `sessions_saveall` (`game/admin_ops.go:163`). After a panic every player is poisoned so
   that nothing half done is ever stored; `AdminSaveAll` does not ask and stores all of them.

Three more are shown by configurations run by hand, because nothing in the repository
claims the contrary in so many words:

- `StoreJournal_cleanup.cfg` (`store/store.go:1019`). A crash while an applied journal is
  deleted may leave `COMMIT` without a file of the manifest: the store then refuses
  to work.
- `CommandLoop_starved.cfg` (`game/world.go:1480`). Left-overs are put back with the
  session that was just served first, so with commands as long as the budget one
  session may be served for ever.
- `Trade_doubt.cfg` (`game/handlers.go:1970`). A save that reports an error although it is
  stored is rolled back in memory. The ledger refuses an item that would be stored twice,
  but gold has no ledger: a coin that was picked up lies on the ground again while its gold is
  stored, and may be picked up once more. The same rollback after a doubtful trade
  (`game/trade.go:378`) does the same when the one who paid is saved with the gold it still has in
  memory and the process ends before the other one is saved.

The models of the client are true to some behaviour that their properties name as
exceptions, and that a reader of the code may not expect (paths below `src/client`):

- A read that fills the receive buffer returns -1 and its bytes are dropped
  (`CPSock.cpp:378`). `FramesInOrder` and `FramesArrive` hold until then (`lost`).
- A notification that waits while the player connects again is handled for the new
  connection: nothing is there to be read, `Receive` returns 0 and the connection is
  closed (`NewApp.cpp:1275`). This end is not told to the scene, and a migration to
  another server that waits for it (`TMScene.cpp:1088`) does not go on. A read that
  would block takes the same way, which is not what the comment before it says
  (`CPSock.cpp:371`).
- What `send()` left over waits for the next packet: nothing is told when the socket
  can be written again.
- The input is polled once per message and not once per frame
  (`switch/compat/winuser_sdl.cpp:329`). The two "frames" a press waits
  (`switch/switch_input.cpp:94`) may pass with no frame in between, and while a
  finger is the mouse, or the stick moves the cursor, a message is appended at every
  poll and one is taken out: frames stop until it is lifted (`MovesCursor` in
  `FramesGoOn`); with both at once the queue only grows.
- `OnPointerDown` asks `m_bUiBlocked`, which the last frame has set: a finger put down
  between the opening of a panel and the next frame still reaches the HUD.
- The picker that a long press opened is closed when the finger that opened it is
  lifted anywhere but on a cell.

## Proofs

TLAPS checks the following for every value of the constants (finite sets where
the assumptions of the modules say so), with no bound on processes, keys, items
or length of a behaviour. The bounds that the guards name are parameters of the
theorems too. They assume what the module assumes of its constants in its `ASSUME`s
(`FenceAssumption`, `JournalAssumption`, `SessionAssumption`, ...: sizes are natural
numbers, the markers are no members of the sets they are added to), and nothing else.

**PostgresStoreProofs, the queue.** Assumptions: `QueueAssumption`, `NoJobAssumption`. `TypeCorrect`,
`CriticalSavesAreDurable`, `OldAutosavesNeverOverwrite`,
`QueueImplementsSnapshotStore`, `GuildFileNeverRegresses`, `BarriersDrain`. That the stored
generation never goes back is not inductive alone: the step that matters is the
write of a batch, and it is safe because of what was true when its fences were
taken. The invariant is

- `TypeOK`;
- `WriteIsLatest`: what the worker is about to write is the newest generation of
  each of its keys, and it has their fences;
- `TxIsLatest`: the same of the World's transaction;
- `BatchKind`, `CurPresent`: what kind of job each place of the code holds;
- `Ordered`: `confirmed <= db <= latest <= seq` for every key.

Whoever would stamp a newer generation needs the fence that the writer has, so
both of the first two survive every other action, and a write takes `db` to
`latest`. A second invariant (`ExportInv`) says that a registry to be exported is
newer than all that were asked for before.

`BarriersDrain` has no hypothesis: whatever is coalesced, superseded, retried, refused
by the database, put aside, overtaken on its way to the overflow or lost in a crash, a
barrier that is confirmed leaves behind only newest snapshots that `failed`, were
`dropped` or were `stranded`, each of which can be said only at the place of the code that
does it to that very snapshot. The invariant (`DrainInv`, which TLC confirms on
the instance of `pg_queue`) is

- `NoneForgotten`: the newest snapshot of a key is stored or excused, or it
  is still somewhere (channel, overflow, put aside, batch, transaction, a World between the
  two steps of `enqueue`) and newer than the last barrier;
- `NotAhead`: nothing on its way is newer than what was stamped, and behind a barrier
  everything is older than the barrier;
- `WorldPlaces`, `WorkerPlaces`: what each side has in its hands; while the worker
  waits for the channel, either every newest snapshot in the overflow was stranded
  (`Passed`), or the channel has something, and not a barrier first;
- `BarrierPlace`: a barrier is nowhere, or the last job of the channel, or put aside
  with the channel empty, or run when whatever is left in the overflow is `Passed`.

`QueueKeepsToKeyLocks` joins the two models of the store: with the keys the World and the
worker hold for `owned`, every step of PostgresQueue but a crash is a step of `KeyLocks`
or changes nothing there. Its invariant (`FenceUse`) says who has fences where
(`FencesHeld`), and that there is at most one barrier, for which the World waits
(`OneBarrier`): otherwise confirming a barrier could send a World that holds fences back
to where it takes new ones.

**PostgresStoreProofs, the fences.** `FencesExclude`, `EntriesAreReclaimed`, `NoDeadlock`,
`FencesImplementKeyLocks`, `FenceTypeCorrect`, for any finite set of goroutines and any number of keys.
The invariant: whoever uses a key points at the entry the map has for it
(`SameEntry`), different keys have different entries (`Injective`), the reference
counts are the numbers of users (`Counted`), the mutex of a key that somebody got
is his (`Locked`), and a goroutine that waits has only keys below those it lacks
(`Upward`). Absence of deadlock takes, in a set of goroutines, one whose next key
is greatest: whoever blocks it would have to wait for a greater key.

**JsonWriteQueueProofs.** `FlushLeavesNothing`, `OldWritesOnlyIfOvertaken`,
`TypeCorrect`, for any set of files, capacity and number of
snapshots, whatever is enqueued between the two looks of `nextWrite`. There are no
generations here: what keeps an older snapshot from being written last is the order of
the places it goes through, and the theorems say that the one way around that order
is the one finding 2 shows. `Pipeline` says that for each file the numbers grow from what
is stored, to what the worker holds, to the channel, to the overflow, except that a
file whose stored snapshot was overtaken may still get an older one (`Floor`), and that what
is in the overflow is newer than whatever was overtaken (`Above`). `Phases` says where the
barrier is: the last thing in the channel or in the overflow, or in the worker's
hands with the overflow empty. `OnlyReleased` says that what a barrier leaves behind is
of the files in `released`, and those among them that are being saved count as
overtaken. `Landed` says that the newest snapshot of a file is stored, on its way, lost by its own
write, or overtaken.

**StoreJournalProofs.** `TransactionsAreAtomic`, `ConfirmedReplacedOnlyByDoubtful`,
`RefusedStaysAway`, `TypeCorrect`, for any set of files and any number of calls,
crashes and errors. The first is relative to a file system that does not fail, the
other two are not. `Whole` says of the newest call that it goes one way: nothing done
and no `COMMIT`, then a complete journal, then every file replaced; every earlier call
is finished. A journal that is still there belongs to the newest call or to one whose
outcome was left open (`LeftOver`), which is why nothing else is ever replayed;
`Replaced` follows the files an application has done, and `AbortedGone` says that of a
call that was refused and thrown away no journal and no file is left.

**AccountSessionsProofs.** `TablesAgree`, `EndLeavesNothing`, `ConfirmedStaysStored`,
`ShutdownStoresAll`, `HalfDoneIsNotStored`, `TypeCorrect`, for any connections
of one address, accounts, client limits and number of password checks. Beside the
properties the invariant has: `Posts` (the end of a connection is the last command
of its queue, only answers of password checks may come behind it, and none is
admitted then), `OneCopy` and `CopyIsNew` (an account that was never claimed from a
dead session is in memory once, and the copy has everything that was confirmed),
`LeftStored` (who left the world cleanly has nothing that is not stored) and
`AfterPanic`. `CopyIsNew` is why the reload at the login matters: the account an
answer carries may be old, the one that is admitted is what the store has then.

**ClientSocketProofs.** `FramesAreInOrder`, `SendStreamStaysIntact`,
`OnlyStaleNotificationsClose`, `TypeCorrect`, for
any buffer sizes and frames, any cuts of the stream and any parts `send()` takes. The
invariant (`Received`): while no read has filled the buffer, what the scenes were given
and then the unread rest of the buffer are together what `recv` has returned
(`Aligned`), and the scenes were given whole frames (`WholeFrames`). `TypeCorrect` is more than types: the receive buffer is
never full when a read begins, so `Receive` never asks for zero bytes. For the third
theorem a second invariant (`Notified`) says of a connection made with no notification
in the queue that at most one is waiting, that there is something to read for it, and
that nothing is read and no other one is posted before it is handled.

**TouchInputProofs.** `NoButtonLeftBehind`, `NoTapIsLost`, `NothingGoesOnAlone`,
`TypeCorrect`, for any fingers, buttons and order of inputs and messages. The
invariant relates what is remembered of a finger to the fingers that the poll has
still to look at (`TodoOnScreen`, `FreeSlots`), every held button to a finger of the
HUD (`HoldersKnown`, `Clear`), the waiting press to the finger that is the mouse
(`DelayRuns`), and the walk and the left button to what asks for them
(`WalkingIsKnown`, `ButtonIsKnown`).

**CommandLoopProofs.** `LoopImplementsMailboxes`, `BacklogStaysBounded`,
`LoopTypeCorrect`, for any set of sessions, any sizes of channel and batch and any number of
commands in flight. The invariant (`LoopInv`, checked by TLC on the instance of
`loop_fences`) is `TypeOK`, `BacklogBounded` and

- `InOrder`, over the batch, the left-overs and the channel put together: every
  number between the last one handled of a session and the next one to be given out
  waits there (`Complete`), and the waiting commands of a session stand in the order of
  their numbers, counted round from the last one handled (`Ascending`, `GivenOut`), which
  also says that none waits twice;
- `OrderCovers`: whoever has a command in a batch that is being handled is in its order;
- `NothingSeen`: a round that came to its end with nothing handled saw every session
  with nothing to handle, so `BatchDone`, which throws the batch away, throws away
  nothing.

`Rearranged` says that `InOrder` survives any permutation of a queue that keeps the
commands of each session in their order; `BySessionRearranges` that putting back what a batch
left is one. That a session's `k`-th waiting command is the `k`-th number after the
last one handled (`MailboxesAreBetween`) turns every step into an enqueue, a delivery
or a stutter of `SessionMailboxes`.

**TradeProofs.** `OnlyAgreedHolds`, `ItemsAreConserved`, `ConservedHolds`
and `TypeCorrect`, for any finite set of
players, any set of items, any finite set of coins, any number of doubtful saves. The
invariant: the shape of the variables, `Placed` (identifiers are unique, whoever is not in
the world has no trade), `StillAgreed` (a confirmation that stands was given to the two
offers that stand, by two players who trade with each other), and that no item is
stored twice (`NoDuplicateStored`), which the ledger guards and the count of the items
needs. That nobody faces two players (`FacingUnique`) makes cancelling a trade harmless to
others, and gives the commit the offers the first player had confirmed. `TypeCorrect`
adds that no inventory exceeds its slots, in memory or stored (`Bounded`), and
`ItemsAreConserved` says that while no save was stored that reported an error, an item
is stored if and only if it was there at first and is neither on the ground, nor lost,
nor turned into gold, and what lies on the ground was somebody's (`Accounted`).
`ConservedHolds` adds the gold: a trade takes from one what it gives to the other
(`SumMoved`), a coin that is picked up adds its worth to one player and to what the coins
were worth (`SumGrows`), and no other step changes the gold of anybody. The sums are the
community module's `SumFunction`, which adds in an order nobody fixes; facts about it are
proved from a smallest set for which they fail (`Least`, from the well-foundedness of
`<`), because the induction theorems of the library cannot be used.

Only model-checked is liveness (`FlushReturns`, `SnapshotLands`, `LockReturns`,
`SessionEnds`, `TickRuns`, `RoundsAreFair`, `FramesArrive`, `FramesGoOn`): reasoning about
fairness and `ENABLED` is out of the prover's reach. Every safety property of a passing run
is stated by a theorem, without further hypotheses.

Induction over data is done by hand where it is needed (TradeProofs, CommandLoopProofs),
by a smallest counterexample; modules with RECURSIVE operators are out of reach, and
there are none.

## What the models leave out

- *SQL.* A transaction is one step. Isolation, retries of serialization failures and
  the queries are PostgreSQL's and the driver's.
- *Errors of the file system while the store starts* (StoreJournal): the start fails and
  is tried again, which is one more crash during the recovery.
- *The two fence sets* (accounts, charstates) are one set over disjoint keys; the
  code always locks accounts before charstates, which is an order of keys too.
- *What packets carry.* A refused packet is a step that changes nothing. Limits of
  login attempts, bans and network policy are one refusal.
- *Operations of several accounts in AccountSessions.* An operation belongs to one
  account there; Trade has those of two.
- *Celestial capsules, untradable items and slots in Trade.* A capsule travels with its
  item in the same transaction; slots decide only whether there is room.
- *The autosave queue in Trade.* An autosave there is stored at once. The delay is
  PostgresQueue's, whose result (no snapshot older than a critical save is ever
  stored) is what allows it.
- *Packets on their way to a client.* A confirmation answers what the server holds
  when it handles it, which may be newer than what the player saw.
- *Time.* Deadlines, tickers and windows may end at any moment. The waiting press of
  the touch screen is counted in polls, as in the code.
- *In ClientSocket:* encryption and the keyword queues, which are inert because the
  server sends an all-zero `SecretCode`; the throttle of sends; that the checksum has
  eight bits (a frame is sound when its units are the ones the server put in it); and
  the branch of the handler for other events than a read, which the ports never post.
- *In TouchInput:* the menu and camera buttons of the HUD, the other buttons of the
  pad, their bindings and the keyboard, the right mouse button, the automatic attack,
  the program in the background, a character that has learned no skill.
  `TouchSystem.cpp` is not compiled for this port.

Not modelled at all: the rules of the game, the catalogues, the wire format, the
rest of the client (scenes, entities, drawing, sound, the vendored headers), the registration service, the operators' tools and the deployment. Each is
a table, a computation inside one step, or input and output, for which tests and
reading do more than a model; `PROJECT.json` says so part by part.

## Plan

In the order of importance:

1. *Ghost shops* (`GhostShop`): listings over the cargo of an owner, a purchase as one
   transaction of two accounts, on the ledger of Trade; the listing a buyer saw
   against the one that is sold.
2. *Guilds* (`Guild`): registry and members stored together, ranks and succession;
   every member's card agrees with the registry after failed and doubtful saves.
3. *Parties* (`Party`): invitations by identifiers that are used again; list and
   members agree.
4. *Instances* (`Instances`): ticket and room in one transaction, membership across a
   restart, deadlines.
5. *Connections* (`Admission`): the counters per origin and the output queue.
6. Poisoned players in operations of several accounts (Trade with AccountSessions'
   panics), and the repeated call of `Shutdown`.
7. A call of `AdminCall` that gave up but is still queued; an invitation, or a
   confirmation, that is answered after what it was about has changed.

## Running the checks

```
tlc -workers 2 -config PostgresQueue.cfg MCPostgresQueue.tla
tlapm --stretch 2 PostgresStoreProofs.tla
```

Every run is a pair of an MC module and a `.cfg`; `PROJECT.json` lists them with the
properties they check, and for every property of a passing run a mutation of a
mapped definition (the operators whose comments begin with "Fault:") under which
that property is violated. `map` in `PROJECT.json` gives the source lines of every
definition.
