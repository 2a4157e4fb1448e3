---------------------------- MODULE PostgresQueue ----------------------------
(***************************************************************************)
(* The write path of PostgresStore, the authoritative store of the game    *)
(* server: the World goroutine hands autosave snapshots to a bounded FIFO  *)
(* channel (writeQueue) that spills into a coalescing overflow, a single   *)
(* persistLoop goroutine batches them into transactions, and critical      *)
(* saves write directly under the same per-key fences.                     *)
(*                                                                         *)
(* A snapshot is identified by the generation (seq) it was stamped with:   *)
(* db[k] is the generation of the snapshot the database holds for k.       *)
(***************************************************************************)
EXTENDS Naturals, Sequences, FiniteSets

CONSTANTS
  Accounts,         \* account keys (autosave of an account)
  CharStates,       \* character UIDs (autosave of a charstate)
  Export,           \* label of the derived job that rewrites Guilds.txt
  Barrier,          \* marks the barrier job of Flush and Close
  NoJob,            \* the worker has no job put aside
  CriticalSets,     \* key sets one critical save may cover
  QueueCap,         \* capacity of writeQueue
  AccountBatch,     \* most accounts of one autosave transaction
  StateBatch,       \* most charstates of one autosave transaction
  MaxSeq,           \* bound: generations handed out
  MaxCrashes        \* bound: process crashes

Keys == Accounts \union CharStates

ASSUME QueueAssumption ==
  /\ Accounts \intersect CharStates = {}
  /\ Export \notin Keys /\ Barrier \notin Keys /\ Export # Barrier
  /\ CriticalSets \subseteq SUBSET Keys
  /\ QueueCap \in Nat \ {0}
  /\ AccountBatch \in Nat \ {0} /\ StateBatch \in Nat \ {0}
  /\ MaxSeq \in Nat /\ MaxCrashes \in Nat

Job == [key : Keys \union {Export, Barrier}, seq : 1..MaxSeq]

ASSUME NoJobAssumption == NoJob \notin Job

VARIABLES
  seq,        \* writeSeq: last generation handed out
  latest,     \* latestAccountSeq and latestStateSeq
  queue,      \* writeQueue
  overflow,   \* overflowAcc, overflowState and overflowRuns
  wpc,        \* where persistLoop stands
  batch,      \* the jobs persistLoop is about to write or run
  pending,    \* job taken from the channel while collecting another kind
  fenced,     \* keys whose fence persistLoop holds
  phase,      \* where the World stands inside a store call
  held,       \* keys whose fence the World holds
  cur,        \* generation of the World's call in progress
  exporting,  \* does the critical save in progress carry the guilds?
  closed,     \* Close has completed
  db,         \* generation stored for each key
  guildGen,   \* guildExportGen: generation of the newest export asked for
  fileGen,    \* generation Guilds.txt was last written from
  retry,      \* derived jobs waiting for their retry timer
  spilling,   \* derived jobs whose timer found the channel full
  crashes,    \* crashes so far
  confirmed,  \* history: newest critical save acknowledged for each key
  failed,     \* history: keys of whose newest snapshot the write failed
  dropped,    \* history: keys whose newest snapshot was put aside and lost
  stranded,   \* history: keys whose newest snapshot went by a sleeping worker
  drained     \* history: generation of the last barrier that was confirmed

workerVars  == <<wpc, batch, pending, fenced>>
worldVars   == <<phase, held, cur, exporting, closed>>
exportVars  == <<guildGen, fileGen, retry, spilling>>
excuses     == <<failed, dropped, stranded>>
historyVars == <<confirmed, excuses, drained>>
vars == <<seq, latest, queue, overflow, workerVars, worldVars, db,
          exportVars, crashes, historyVars>>

-----------------------------------------------------------------------------
TypeOK ==
  /\ seq \in 0..MaxSeq
  /\ latest \in [Keys -> 0..MaxSeq]
  /\ queue \in Seq(Job) /\ Len(queue) <= QueueCap
  /\ overflow \in SUBSET Job
  /\ wpc \in {"pick", "recv", "collect", "lock", "write", "run", "exit"}
  /\ batch \in SUBSET Job
  /\ pending \in Job \union {NoJob}
  /\ fenced \in SUBSET Keys
  /\ phase \in {"idle", "insert", "tx", "flushSend", "flushWait",
                "closeSend", "closeWait"}
  /\ held \in SUBSET Keys
  /\ cur \in Job \union {NoJob}
  /\ exporting \in BOOLEAN /\ closed \in BOOLEAN
  /\ db \in [Keys -> 0..MaxSeq]
  /\ guildGen \in 0..MaxSeq /\ fileGen \in 0..MaxSeq
  /\ retry \in SUBSET Job /\ spilling \in SUBSET Job
  /\ crashes \in 0..MaxCrashes
  /\ confirmed \in [Keys -> 0..MaxSeq]
  /\ failed \in SUBSET Keys /\ dropped \in SUBSET Keys
  /\ stranded \in SUBSET Keys
  /\ drained \in 0..MaxSeq

Init ==
  /\ seq = 0 /\ latest = [k \in Keys |-> 0]
  /\ queue = <<>> /\ overflow = {}
  /\ wpc = "pick" /\ batch = {} /\ pending = NoJob /\ fenced = {}
  /\ phase = "idle" /\ held = {} /\ cur = NoJob /\ exporting = FALSE
  /\ closed = FALSE
  /\ db = [k \in Keys |-> 0]
  /\ guildGen = 0 /\ fileGen = 0 /\ retry = {} /\ spilling = {}
  /\ crashes = 0
  /\ confirmed = [k \in Keys |-> 0] /\ drained = 0
  /\ failed = {} /\ dropped = {} /\ stranded = {}

-----------------------------------------------------------------------------
(* Jobs. *)

MkJob(k, n) == [key |-> k, seq |-> n]

(* Fault: the overflow keeps the job it already has for a key.             *)
CoalesceFirst(jobs, j) ==
  IF \E x \in jobs : x.key = j.key THEN jobs ELSE jobs \union {j}

(* A job coalesces with the one of the same account, charstate or label.   *)
Coalesce(jobs, j) == {x \in jobs : x.key # j.key} \union {j}

(* The collecting loop keeps, per key, the snapshot of the newest          *)
(* generation.                                                             *)
CollectInto(jobs, j) ==
  IF \E x \in jobs : x.key = j.key /\ x.seq >= j.seq
    THEN jobs
    ELSE Coalesce(jobs, j)

SameKind(j, k) ==
  \/ j.key \in Accounts /\ k.key \in Accounts
  \/ j.key \in CharStates /\ k.key \in CharStates

BatchLimit(jobs) ==
  IF \E j \in jobs : j.key \in Accounts THEN AccountBatch ELSE StateBatch

KeysOf(jobs) == {j.key : j \in jobs}

(* Fault: the job put aside always goes before the overflow.               *)
OlderIgnored == {j \in overflow : pending = NoJob}

(* What takeOverflowBefore chooses from: jobs older than the one put aside. *)
Older == {j \in overflow : pending = NoJob \/ j.seq < pending.seq}

(* Fault: superseded snapshots are written all the same.                   *)
IsLatestAlways(j) == TRUE

(* isLatestAccountJob, isLatestCharStateJob.                               *)
IsLatest(j) == latest[j.key] = j.seq

Stamp(K, n) == [k \in Keys |-> IF k \in K THEN n ELSE latest[k]]

(* The keys whose newest snapshot this job is.                             *)
NewestOf(j) == {k \in Keys : j = MkJob(k, latest[k])}

(* A snapshot that was just stamped has no history.                        *)
Forgive(K) ==
  /\ failed' = failed \ K /\ dropped' = dropped \ K
  /\ stranded' = stranded \ K

(* The database after the snapshots of the jobs in J are committed.        *)
Store(J) ==
  [k \in Keys |->
     IF \E j \in J : j.key = k THEN (CHOOSE j \in J : j.key = k).seq
                               ELSE db[k]]

-----------------------------------------------------------------------------
(* The World goroutine.  It runs one store call at a time.                 *)

Callable == phase = "idle" /\ ~closed /\ seq < MaxSeq

(* enqueue: a full channel never blocks the World, the job goes to the     *)
(* overflow in a second step.                                              *)
Enqueue(j) ==
  \/ /\ Len(queue) < QueueCap
     /\ queue' = Append(queue, j)
     /\ phase' = "idle" /\ held' = {} /\ cur' = NoJob
  \/ /\ Len(queue) = QueueCap
     /\ phase' = "insert" /\ cur' = j
     /\ UNCHANGED queue

(* SaveAccountAsync, SaveCharStateAsync: the snapshot is taken and stamped *)
(* under the fence of its key.                                             *)
SaveAsync(k) ==
  /\ Callable /\ k \notin fenced
  /\ seq' = seq + 1
  /\ latest' = Stamp({k}, seq + 1)
  /\ \/ Len(queue) = QueueCap /\ held' = {k}
     \/ Len(queue) < QueueCap
  /\ Enqueue(MkJob(k, seq + 1))
  /\ Forgive({k})
  /\ UNCHANGED <<overflow, workerVars, exporting, closed, db, exportVars,
                 crashes, confirmed, drained>>

(* The worker waits for a channel in which there is nothing.               *)
Asleep == wpc = "recv" /\ queue = <<>>

(* The second half of enqueue, under overflowMu: the worker may have       *)
(* emptied the channel since it was found full.                            *)
InsertOverflow ==
  /\ phase = "insert"
  /\ overflow' = Coalesce(overflow, cur)
  /\ stranded' = stranded \union {k \in NewestOf(cur) : Asleep}
  /\ phase' = "idle" /\ held' = {} /\ cur' = NoJob
  /\ UNCHANGED <<seq, latest, queue, workerVars, exporting, closed, db,
                 exportVars, crashes, confirmed, failed, dropped, drained>>

(* Fault: a critical save does not take the fences of its keys.            *)
SaveBeginUnfenced(K, guilds) ==
  /\ Callable
  /\ seq' = seq + 1
  /\ latest' = Stamp(K, seq + 1)
  /\ held' = K /\ cur' = MkJob(Export, seq + 1)
  /\ exporting' = guilds /\ phase' = "tx"
  /\ Forgive(K)
  /\ UNCHANGED <<queue, overflow, workerVars, closed, db, exportVars,
                 crashes, confirmed, drained>>

(* SaveAccount, SaveCharState, SavePlayerState, SaveGameState: take the    *)
(* fences of every key of the save and publish its generation, which       *)
(* invalidates the older autosaves still queued, then run the transaction. *)
SaveBegin(K, guilds) ==
  /\ Callable /\ K \intersect fenced = {}
  /\ seq' = seq + 1
  /\ latest' = Stamp(K, seq + 1)
  /\ held' = K /\ cur' = MkJob(Export, seq + 1)
  /\ exporting' = guilds /\ phase' = "tx"
  /\ Forgive(K)
  /\ UNCHANGED <<queue, overflow, workerVars, closed, db, exportVars,
                 crashes, confirmed, drained>>

(* The transaction commits and the caller may confirm to the client.  A    *)
(* save that carried the guilds then schedules the rewrite of Guilds.txt.  *)
SaveCommit ==
  /\ phase = "tx"
  /\ db' = [k \in Keys |-> IF k \in held THEN cur.seq ELSE db[k]]
  /\ confirmed' = [k \in Keys |->
                     IF k \in held THEN cur.seq ELSE confirmed[k]]
  /\ failed' = failed \ held
  /\ exporting' = FALSE
  /\ \/ /\ exporting
        /\ guildGen' = cur.seq
        /\ \/ Len(queue) = QueueCap /\ held' = held
           \/ Len(queue) < QueueCap
        /\ Enqueue(cur)
     \/ /\ ~exporting
        /\ phase' = "idle" /\ held' = {} /\ cur' = NoJob
        /\ UNCHANGED <<queue, guildGen>>
  /\ UNCHANGED <<seq, latest, overflow, workerVars, closed, fileGen, retry,
                 spilling, crashes, dropped, stranded, drained>>

(* Fault: a transaction that failed is reported as committed.              *)
SaveFailConfirmed ==
  /\ phase = "tx"
  /\ confirmed' = [k \in Keys |->
                     IF k \in held THEN cur.seq ELSE confirmed[k]]
  /\ phase' = "idle" /\ held' = {} /\ cur' = NoJob /\ exporting' = FALSE
  /\ UNCHANGED <<seq, latest, queue, overflow, workerVars, closed, db,
                 exportVars, crashes, excuses, drained>>

(* The transaction returns an error.  When the deadline expires during the *)
(* commit the database may have applied it all the same.                   *)
SaveFail ==
  /\ phase = "tx"
  /\ \/ UNCHANGED db
     \/ db' = [k \in Keys |-> IF k \in held THEN cur.seq ELSE db[k]]
  /\ failed' = failed \union held
  /\ phase' = "idle" /\ held' = {} /\ cur' = NoJob /\ exporting' = FALSE
  /\ UNCHANGED <<seq, latest, queue, overflow, workerVars, closed,
                 exportVars, crashes, confirmed, dropped, stranded, drained>>

(* Flush and Close: a stamped barrier is sent, blocking while the channel  *)
(* is full, and waited for with the store mutex held exclusively, which a  *)
(* retry timer in the middle of its enqueue delays.                        *)
FlushBegin ==
  /\ Callable /\ spilling = {}
  /\ seq' = seq + 1
  /\ cur' = MkJob(Barrier, seq + 1)
  /\ phase' \in {"flushSend", "closeSend"}
  /\ UNCHANGED <<latest, queue, overflow, workerVars, held, exporting,
                 closed, db, exportVars, crashes, historyVars>>

FlushSend ==
  /\ phase \in {"flushSend", "closeSend"}
  /\ Len(queue) < QueueCap
  /\ queue' = Append(queue, cur)
  /\ phase' = IF phase = "flushSend" THEN "flushWait" ELSE "closeWait"
  /\ UNCHANGED <<seq, latest, overflow, workerVars, held, cur, exporting,
                 closed, db, exportVars, crashes, historyVars>>

World ==
  \/ \E k \in Keys : SaveAsync(k)
  \/ InsertOverflow
  \/ \E K \in CriticalSets, guilds \in BOOLEAN : SaveBegin(K, guilds)
  \/ SaveCommit
  \/ SaveFail
  \/ FlushBegin
  \/ FlushSend

-----------------------------------------------------------------------------
(* persistLoop.                                                            *)

Start(j) ==
  /\ batch' = {j}
  /\ wpc' = IF j.key \in Keys THEN "collect" ELSE "run"

(* The top of the loop: overflow older than the job put aside, then that   *)
(* job, then whatever the overflow holds, and only then the channel.       *)
PickOverflow ==
  /\ wpc = "pick"
  /\ \E j \in Older :
       /\ \A x \in Older : j.seq <= x.seq
       /\ Start(j)
       /\ overflow' = overflow \ {j}
  /\ UNCHANGED <<seq, latest, queue, pending, fenced, worldVars, db,
                 exportVars, crashes, historyVars>>

PickPending ==
  /\ wpc = "pick" /\ Older = {} /\ pending # NoJob
  /\ Start(pending)
  /\ pending' = NoJob
  /\ UNCHANGED <<seq, latest, queue, overflow, fenced, worldVars, db,
                 exportVars, crashes, historyVars>>

PickWait ==
  /\ wpc = "pick" /\ Older = {} /\ pending = NoJob
  /\ wpc' = "recv"
  /\ UNCHANGED <<seq, latest, queue, overflow, batch, pending, fenced,
                 worldVars, db, exportVars, crashes, historyVars>>

Receive ==
  /\ wpc = "recv" /\ queue # <<>>
  /\ Start(Head(queue))
  /\ queue' = Tail(queue)
  /\ UNCHANGED <<seq, latest, overflow, pending, fenced, worldVars, db,
                 exportVars, crashes, historyVars>>

ReceiveClosed ==
  /\ wpc = "recv" /\ queue = <<>> /\ closed
  /\ wpc' = "exit"
  /\ UNCHANGED <<seq, latest, queue, overflow, batch, pending, fenced,
                 worldVars, db, exportVars, crashes, historyVars>>

(* The 2 ms window in which the loop adds snapshots of the same kind to    *)
(* the batch; a job of another kind is put aside, over the one that was    *)
(* there already if the batch was begun from the overflow, and ends it.    *)
Collect ==
  /\ wpc = "collect" /\ queue # <<>>
  /\ Cardinality(batch) < BatchLimit(batch)
  /\ LET next == Head(queue) IN
       \/ /\ \E j \in batch : SameKind(j, next)
          /\ batch' = CollectInto(batch, next)
          /\ UNCHANGED <<wpc, pending, dropped>>
       \/ /\ \A j \in batch : ~SameKind(j, next)
          /\ pending' = next
          /\ dropped' = dropped \union NewestOf(pending)
          /\ wpc' = "lock"
          /\ UNCHANGED batch
  /\ queue' = Tail(queue)
  /\ UNCHANGED <<seq, latest, overflow, fenced, worldVars, db, exportVars,
                 crashes, confirmed, failed, stranded, drained>>

CollectEnd ==
  /\ wpc = "collect"
  /\ wpc' = "lock"
  /\ UNCHANGED <<seq, latest, queue, overflow, batch, pending, fenced,
                 worldVars, db, exportVars, crashes, historyVars>>

(* Take the fences of the batch and drop the snapshots that a newer save   *)
(* has superseded.                                                         *)
Lock ==
  /\ wpc = "lock" /\ KeysOf(batch) \intersect held = {}
  /\ batch' = {j \in batch : IsLatest(j)}
  /\ \/ batch' = {} /\ wpc' = "pick" /\ UNCHANGED fenced
     \/ batch' # {} /\ wpc' = "write" /\ fenced' = KeysOf(batch)
  /\ UNCHANGED <<seq, latest, queue, overflow, pending, worldVars, db,
                 exportVars, crashes, historyVars>>

(* One transaction for the batch.  An error is logged and the snapshots    *)
(* are not retried.                                                        *)
Write ==
  /\ wpc = "write"
  /\ \/ db' = Store(batch) /\ failed' = failed \ KeysOf(batch)
     \/ UNCHANGED db /\ failed' = failed \union KeysOf(batch)
     \/ db' = Store(batch) /\ failed' = failed \union KeysOf(batch)
  /\ wpc' = "pick" /\ batch' = {} /\ fenced' = {}
  /\ UNCHANGED <<seq, latest, queue, overflow, pending, worldVars,
                 exportVars, crashes, confirmed, dropped, stranded, drained>>

(* Fault: the barrier's done channel is not closed.                        *)
RunBarrierLost ==
  /\ wpc = "run"
  /\ \E j \in batch : j.key = Barrier /\ drained' = j.seq
  /\ wpc' = "pick" /\ batch' = {}
  /\ UNCHANGED <<seq, latest, queue, overflow, pending, fenced, worldVars,
                 db, exportVars, crashes, confirmed, excuses>>

(* A barrier is confirmed: the World's Flush returns; Close also closes    *)
(* the channel.                                                            *)
RunBarrier ==
  /\ wpc = "run"
  /\ \E j \in batch : j.key = Barrier /\ drained' = j.seq
  /\ phase' = "idle" /\ cur' = NoJob /\ closed' = (phase = "closeWait")
  /\ wpc' = "pick" /\ batch' = {}
  /\ UNCHANGED <<seq, latest, queue, overflow, pending, fenced, held,
                 exporting, db, exportVars, crashes, confirmed, excuses>>

(* Fault: a derived job does not check that its export is the newest.      *)
RunExportAny ==
  /\ wpc = "run"
  /\ \E j \in batch :
       /\ j.key = Export
       /\ \/ fileGen' = j.seq /\ UNCHANGED retry
          \/ retry' = retry \union {j} /\ UNCHANGED fileGen
  /\ wpc' = "pick" /\ batch' = {}
  /\ UNCHANGED <<seq, latest, queue, overflow, pending, fenced, worldVars,
                 db, guildGen, spilling, crashes, historyVars>>

(* The derived job rewrites Guilds.txt unless a newer export was asked     *)
(* for; a failure arms the retry timer.                                    *)
RunExport ==
  /\ wpc = "run"
  /\ \E j \in batch :
       /\ j.key = Export
       /\ \/ j.seq # guildGen /\ UNCHANGED <<fileGen, retry>>
          \/ j.seq = guildGen /\ fileGen' = j.seq /\ UNCHANGED retry
          \/ j.seq = guildGen /\ retry' = retry \union {j}
             /\ UNCHANGED fileGen
  /\ wpc' = "pick" /\ batch' = {}
  /\ UNCHANGED <<seq, latest, queue, overflow, pending, fenced, worldVars,
                 db, guildGen, spilling, crashes, historyVars>>

Worker ==
  \/ PickOverflow \/ PickPending \/ PickWait
  \/ Receive \/ ReceiveClosed
  \/ Collect \/ CollectEnd
  \/ Lock \/ Write
  \/ RunBarrier \/ RunExport

-----------------------------------------------------------------------------
(* retryDerived: the timer re-enqueues the job with its own generation,    *)
(* unless the store is closed; it needs the mutex that Flush holds, and    *)
(* like the World it finds the channel full before it goes to the overflow.*)
Retry ==
  /\ phase \in {"idle", "insert", "tx"}
  /\ \E j \in retry :
       /\ retry' = retry \ {j}
       /\ \/ closed /\ UNCHANGED <<queue, spilling>>
          \/ /\ ~closed /\ Len(queue) < QueueCap
             /\ queue' = Append(queue, j) /\ UNCHANGED spilling
          \/ /\ ~closed /\ Len(queue) = QueueCap
             /\ spilling' = spilling \union {j} /\ UNCHANGED queue
  /\ UNCHANGED <<seq, latest, overflow, workerVars, worldVars, db, guildGen,
                 fileGen, crashes, historyVars>>

RetryInsert ==
  /\ \E j \in spilling :
       overflow' = Coalesce(overflow, j) /\ spilling' = spilling \ {j}
  /\ UNCHANGED <<seq, latest, queue, workerVars, worldVars, db, guildGen,
                 fileGen, retry, crashes, historyVars>>

(* The process dies and starts again: everything but the database and      *)
(* Guilds.txt is lost; the transaction in flight may have been committed.  *)
Crash ==
  /\ crashes < MaxCrashes /\ crashes' = crashes + 1
  /\ \/ UNCHANGED db
     \/ phase = "tx"
        /\ db' = [k \in Keys |-> IF k \in held THEN cur.seq ELSE db[k]]
     \/ wpc = "write" /\ db' = Store(batch)
  /\ latest' = db'
  /\ queue' = <<>> /\ overflow' = {}
  /\ retry' = {} /\ spilling' = {}
  /\ wpc' = "pick" /\ batch' = {} /\ pending' = NoJob /\ fenced' = {}
  /\ phase' = "idle" /\ held' = {} /\ cur' = NoJob /\ exporting' = FALSE
  /\ closed' = FALSE
  /\ failed' = {} /\ dropped' = {} /\ stranded' = {}
  /\ UNCHANGED <<seq, guildGen, fileGen, confirmed, drained>>

Next == World \/ Worker \/ Retry \/ RetryInsert \/ Crash

Spec == Init /\ [][Next]_vars

(* persistLoop is a goroutine that only ever waits for the channel, for a  *)
(* fence or for the database, whose calls carry a deadline; the World      *)
(* finishes the store call it has begun; retry timers fire; a Guilds.txt   *)
(* that is rewritten again and again, seconds apart, is some day rewritten *)
(* without an error.                                                       *)
Fairness ==
  /\ WF_vars(Worker)
  /\ WF_vars(InsertOverflow) /\ WF_vars(SaveCommit \/ SaveFail)
  /\ WF_vars(FlushSend)
  /\ WF_vars(Retry) /\ WF_vars(RetryInsert)
  /\ SF_vars(RunExport /\ fileGen' = guildGen)

FairSpec == Spec /\ Fairness

-----------------------------------------------------------------------------
(* Properties. *)

(* DOCS/IMPLEMENTED.md, Persistencia: an old autosave can neither overtake *)
(* nor overwrite a newer commit.  Whatever the channel, the overflow, the  *)
(* batching and the deadlines do, the snapshot stored for a key is never   *)
(* replaced by one of an older generation.                                 *)
NoStaleOverwrite == [][\A k \in Keys : db'[k] >= db[k]]_vars

(* A critical save the World was told is committed is what the database    *)
(* holds, or something newer, from then on and across crashes.             *)
CriticalDurable == \A k \in Keys : confirmed[k] <= db[k]

(* The barrier of Flush drains everything queued before it: once it is     *)
(* confirmed, the newest snapshot of a key stamped before the barrier is   *)
(* in the database, unless its own write failed, or it was put aside and   *)
(* overwritten there, or it went into the overflow when the worker was     *)
(* already asleep on an empty channel.  There is no fourth way.            *)
Excused == failed \union dropped \union stranded

BarrierDrains ==
  \A k \in Keys : latest[k] <= drained => db[k] = latest[k] \/ k \in Excused

(* The same as DOCS/IMPLEMENTED.md says it, with no excuse but an error of *)
(* the write itself: the barrier of Flush drains all the overflow that     *)
(* came before it.                                                         *)
BarrierDrainsAll ==
  \A k \in Keys : latest[k] <= drained => db[k] = latest[k] \/ k \in failed

(* Flush and Close return: no lost barrier, no lock held for ever.         *)
FlushReturns ==
  phase \in {"flushSend", "flushWait", "closeSend", "closeWait"}
    ~> phase = "idle"

(* The newest snapshot of every key reaches the database, unless its own   *)
(* write failed, or it was put aside and overwritten there, or it is in    *)
(* the overflow of a worker that sleeps: none is forgotten otherwise, and  *)
(* a worker that sleeps has passed by nothing but what came too late.      *)
PassedBy(k) == Asleep /\ k \in stranded /\ MkJob(k, latest[k]) \in overflow

SnapshotLands ==
  \A k \in Keys : latest[k] # db[k]
    ~> latest[k] = db[k] \/ k \in failed \union dropped \/ PassedBy(k)

(* Seen from outside, the store is the abstract one: the queue, the        *)
(* overflow, the batches and the fences only decide when it stores.        *)
Abstract == INSTANCE SnapshotStore WITH issued <- latest, durable <- db,
                                        MaxVersion <- MaxSeq
ImplementsSnapshotStore == Abstract!Spec

(* Guilds.txt never goes back to an older guild registry.                  *)
ExportNeverRegresses == [][fileGen' >= fileGen]_vars
=============================================================================
