---------------------------- MODULE JsonWriteQueue ----------------------------
(***************************************************************************)
(* The write queue of JSONStore, the development store: autosaves go to a  *)
(* FIFO channel or, while it is full or the overflow is not empty, to an   *)
(* ordered overflow that coalesces by key; one goroutine writes the files. *)
(* A synchronous save sends a barrier through the queue, waits for it and  *)
(* writes its files itself.                                                *)
(*                                                                         *)
(* Snapshots are numbered per key; the file of k holds number db[k].       *)
(***************************************************************************)
EXTENDS Naturals, Sequences, FiniteSets

CONSTANTS
  Keys,        \* account and charstate files
  Barrier,     \* the key of a barrier job (empty in the code)
  NoJob,       \* the worker has no job
  SyncSets,    \* the files one synchronous save may cover; {} is Flush
  QueueCap,    \* capacity of writeQueue
  MaxVersion,  \* bound: snapshots of a key
  MaxCrashes   \* bound: process crashes

ASSUME QueueAssumption ==
  /\ Barrier \notin Keys
  /\ SyncSets \subseteq SUBSET Keys
  /\ QueueCap \in Nat \ {0}
  /\ MaxVersion \in Nat /\ MaxCrashes \in Nat

Job == [key : Keys \union {Barrier}, version : 0..MaxVersion]

ASSUME NoJobAssumption == NoJob \notin Job

VARIABLES
  latest,     \* newest snapshot taken of each key
  queue,      \* writeQueue
  overflow,
  wpc,        \* where persistLoop stands: polling the channel, looking at
              \* the overflow, sleeping on the channel, running a job
  job,        \* the job it runs
  phase,      \* the World: outside, waiting for its barrier, released by it
  saving,     \* files of the synchronous save in progress
  db,         \* snapshot each file holds
  confirmed,  \* history: newest synchronous save that returned without error
  crashes,    \* crashes so far
  failed,     \* history: files the write of whose newest snapshot failed
  overtaken,  \* history: the snapshot of each file, 0 if none, that was served
              \* while an older one was left in the channel
  released    \* history: files with a write left in the channel when the
              \* last barrier was taken

history == <<failed, overtaken, released>>
vars == <<latest, queue, overflow, wpc, job, phase, saving, db, confirmed,
          crashes, history>>

TypeOK ==
  /\ latest \in [Keys -> 0..MaxVersion]
  /\ queue \in Seq(Job) /\ Len(queue) <= QueueCap
  /\ overflow \in Seq(Job)
  /\ wpc \in {"poll", "check", "sleep", "run"}
  /\ job \in Job \union {NoJob}
  /\ phase \in {"idle", "flushing", "drained"}
  /\ saving \in SUBSET Keys
  /\ db \in [Keys -> 0..MaxVersion]
  /\ confirmed \in [Keys -> 0..MaxVersion]
  /\ crashes \in 0..MaxCrashes
  /\ failed \in SUBSET Keys /\ released \in SUBSET Keys
  /\ overtaken \in [Keys -> 0..MaxVersion]

Init ==
  /\ latest = [k \in Keys |-> 0]
  /\ queue = <<>> /\ overflow = <<>>
  /\ wpc = "poll" /\ job = NoJob
  /\ phase = "idle" /\ saving = {}
  /\ db = [k \in Keys |-> 0] /\ confirmed = [k \in Keys |-> 0]
  /\ crashes = 0
  /\ failed = {} /\ released = {} /\ overtaken = [k \in Keys |-> 0]

-----------------------------------------------------------------------------
(* The World.                                                              *)

(* Fault: the job that is already there stays.                             *)
CoalesceFirst(j) ==
  IF j.key # Barrier /\ \E i \in DOMAIN overflow : overflow[i].key = j.key
    THEN overflow
    ELSE Append(overflow, j)

(* Jobs of a key coalesce in place; barriers never do.                     *)
Coalesce(j) ==
  IF j.key # Barrier /\ \E i \in DOMAIN overflow : overflow[i].key = j.key
    THEN [i \in DOMAIN overflow |->
            IF overflow[i].key = j.key THEN j ELSE overflow[i]]
    ELSE Append(overflow, j)

(* Fault: a job goes to the channel whenever there is room.                *)
EnqueueOvertaking(j) ==
  \/ /\ Len(queue) < QueueCap
     /\ queue' = Append(queue, j) /\ UNCHANGED overflow
  \/ /\ Len(queue) = QueueCap
     /\ overflow' = Coalesce(j) /\ UNCHANGED queue

(* enqueueWrite, under writeMu: the channel is used only while the overflow *)
(* is empty.                                                               *)
Enqueue(j) ==
  \/ /\ overflow = <<>> /\ Len(queue) < QueueCap
     /\ queue' = Append(queue, j) /\ UNCHANGED overflow
  \/ /\ overflow # <<>> \/ Len(queue) = QueueCap
     /\ overflow' = Coalesce(j) /\ UNCHANGED queue

Bump(K) == [k \in Keys |-> IF k \in K THEN latest[k] + 1 ELSE latest[k]]

(* SaveAccountAsync, SaveCharStateAsync.  A failure of an older snapshot no *)
(* longer counts.                                                          *)
SaveAsync(k) ==
  /\ phase = "idle" /\ latest[k] < MaxVersion
  /\ latest' = Bump({k}) /\ failed' = failed \ {k}
  /\ Enqueue([key |-> k, version |-> latest[k] + 1])
  /\ UNCHANGED <<wpc, job, phase, saving, db, confirmed, crashes, overtaken, released>>

(* Fault: a synchronous save does not flush the queue first.               *)
SaveBeginUnflushed(K) ==
  /\ phase = "idle" /\ \A k \in K : latest[k] < MaxVersion
  /\ latest' = Bump(K) /\ failed' = failed \ K
  /\ saving' = K /\ phase' = "drained" /\ released' = {}
  /\ UNCHANGED <<queue, overflow, wpc, job, db, confirmed, crashes, overtaken>>

(* SaveAccount, SaveCharState, SaveGameState (and Flush, which saves       *)
(* nothing): flushWrites first.                                            *)
SaveBegin(K) ==
  /\ phase = "idle" /\ \A k \in K : latest[k] < MaxVersion
  /\ latest' = Bump(K) /\ failed' = failed \ K
  /\ saving' = K /\ phase' = "flushing" /\ released' = {}
  /\ Enqueue([key |-> Barrier, version |-> 0])
  /\ UNCHANGED <<wpc, job, db, confirmed, crashes, overtaken>>

(* The direct write of the files.  writeFileAtomic may fail before or      *)
(* after the rename that replaces the file.                                *)
SaveEnd ==
  /\ phase = "drained"
  /\ LET stored == [k \in Keys |-> IF k \in saving THEN latest[k] ELSE db[k]] IN
       \/ /\ db' = stored /\ UNCHANGED failed
          /\ confirmed' = [k \in Keys |->
                             IF k \in saving THEN latest[k] ELSE confirmed[k]]
       \/ /\ saving # {} /\ db' \in {db, stored}
          /\ failed' = failed \union saving /\ UNCHANGED confirmed
  /\ phase' = "idle" /\ saving' = {}
  /\ UNCHANGED <<latest, queue, overflow, wpc, job, crashes, overtaken, released>>

-----------------------------------------------------------------------------
(* persistLoop and nextWrite.                                              *)

Take(j) == job' = j /\ wpc' = "run"

(* The channel first, without writeMu; only when it is empty the overflow  *)
(* is looked at.                                                           *)
Poll ==
  /\ wpc = "poll"
  /\ \/ /\ queue # <<>>
        /\ Take(Head(queue)) /\ queue' = Tail(queue)
     \/ /\ queue = <<>>
        /\ wpc' = "check" /\ UNCHANGED <<job, queue>>
  /\ UNCHANGED <<latest, overflow, phase, saving, db, confirmed, crashes, history>>

(* What taking j from the overflow leaves behind in the channel: a snapshot *)
(* is served before an older one of its file, and a barrier releases the   *)
(* synchronous save of a file, or any flush, before a write it followed.   *)
LeftBehind == {k \in Keys : \E i \in DOMAIN queue : queue[i].key = k}

Overtake(j) ==
  /\ overtaken' = [k \in Keys |->
                     CASE k \in LeftBehind /\ k = j.key -> j.version
                       [] k \in LeftBehind \cap saving /\ j.key = Barrier -> latest[k]
                       [] OTHER -> overtaken[k]]
  /\ released' = IF j.key = Barrier THEN LeftBehind ELSE released

(* The overflow, under writeMu: the World may have filled the channel and  *)
(* spilled into the overflow since Poll found the channel empty.           *)
Check ==
  /\ wpc = "check"
  /\ \/ /\ overflow # <<>>
        /\ Take(Head(overflow)) /\ overflow' = Tail(overflow)
        /\ Overtake(Head(overflow))
     \/ /\ overflow = <<>>
        /\ wpc' = "sleep" /\ UNCHANGED <<job, overflow, overtaken, released>>
  /\ UNCHANGED <<latest, queue, phase, saving, db, confirmed, crashes, failed>>

Wake ==
  /\ wpc = "sleep" /\ queue # <<>>
  /\ Take(Head(queue)) /\ queue' = Tail(queue)
  /\ UNCHANGED <<latest, overflow, phase, saving, db, confirmed, crashes, history>>

(* The write of an autosave, whose failure is only logged.                 *)
RunWrite ==
  /\ wpc = "run" /\ job.key \in Keys
  /\ LET stored == [db EXCEPT ![job.key] = job.version] IN
       \/ db' = stored /\ UNCHANGED failed
       \/ /\ db' \in {db, stored}
          /\ failed' = failed \union
                         {k \in {job.key} : job.version = latest[k]}
  /\ wpc' = "poll" /\ job' = NoJob
  /\ UNCHANGED <<latest, queue, overflow, phase, saving, confirmed, crashes,
                 overtaken, released>>

(* Fault: the barrier does not wake the World.                             *)
RunBarrierLost ==
  /\ wpc = "run" /\ job.key = Barrier
  /\ wpc' = "poll" /\ job' = NoJob
  /\ UNCHANGED <<latest, queue, overflow, phase, saving, db, confirmed, crashes,
                 history>>

RunBarrier ==
  /\ wpc = "run" /\ job.key = Barrier
  /\ phase' = "drained"
  /\ wpc' = "poll" /\ job' = NoJob
  /\ UNCHANGED <<latest, queue, overflow, saving, db, confirmed, crashes, history>>

Worker == Poll \/ Check \/ Wake \/ RunWrite \/ RunBarrier

(* The process dies and starts again with what the files hold.             *)
Crash ==
  /\ crashes < MaxCrashes /\ crashes' = crashes + 1
  /\ latest' = db /\ queue' = <<>> /\ overflow' = <<>>
  /\ wpc' = "poll" /\ job' = NoJob /\ phase' = "idle" /\ saving' = {}
  /\ failed' = {} /\ released' = {} /\ overtaken' = [k \in Keys |-> 0]
  /\ UNCHANGED <<db, confirmed>>

Next ==
  \/ \E k \in Keys : SaveAsync(k)
  \/ \E K \in SyncSets : SaveBegin(K)
  \/ SaveEnd
  \/ Worker
  \/ Crash

Spec == Init /\ [][Next]_vars

(* The World finishes the save it has begun, and persistLoop goes on as    *)
(* long as there is something for it to do.                                *)
FairSpec == Spec /\ WF_vars(Worker) /\ WF_vars(SaveEnd)

-----------------------------------------------------------------------------
(* Properties. *)

(* The comments of nextWrite and enqueueWrite: a new snapshot never gets   *)
(* ahead of an older write still in the channel, and an old autosave never *)
(* overwrites a newer one: no file goes back.  The code does not keep it.  *)
NoStaleOverwrite == [][\A k \in Keys : db'[k] >= db[k]]_vars

(* What it does keep: a file goes back only from a snapshot that was       *)
(* served, from the overflow or by a synchronous save, while an older      *)
(* write of the same file was left in the channel between the two looks of *)
(* nextWrite.  No order of enqueues, coalescing, flush or crash adds a way. *)
StaleOnlyIfOvertaken ==
  [][\A k \in Keys : db'[k] < db[k] => db[k] <= overtaken[k]]_vars

(* flushWrites blocks until what was enqueued before it is written: when it *)
(* returns each file holds its newest snapshot, unless the write of that   *)
(* very snapshot failed, or it was overtaken, or the barrier itself was    *)
(* taken from the overflow with the write left in the channel.             *)
FlushDrains ==
  phase = "drained" =>
    \A k \in Keys \ saving :
      \/ db[k] = latest[k] \/ k \in failed
      \/ overtaken[k] = latest[k] \/ k \in released

(* Every flush returns: the barrier is never dropped nor stranded in the   *)
(* overflow while the worker sleeps.                                       *)
FlushReturns == phase = "flushing" ~> phase = "idle"

(* The newest autosave of a file is written, unless the write of that very *)
(* snapshot failed or it was served before an older one.                   *)
SnapshotLands ==
  \A k \in Keys :
    latest[k] # db[k] ~>
      latest[k] = db[k] \/ k \in failed \/ overtaken[k] = latest[k]
=============================================================================
