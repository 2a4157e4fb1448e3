-------------------------- MODULE PostgresStoreProofs --------------------------
(***************************************************************************)
(* Proofs about PostgresStore: first PostgresQueue, for every set of       *)
(* accounts and charstates and every capacity and batch size; then         *)
(* FenceSet, for any finite set of goroutines and any number of keys.      *)
(***************************************************************************)
EXTENDS PostgresQueue, FenceSet, FiniteSetTheorems, WellFoundedInduction, TLAPS

(* The World's side: while it runs a transaction it holds the fences of    *)
(* its keys, and the generation it writes is the newest one issued.        *)
TxIsLatest ==
  phase = "tx" => /\ cur \in Job
                  /\ \A k \in held : latest[k] = cur.seq

(* The worker's side: what it is about to write is, for each key, the      *)
(* newest snapshot issued, and it holds the fence that keeps it so.        *)
WriteIsLatest ==
  wpc = "write" => \A j \in batch : j.key \in fenced /\ latest[j.key] = j.seq

BatchKind ==
  wpc \in {"collect", "lock", "write"} => \A j \in batch : j.key \in Keys

CurPresent == phase \in {"insert", "flushSend", "closeSend"} => cur \in Job

Ordered ==
  \A k \in Keys : confirmed[k] <= db[k] /\ db[k] <= latest[k] /\ latest[k] <= seq

IInv == /\ TypeOK /\ TxIsLatest /\ WriteIsLatest /\ BatchKind
        /\ CurPresent /\ Ordered

-----------------------------------------------------------------------------
LEMMA StoreTyped ==
  ASSUME TypeOK, NEW J, J \subseteq batch
  PROVE  Store(J) \in [Keys -> 0..MaxSeq]
<1>1. ASSUME NEW k \in Keys
      PROVE  (IF \E j \in J : j.key = k THEN (CHOOSE j \in J : j.key = k).seq
                                        ELSE db[k]) \in 0..MaxSeq
  <2>1. CASE \E j \in J : j.key = k
    <3>1. (CHOOSE j \in J : j.key = k) \in Job
      BY <2>1 DEF TypeOK
    <3>2. QED
      BY <2>1, <3>1 DEF Job
  <2>2. CASE ~ \E j \in J : j.key = k
    BY <2>2 DEF TypeOK
  <2>3. QED
    BY <2>1, <2>2
<1>2. QED
  BY <1>1 DEF Store

(* What a transaction of the worker leaves in the database.                *)
LEMMA StoreForward ==
  ASSUME TypeOK, Ordered, WriteIsLatest, wpc = "write", NEW k \in Keys
  PROVE  Store(batch)[k] \in {db[k], latest[k]}
<1>1. CASE \E j \in batch : j.key = k
  <2>1. PICK j \in batch : j = (CHOOSE x \in batch : x.key = k) /\ j.key = k
    BY <1>1
  <2>2. Store(batch)[k] = j.seq
    BY <1>1, <2>1 DEF Store
  <2>3. QED
    BY <2>1, <2>2 DEF WriteIsLatest
<1>2. CASE ~ \E j \in batch : j.key = k
  BY <1>2 DEF Store
<1>3. QED
  BY <1>1, <1>2

LEMMA InitIInv == Init => IInv
<1> SUFFICES ASSUME Init PROVE IInv
  OBVIOUS
<1>1. TypeOK
  <2>1. queue \in Seq(Job) /\ Len(queue) <= QueueCap
    BY QueueAssumption DEF Init
  <2>2. /\ latest \in [Keys -> 0..MaxSeq]
        /\ db \in [Keys -> 0..MaxSeq]
        /\ confirmed \in [Keys -> 0..MaxSeq]
    BY QueueAssumption DEF Init
  <2>3. /\ seq \in 0..MaxSeq /\ guildGen \in 0..MaxSeq
        /\ fileGen \in 0..MaxSeq /\ drained \in 0..MaxSeq
        /\ crashes \in 0..MaxCrashes
    BY QueueAssumption DEF Init
  <2>4. QED
    BY <2>1, <2>2, <2>3 DEF Init, TypeOK
<1>2. TxIsLatest /\ WriteIsLatest /\ BatchKind /\ CurPresent /\ Ordered
  BY DEF Init, TxIsLatest, WriteIsLatest, BatchKind, CurPresent, Ordered
<1>3. QED
  BY <1>1, <1>2 DEF IInv

(* A job made with the next generation is a job.                           *)
LEMMA NextJob ==
  ASSUME seq \in 0..MaxSeq, seq < MaxSeq,
         NEW k \in Keys \union {Export, Barrier}
  PROVE  /\ MkJob(k, seq + 1) \in Job
         /\ MkJob(k, seq + 1).seq = seq + 1
         /\ seq + 1 \in 0..MaxSeq
<1>1. seq + 1 \in 1..MaxSeq
  BY QueueAssumption
<1>2. QED
  BY <1>1 DEF MkJob, Job

LEMMA StampTyped ==
  ASSUME latest \in [Keys -> 0..MaxSeq], NEW n \in 0..MaxSeq, NEW K
  PROVE  Stamp(K, n) \in [Keys -> 0..MaxSeq]
BY DEF Stamp

LEMMA EnqueueTyped ==
  ASSUME TypeOK, NEW j \in Job, Enqueue(j)
  PROVE  /\ queue' \in Seq(Job) /\ Len(queue') <= QueueCap
         /\ phase' \in {"idle", "insert"}
         /\ cur' \in Job \union {NoJob}
         /\ phase' = "insert" => cur' \in Job
<1>1. queue \in Seq(Job) /\ Len(queue) <= QueueCap /\ QueueCap \in Nat
  BY QueueAssumption DEF TypeOK
<1>2. QED
  BY <1>1 DEF Enqueue

(* The history of keys stays a set of keys.                                *)
LEMMA ForgiveTyped ==
  ASSUME TypeOK, NEW K, Forgive(K)
  PROVE  /\ failed' \in SUBSET Keys /\ dropped' \in SUBSET Keys
         /\ stranded' \in SUBSET Keys
BY DEF TypeOK, Forgive

LEMMA SaveAsyncStep == ASSUME IInv, NEW k \in Keys, SaveAsync(k) PROVE IInv'
<1>0. TypeOK /\ seq < MaxSeq /\ seq' = seq + 1 /\ latest' = Stamp({k}, seq + 1)
  BY DEF IInv, SaveAsync, Callable
<1>1. MkJob(k, seq + 1) \in Job /\ seq' \in 0..MaxSeq /\ latest' \in [Keys -> 0..MaxSeq]
  BY <1>0, NextJob, StampTyped DEF TypeOK
<1>2. /\ queue' \in Seq(Job) /\ Len(queue') <= QueueCap
      /\ phase' \in {"idle", "insert"}
      /\ cur' \in Job \union {NoJob}
      /\ phase' = "insert" => cur' \in Job
  BY <1>0, <1>1, EnqueueTyped DEF SaveAsync
<1>3. held' \in SUBSET Keys
  BY DEF SaveAsync, Enqueue
<1>e. /\ failed' \in SUBSET Keys /\ dropped' \in SUBSET Keys
      /\ stranded' \in SUBSET Keys
  BY <1>0, ForgiveTyped DEF SaveAsync
<1>4. TypeOK'
  BY <1>0, <1>1, <1>2, <1>3, <1>e DEF TypeOK, SaveAsync, workerVars, exportVars
<1>5. TxIsLatest' /\ CurPresent'
  BY <1>2 DEF TxIsLatest, CurPresent
<1>6. WriteIsLatest' /\ BatchKind'
  BY DEF IInv, TypeOK, WriteIsLatest, BatchKind, SaveAsync, Stamp, workerVars
<1>7. Ordered'
  BY <1>0, QueueAssumption DEF IInv, TypeOK, Ordered, SaveAsync, Stamp
<1>8. QED
  BY <1>4, <1>5, <1>6, <1>7 DEF IInv

LEMMA InsertOverflowStep == ASSUME IInv, InsertOverflow PROVE IInv'
<1>1. cur \in Job
  BY DEF IInv, CurPresent, InsertOverflow
<1>2. overflow' \in SUBSET Job
  BY <1>1 DEF IInv, TypeOK, InsertOverflow, Coalesce
<1>s. stranded' \in SUBSET Keys
  BY DEF IInv, TypeOK, InsertOverflow, NewestOf
<1>3. TypeOK'
  BY <1>2, <1>s DEF IInv, TypeOK, InsertOverflow, workerVars, exportVars
<1>4. TxIsLatest' /\ CurPresent' /\ WriteIsLatest' /\ BatchKind' /\ Ordered'
  BY DEF IInv, TxIsLatest, CurPresent, WriteIsLatest, BatchKind, Ordered,
         InsertOverflow, workerVars
<1>5. QED
  BY <1>3, <1>4 DEF IInv

LEMMA SaveBeginStep ==
  ASSUME IInv, NEW K \in CriticalSets, NEW guilds \in BOOLEAN,
         SaveBegin(K, guilds)
  PROVE  IInv'
<1>0. /\ TypeOK /\ seq < MaxSeq /\ seq' = seq + 1
      /\ latest' = Stamp(K, seq + 1) /\ cur' = MkJob(Export, seq + 1)
      /\ K \in SUBSET Keys
  BY QueueAssumption DEF IInv, SaveBegin, Callable
<1>1. /\ cur' \in Job /\ cur'.seq = seq + 1 /\ seq' \in 0..MaxSeq
      /\ latest' \in [Keys -> 0..MaxSeq]
  BY <1>0, NextJob, StampTyped DEF TypeOK
<1>e. /\ failed' \in SUBSET Keys /\ dropped' \in SUBSET Keys
      /\ stranded' \in SUBSET Keys
  BY <1>0, ForgiveTyped DEF SaveBegin
<1>2. TypeOK'
  BY <1>0, <1>1, <1>e DEF TypeOK, SaveBegin, workerVars, exportVars
<1>3. TxIsLatest' /\ CurPresent'
  BY <1>0, <1>1 DEF TxIsLatest, CurPresent, SaveBegin, Stamp
<1>4. WriteIsLatest' /\ BatchKind'
  BY <1>0 DEF IInv, TypeOK, WriteIsLatest, BatchKind, SaveBegin, Stamp, workerVars
<1>5. Ordered'
  BY <1>0, QueueAssumption
     DEF IInv, TypeOK, Ordered, SaveBegin, Stamp
<1>6. QED
  BY <1>2, <1>3, <1>4, <1>5 DEF IInv

(* What the World's transaction leaves in the database.                    *)
LEMMA TxForward ==
  ASSUME IInv, phase = "tx"
  PROVE  LET stored == [k \in Keys |-> IF k \in held THEN cur.seq ELSE db[k]]
         IN  /\ stored \in [Keys -> 0..MaxSeq]
             /\ \A k \in Keys : stored[k] \in {db[k], latest[k]}
             /\ \A k \in held : stored[k] = latest[k]
<1>1. cur.seq \in 0..MaxSeq
  BY DEF IInv, TxIsLatest, Job
<1>2. QED
  BY <1>1 DEF IInv, TxIsLatest, TypeOK

LEMMA SaveCommitStep == ASSUME IInv, SaveCommit PROVE IInv'
<1>0. TypeOK /\ phase = "tx" /\ cur \in Job /\ cur.seq \in 0..MaxSeq
  BY DEF IInv, SaveCommit, TxIsLatest, Job
<1>1. /\ db' \in [Keys -> 0..MaxSeq]
      /\ \A k \in Keys : db'[k] \in {db[k], latest[k]}
      /\ \A k \in held : db'[k] = latest[k]
  BY <1>0, TxForward DEF SaveCommit
<1>2. /\ queue' \in Seq(Job) /\ Len(queue') <= QueueCap
      /\ phase' \in {"idle", "insert"}
      /\ cur' \in Job \union {NoJob}
      /\ phase' = "insert" => cur' \in Job
  <2>1. CASE exporting /\ Enqueue(cur)
    BY <1>0, <2>1, EnqueueTyped
  <2>2. CASE ~exporting
    BY <1>0, <2>2 DEF TypeOK, SaveCommit
  <2>3. QED
    BY <2>1, <2>2 DEF SaveCommit
<1>3. held' \in SUBSET Keys /\ guildGen' \in 0..MaxSeq
  BY <1>0 DEF SaveCommit, TypeOK, Enqueue
<1>4. confirmed' \in [Keys -> 0..MaxSeq] /\ failed' \in SUBSET Keys
  BY <1>0 DEF SaveCommit, TypeOK
<1>5. TypeOK'
  BY <1>0, <1>1, <1>2, <1>3, <1>4 DEF TypeOK, SaveCommit, workerVars
<1>6. TxIsLatest' /\ CurPresent'
  BY <1>2 DEF TxIsLatest, CurPresent
<1>7. WriteIsLatest' /\ BatchKind'
  BY DEF IInv, WriteIsLatest, BatchKind, SaveCommit, workerVars
<1>8. Ordered'
  <2>1. \A k \in Keys : latest[k] \in Nat /\ db[k] \in Nat /\ confirmed[k] \in Nat
    BY <1>0 DEF TypeOK
  <2>2. \A k \in Keys : confirmed'[k] = IF k \in held THEN db'[k] ELSE confirmed[k]
    BY <1>0 DEF TypeOK, SaveCommit
  <2>3. latest' = latest /\ seq' = seq
    BY DEF SaveCommit
  <2>4. QED
    BY <1>1, <2>1, <2>2, <2>3 DEF IInv, Ordered
<1>9. QED
  BY <1>5, <1>6, <1>7, <1>8 DEF IInv

LEMMA SaveFailStep == ASSUME IInv, SaveFail PROVE IInv'
<1>1. /\ db' \in [Keys -> 0..MaxSeq]
      /\ \A k \in Keys : db'[k] \in {db[k], latest[k]}
  BY TxForward DEF SaveFail, IInv, TypeOK
<1>2. TypeOK'
  BY <1>1 DEF IInv, TypeOK, SaveFail, workerVars, exportVars
<1>3. TxIsLatest' /\ CurPresent' /\ WriteIsLatest' /\ BatchKind'
  BY DEF IInv, TxIsLatest, CurPresent, WriteIsLatest, BatchKind, SaveFail,
         workerVars
<1>4. Ordered'
  <2>1. \A k \in Keys : latest[k] \in Nat /\ db[k] \in Nat /\ confirmed[k] \in Nat
    BY DEF IInv, TypeOK
  <2>2. UNCHANGED <<latest, seq, confirmed>>
    BY DEF SaveFail
  <2>3. QED
    BY <1>1, <2>1, <2>2 DEF IInv, Ordered
<1>5. QED
  BY <1>2, <1>3, <1>4 DEF IInv

LEMMA FlushBeginStep == ASSUME IInv, FlushBegin PROVE IInv'
<1>0. TypeOK /\ seq < MaxSeq /\ seq' = seq + 1 /\ cur' = MkJob(Barrier, seq + 1)
  BY DEF IInv, FlushBegin, Callable
<1>1. cur' \in Job /\ seq' \in 0..MaxSeq
  BY <1>0, NextJob DEF TypeOK
<1>2. TypeOK'
  BY <1>0, <1>1 DEF TypeOK, FlushBegin, workerVars, exportVars, historyVars, excuses
<1>3. TxIsLatest' /\ CurPresent' /\ WriteIsLatest' /\ BatchKind'
  BY <1>1 DEF IInv, TxIsLatest, CurPresent, WriteIsLatest, BatchKind,
              FlushBegin, workerVars
<1>4. Ordered'
  <2>1. UNCHANGED <<latest, db, confirmed>> /\ seq \in Nat
        /\ \A k \in Keys : latest[k] \in Nat
    BY <1>0 DEF TypeOK, FlushBegin, historyVars
  <2>2. \A k \in Keys : latest[k] <= seq + 1
    BY <2>1 DEF IInv, Ordered
  <2>3. QED
    BY <1>0, <2>1, <2>2 DEF IInv, Ordered
<1>5. QED
  BY <1>2, <1>3, <1>4 DEF IInv

LEMMA FlushSendStep == ASSUME IInv, FlushSend PROVE IInv'
<1>1. cur \in Job /\ queue \in Seq(Job) /\ Len(queue) < QueueCap
  BY DEF IInv, TypeOK, CurPresent, FlushSend
<1>2. queue' \in Seq(Job) /\ Len(queue') <= QueueCap
  BY <1>1, QueueAssumption DEF FlushSend
<1>3. TypeOK'
  BY <1>2 DEF IInv, TypeOK, FlushSend, workerVars, exportVars, historyVars, excuses
<1>4. TxIsLatest' /\ CurPresent' /\ WriteIsLatest' /\ BatchKind' /\ Ordered'
  BY DEF IInv, TxIsLatest, CurPresent, WriteIsLatest, BatchKind, Ordered,
         FlushSend, workerVars, historyVars, excuses
<1>5. QED
  BY <1>3, <1>4 DEF IInv

LEMMA WorldStep == ASSUME IInv, World PROVE IInv'
BY SaveAsyncStep, InsertOverflowStep, SaveBeginStep, SaveCommitStep,
   SaveFailStep, FlushBeginStep, FlushSendStep DEF World

-----------------------------------------------------------------------------
(* persistLoop. *)

LEMMA StartStep ==
  ASSUME NEW j \in Job, Start(j)
  PROVE  /\ batch' \in SUBSET Job
         /\ wpc' \in {"collect", "run"}
         /\ BatchKind' /\ WriteIsLatest'
BY DEF Start, BatchKind, WriteIsLatest

LEMMA PickStep ==
  ASSUME IInv, PickOverflow \/ PickPending \/ PickWait PROVE IInv'
<1>1. /\ batch' \in SUBSET Job /\ wpc' \in {"collect", "run", "recv"}
      /\ BatchKind' /\ WriteIsLatest'
  <2>1. CASE PickOverflow
    <3>1. PICK j \in Job : Start(j)
      BY <2>1 DEF PickOverflow, Older, IInv, TypeOK
    <3>2. QED
      BY <3>1, StartStep
  <2>2. CASE PickPending
    <3>1. pending \in Job /\ Start(pending)
      BY <2>2 DEF PickPending, IInv, TypeOK
    <3>2. QED
      BY <3>1, StartStep
  <2>3. CASE PickWait
    BY <2>3 DEF PickWait, IInv, TypeOK, BatchKind, WriteIsLatest
  <2>4. QED
    BY <2>1, <2>2, <2>3
<1>2. /\ overflow' \in SUBSET Job /\ pending' \in Job \union {NoJob}
      /\ UNCHANGED <<seq, latest, queue, fenced, worldVars, db, exportVars,
                     crashes, historyVars>>
  BY DEF PickOverflow, PickPending, PickWait, IInv, TypeOK
<1>3. TypeOK'
  BY <1>1, <1>2 DEF IInv, TypeOK, worldVars, exportVars, historyVars, excuses
<1>4. TxIsLatest' /\ CurPresent' /\ Ordered'
  BY <1>2 DEF IInv, TxIsLatest, CurPresent, Ordered, worldVars, historyVars, excuses
<1>5. QED
  BY <1>1, <1>3, <1>4 DEF IInv

LEMMA ReceiveStep == ASSUME IInv, Receive \/ ReceiveClosed PROVE IInv'
<1>1. /\ batch' \in SUBSET Job /\ wpc' \in {"collect", "run", "exit"}
      /\ BatchKind' /\ WriteIsLatest'
      /\ queue' \in Seq(Job) /\ Len(queue') <= QueueCap
  <2>1. CASE Receive
    <3>1. queue \in Seq(Job) /\ queue # <<>> /\ Len(queue) <= QueueCap
      BY <2>1 DEF Receive, IInv, TypeOK
    <3>2. /\ Head(queue) \in Job /\ Tail(queue) \in Seq(Job)
          /\ Len(Tail(queue)) <= QueueCap
      BY <3>1, QueueAssumption
    <3>3. QED
      BY <2>1, <3>2, StartStep DEF Receive
  <2>2. CASE ReceiveClosed
    BY <2>2 DEF ReceiveClosed, IInv, TypeOK, BatchKind, WriteIsLatest
  <2>3. QED
    BY <2>1, <2>2
<1>2. UNCHANGED <<seq, latest, overflow, pending, fenced, worldVars, db,
                 exportVars, crashes, historyVars>>
  BY DEF Receive, ReceiveClosed
<1>3. TypeOK'
  BY <1>1, <1>2 DEF IInv, TypeOK, worldVars, exportVars, historyVars, excuses
<1>4. TxIsLatest' /\ CurPresent' /\ Ordered'
  BY <1>2 DEF IInv, TxIsLatest, CurPresent, Ordered, worldVars, historyVars, excuses
<1>5. QED
  BY <1>1, <1>3, <1>4 DEF IInv

LEMMA CollectStep == ASSUME IInv, Collect \/ CollectEnd PROVE IInv'
<1>1. /\ batch' \in SUBSET Job /\ wpc' \in {"collect", "lock"}
      /\ pending' \in Job \union {NoJob} /\ BatchKind'
      /\ queue' \in Seq(Job) /\ Len(queue') <= QueueCap
  <2>1. CASE Collect
    <3>1. queue \in Seq(Job) /\ queue # <<>> /\ Len(queue) <= QueueCap
      BY <2>1 DEF Collect, IInv, TypeOK
    <3>2. /\ Head(queue) \in Job /\ Tail(queue) \in Seq(Job)
          /\ Len(Tail(queue)) <= QueueCap
      BY <3>1, QueueAssumption
    <3>3. batch \in SUBSET Job /\ \A j \in batch : j.key \in Keys
      BY <2>1 DEF Collect, IInv, TypeOK, BatchKind
    <3>4. (\E j \in batch : SameKind(j, Head(queue))) => Head(queue).key \in Keys
      BY DEF SameKind, Keys
    <3>5. CASE /\ \E j \in batch : SameKind(j, Head(queue))
               /\ batch' = CollectInto(batch, Head(queue))
               /\ UNCHANGED <<wpc, pending, dropped>>
      <4>1. batch' \subseteq batch \union {Head(queue)}
        BY <3>5 DEF CollectInto, Coalesce
      <4>2. pending' \in Job \union {NoJob} /\ wpc' = "collect"
        BY <2>1, <3>5 DEF Collect, IInv, TypeOK
      <4>3. QED
        BY <2>1, <3>2, <3>3, <3>4, <3>5, <4>1, <4>2 DEF Collect, BatchKind
    <3>6. CASE pending' = Head(queue) /\ wpc' = "lock" /\ UNCHANGED batch
      BY <2>1, <3>2, <3>3, <3>6 DEF Collect, BatchKind
    <3>7. QED
      BY <2>1, <3>5, <3>6 DEF Collect
  <2>2. CASE CollectEnd
    BY <2>2 DEF CollectEnd, IInv, TypeOK, BatchKind
  <2>3. QED
    BY <2>1, <2>2
<1>2. UNCHANGED <<seq, latest, overflow, fenced, worldVars, db, exportVars,
                 crashes, confirmed, failed, stranded, drained>>
  BY DEF Collect, CollectEnd, historyVars, excuses
<1>d. dropped' \in SUBSET Keys
  BY DEF Collect, CollectEnd, IInv, TypeOK, NewestOf, historyVars, excuses
<1>3. TypeOK'
  BY <1>1, <1>2, <1>d DEF IInv, TypeOK, worldVars, exportVars
<1>4. TxIsLatest' /\ CurPresent' /\ Ordered' /\ WriteIsLatest'
  BY <1>1, <1>2 DEF IInv, TxIsLatest, CurPresent, Ordered, WriteIsLatest,
                    worldVars
<1>5. QED
  BY <1>1, <1>3, <1>4 DEF IInv

(* The fences are taken before the newest generations are read, so what    *)
(* the filter keeps stays the newest until they are released.              *)
LEMMA LockStep == ASSUME IInv, Lock PROVE IInv'
<1>1. KeysOf(batch) \in SUBSET Keys /\ batch \in SUBSET Job
  BY DEF Lock, IInv, BatchKind, KeysOf, TypeOK
<1>2. /\ batch' \in SUBSET Job /\ wpc' \in {"pick", "write"}
      /\ fenced' \in SUBSET Keys
  BY <1>1 DEF Lock, IInv, TypeOK
<1>3. TypeOK'
  BY <1>2 DEF Lock, IInv, TypeOK, worldVars, exportVars, historyVars, excuses
<1>4. WriteIsLatest' /\ BatchKind'
  BY DEF Lock, IInv, WriteIsLatest, BatchKind, IsLatest, KeysOf
<1>5. TxIsLatest' /\ CurPresent' /\ Ordered'
  BY DEF Lock, IInv, TxIsLatest, CurPresent, Ordered, worldVars, historyVars, excuses
<1>6. QED
  BY <1>3, <1>4, <1>5 DEF IInv

LEMMA WriteStep == ASSUME IInv, Write PROVE IInv'
<1>0. TypeOK /\ Ordered /\ WriteIsLatest /\ wpc = "write"
  BY DEF IInv, Write
<1>1. /\ db' \in [Keys -> 0..MaxSeq]
      /\ \A k \in Keys : db'[k] \in {db[k], latest[k]}
  BY <1>0, StoreTyped, StoreForward DEF Write, TypeOK
<1>2. failed' \in SUBSET Keys
  <2>1. failed \in SUBSET Keys /\ KeysOf(batch) \in SUBSET Keys
    BY <1>0 DEF IInv, TypeOK, BatchKind, KeysOf
  <2>2. failed' \in {failed \ KeysOf(batch), failed \union KeysOf(batch)}
    BY DEF Write
  <2>3. QED
    BY <2>1, <2>2
<1>3. TypeOK'
  BY <1>1, <1>2 DEF Write, IInv, TypeOK, worldVars, exportVars
<1>4. TxIsLatest' /\ CurPresent' /\ WriteIsLatest' /\ BatchKind'
  BY DEF Write, IInv, TxIsLatest, CurPresent, WriteIsLatest, BatchKind,
         worldVars
<1>5. Ordered'
  <2>1. UNCHANGED <<seq, latest, confirmed>>
    BY DEF Write
  <2>2. ASSUME NEW k \in Keys
        PROVE  confirmed[k] <= db'[k] /\ db'[k] <= latest[k] /\ latest[k] <= seq
    <3>1. confirmed[k] <= db[k] /\ db[k] <= latest[k] /\ latest[k] <= seq
      BY <1>0 DEF Ordered
    <3>2. confirmed[k] \in Nat /\ db[k] \in Nat /\ latest[k] \in Nat
      BY <1>0, QueueAssumption DEF TypeOK
    <3>3. db'[k] = db[k] \/ db'[k] = latest[k]
      BY <1>1
    <3>4. QED
      BY <3>1, <3>2, <3>3
  <2>3. QED
    BY <2>1, <2>2 DEF Ordered
<1>6. QED
  BY <1>3, <1>4, <1>5 DEF IInv

LEMMA RunStep == ASSUME IInv, RunBarrier \/ RunExport PROVE IInv'
<1>1. /\ drained' \in 0..MaxSeq /\ fileGen' \in 0..MaxSeq
      /\ retry' \in SUBSET Job
      /\ cur' \in Job \union {NoJob} /\ closed' \in BOOLEAN
      /\ phase' \in {phase, "idle"} /\ (phase' # "idle" => cur' = cur)
  <2>1. batch \in SUBSET Job /\ \A j \in Job : j.seq \in 0..MaxSeq
    BY DEF IInv, TypeOK, Job
  <2>2. CASE RunBarrier
    BY <2>1, <2>2 DEF RunBarrier, IInv, TypeOK, exportVars
  <2>3. CASE RunExport
    BY <2>1, <2>3 DEF RunExport, IInv, TypeOK, worldVars, historyVars, excuses
  <2>4. QED
    BY <2>2, <2>3
<1>2. /\ wpc' = "pick" /\ batch' = {}
      /\ UNCHANGED <<seq, latest, queue, overflow, pending, fenced, held,
                     exporting, db, guildGen, spilling, crashes, confirmed,
                     excuses>>
  BY DEF RunBarrier, RunExport, worldVars, exportVars, historyVars, excuses
<1>3. TypeOK'
  BY <1>1, <1>2 DEF IInv, TypeOK, excuses
<1>4. /\ TxIsLatest' /\ CurPresent' /\ WriteIsLatest' /\ BatchKind'
      /\ Ordered'
  BY <1>1, <1>2 DEF IInv, TxIsLatest, CurPresent, WriteIsLatest, BatchKind,
                    Ordered
<1>5. QED
  BY <1>3, <1>4 DEF IInv

LEMMA WorkerStep == ASSUME IInv, Worker PROVE IInv'
BY PickStep, ReceiveStep, CollectStep, LockStep, WriteStep, RunStep DEF Worker

-----------------------------------------------------------------------------
LEMMA RetryStep == ASSUME IInv, Retry PROVE IInv'
<1>1. PICK j \in Job :
        /\ retry' = retry \ {j}
        /\ \/ UNCHANGED <<queue, spilling>>
           \/ /\ Len(queue) < QueueCap
              /\ queue' = Append(queue, j) /\ UNCHANGED spilling
           \/ spilling' = spilling \union {j} /\ UNCHANGED queue
  BY DEF Retry, IInv, TypeOK
<1>2. queue \in Seq(Job) /\ Len(queue) <= QueueCap /\ spilling \in SUBSET Job
  BY DEF IInv, TypeOK
<1>3. queue' \in Seq(Job) /\ Len(queue') <= QueueCap
  BY <1>1, <1>2, QueueAssumption
<1>4. spilling' \in SUBSET Job
  BY <1>1, <1>2
<1>5. TypeOK'
  BY <1>1, <1>3, <1>4 DEF Retry, IInv, TypeOK, workerVars, worldVars, historyVars, excuses
<1>6. /\ TxIsLatest' /\ CurPresent' /\ WriteIsLatest' /\ BatchKind'
      /\ Ordered'
  BY DEF Retry, IInv, TxIsLatest, CurPresent, WriteIsLatest, BatchKind,
         Ordered, workerVars, worldVars, historyVars, excuses
<1>7. QED
  BY <1>5, <1>6 DEF IInv

LEMMA RetryInsertStep == ASSUME IInv, RetryInsert PROVE IInv'
<1>1. overflow' \in SUBSET Job /\ spilling' \in SUBSET Job
  BY DEF RetryInsert, Coalesce, IInv, TypeOK
<1>2. TypeOK'
  BY <1>1 DEF RetryInsert, IInv, TypeOK, workerVars, worldVars, historyVars, excuses
<1>3. /\ TxIsLatest' /\ CurPresent' /\ WriteIsLatest' /\ BatchKind'
      /\ Ordered'
  BY DEF RetryInsert, IInv, TxIsLatest, CurPresent, WriteIsLatest, BatchKind,
         Ordered, workerVars, worldVars, historyVars, excuses
<1>4. QED
  BY <1>2, <1>3 DEF IInv

LEMMA CrashForward ==
  ASSUME IInv, Crash
  PROVE  /\ db' \in [Keys -> 0..MaxSeq]
         /\ \A k \in Keys : db'[k] \in {db[k], latest[k]}
<1>1. TypeOK /\ Ordered /\ WriteIsLatest
  BY DEF IInv
<1>2. CASE UNCHANGED db
  BY <1>1, <1>2 DEF TypeOK
<1>3. CASE /\ phase = "tx"
           /\ db' = [k \in Keys |-> IF k \in held THEN cur.seq ELSE db[k]]
  BY <1>3, TxForward
<1>4. CASE wpc = "write" /\ db' = Store(batch)
  BY <1>1, <1>4, StoreTyped, StoreForward
<1>5. QED
  BY <1>2, <1>3, <1>4 DEF Crash

LEMMA CrashStep == ASSUME IInv, Crash PROVE IInv'
<1>1. /\ db' \in [Keys -> 0..MaxSeq]
      /\ \A k \in Keys : db'[k] \in {db[k], latest[k]}
  BY CrashForward
<1>2. queue' \in Seq(Job) /\ Len(queue') <= QueueCap
  BY QueueAssumption DEF Crash
<1>3. crashes' \in 0..MaxCrashes
  BY QueueAssumption DEF Crash, IInv, TypeOK
<1>4. TypeOK'
  BY <1>1, <1>2, <1>3 DEF Crash, IInv, TypeOK
<1>5. TxIsLatest' /\ CurPresent' /\ WriteIsLatest' /\ BatchKind'
  BY DEF Crash, TxIsLatest, CurPresent, WriteIsLatest, BatchKind
<1>6. Ordered'
  <2>1. \A k \in Keys : db[k] \in Nat /\ latest[k] \in Nat
                         /\ confirmed[k] \in Nat /\ seq \in Nat
    BY DEF IInv, TypeOK
  <2>2. latest' = db' /\ UNCHANGED <<seq, confirmed>>
    BY DEF Crash
  <2>3. QED
    BY <1>1, <2>1, <2>2 DEF IInv, Ordered
<1>7. QED
  BY <1>4, <1>5, <1>6 DEF IInv

LEMMA StutterStep == ASSUME IInv, UNCHANGED vars PROVE IInv'
BY DEF vars, workerVars, worldVars, exportVars, historyVars, excuses, IInv, TypeOK,
       TxIsLatest, WriteIsLatest, BatchKind, CurPresent, Ordered

LEMMA NextIInv == IInv /\ [Next]_vars => IInv'
BY WorldStep, WorkerStep, RetryStep, RetryInsertStep, CrashStep, StutterStep DEF Next

(* The invariant behind the results below: whoever is about to write to    *)
(* the database (a critical save, or the worker's batch) holds the fences  *)
(* of its keys and carries their newest generation.                        *)
THEOREM SpecIInv == Spec => []IInv
<1>1. IInv /\ [Next]_vars => IInv'
  BY NextIInv
<1>2. QED
  BY <1>1, InitIInv, PTL DEF Spec

(* Every variable keeps its type.                                          *)
THEOREM TypeCorrect == Spec => []TypeOK
<1>1. IInv => TypeOK
  BY DEF IInv
<1>2. QED
  BY <1>1, SpecIInv, PTL

(* A critical save that SaveGameState, SavePlayerState or SaveAccount      *)
(* returned from without an error is in the database for ever, whatever    *)
(* the autosaves still queued and the crashes do.                          *)
THEOREM CriticalSavesAreDurable == Spec => []CriticalDurable
<1>1. IInv => CriticalDurable
  BY DEF IInv, Ordered, CriticalDurable
<1>2. QED
  BY <1>1, SpecIInv, PTL

-----------------------------------------------------------------------------
(* The refinement of SnapshotStore: what each step does to the newest      *)
(* generations, the database and the confirmations.                        *)

LEMMA IssueRefines ==
  ASSUME IInv, IInv', (\E k \in Keys : SaveAsync(k))
                      \/ (\E K \in CriticalSets, g \in BOOLEAN : SaveBegin(K, g))
  PROVE  Abstract!Issue
<1>1. PICK K : /\ seq < MaxSeq /\ latest' = Stamp(K, seq + 1)
               /\ UNCHANGED <<db, confirmed>>
  BY DEF SaveAsync, SaveBegin, Callable, historyVars, excuses
<1>2. latest' \in [Keys -> 0..MaxSeq]
  BY DEF IInv, TypeOK
<1>3. \A k \in Keys : latest[k] <= latest'[k]
  <2>1. ASSUME NEW k \in Keys PROVE latest'[k] \in {latest[k], seq + 1}
    BY <1>1 DEF Stamp
  <2>2. \A k \in Keys : latest[k] \in Nat /\ seq \in Nat /\ latest[k] <= seq
    BY DEF IInv, TypeOK, Ordered
  <2>3. QED
    BY <2>1, <2>2
<1>4. QED
  BY <1>1, <1>2, <1>3 DEF Abstract!Issue, Abstract!Versions

(* A database that only takes newest generations moves forward.            *)
LEMMA ForwardRefines ==
  ASSUME IInv, db' \in [Keys -> 0..MaxSeq],
         \A k \in Keys : db'[k] \in {db[k], latest[k]}
  PROVE  Abstract!Forward
<1>1. \A k \in Keys : latest[k] \in Nat /\ db[k] \in Nat /\ db[k] <= latest[k]
  BY DEF IInv, TypeOK, Ordered
<1>2. \A k \in Keys : db[k] <= db'[k] /\ db'[k] <= latest[k]
  BY <1>1
<1>3. QED
  BY <1>2 DEF Abstract!Forward, Abstract!Versions

LEMMA PersistRefines ==
  ASSUME IInv, SaveFail \/ Write
  PROVE  Abstract!Persist
<1>1. /\ db' \in [Keys -> 0..MaxSeq]
      /\ \A k \in Keys : db'[k] \in {db[k], latest[k]}
  <2>1. CASE SaveFail
    BY <2>1, TxForward DEF SaveFail, IInv, TypeOK
  <2>2. CASE Write
    BY <2>2, StoreTyped, StoreForward DEF Write, IInv, TypeOK
  <2>3. QED
    BY <2>1, <2>2
<1>2. UNCHANGED <<latest, confirmed>>
  BY DEF SaveFail, Write
<1>3. QED
  BY <1>1, <1>2, ForwardRefines DEF Abstract!Persist

LEMMA ConfirmRefines == ASSUME IInv, SaveCommit PROVE Abstract!Confirm
<1>1. /\ db' \in [Keys -> 0..MaxSeq]
      /\ \A k \in Keys : db'[k] \in {db[k], latest[k]}
  BY TxForward DEF SaveCommit
<1>2. Abstract!Forward
  BY <1>1, ForwardRefines
<1>3. confirmed' = [k \in Keys |-> IF k \in held THEN db'[k] ELSE confirmed[k]]
  BY DEF SaveCommit
<1>4. held \in SUBSET Keys /\ UNCHANGED latest
  BY DEF IInv, TypeOK, SaveCommit
<1>5. QED
  BY <1>2, <1>3, <1>4 DEF Abstract!Confirm

LEMMA RestartRefines == ASSUME IInv, Crash PROVE Abstract!Restart
BY CrashForward, ForwardRefines DEF Crash, Abstract!Restart

LEMMA NextRefines ==
  ASSUME IInv, [Next]_vars PROVE [Abstract!Next]_(Abstract!vars)
<1>0. IInv'
  BY NextIInv
<1>1. CASE \/ InsertOverflow \/ FlushBegin \/ FlushSend \/ PickOverflow
           \/ PickPending \/ PickWait \/ Receive \/ ReceiveClosed \/ Collect
           \/ CollectEnd \/ Lock \/ RunBarrier \/ RunExport \/ Retry
           \/ RetryInsert \/ UNCHANGED vars
  <2>1. UNCHANGED <<latest, db, confirmed>>
    BY <1>1 DEF InsertOverflow, FlushBegin, FlushSend, PickOverflow,
                PickPending, PickWait, Receive, ReceiveClosed, Collect,
                CollectEnd, Lock, RunBarrier, RunExport, Retry, RetryInsert,
                vars, historyVars, excuses
  <2>2. QED
    BY <2>1 DEF Abstract!vars
<1>2. CASE (\E k \in Keys : SaveAsync(k))
           \/ (\E K \in CriticalSets, g \in BOOLEAN : SaveBegin(K, g))
  BY <1>0, <1>2, IssueRefines DEF Abstract!Next
<1>3. CASE SaveFail \/ Write
  BY <1>3, PersistRefines DEF Abstract!Next
<1>4. CASE SaveCommit
  BY <1>4, ConfirmRefines DEF Abstract!Next
<1>5. CASE Crash
  BY <1>5, RestartRefines DEF Abstract!Next
<1>6. QED
  BY <1>1, <1>2, <1>3, <1>4, <1>5 DEF Next, World, Worker

(* The asynchronous, batched, fenced store of PostgresStore implements the *)
(* abstract snapshot store, for every capacity and batch size and any      *)
(* number of crashes.                                                      *)
THEOREM QueueImplementsSnapshotStore == Spec => ImplementsSnapshotStore
<1>1. Init => Abstract!Init
  BY DEF Init, Abstract!Init
<1>2. IInv /\ [Next]_vars => [Abstract!Next]_(Abstract!vars)
  BY NextRefines
<1>3. QED
  BY <1>1, <1>2, SpecIInv, PTL
     DEF Spec, Abstract!Spec, ImplementsSnapshotStore

(* No interleaving of autosaves, batches, critical saves and crashes ever  *)
(* replaces a stored snapshot by an older one.                             *)
THEOREM OldAutosavesNeverOverwrite == Spec => NoStaleOverwrite
<1>1. ASSUME IInv, [Next]_vars PROVE \A k \in Keys : db'[k] >= db[k]
  <2>1. \A k \in Keys : db[k] \in Nat
    BY <1>1 DEF IInv, TypeOK
  <2>2. CASE Abstract!Forward
    BY <2>1, <2>2 DEF Abstract!Forward, Abstract!Versions
  <2>3. CASE db' = db
    BY <2>1, <2>3
  <2>4. [Abstract!Next]_(Abstract!vars)
    BY <1>1, NextRefines
  <2>5. QED
    BY <2>2, <2>3, <2>4 DEF Abstract!Next, Abstract!Issue, Abstract!Persist,
                            Abstract!Confirm, Abstract!Restart, Abstract!vars
<1>2. IInv /\ [Next]_vars => [\A k \in Keys : db'[k] >= db[k]]_vars
  BY <1>1
<1>3. QED
  BY <1>2, SpecIInv, PTL DEF Spec, NoStaleOverwrite

-----------------------------------------------------------------------------
(* Guilds.txt. *)

(* The registry a critical save is about to export is newer than every     *)
(* registry exported or asked for before.                                  *)
ExportInv ==
  /\ fileGen <= guildGen /\ guildGen <= seq
  /\ phase = "tx" => cur.seq = seq

LEMMA NextExportInv ==
  ASSUME TypeOK, ExportInv, [Next]_vars PROVE ExportInv' /\ fileGen' >= fileGen
<1>1. seq \in Nat /\ guildGen \in Nat /\ fileGen \in Nat
  BY DEF TypeOK
<1>2. CASE SaveCommit
  BY <1>1, <1>2 DEF SaveCommit, ExportInv, Enqueue
<1>3. CASE RunExport
  BY <1>1, <1>3 DEF RunExport, ExportInv, worldVars
<1>4. CASE \E K \in CriticalSets, g \in BOOLEAN : SaveBegin(K, g)
  BY <1>1, <1>4 DEF SaveBegin, ExportInv, MkJob, exportVars
<1>5. CASE (\E k \in Keys : SaveAsync(k)) \/ FlushBegin
  <2>1. phase' # "tx" /\ seq' = seq + 1 /\ UNCHANGED <<guildGen, fileGen>>
    BY <1>5 DEF SaveAsync, FlushBegin, Enqueue, exportVars
  <2>2. QED
    BY <1>1, <2>1 DEF ExportInv
<1>6. CASE InsertOverflow \/ SaveFail \/ FlushSend \/ RunBarrier \/ Crash
  BY <1>1, <1>6 DEF InsertOverflow, SaveFail, FlushSend, RunBarrier, Crash,
                    ExportInv, exportVars
<1>7. CASE \/ PickOverflow \/ PickPending \/ PickWait \/ Receive
           \/ ReceiveClosed \/ Collect \/ CollectEnd \/ Lock \/ Write
           \/ Retry \/ RetryInsert \/ UNCHANGED vars
  <2>1. UNCHANGED <<seq, guildGen, fileGen, phase, cur>>
    BY <1>7 DEF PickOverflow, PickPending, PickWait, Receive, ReceiveClosed,
                Collect, CollectEnd, Lock, Write, Retry, RetryInsert, vars,
                worldVars, exportVars
  <2>2. QED
    BY <1>1, <2>1 DEF ExportInv
<1>8. QED
  BY <1>2, <1>3, <1>4, <1>5, <1>6, <1>7 DEF Next, World, Worker

(* Retries and late jobs never take Guilds.txt back to an older registry.  *)
THEOREM GuildFileNeverRegresses == Spec => ExportNeverRegresses
<1>1. Init => ExportInv
  BY DEF Init, ExportInv
<1>2. TypeOK /\ ExportInv /\ [Next]_vars
        => ExportInv' /\ [fileGen' >= fileGen]_vars
  BY NextExportInv
<1>3. QED
  BY <1>1, <1>2, TypeCorrect, PTL DEF Spec, ExportNeverRegresses

-----------------------------------------------------------------------------
(* The barrier.  What is between enqueue and the database, wherever the    *)
(* worker has it: in the channel, in the overflow, in the batch, put aside *)
(* or on its way into the overflow.                                        *)
JobsIn(q) == {q[i] : i \in 1..Len(q)}

Where ==
  JobsIn(queue) \union overflow \union batch \union ({pending} \ {NoJob})
    \union {j \in {cur} : phase = "insert"}

Newest(k) == MkJob(k, latest[k])

Settled(k) == db[k] = latest[k] \/ k \in Excused

Carried(k) == Newest(k) \in Where \/ (phase = "tx" /\ k \in held)

(* No snapshot that is the newest of its key is forgotten, and none that   *)
(* is still carried is older than the last barrier.                        *)
NoneForgotten == \A k \in Keys : Settled(k) \/ (Carried(k) /\ drained < latest[k])

NotAhead ==
  /\ drained <= seq
  /\ \A j \in retry \union spilling : j.seq <= seq /\ j.key = Export
  /\ \A j \in Where : /\ j.seq <= seq
                      /\ j.key \in Keys => j.seq <= latest[j.key]
  /\ phase \in {"flushSend", "closeSend", "flushWait", "closeWait"} =>
       \A j \in Where : j.key # Barrier => j.seq < seq

Draining == phase \in {"flushWait", "closeWait"}

WorldPlaces ==
  /\ phase = "insert" => /\ cur.key # Barrier
                         /\ cur.key \in Keys => latest[cur.key] = cur.seq
  /\ phase = "tx" => cur.key = Export /\ cur.seq <= seq
  /\ phase \in {"flushSend", "closeSend", "flushWait", "closeWait"} =>
       cur \in Job /\ cur = MkJob(Barrier, seq) /\ spilling = {}

(* Every newest snapshot in the overflow went by a worker that slept.      *)
Passed == \A k \in Keys : Newest(k) \in overflow => k \in stranded

(* While the worker waits for the channel, the overflow is filled beside   *)
(* jobs that are no barriers, or by a World that finds the worker asleep.  *)
WorkerPlaces ==
  /\ wpc \in {"pick", "recv", "exit"} => batch = {}
  /\ wpc = "run" => \E j \in Job : batch = {j} /\ j.key \notin Keys
  /\ wpc \in {"recv", "exit"} => pending = NoJob
  /\ wpc = "recv" => Passed \/ (queue # <<>> /\ queue[1].key # Barrier)
  /\ \A j \in overflow : j.key # Barrier

NoBarrierHeld ==
  /\ pending # NoJob => pending.key # Barrier
  /\ \A j \in batch : j.key # Barrier

AtRest ==
  /\ ~Draining /\ NoBarrierHeld
  /\ \A i \in 1..Len(queue) : queue[i].key # Barrier

BarrierQueued ==
  /\ Draining /\ NoBarrierHeld
  /\ queue # <<>> /\ queue[Len(queue)] = cur
  /\ \A i \in 1..Len(queue) : i # Len(queue) => queue[i].key # Barrier

BarrierAside ==
  /\ Draining /\ queue = <<>> /\ pending = cur
  /\ \A j \in batch : j.key # Barrier

BarrierRuns ==
  /\ Draining /\ queue = <<>> /\ wpc = "run" /\ batch = {cur}
  /\ Passed /\ pending = NoJob

BarrierPlace == AtRest \/ BarrierQueued \/ BarrierAside \/ BarrierRuns

DrainInv ==
  /\ NoneForgotten /\ NotAhead /\ WorldPlaces /\ WorkerPlaces /\ BarrierPlace

-----------------------------------------------------------------------------
LEMMA AppendJobs ==
  ASSUME NEW q \in Seq(Job), NEW j \in Job
  PROVE  /\ JobsIn(Append(q, j)) = JobsIn(q) \union {j}
         /\ Append(q, j) # <<>> /\ Append(q, j)[Len(Append(q, j))] = j
         /\ \A i \in 1..Len(Append(q, j)) : i # Len(Append(q, j)) =>
              i \in 1..Len(q) /\ Append(q, j)[i] = q[i]
         /\ \A i \in 1..Len(Append(q, j)) : Append(q, j)[i] \in JobsIn(q) \union {j}
<1>1. /\ Append(q, j) \in Seq(Job) /\ Len(Append(q, j)) = Len(q) + 1 /\ Len(q) \in Nat
      /\ Append(q, j)[Len(q) + 1] = j
      /\ \A i \in 1..Len(q) : Append(q, j)[i] = q[i]
  OBVIOUS
<1>2. \A i \in 1..(Len(q) + 1) : i \in 1..Len(q) \/ i = Len(q) + 1
  BY <1>1
<1>3. 1..Len(q) \subseteq 1..(Len(q) + 1) /\ Len(q) + 1 \in 1..(Len(q) + 1)
  BY <1>1
<1>4. JobsIn(Append(q, j)) = JobsIn(q) \union {j}
  BY <1>1, <1>2, <1>3 DEF JobsIn
<1>5. Append(q, j) # <<>>
  BY <1>1
<1>6. QED
  BY <1>1, <1>2, <1>4, <1>5 DEF JobsIn

LEMMA TailJobs ==
  ASSUME NEW q \in Seq(Job), q # <<>>
  PROVE  /\ JobsIn(q) = JobsIn(Tail(q)) \union {Head(q)}
         /\ Head(q) \in Job /\ Head(q) = q[1] /\ 1 \in 1..Len(q)
         /\ Len(q) \in Nat /\ Len(Tail(q)) = Len(q) - 1
         /\ \A i \in 1..Len(Tail(q)) : i + 1 \in 1..Len(q) /\ Tail(q)[i] = q[i + 1]
         /\ Len(q) = 1 => Tail(q) = <<>>
         /\ Len(q) # 1 => Tail(q) # <<>>
<1>1. /\ Head(q) \in Job /\ Head(q) = q[1] /\ 1 \in 1..Len(q)
      /\ Len(q) \in Nat /\ Len(Tail(q)) = Len(q) - 1
      /\ Tail(q) \in Seq(Job)
  <2>1. Len(q) \in Nat /\ Len(q) # 0
    OBVIOUS
  <2>2. 1 \in 1..Len(q)
    BY <2>1
  <2>3. q[1] \in Job /\ Head(q) = q[1]
    BY <2>2
  <2>4. QED
    BY <2>1, <2>2, <2>3
<1>2. \A i \in 1..Len(Tail(q)) : i + 1 \in 1..Len(q) /\ Tail(q)[i] = q[i + 1]
  BY <1>1
<1>3. /\ Len(q) = 1 => Tail(q) = <<>>
      /\ Len(q) # 1 => Tail(q) # <<>>
  BY <1>1
<1>4. JobsIn(q) \subseteq JobsIn(Tail(q)) \union {Head(q)}
  <2>1. ASSUME NEW i \in 1..Len(q) PROVE q[i] \in JobsIn(Tail(q)) \union {Head(q)}
    <3>1. CASE i = 1
      BY <1>1, <3>1
    <3>2. CASE i # 1
      <4>1. i - 1 \in 1..Len(Tail(q)) /\ (i - 1) + 1 = i
        BY <1>1, <3>2
      <4>2. Tail(q)[i - 1] = q[i]
        BY <4>1, <1>2
      <4>3. QED
        BY <4>1, <4>2 DEF JobsIn
    <3>3. QED
      BY <3>1, <3>2
  <2>2. QED
    BY <2>1 DEF JobsIn
<1>5. JobsIn(Tail(q)) \union {Head(q)} \subseteq JobsIn(q)
  BY <1>1, <1>2 DEF JobsIn
<1>6. QED
  BY <1>1, <1>2, <1>3, <1>4, <1>5

LEMMA NoJobs == JobsIn(<<>>) = {}
BY DEF JobsIn

(* A step that moves jobs around, and drops only superseded ones.          *)
LEMMA Moved ==
  ASSUME NoneForgotten, NotAhead, Where' \subseteq Where,
         \A k \in Keys :
           Newest(k) \in Where => Newest(k) \in Where' \/ k \in Excused',
         Excused \subseteq Excused',
         retry' \subseteq retry, spilling' \subseteq spilling,
         UNCHANGED <<seq, latest, db, drained, phase, held>>
  PROVE  NoneForgotten' /\ NotAhead'
<1>1. \A k \in Keys : Newest(k)' = Newest(k)
  BY DEF Newest, MkJob
<1>2. \A k \in Keys : /\ Settled(k) => Settled(k)'
                      /\ Carried(k) => Carried(k)' \/ Settled(k)'
  BY <1>1 DEF Settled, Carried
<1>3. NoneForgotten'
  BY <1>2 DEF NoneForgotten
<1>4. QED
  BY <1>3 DEF NotAhead

(* No step but one of the World gives a key a newer snapshot, and a        *)
(* derived job is no snapshot.                                             *)
LEMMA PassedStays ==
  ASSUME Passed, UNCHANGED latest, stranded \subseteq stranded',
         \A j \in overflow' : j \in overflow \/ j.key \notin Keys
  PROVE  Passed'
<1>1. ASSUME NEW k \in Keys, Newest(k)' \in overflow' PROVE k \in stranded'
  <2>1. Newest(k)' = Newest(k) /\ Newest(k).key = k
    BY DEF Newest, MkJob
  <2>2. Newest(k) \in overflow
    BY <1>1, <2>1
  <2>3. QED
    BY <2>2 DEF Passed
<1>2. QED
  BY <1>1 DEF Passed

(* The types the steps below need.                                         *)
LEMMA DrainTypes ==
  ASSUME IInv
  PROVE  /\ queue \in Seq(Job) /\ Len(queue) \in Nat /\ Len(queue) <= QueueCap
         /\ QueueCap \in Nat \ {0} /\ seq \in Nat /\ drained \in Nat
         /\ latest \in [Keys -> Nat] /\ db \in [Keys -> Nat]
         /\ \A k \in Keys : latest[k] <= seq
         /\ overflow \subseteq Job /\ batch \subseteq Job
         /\ retry \subseteq Job /\ spilling \subseteq Job
         /\ pending \in Job \union {NoJob} /\ NoJob \notin Job
         /\ \A j \in Job : j.seq \in Nat /\ j.key \in Keys \union {Export, Barrier}
         /\ \A k \in Keys : k # Export /\ k # Barrier
         /\ Export # Barrier
<1>1. \A n \in 0..MaxSeq : n \in Nat
  BY QueueAssumption
<1>2. TypeOK /\ Ordered
  BY DEF IInv
<1>3. seq \in Nat /\ drained \in Nat /\ latest \in [Keys -> Nat] /\ db \in [Keys -> Nat]
  BY <1>1, <1>2 DEF TypeOK
<1>4. \A j \in Job : j.seq \in Nat /\ j.key \in Keys \union {Export, Barrier}
  BY QueueAssumption DEF Job
<1>5. QED
  BY <1>2, <1>3, <1>4, QueueAssumption, NoJobAssumption DEF TypeOK, Ordered

LEMMA SeqTypes ==
  ASSUME IInv
  PROVE  /\ seq \in Nat /\ drained \in Nat
         /\ \A k \in Keys : latest[k] \in Nat /\ latest[k] <= seq
         /\ \A j \in Job : j.seq \in Nat
         /\ \A j \in retry \union spilling : j.seq \in Nat
<1>1. \A j \in Job : j.seq \in Nat
  BY QueueAssumption DEF Job
<1>2. QED
  BY <1>1, DrainTypes

LEMMA InitDrainInv == Init => DrainInv
<1> SUFFICES ASSUME Init PROVE DrainInv
  OBVIOUS
<1>1. Where = {}
  BY NoJobs DEF Init, Where
<1>2. NoneForgotten /\ NotAhead
  BY <1>1 DEF Init, NoneForgotten, NotAhead, Settled
<1>3. WorldPlaces /\ WorkerPlaces
  BY DEF Init, WorldPlaces, WorkerPlaces
<1>4. AtRest
  BY DEF Init, AtRest, Draining, NoBarrierHeld
<1>5. QED
  BY <1>2, <1>3, <1>4 DEF DrainInv, BarrierPlace

-----------------------------------------------------------------------------
(* The World's steps.  A new generation is newer than the last barrier.    *)

(* What enqueue does with a job made by the World.                         *)
LEMMA EnqueuePlaces ==
  ASSUME IInv, DrainInv, NEW j \in Job, Enqueue(j), phase \in {"idle", "tx"},
         j.key # Barrier, UNCHANGED <<overflow, workerVars>>
  PROVE  /\ Where' = Where \union {j}
         /\ phase' \in {"idle", "insert"}
         /\ phase' = "insert" => cur' = j
         /\ queue' = queue \/ (queue' # <<>> /\ queue'[1].key # Barrier)
         /\ AtRest'
<1>1. queue \in Seq(Job) /\ phase # "insert" /\ AtRest /\ ~Draining
  BY DrainTypes DEF DrainInv, BarrierPlace, BarrierQueued, BarrierAside, BarrierRuns, Draining
<1>2. CASE /\ Len(queue) < QueueCap
           /\ queue' = Append(queue, j) /\ phase' = "idle"
  <2>1. /\ JobsIn(queue') = JobsIn(queue) \union {j} /\ queue' # <<>>
        /\ \A i \in 1..Len(queue') : queue'[i] \in JobsIn(queue) \union {j}
    BY <1>1, <1>2, AppendJobs
  <2>2. \A x \in JobsIn(queue) : x.key # Barrier
    BY <1>1 DEF AtRest, JobsIn
  <2>3. \A i \in 1..Len(queue') : queue'[i].key # Barrier
    BY <2>1, <2>2
  <2>4. AtRest'
    BY <1>1, <1>2, <2>3 DEF AtRest, Draining, NoBarrierHeld, workerVars
  <2>5. Where' = Where \union {j}
    BY <1>1, <1>2, <2>1 DEF Where, workerVars
  <2>6. 1 \in 1..Len(queue')
    BY <1>1, <1>2
  <2>7. QED
    BY <1>2, <2>1, <2>3, <2>4, <2>5, <2>6
<1>3. CASE phase' = "insert" /\ cur' = j /\ UNCHANGED queue
  <2>1. AtRest'
    BY <1>1, <1>3 DEF AtRest, Draining, NoBarrierHeld, workerVars
  <2>2. Where' = Where \union {j}
    BY <1>1, <1>3 DEF Where, workerVars
  <2>3. QED
    BY <1>3, <2>1, <2>2
<1>4. QED
  BY <1>2, <1>3 DEF Enqueue

LEMMA SaveAsyncDrain ==
  ASSUME IInv, DrainInv, NEW k \in Keys, SaveAsync(k)
  PROVE  DrainInv'
<1> DEFINE j == MkJob(k, seq + 1)
<1>0. /\ phase = "idle" /\ seq' = seq + 1 /\ latest' = Stamp({k}, seq + 1)
      /\ Enqueue(j) /\ seq < MaxSeq
      /\ Excused' = Excused \ {k} /\ stranded' = stranded \ {k}
      /\ UNCHANGED <<overflow, workerVars, db, retry, spilling, drained>>
  BY DEF SaveAsync, Callable, exportVars, Forgive, Excused
<1>1. j \in Job /\ j.seq = seq + 1 /\ j.key = k
  BY <1>0, NextJob DEF MkJob, IInv, TypeOK
<1>2. k # Barrier /\ k # Export /\ seq \in Nat
  BY DrainTypes
<1>3. /\ Where' = Where \union {j}
      /\ phase' \in {"idle", "insert"}
      /\ phase' = "insert" => cur' = j
      /\ queue' = queue \/ (queue' # <<>> /\ queue'[1].key # Barrier)
      /\ AtRest'
  <2> HIDE DEF j
  <2>1. QED
    BY <1>0, <1>1, <1>2, EnqueuePlaces
<1>4. \A x \in Keys : latest'[x] = IF x = k THEN seq + 1 ELSE latest[x]
  BY <1>0 DEF Stamp
<1>5. NotAhead'
  <2>1. \A x \in Where : x.seq <= seq + 1 /\ (x.key \in Keys => x.seq <= latest'[x.key])
    <3>1. Where \subseteq Job
      <4>1. JobsIn(queue) \subseteq Job
        BY DrainTypes DEF JobsIn
      <4>2. QED
        BY <4>1, <1>0, DrainTypes DEF Where
    <3>2. QED
      BY <3>1, <1>4, SeqTypes DEF DrainInv, NotAhead
  <2>2. \A x \in retry \union spilling : x.seq <= seq + 1
    BY DrainTypes DEF DrainInv, NotAhead
  <2>3. drained <= seq + 1
    BY DrainTypes DEF DrainInv, NotAhead
  <2>4. j.seq <= seq + 1 /\ (j.key \in Keys => j.seq <= latest'[j.key])
    BY <1>1, <1>2, <1>4
  <2>5. QED
    BY <1>0, <1>3, <2>1, <2>2, <2>3, <2>4 DEF DrainInv, NotAhead
<1>6. NoneForgotten'
  <2>1. ASSUME NEW x \in Keys
        PROVE  Settled(x)' \/ (Carried(x)' /\ drained' < latest'[x])
    <3>1. CASE x = k
      <4>1. Newest(x)' = j
        BY <3>1, <1>4 DEF Newest, MkJob
      <4>2. drained' < latest'[x]
        <5>1. drained' = drained /\ drained <= seq /\ latest'[x] = seq + 1
          BY <3>1, <1>0, <1>4 DEF DrainInv, NotAhead
        <5>2. QED
          BY <5>1, SeqTypes
      <4>3. QED
        BY <1>3, <4>1, <4>2 DEF Carried
    <3>2. CASE x # k
      <4>1. latest'[x] = latest[x] /\ Newest(x)' = Newest(x)
        BY <3>2, <1>4 DEF Newest, MkJob
      <4>2. x \in Excused => x \in Excused'
        BY <3>2, <1>0
      <4>3. QED
        BY <1>0, <1>3, <4>1, <4>2 DEF DrainInv, NoneForgotten, Settled, Carried
    <3>3. QED
      BY <3>1, <3>2
  <2>2. QED
    BY <2>1 DEF NoneForgotten
<1>7. WorldPlaces'
  BY <1>1, <1>2, <1>3, <1>4 DEF WorldPlaces
<1>8. WorkerPlaces'
  <2>1. \A x \in overflow : x.key = k => x.seq # seq + 1
    <3>1. \A x \in overflow : x \in Job /\ x \in Where
      BY DrainTypes DEF Where
    <3>2. QED
      BY <3>1, SeqTypes DEF DrainInv, NotAhead
  <2>2. ASSUME Passed PROVE Passed'
    <3>1. ASSUME NEW x \in Keys, Newest(x)' \in overflow PROVE x \in stranded'
      <4>1. Newest(x)' = MkJob(x, latest'[x])
        BY DEF Newest, MkJob
      <4>2. x # k
        BY <3>1, <4>1, <2>1, <1>4 DEF MkJob
      <4>3. Newest(x)' = Newest(x)
        BY <4>2, <1>4 DEF Newest, MkJob
      <4>4. QED
        BY <2>2, <3>1, <4>2, <4>3, <1>0 DEF Passed
    <3>2. QED
      BY <3>1, <1>0 DEF Passed
  <2>3. QED
    BY <2>2, <1>0, <1>3 DEF DrainInv, WorkerPlaces, workerVars
<1>9. QED
  BY <1>3, <1>5, <1>6, <1>7, <1>8 DEF DrainInv, BarrierPlace

LEMMA WhereJobs ==
  ASSUME IInv, phase = "insert" => cur \in Job
  PROVE  Where \subseteq Job
<1>1. JobsIn(queue) \subseteq Job
  BY DrainTypes DEF JobsIn
<1>2. QED
  BY <1>1, DrainTypes DEF Where

LEMMA InsertOverflowDrain ==
  ASSUME IInv, DrainInv, InsertOverflow
  PROVE  DrainInv'
<1>0. /\ phase = "insert" /\ phase' = "idle" /\ cur \in Job
      /\ cur.key # Barrier /\ (cur.key \in Keys => latest[cur.key] = cur.seq)
      /\ overflow' = Coalesce(overflow, cur)
      /\ stranded' = stranded \union {k \in NewestOf(cur) : Asleep}
      /\ UNCHANGED <<seq, latest, queue, workerVars, db, retry, spilling, failed, dropped, drained>>
  BY DEF InsertOverflow, DrainInv, WorldPlaces, IInv, CurPresent, exportVars
<1>1. Where' \subseteq Where
  BY <1>0 DEF Where, Coalesce, workerVars
<1>2. ASSUME NEW k \in Keys, Newest(k) \in Where PROVE Newest(k) \in Where'
  <2>1. Newest(k).key = k /\ Newest(k).seq = latest[k]
    BY DEF Newest, MkJob
  <2>2. cur.key = k => cur = Newest(k)
    BY <1>0 DEF Newest, MkJob, Job
  <2>3. Newest(k) \in overflow \union {cur} => Newest(k) \in overflow'
    BY <1>0, <2>1, <2>2 DEF Coalesce
  <2>4. QED
    BY <1>0, <1>2, <2>3 DEF Where, workerVars
<1>3. NoneForgotten' /\ NotAhead'
  <2>1. \A k \in Keys : Newest(k)' = Newest(k)
    BY <1>0 DEF Newest, MkJob
  <2>2. \A k \in Keys : (Settled(k) => Settled(k)') /\ (Carried(k) => Carried(k)')
    BY <1>0, <1>2, <2>1 DEF Settled, Carried, Excused
  <2>3. NoneForgotten'
    BY <1>0, <2>2 DEF DrainInv, NoneForgotten
  <2>4. QED
    BY <1>0, <1>1, <2>3 DEF DrainInv, NotAhead
<1>4. WorldPlaces'
  BY <1>0 DEF WorldPlaces
<1>5. WorkerPlaces'
  <2>1. ASSUME wpc = "recv" PROVE Passed' \/ (queue # <<>> /\ queue[1].key # Barrier)
    <3>1. CASE queue = <<>>
      <4>1. Passed /\ Asleep
        BY <2>1, <3>1 DEF DrainInv, WorkerPlaces, Asleep
      <4>2. ASSUME NEW k \in Keys, Newest(k)' \in overflow' PROVE k \in stranded'
        <5>1. Newest(k)' = Newest(k) /\ Newest(k) = MkJob(k, latest[k])
          BY <1>0 DEF Newest, MkJob
        <5>2. Newest(k) \in overflow \/ Newest(k) = cur
          BY <5>1, <4>2, <1>0 DEF Coalesce
        <5>3. CASE Newest(k) \in overflow
          BY <5>3, <4>1, <1>0 DEF Passed
        <5>4. CASE Newest(k) = cur
          BY <5>4, <5>1, <4>1, <1>0 DEF NewestOf
        <5>5. QED
          BY <5>2, <5>3, <5>4
      <4>3. QED
        BY <4>2 DEF Passed
    <3>2. CASE queue # <<>>
      <4>1. AtRest
        BY <1>0 DEF DrainInv, BarrierPlace, BarrierQueued, BarrierAside, BarrierRuns, Draining
      <4>2. 1 \in 1..Len(queue)
        BY <3>2, DrainTypes
      <4>3. QED
        BY <3>2, <4>1, <4>2 DEF AtRest
    <3>3. QED
      BY <3>1, <3>2
  <2>2. \A x \in overflow' : x.key # Barrier
    BY <1>0 DEF DrainInv, WorkerPlaces, Coalesce
  <2>3. QED
    BY <2>1, <2>2, <1>0 DEF DrainInv, WorkerPlaces, workerVars
<1>6. BarrierPlace'
  BY <1>0 DEF DrainInv, BarrierPlace, AtRest, BarrierQueued, BarrierAside,
              BarrierRuns, NoBarrierHeld, Draining, workerVars
<1>7. QED
  BY <1>3, <1>4, <1>5, <1>6 DEF DrainInv

LEMMA SaveBeginDrain ==
  ASSUME IInv, DrainInv, NEW K \in CriticalSets, NEW guilds \in BOOLEAN,
         SaveBegin(K, guilds)
  PROVE  DrainInv'
<1>0. /\ phase = "idle" /\ phase' = "tx" /\ seq' = seq + 1 /\ held' = K
      /\ latest' = Stamp(K, seq + 1) /\ cur' = MkJob(Export, seq + 1)
      /\ Excused' = Excused \ K /\ stranded' = stranded \ K
      /\ UNCHANGED <<queue, overflow, workerVars, db, retry, spilling, drained>>
  BY DEF SaveBegin, Callable, exportVars, Forgive, Excused
<1>1. Where' = Where
  BY <1>0 DEF Where, workerVars
<1>2. \A x \in Keys : latest'[x] = IF x \in K THEN seq + 1 ELSE latest[x]
  BY <1>0 DEF Stamp
<1>3. NotAhead'
  <2>1. Where \subseteq Job
    BY <1>0, WhereJobs
  <2>2. \A x \in Where : x.seq <= seq + 1 /\ (x.key \in Keys => x.seq <= latest'[x.key])
    BY <2>1, <1>2, SeqTypes DEF DrainInv, NotAhead
  <2>3. (\A x \in retry \union spilling : x.seq <= seq + 1) /\ drained <= seq + 1
    BY SeqTypes DEF DrainInv, NotAhead
  <2>4. QED
    BY <1>0, <1>1, <2>2, <2>3 DEF DrainInv, NotAhead
<1>4. NoneForgotten'
  <2>1. ASSUME NEW x \in Keys
        PROVE  Settled(x)' \/ (Carried(x)' /\ drained' < latest'[x])
    <3>1. CASE x \in K
      <4>1. drained' = drained /\ drained <= seq /\ latest'[x] = seq + 1
        BY <3>1, <1>0, <1>2 DEF DrainInv, NotAhead
      <4>2. drained' < latest'[x]
        BY <4>1, SeqTypes
      <4>3. QED
        BY <3>1, <4>2, <1>0 DEF Carried
    <3>2. CASE x \notin K
      <4>1. latest'[x] = latest[x] /\ Newest(x)' = Newest(x)
        BY <3>2, <1>2 DEF Newest, MkJob
      <4>2. x \in Excused => x \in Excused'
        BY <3>2, <1>0
      <4>3. QED
        BY <1>0, <1>1, <4>1, <4>2 DEF DrainInv, NoneForgotten, Settled, Carried
    <3>3. QED
      BY <3>1, <3>2
  <2>2. QED
    BY <2>1 DEF NoneForgotten
<1>5. WorldPlaces'
  BY <1>0, DrainTypes DEF WorldPlaces, MkJob
<1>6. WorkerPlaces'
  <2>1. \A x \in overflow : x \in Job /\ x.seq # seq + 1
    <3>1. \A x \in overflow : x \in Job /\ x \in Where
      BY DrainTypes DEF Where
    <3>2. QED
      BY <3>1, SeqTypes DEF DrainInv, NotAhead
  <2>2. ASSUME Passed PROVE Passed'
    <3>1. ASSUME NEW x \in Keys, Newest(x)' \in overflow PROVE x \in stranded'
      <4>1. Newest(x)' = MkJob(x, latest'[x])
        BY DEF Newest, MkJob
      <4>2. x \notin K
        BY <3>1, <4>1, <2>1, <1>2 DEF MkJob
      <4>3. Newest(x)' = Newest(x)
        BY <4>2, <1>2 DEF Newest, MkJob
      <4>4. QED
        BY <2>2, <3>1, <4>2, <4>3, <1>0 DEF Passed
    <3>2. QED
      BY <3>1, <1>0 DEF Passed
  <2>3. QED
    BY <2>2, <1>0 DEF DrainInv, WorkerPlaces, workerVars
<1>7. BarrierPlace'
  BY <1>0 DEF DrainInv, BarrierPlace, AtRest, BarrierQueued, BarrierAside,
              BarrierRuns, NoBarrierHeld, Draining, workerVars
<1>8. QED
  BY <1>3, <1>4, <1>5, <1>6, <1>7 DEF DrainInv

LEMMA SaveCommitDrain ==
  ASSUME IInv, DrainInv, SaveCommit
  PROVE  DrainInv'
<1>0. /\ phase = "tx" /\ cur \in Job /\ cur.key = Export /\ cur.seq <= seq
      /\ \A k \in held : latest[k] = cur.seq
      /\ failed' = failed \ held
      /\ db' = [k \in Keys |-> IF k \in held THEN cur.seq ELSE db[k]]
      /\ UNCHANGED <<seq, latest, overflow, workerVars, retry, spilling, dropped,
                     stranded, drained>>
  BY DEF SaveCommit, DrainInv, WorldPlaces, IInv, TxIsLatest
<1>1. Export \notin Keys /\ Export # Barrier
  BY QueueAssumption
<1>2. /\ Where' = Where \/ Where' = Where \union {cur}
      /\ phase' \in {"idle", "insert"}
      /\ phase' = "insert" => cur' = cur
      /\ queue' = queue \/ (queue' # <<>> /\ queue'[1].key # Barrier)
      /\ AtRest'
  <2>1. CASE exporting /\ Enqueue(cur)
    BY <2>1, <1>0, <1>1, EnqueuePlaces
  <2>2. CASE phase' = "idle" /\ UNCHANGED queue
    <3>1. Where' = Where
      BY <2>2, <1>0 DEF Where, workerVars
    <3>2. AtRest'
      BY <2>2, <1>0 DEF DrainInv, BarrierPlace, AtRest, BarrierQueued, BarrierAside,
                        BarrierRuns, NoBarrierHeld, Draining, workerVars
    <3>3. QED
      BY <2>2, <3>1, <3>2
  <2>3. QED
    BY <2>1, <2>2 DEF SaveCommit
<1>3. NotAhead'
  <2>1. \A x \in Where \union {cur} : x.seq <= seq /\ (x.key \in Keys => x.seq <= latest[x.key])
    BY <1>0, <1>1 DEF DrainInv, NotAhead
  <2>2. QED
    BY <1>0, <1>2, <2>1 DEF DrainInv, NotAhead
<1>4. NoneForgotten'
  <2>1. ASSUME NEW x \in Keys
        PROVE  Settled(x)' \/ (Carried(x)' /\ drained' < latest'[x])
    <3>1. CASE x \in held
      BY <3>1, <1>0 DEF Settled
    <3>2. CASE x \notin held
      <4>1. Newest(x)' = Newest(x) /\ (Settled(x) => Settled(x)')
        BY <3>2, <1>0 DEF Newest, MkJob, Settled, Excused
      <4>2. Carried(x) => Carried(x)'
        BY <3>2, <1>2, <4>1 DEF Carried
      <4>3. QED
        BY <1>0, <4>1, <4>2 DEF DrainInv, NoneForgotten
    <3>3. QED
      BY <3>1, <3>2
  <2>2. QED
    BY <2>1 DEF NoneForgotten
<1>5. WorldPlaces'
  BY <1>0, <1>1, <1>2 DEF WorldPlaces
<1>6. WorkerPlaces'
  <2>1. Passed => Passed'
    BY <1>0, PassedStays
  <2>2. QED
    BY <2>1, <1>0, <1>2 DEF DrainInv, WorkerPlaces, workerVars
<1>7. QED
  BY <1>2, <1>3, <1>4, <1>5, <1>6 DEF DrainInv, BarrierPlace

LEMMA SaveFailDrain ==
  ASSUME IInv, DrainInv, SaveFail
  PROVE  DrainInv'
<1>0. /\ phase = "tx" /\ phase' = "idle"
      /\ \A k \in held : latest[k] = cur.seq
      /\ failed' = failed \union held
      /\ UNCHANGED db \/ db' = [k \in Keys |-> IF k \in held THEN cur.seq ELSE db[k]]
      /\ UNCHANGED <<seq, latest, queue, overflow, workerVars, retry, spilling, dropped,
                     stranded, drained>>
  BY DEF SaveFail, IInv, TxIsLatest, exportVars
<1>1. Where' = Where
  BY <1>0 DEF Where, workerVars
<1>2. NotAhead'
  BY <1>0, <1>1 DEF DrainInv, NotAhead
<1>3. NoneForgotten'
  <2>1. ASSUME NEW x \in Keys
        PROVE  Settled(x)' \/ (Carried(x)' /\ drained' < latest'[x])
    <3>1. CASE x \in held
      BY <3>1, <1>0 DEF Settled, Excused
    <3>2. CASE x \notin held
      <4>1. Newest(x)' = Newest(x) /\ (Settled(x) => Settled(x)')
        BY <3>2, <1>0 DEF Newest, MkJob, Settled, Excused
      <4>2. Carried(x) => Carried(x)'
        BY <3>2, <1>1, <4>1 DEF Carried
      <4>3. QED
        BY <1>0, <4>1, <4>2 DEF DrainInv, NoneForgotten
    <3>3. QED
      BY <3>1, <3>2
  <2>2. QED
    BY <2>1 DEF NoneForgotten
<1>4. WorldPlaces' /\ WorkerPlaces'
  <2>1. Passed => Passed'
    BY <1>0, PassedStays
  <2>2. QED
    BY <2>1, <1>0 DEF DrainInv, WorldPlaces, WorkerPlaces, workerVars
<1>5. BarrierPlace'
  BY <1>0 DEF DrainInv, BarrierPlace, AtRest, BarrierQueued, BarrierAside,
              BarrierRuns, NoBarrierHeld, Draining, workerVars
<1>6. QED
  BY <1>2, <1>3, <1>4, <1>5 DEF DrainInv

LEMMA FlushBeginDrain ==
  ASSUME IInv, DrainInv, FlushBegin
  PROVE  DrainInv'
<1>0. /\ phase = "idle" /\ phase' \in {"flushSend", "closeSend"} /\ seq' = seq + 1
      /\ seq < MaxSeq /\ cur' = MkJob(Barrier, seq + 1) /\ spilling = {}
      /\ UNCHANGED <<latest, queue, overflow, workerVars, held, db, retry, spilling, failed, dropped, stranded, drained>>
  BY DEF FlushBegin, Callable, exportVars, historyVars, excuses
<1>1. Where' = Where
  BY <1>0 DEF Where, workerVars
<1>2. cur' \in Job
  BY <1>0, NextJob DEF IInv, TypeOK
<1>3. NotAhead'
  <2>1. Where \subseteq Job
    BY <1>0, WhereJobs
  <2>2. \A x \in Where : x.seq <= seq + 1 /\ x.seq < seq + 1
    BY <2>1, SeqTypes DEF DrainInv, NotAhead
  <2>3. (\A x \in retry \union spilling : x.seq <= seq + 1) /\ drained <= seq + 1
    BY SeqTypes DEF DrainInv, NotAhead
  <2>4. QED
    BY <1>0, <1>1, <2>2, <2>3 DEF DrainInv, NotAhead
<1>4. NoneForgotten'
  <2>1. \A x \in Keys : /\ Newest(x)' = Newest(x) /\ Settled(x)' = Settled(x)
                        /\ Carried(x) => Carried(x)'
    BY <1>0, <1>1 DEF Newest, MkJob, Settled, Carried, Excused
  <2>2. QED
    BY <1>0, <2>1 DEF DrainInv, NoneForgotten
<1>5. WorldPlaces' /\ WorkerPlaces'
  <2>1. Passed => Passed'
    BY <1>0, PassedStays
  <2>2. QED
    BY <2>1, <1>0, <1>2 DEF DrainInv, WorldPlaces, WorkerPlaces, workerVars
<1>6. BarrierPlace'
  BY <1>0 DEF DrainInv, BarrierPlace, AtRest, BarrierQueued, BarrierAside,
              BarrierRuns, NoBarrierHeld, Draining, workerVars
<1>7. QED
  BY <1>3, <1>4, <1>5, <1>6 DEF DrainInv

(* The barrier goes to the end of a channel that has room; if it is the    *)
(* first there and the worker waits for it, only what went by the worker   *)
(* is in the overflow.                                                     *)
LEMMA FlushSendDrain ==
  ASSUME IInv, DrainInv, FlushSend
  PROVE  DrainInv'
<1>0. /\ phase \in {"flushSend", "closeSend"} /\ phase' \in {"flushWait", "closeWait"}
      /\ Len(queue) < QueueCap /\ queue' = Append(queue, cur)
      /\ cur \in Job /\ cur = MkJob(Barrier, seq) /\ UNCHANGED cur
      /\ spilling = {}
      /\ UNCHANGED <<seq, latest, overflow, workerVars, held, db, retry, spilling, failed, dropped, stranded, drained>>
  BY DEF FlushSend, DrainInv, WorldPlaces, exportVars, historyVars, excuses
<1>1. queue \in Seq(Job) /\ AtRest
  BY <1>0, DrainTypes DEF DrainInv, BarrierPlace, BarrierQueued, BarrierAside, BarrierRuns, Draining
<1>2. /\ JobsIn(queue') = JobsIn(queue) \union {cur}
      /\ queue' # <<>> /\ queue'[Len(queue')] = cur
      /\ \A i \in 1..Len(queue') : i # Len(queue') =>
           i \in 1..Len(queue) /\ queue'[i] = queue[i]
  BY <1>0, <1>1, AppendJobs
<1>3. Where' = Where \union {cur}
  BY <1>0, <1>2 DEF Where, workerVars
<1>4. cur.key = Barrier /\ cur.seq = seq /\ Barrier \notin Keys
  BY <1>0, QueueAssumption DEF MkJob
<1>5. NotAhead'
  <2>1. cur.seq <= seq
    BY <1>4, SeqTypes
  <2>2. QED
    BY <1>0, <1>3, <1>4, <2>1 DEF DrainInv, NotAhead
<1>6. NoneForgotten'
  <2>1. \A x \in Keys : /\ Newest(x)' = Newest(x) /\ Settled(x)' = Settled(x)
                        /\ Carried(x) => Carried(x)'
    BY <1>0, <1>3 DEF Newest, MkJob, Settled, Carried, Excused
  <2>2. QED
    BY <1>0, <2>1 DEF DrainInv, NoneForgotten
<1>7. WorldPlaces'
  BY <1>0 DEF WorldPlaces
<1>8. WorkerPlaces'
  <2>1. Passed => Passed'
    BY <1>0, PassedStays
  <2>2. ASSUME queue # <<>> PROVE queue' # <<>> /\ queue'[1] = queue[1]
    <3>1. 1 \in 1..Len(queue)
      BY <1>1, <2>2
    <3>2. QED
      BY <1>0, <1>1, <1>2, <3>1
  <2>3. QED
    BY <1>0, <2>1, <2>2 DEF DrainInv, WorkerPlaces, workerVars
<1>9. BarrierQueued'
  BY <1>0, <1>1, <1>2 DEF AtRest, BarrierQueued, NoBarrierHeld, Draining, workerVars
<1>10. QED
  BY <1>5, <1>6, <1>7, <1>8, <1>9 DEF DrainInv, BarrierPlace

LEMMA WorldDrain == ASSUME IInv, DrainInv, World PROVE DrainInv'
BY SaveAsyncDrain, InsertOverflowDrain, SaveBeginDrain, SaveCommitDrain, SaveFailDrain,
   FlushBeginDrain, FlushSendDrain DEF World

-----------------------------------------------------------------------------
(* The steps of persistLoop.                                               *)

(* Taking a job that is waiting into an empty batch.                       *)
LEMMA StartPlaces ==
  ASSUME NEW j \in Job, Start(j)
  PROVE  /\ batch' = {j} /\ wpc' \in {"collect", "run"}
         /\ wpc' = "run" => j.key \notin Keys
BY DEF Start

LEMMA PickOverflowDrain ==
  ASSUME IInv, DrainInv, PickOverflow
  PROVE  DrainInv'
<1>0. PICK j \in overflow : /\ wpc = "pick"
                            /\ Start(j) /\ overflow' = overflow \ {j}
                            /\ UNCHANGED <<seq, latest, queue, pending, phase, cur, held, db,
                                           retry, spilling, failed, dropped, stranded, drained>>
  BY DEF PickOverflow, Older, worldVars, exportVars, historyVars, excuses
<1>1. j \in Job /\ batch = {} /\ j.key # Barrier
  BY <1>0, DrainTypes DEF DrainInv, WorkerPlaces
<1>2. /\ batch' = {j} /\ wpc' \in {"collect", "run"}
      /\ wpc' = "run" => j.key \notin Keys
  BY <1>0, <1>1, StartPlaces
<1>3. Where' = Where
  BY <1>0, <1>1, <1>2 DEF Where
<1>4. NoneForgotten' /\ NotAhead'
  BY <1>0, <1>3, Moved DEF DrainInv, Excused
<1>5. WorldPlaces' /\ WorkerPlaces'
  BY <1>0, <1>1, <1>2 DEF DrainInv, WorldPlaces, WorkerPlaces
<1>6. BarrierPlace'
  BY <1>0, <1>1, <1>2 DEF DrainInv, BarrierPlace, AtRest, BarrierQueued, BarrierAside,
                          BarrierRuns, NoBarrierHeld, Draining
<1>7. QED
  BY <1>4, <1>5, <1>6 DEF DrainInv

(* A barrier put aside runs once the overflow is empty: whatever is in it  *)
(* is older than the barrier, the newest generation there is.              *)
LEMMA PickPendingDrain ==
  ASSUME IInv, DrainInv, PickPending
  PROVE  DrainInv'
<1>0. /\ wpc = "pick" /\ Older = {} /\ pending # NoJob
      /\ Start(pending) /\ pending' = NoJob
      /\ UNCHANGED <<seq, latest, queue, overflow, phase, cur, held, db,
                     retry, spilling, failed, dropped, stranded, drained>>
  BY DEF PickPending, worldVars, exportVars, historyVars, excuses
<1>1. pending \in Job /\ batch = {}
  BY <1>0, DrainTypes DEF DrainInv, WorkerPlaces
<1>2. /\ batch' = {pending} /\ wpc' \in {"collect", "run"}
      /\ wpc' = "run" => pending.key \notin Keys
  BY <1>0, <1>1, StartPlaces
<1>3. Where' = Where
  BY <1>0, <1>1, <1>2 DEF Where
<1>4. NoneForgotten' /\ NotAhead'
  BY <1>0, <1>3, Moved DEF DrainInv, Excused
<1>5. WorldPlaces' /\ WorkerPlaces'
  BY <1>0, <1>1, <1>2 DEF DrainInv, WorldPlaces, WorkerPlaces
<1>6. BarrierPlace'
  <2>1. CASE AtRest
    BY <2>1, <1>0, <1>2 DEF BarrierPlace, AtRest, NoBarrierHeld, Draining
  <2>2. CASE BarrierQueued
    BY <2>2, <1>0, <1>2 DEF BarrierPlace, BarrierQueued, NoBarrierHeld, Draining
  <2>3. CASE BarrierAside
    <3>1. cur \in Job /\ cur = MkJob(Barrier, seq) /\ pending = cur
      BY <2>3 DEF BarrierAside, DrainInv, WorldPlaces, Draining
    <3>2. ASSUME NEW j \in overflow PROVE FALSE
      <4>1. j \in Where /\ j.key # Barrier
        BY <3>2 DEF DrainInv, WorkerPlaces, Where
      <4>2. j.seq < seq
        BY <2>3, <4>1 DEF BarrierAside, Draining, DrainInv, NotAhead
      <4>3. j \in Older
        BY <3>1, <3>2, <4>2 DEF Older, MkJob
      <4>4. QED
        BY <1>0, <4>3
    <3>3. wpc' = "run"
      BY <3>1, <1>0, QueueAssumption DEF Start, MkJob
    <3>4. QED
      BY <2>3, <3>1, <3>2, <3>3, <1>0, <1>2
         DEF BarrierPlace, BarrierAside, BarrierRuns, Draining, Passed
  <2>4. CASE BarrierRuns
    BY <2>4, <1>0 DEF BarrierRuns
  <2>5. QED
    BY <2>1, <2>2, <2>3, <2>4 DEF DrainInv, BarrierPlace
<1>7. QED
  BY <1>4, <1>5, <1>6 DEF DrainInv

LEMMA PickWaitDrain ==
  ASSUME IInv, DrainInv, PickWait
  PROVE  DrainInv'
<1>0. /\ wpc = "pick" /\ wpc' = "recv" /\ Older = {} /\ pending = NoJob
      /\ UNCHANGED <<seq, latest, queue, overflow, batch, pending, phase, cur, held, db,
                     retry, spilling, failed, dropped, stranded, drained>>
  BY DEF PickWait, worldVars, exportVars, historyVars, excuses
<1>1. overflow = {} /\ batch = {}
  BY <1>0 DEF Older, DrainInv, WorkerPlaces
<1>2. Where' = Where
  BY <1>0 DEF Where
<1>3. NoneForgotten' /\ NotAhead'
  BY <1>0, <1>2, Moved DEF DrainInv, Excused
<1>4. WorldPlaces' /\ WorkerPlaces'
  BY <1>0, <1>1 DEF DrainInv, WorldPlaces, WorkerPlaces, Passed
<1>5. BarrierPlace'
  BY <1>0, <1>1 DEF DrainInv, BarrierPlace, AtRest, BarrierQueued, BarrierAside,
                    BarrierRuns, NoBarrierHeld, Draining
<1>6. QED
  BY <1>3, <1>4, <1>5 DEF DrainInv

(* A barrier received from the channel was the last job in it, and the     *)
(* overflow holds only what went by the worker while it slept.             *)
LEMMA ReceiveDrain ==
  ASSUME IInv, DrainInv, Receive
  PROVE  DrainInv'
<1> DEFINE h == Head(queue)
<1>0. /\ wpc = "recv" /\ queue # <<>>
      /\ Start(h) /\ queue' = Tail(queue)
      /\ UNCHANGED <<seq, latest, overflow, pending, phase, cur, held, db,
                     retry, spilling, failed, dropped, stranded, drained>>
  BY DEF Receive, worldVars, exportVars, historyVars, excuses
<1>1. /\ queue \in Seq(Job) /\ batch = {} /\ pending = NoJob
      /\ Passed \/ queue[1].key # Barrier
  BY <1>0, DrainTypes DEF DrainInv, WorkerPlaces
<1>2. /\ JobsIn(queue) = JobsIn(queue') \union {h}
      /\ h \in Job /\ h = queue[1] /\ 1 \in 1..Len(queue)
      /\ Len(queue) \in Nat /\ Len(queue') = Len(queue) - 1
      /\ \A i \in 1..Len(queue') : i + 1 \in 1..Len(queue) /\ queue'[i] = queue[i + 1]
      /\ Len(queue) = 1 => queue' = <<>>
      /\ Len(queue) # 1 => queue' # <<>>
  BY <1>0, <1>1, TailJobs
<1> HIDE DEF h
<1>3. /\ batch' = {h} /\ wpc' \in {"collect", "run"}
      /\ wpc' = "run" => h.key \notin Keys
  BY <1>0, <1>2, StartPlaces
<1>4. Where' = Where
  BY <1>0, <1>1, <1>2, <1>3 DEF Where
<1>5. NoneForgotten' /\ NotAhead'
  BY <1>0, <1>4, Moved DEF DrainInv, Excused
<1>6. WorldPlaces' /\ WorkerPlaces'
  BY <1>0, <1>2, <1>3 DEF DrainInv, WorldPlaces, WorkerPlaces
<1>7. BarrierPlace'
  <2>1. CASE AtRest
    BY <2>1, <1>0, <1>2, <1>3 DEF BarrierPlace, AtRest, NoBarrierHeld, Draining
  <2>2. CASE BarrierQueued /\ Len(queue) = 1
    <3>1. h = cur /\ h.key = Barrier /\ Passed /\ wpc' = "run"
      <4>1. h = cur /\ cur = MkJob(Barrier, seq)
        BY <2>2, <1>2 DEF BarrierQueued, Draining, DrainInv, WorldPlaces
      <4>2. h.key = Barrier
        BY <4>1 DEF MkJob
      <4>3. wpc' = "run"
        BY <4>2, <1>0, QueueAssumption DEF Start
      <4>4. QED
        BY <4>1, <4>2, <4>3, <1>1, <1>2
    <3>2. Draining' /\ queue' = <<>> /\ batch' = {cur'} /\ pending' = NoJob
      BY <3>1, <2>2, <1>0, <1>1, <1>2, <1>3 DEF BarrierQueued, Draining
    <3>4. Passed'
      BY <3>1, <1>0, PassedStays
    <3>5. QED
      BY <3>1, <3>2, <3>4 DEF BarrierPlace, BarrierRuns
  <2>3. CASE BarrierQueued /\ Len(queue) # 1
    <3>1. queue' # <<>> /\ queue'[Len(queue')] = cur
      <4>1. Len(queue') \in 1..Len(queue') /\ Len(queue') + 1 = Len(queue)
        BY <1>2, <2>3
      <4>2. queue'[Len(queue')] = queue[Len(queue)]
        BY <4>1, <1>2
      <4>3. queue[Len(queue)] = cur
        BY <2>3 DEF BarrierQueued
      <4>4. QED
        BY <4>2, <4>3, <1>2, <2>3
    <3>2. \A i \in 1..Len(queue') : i # Len(queue') => queue'[i].key # Barrier
      BY <1>2, <2>3 DEF BarrierQueued
    <3>3. h.key # Barrier
      BY <1>2, <2>3 DEF BarrierQueued
    <3>4. Draining' /\ NoBarrierHeld'
      BY <3>3, <2>3, <1>0, <1>1, <1>3 DEF BarrierQueued, NoBarrierHeld, Draining
    <3>5. QED
      BY <3>1, <3>2, <3>4, <1>0 DEF BarrierPlace, BarrierQueued
  <2>4. CASE BarrierAside \/ BarrierRuns
    BY <2>4, <1>0 DEF BarrierAside, BarrierRuns
  <2>5. QED
    BY <2>1, <2>2, <2>3, <2>4 DEF DrainInv, BarrierPlace
<1>8. QED
  BY <1>5, <1>6, <1>7 DEF DrainInv

LEMMA ReceiveClosedDrain ==
  ASSUME IInv, DrainInv, ReceiveClosed
  PROVE  DrainInv'
<1>0. /\ wpc = "recv" /\ wpc' = "exit"
      /\ UNCHANGED <<seq, latest, queue, overflow, batch, pending, phase, cur, held, db,
                     retry, spilling, failed, dropped, stranded, drained>>
  BY DEF ReceiveClosed, worldVars, exportVars, historyVars, excuses
<1>1. Where' = Where
  BY <1>0 DEF Where
<1>2. NoneForgotten' /\ NotAhead'
  BY <1>0, <1>1, Moved DEF DrainInv, Excused
<1>3. WorldPlaces' /\ WorkerPlaces'
  BY <1>0 DEF DrainInv, WorldPlaces, WorkerPlaces
<1>4. BarrierPlace'
  BY <1>0 DEF DrainInv, BarrierPlace, AtRest, BarrierQueued, BarrierAside,
              BarrierRuns, NoBarrierHeld, Draining
<1>5. QED
  BY <1>2, <1>3, <1>4 DEF DrainInv

(* Collecting a batch that came from the overflow, the worker may read a   *)
(* job of another kind from the channel while a snapshot is put aside      *)
(* already: that one is dropped.                                           *)
LEMMA CollectDrain ==
  ASSUME IInv, DrainInv, Collect
  PROVE  DrainInv'
<1> DEFINE h == Head(queue)
<1>0. /\ wpc = "collect" /\ queue # <<>>
      /\ queue' = Tail(queue)
      /\ UNCHANGED <<seq, latest, overflow, phase, cur, held, db,
                     retry, spilling, failed, stranded, drained>>
      /\ dropped \subseteq dropped'
  BY DEF Collect, worldVars, exportVars
<1>1. queue \in Seq(Job) /\ ~BarrierRuns /\ ~BarrierAside
  BY <1>0, DrainTypes DEF BarrierRuns, BarrierAside
<1>2. /\ JobsIn(queue) = JobsIn(queue') \union {h}
      /\ h \in Job /\ h = queue[1] /\ 1 \in 1..Len(queue)
      /\ Len(queue) \in Nat /\ Len(queue') = Len(queue) - 1
      /\ \A i \in 1..Len(queue') : i + 1 \in 1..Len(queue) /\ queue'[i] = queue[i + 1]
      /\ Len(queue) = 1 => queue' = <<>>
      /\ Len(queue) # 1 => queue' # <<>>
  BY <1>0, <1>1, TailJobs
<1>3. \/ /\ \E j \in batch : SameKind(j, h)
         /\ batch' = CollectInto(batch, h) /\ wpc' = "collect" /\ pending' = pending
      \/ /\ pending' = h /\ wpc' = "lock" /\ batch' = batch
         /\ NewestOf(pending) \subseteq dropped'
  BY <1>0 DEF Collect
<1>4. h \in Where /\ NoJob \notin Job
  BY <1>2, NoJobAssumption DEF Where
<1> HIDE DEF h
<1>5. batch' \subseteq batch \union {h} /\ (pending' = pending \/ pending' = h)
  BY <1>3 DEF CollectInto, Coalesce
<1>6. Where' \subseteq Where
  BY <1>0, <1>2, <1>4, <1>5 DEF Where
<1>7. ASSUME NEW k \in Keys, Newest(k) \in Where
      PROVE  Newest(k) \in Where' \/ k \in Excused'
  <2>1. Newest(k).key = k /\ Newest(k).seq = latest[k]
    BY DEF Newest, MkJob
  <2>2. CASE Newest(k) \in batch \union {h} /\ batch' = CollectInto(batch, h)
    <3>1. CASE \E x \in batch : x.key = h.key /\ x.seq >= h.seq
      <4>1. PICK x \in batch : x.key = h.key /\ x.seq >= h.seq
        BY <3>1
      <4>2. batch' = batch
        BY <2>2, <3>1 DEF CollectInto
      <4>3. CASE Newest(k) = h
        <5>1. x \in Where /\ x \in Job
          BY DrainTypes DEF Where
        <5>2. x.seq <= latest[k]
          BY <4>1, <4>3, <5>1, <2>1 DEF DrainInv, NotAhead
        <5>3. x.seq = h.seq
          BY <4>1, <4>3, <5>1, <5>2, <2>1, <1>2, SeqTypes
        <5>4. x = h
          BY <4>1, <5>1, <5>3, <1>2 DEF Job
        <5>5. QED
          BY <4>2, <4>3, <5>4 DEF Where
      <4>4. CASE Newest(k) # h
        BY <2>2, <4>2, <4>4 DEF Where
      <4>5. QED
        BY <4>3, <4>4
    <3>2. CASE ~ \E x \in batch : x.key = h.key /\ x.seq >= h.seq
      <4>1. batch' = {x \in batch : x.key # h.key} \union {h}
        BY <2>2, <3>2 DEF CollectInto, Coalesce
      <4>2. CASE Newest(k) \in batch /\ k = h.key
        <5>1. h.seq <= latest[k]
          BY <4>2, <1>4 DEF DrainInv, NotAhead
        <5>2. QED
          BY <3>2, <4>2, <5>1, <2>1, <1>2, SeqTypes
      <4>3. CASE ~(Newest(k) \in batch /\ k = h.key)
        BY <2>1, <2>2, <4>1, <4>3 DEF Where
      <4>4. QED
        BY <4>2, <4>3
    <3>3. QED
      BY <3>1, <3>2
  <2>3. CASE Newest(k) \in batch \union {h} /\ pending' = h /\ batch' = batch
    BY <2>3, <1>2, <1>4 DEF Where
  <2>4. CASE Newest(k) = pending /\ pending # NoJob
    <3>1. CASE pending' = pending
      BY <2>4, <3>1 DEF Where
    <3>2. CASE NewestOf(pending) \subseteq dropped'
      <4>1. k \in NewestOf(pending)
        BY <2>4 DEF NewestOf, Newest
      <4>2. QED
        BY <3>2, <4>1 DEF Excused
    <3>3. QED
      BY <3>1, <3>2, <1>3
  <2>5. CASE Newest(k) \in JobsIn(queue') \union overflow
    BY <2>5, <1>0 DEF Where
  <2>6. QED
    BY <2>2, <2>3, <2>4, <2>5, <1>0, <1>2, <1>3, <1>7 DEF Where
<1>8. NoneForgotten' /\ NotAhead'
  BY <1>0, <1>6, <1>7, Moved DEF DrainInv, Excused
<1>9. WorldPlaces' /\ WorkerPlaces'
  BY <1>0, <1>3 DEF DrainInv, WorldPlaces, WorkerPlaces
<1>10. BarrierPlace'
  <2>1. h.key # Barrier /\ NoBarrierHeld => NoBarrierHeld'
    BY <1>5 DEF NoBarrierHeld
  <2>2. CASE AtRest
    BY <2>1, <2>2, <1>0, <1>2 DEF BarrierPlace, AtRest, Draining
  <2>3. CASE BarrierQueued /\ Len(queue) = 1
    <3>1. h = cur /\ cur = MkJob(Barrier, seq)
      BY <2>3, <1>2 DEF BarrierQueued, Draining, DrainInv, WorldPlaces
    <3>2. \A j \in batch : ~SameKind(j, h)
      BY <3>1, QueueAssumption DEF SameKind, MkJob, Keys
    <3>3. pending' = cur /\ batch' = batch
      BY <3>1, <3>2, <1>3
    <3>4. QED
      BY <2>3, <3>3, <1>0, <1>2 DEF BarrierPlace, BarrierQueued, BarrierAside, NoBarrierHeld, Draining
  <2>4. CASE BarrierQueued /\ Len(queue) # 1
    <3>1. queue' # <<>> /\ queue'[Len(queue')] = cur
      <4>1. Len(queue') \in 1..Len(queue') /\ Len(queue') + 1 = Len(queue)
        BY <1>2, <2>4
      <4>2. queue'[Len(queue')] = queue[Len(queue)]
        BY <4>1, <1>2
      <4>3. queue[Len(queue)] = cur
        BY <2>4 DEF BarrierQueued
      <4>4. QED
        BY <4>2, <4>3, <1>2, <2>4
    <3>2. \A i \in 1..Len(queue') : i # Len(queue') => queue'[i].key # Barrier
      BY <1>2, <2>4 DEF BarrierQueued
    <3>3. h.key # Barrier
      BY <1>2, <2>4 DEF BarrierQueued
    <3>4. Draining' /\ NoBarrierHeld'
      BY <3>3, <2>1, <2>4, <1>0 DEF BarrierQueued, Draining
    <3>5. QED
      BY <3>1, <3>2, <3>4, <1>0 DEF BarrierPlace, BarrierQueued
  <2>5. QED
    BY <2>2, <2>3, <2>4, <1>1 DEF DrainInv, BarrierPlace
<1>11. QED
  BY <1>8, <1>9, <1>10 DEF DrainInv

LEMMA CollectEndDrain ==
  ASSUME IInv, DrainInv, CollectEnd
  PROVE  DrainInv'
<1>0. /\ wpc = "collect" /\ wpc' = "lock"
      /\ UNCHANGED <<seq, latest, queue, overflow, batch, pending, phase, cur, held, db,
                     retry, spilling, failed, dropped, stranded, drained>>
  BY DEF CollectEnd, worldVars, exportVars, historyVars, excuses
<1>1. Where' = Where
  BY <1>0 DEF Where
<1>2. NoneForgotten' /\ NotAhead'
  BY <1>0, <1>1, Moved DEF DrainInv, Excused
<1>3. WorldPlaces' /\ WorkerPlaces'
  BY <1>0 DEF DrainInv, WorldPlaces, WorkerPlaces
<1>4. BarrierPlace'
  BY <1>0 DEF DrainInv, BarrierPlace, AtRest, BarrierQueued, BarrierAside,
              BarrierRuns, NoBarrierHeld, Draining
<1>5. QED
  BY <1>2, <1>3, <1>4 DEF DrainInv

LEMMA LockDrain ==
  ASSUME IInv, DrainInv, Lock
  PROVE  DrainInv'
<1>0. /\ wpc = "lock" /\ batch' = {j \in batch : latest[j.key] = j.seq}
      /\ wpc' = "pick" => batch' = {}
      /\ wpc' \in {"pick", "write"}
      /\ UNCHANGED <<seq, latest, queue, overflow, pending, phase, cur, held, db,
                     retry, spilling, failed, dropped, stranded, drained>>
  BY DEF Lock, IsLatest, worldVars, exportVars, historyVars, excuses
<1>1. Where' \subseteq Where
  BY <1>0 DEF Where
<1>2. ASSUME NEW k \in Keys, Newest(k) \in Where PROVE Newest(k) \in Where'
  <2>1. Newest(k) \in batch => Newest(k) \in batch'
    BY <1>0 DEF Newest, MkJob
  <2>2. QED
    BY <1>0, <1>2, <2>1 DEF Where
<1>3. NoneForgotten' /\ NotAhead'
  BY <1>0, <1>1, <1>2, Moved DEF DrainInv, Excused
<1>4. WorldPlaces' /\ WorkerPlaces'
  BY <1>0 DEF DrainInv, WorldPlaces, WorkerPlaces
<1>5. BarrierPlace'
  BY <1>0 DEF DrainInv, BarrierPlace, AtRest, BarrierQueued, BarrierAside,
              BarrierRuns, NoBarrierHeld, Draining
<1>6. QED
  BY <1>3, <1>4, <1>5 DEF DrainInv

LEMMA StoreLands ==
  ASSUME WriteIsLatest, wpc = "write", NEW k \in Keys
  PROVE  Store(batch)[k] = IF k \in KeysOf(batch) THEN latest[k] ELSE db[k]
<1>1. CASE \E j \in batch : j.key = k
  <2>1. PICK j \in batch : j = (CHOOSE x \in batch : x.key = k) /\ j.key = k
    BY <1>1
  <2>2. Store(batch)[k] = j.seq
    BY <1>1, <2>1 DEF Store
  <2>3. QED
    BY <1>1, <2>1, <2>2 DEF WriteIsLatest, KeysOf
<1>2. CASE ~ \E j \in batch : j.key = k
  BY <1>2 DEF Store, KeysOf
<1>3. QED
  BY <1>1, <1>2

(* What a transaction leaves of its batch is settled: stored, or failed.   *)
LEMMA WriteDrain ==
  ASSUME IInv, DrainInv, Write
  PROVE  DrainInv'
<1>0. /\ wpc = "write" /\ wpc' = "pick" /\ batch' = {}
      /\ UNCHANGED <<seq, latest, queue, overflow, pending, phase, cur, held,
                     retry, spilling, dropped, stranded, drained>>
  BY DEF Write, worldVars, exportVars
<1>1. \A k \in Keys : \/ db'[k] = IF k \in KeysOf(batch) THEN latest[k] ELSE db[k]
                      \/ /\ db'[k] = db[k]
                         /\ k \in KeysOf(batch) => k \in failed'
  <2>1. CASE db' = Store(batch)
    BY <2>1, <1>0, StoreLands DEF IInv
  <2>2. CASE db' = db /\ failed' = failed \union KeysOf(batch)
    BY <2>2
  <2>3. QED
    BY <2>1, <2>2 DEF Write
<1>2. \A k \in Keys : k \notin KeysOf(batch) => (k \in failed <=> k \in failed')
  BY DEF Write
<1>3. \A k \in Keys : k \in KeysOf(batch) => db'[k] = latest[k] \/ k \in failed'
  BY <1>1
<1>4. Where' \subseteq Where
  BY <1>0 DEF Where
<1>5. NotAhead'
  BY <1>0, <1>4 DEF DrainInv, NotAhead
<1>6. NoneForgotten'
  <2>1. ASSUME NEW k \in Keys
        PROVE  Settled(k)' \/ (Carried(k)' /\ drained' < latest'[k])
    <3>1. CASE k \in KeysOf(batch)
      BY <3>1, <1>0, <1>3 DEF Settled, Excused
    <3>2. CASE k \notin KeysOf(batch)
      <4>1. Newest(k) \notin batch
        BY <3>2 DEF Newest, MkJob, KeysOf
      <4>2. Newest(k)' = Newest(k) /\ (Settled(k) => Settled(k)')
        BY <3>2, <1>0, <1>1, <1>2 DEF Newest, MkJob, Settled, Excused
      <4>3. Carried(k) => Carried(k)'
        BY <4>1, <4>2, <1>0 DEF Carried, Where
      <4>4. QED
        BY <1>0, <4>2, <4>3 DEF DrainInv, NoneForgotten
    <3>3. QED
      BY <3>1, <3>2
  <2>2. QED
    BY <2>1 DEF NoneForgotten
<1>7. WorldPlaces' /\ WorkerPlaces'
  BY <1>0 DEF DrainInv, WorldPlaces, WorkerPlaces
<1>8. BarrierPlace'
  BY <1>0 DEF DrainInv, BarrierPlace, AtRest, BarrierQueued, BarrierAside,
              BarrierRuns, NoBarrierHeld, Draining
<1>9. QED
  BY <1>5, <1>6, <1>7, <1>8 DEF DrainInv

(* The barrier runs when nothing is left of what it was to drain.          *)
LEMMA RunBarrierDrain ==
  ASSUME IInv, DrainInv, RunBarrier
  PROVE  DrainInv'
<1>0. /\ wpc = "run" /\ wpc' = "pick" /\ batch' = {} /\ phase' = "idle"
      /\ \E j \in batch : j.key = Barrier /\ drained' = j.seq
      /\ UNCHANGED <<seq, latest, queue, overflow, pending, held, db, retry, spilling,
                     failed, dropped, stranded>>
  BY DEF RunBarrier, exportVars, excuses
<1>1. BarrierRuns
  BY <1>0 DEF DrainInv, BarrierPlace, AtRest, BarrierQueued, BarrierAside, NoBarrierHeld
<1>2. cur = MkJob(Barrier, seq) /\ drained' = seq
  <2>1. cur = MkJob(Barrier, seq)
    BY <1>1 DEF BarrierRuns, Draining, DrainInv, WorldPlaces
  <2>2. QED
    BY <2>1, <1>0, <1>1 DEF BarrierRuns, MkJob
<1>3. Where = {cur} \union overflow /\ Where' \subseteq Where
  BY <1>0, <1>1, NoJobs DEF BarrierRuns, Draining, Where
<1>4. \A k \in Keys : Settled(k)
  <2>1. \A k \in Keys : Newest(k) # cur
    BY <1>2, QueueAssumption DEF Newest, MkJob
  <2>2. \A k \in Keys : Carried(k) => k \in stranded
    BY <1>1, <1>3, <2>1 DEF Carried, BarrierRuns, Draining, Passed
  <2>3. QED
    BY <2>2 DEF DrainInv, NoneForgotten, Settled, Excused
<1>5. NoneForgotten'
  BY <1>0, <1>4 DEF NoneForgotten, Settled, Excused
<1>6. NotAhead'
  BY <1>0, <1>2, <1>3, SeqTypes DEF DrainInv, NotAhead
<1>7. WorldPlaces' /\ WorkerPlaces'
  BY <1>0, <1>1 DEF DrainInv, WorldPlaces, WorkerPlaces
<1>8. AtRest'
  BY <1>0, <1>1 DEF BarrierRuns, AtRest, NoBarrierHeld, Draining
<1>9. QED
  BY <1>5, <1>6, <1>7, <1>8 DEF DrainInv, BarrierPlace

LEMMA RunExportDrain ==
  ASSUME IInv, DrainInv, RunExport
  PROVE  DrainInv'
<1>0. /\ wpc = "run" /\ wpc' = "pick" /\ batch' = {}
      /\ UNCHANGED <<seq, latest, queue, overflow, pending, phase, cur, held, db,
                     spilling, failed, dropped, stranded, drained>>
  BY DEF RunExport, worldVars, historyVars, excuses
<1>1. PICK j \in batch : /\ j.key = Export /\ batch = {j} /\ j \in Job
                         /\ retry' = retry \/ retry' = retry \union {j}
  BY <1>0 DEF RunExport, DrainInv, WorkerPlaces, exportVars
<1>2. Where' \subseteq Where /\ j \in Where
  BY <1>0 DEF Where
<1>3. Export \notin Keys /\ Export # Barrier
  BY QueueAssumption
<1>4. NotAhead'
  BY <1>0, <1>1, <1>2 DEF DrainInv, NotAhead
<1>5. NoneForgotten'
  <2>1. \A k \in Keys : Newest(k) # j
    BY <1>1, <1>3 DEF Newest, MkJob
  <2>2. \A k \in Keys : /\ Newest(k)' = Newest(k) /\ Settled(k)' = Settled(k)
                        /\ Carried(k) => Carried(k)'
    BY <1>0, <1>1, <2>1 DEF Newest, MkJob, Settled, Carried, Where, Excused
  <2>3. QED
    BY <1>0, <2>2 DEF DrainInv, NoneForgotten
<1>6. WorldPlaces' /\ WorkerPlaces'
  BY <1>0 DEF DrainInv, WorldPlaces, WorkerPlaces
<1>7. ~BarrierRuns
  <2>1. BarrierRuns => j = MkJob(Barrier, seq)
    BY <1>1 DEF BarrierRuns, Draining, DrainInv, WorldPlaces
  <2>2. QED
    BY <2>1, <1>1, <1>3 DEF MkJob
<1>8. BarrierPlace'
  BY <1>0, <1>7 DEF DrainInv, BarrierPlace, AtRest, BarrierQueued, BarrierAside,
                    NoBarrierHeld, Draining
<1>9. QED
  BY <1>4, <1>5, <1>6, <1>8 DEF DrainInv

LEMMA WorkerDrain ==
  ASSUME IInv, DrainInv, Worker
  PROVE  DrainInv'
BY PickOverflowDrain, PickPendingDrain, PickWaitDrain, ReceiveDrain, ReceiveClosedDrain,
   CollectDrain, CollectEndDrain, LockDrain, WriteDrain, RunBarrierDrain, RunExportDrain
   DEF Worker

(* A retry timer runs only while no barrier is on its way.                 *)
LEMMA RetryDrain ==
  ASSUME IInv, DrainInv, Retry
  PROVE  DrainInv'
<1>0. /\ phase \in {"idle", "insert", "tx"}
      /\ UNCHANGED <<seq, latest, overflow, workerVars, worldVars, db, failed, dropped,
                     stranded, drained>>
  BY DEF Retry, historyVars, excuses
<1>1. PICK j \in retry : /\ retry' = retry \ {j}
                         /\ \/ UNCHANGED <<queue, spilling>>
                            \/ /\ Len(queue) < QueueCap
                               /\ queue' = Append(queue, j) /\ UNCHANGED spilling
                            \/ spilling' = spilling \union {j} /\ UNCHANGED queue
  BY DEF Retry
<1>2. /\ j \in Job /\ j.key = Export /\ j.seq <= seq
      /\ Export \notin Keys /\ Export # Barrier /\ queue \in Seq(Job)
  BY DrainTypes, QueueAssumption DEF DrainInv, NotAhead
<1>3. ~Draining /\ AtRest
  BY <1>0 DEF DrainInv, BarrierPlace, BarrierQueued, BarrierAside, BarrierRuns, Draining
<1>4. /\ Where' \subseteq Where \union {j}
      /\ \A k \in Keys : Newest(k) \in Where => Newest(k) \in Where'
      /\ queue' = queue \/ (queue' # <<>> /\ queue'[1].key # Barrier)
      /\ AtRest'
  <2>1. CASE UNCHANGED queue
    BY <2>1, <1>0, <1>3 DEF Where, AtRest, NoBarrierHeld, Draining, workerVars, worldVars
  <2>2. CASE Len(queue) < QueueCap /\ queue' = Append(queue, j)
    <3>1. /\ JobsIn(queue') = JobsIn(queue) \union {j} /\ queue' # <<>>
          /\ \A i \in 1..Len(queue') : queue'[i] \in JobsIn(queue) \union {j}
      BY <1>2, <2>2, AppendJobs
    <3>2. \A x \in JobsIn(queue) : x.key # Barrier
      BY <1>3 DEF AtRest, JobsIn
    <3>3. \A i \in 1..Len(queue') : queue'[i].key # Barrier
      BY <3>1, <3>2, <1>2
    <3>4. AtRest'
      BY <1>0, <1>3, <3>3 DEF AtRest, NoBarrierHeld, Draining, workerVars, worldVars
    <3>5. 1 \in 1..Len(queue')
      BY <1>2, <2>2
    <3>6. Where' = Where \union {j}
      BY <1>0, <2>2, <3>1 DEF Where, workerVars, worldVars
    <3>7. QED
      BY <3>1, <3>3, <3>4, <3>5, <3>6
  <2>3. QED
    BY <2>1, <2>2, <1>1
<1>5. NotAhead'
  BY <1>0, <1>1, <1>2, <1>4 DEF DrainInv, NotAhead, worldVars
<1>6. NoneForgotten'
  <2>1. \A k \in Keys : /\ Newest(k)' = Newest(k) /\ Settled(k)' = Settled(k)
                        /\ Carried(k) => Carried(k)'
    BY <1>0, <1>4 DEF Newest, MkJob, Settled, Excused, Carried, worldVars
  <2>2. QED
    BY <1>0, <2>1 DEF DrainInv, NoneForgotten
<1>7. WorldPlaces'
  BY <1>0 DEF DrainInv, WorldPlaces, worldVars
<1>8. WorkerPlaces'
  <2>1. Passed => Passed'
    BY <1>0, PassedStays
  <2>2. QED
    BY <2>1, <1>0, <1>4 DEF DrainInv, WorkerPlaces, workerVars
<1>9. QED
  BY <1>4, <1>5, <1>6, <1>7, <1>8 DEF DrainInv, BarrierPlace

LEMMA RetryInsertDrain ==
  ASSUME IInv, DrainInv, RetryInsert
  PROVE  DrainInv'
<1>1. PICK j \in spilling : /\ overflow' = Coalesce(overflow, j)
                            /\ spilling' = spilling \ {j}
  BY DEF RetryInsert
<1>0. UNCHANGED <<seq, latest, queue, wpc, batch, pending, phase, cur, held, db, retry,
                  failed, dropped, stranded, drained>>
  BY DEF RetryInsert, workerVars, worldVars, historyVars, excuses
<1>2. /\ j.key = Export /\ j.seq <= seq
      /\ Export \notin Keys /\ Export # Barrier
  BY QueueAssumption DEF DrainInv, NotAhead
<1>3. phase \notin {"flushSend", "closeSend", "flushWait", "closeWait"}
  BY DEF DrainInv, WorldPlaces
<1>4. Where' \subseteq Where \union {j}
  BY <1>0, <1>1 DEF Where, Coalesce
<1>5. ASSUME NEW k \in Keys, Newest(k) \in Where PROVE Newest(k) \in Where'
  <2>1. Newest(k).key # j.key
    BY <1>2 DEF Newest, MkJob
  <2>2. Newest(k) \in overflow => Newest(k) \in overflow'
    BY <1>1, <2>1 DEF Coalesce
  <2>3. QED
    BY <1>5, <2>2, <1>0 DEF Where
<1>6. NotAhead'
  BY <1>0, <1>1, <1>2, <1>3, <1>4 DEF DrainInv, NotAhead
<1>7. NoneForgotten'
  <2>1. \A k \in Keys : /\ Newest(k)' = Newest(k) /\ Settled(k)' = Settled(k)
                        /\ Carried(k) => Carried(k)'
    BY <1>0, <1>5 DEF Newest, MkJob, Settled, Excused, Carried
  <2>2. QED
    BY <1>0, <2>1 DEF DrainInv, NoneForgotten
<1>8. WorldPlaces'
  BY <1>0, <1>3 DEF DrainInv, WorldPlaces
<1>9. WorkerPlaces'
  <2>1. \A x \in overflow' : x \in overflow \/ x = j
    BY <1>1 DEF Coalesce
  <2>2. Passed => Passed'
    BY <2>1, <1>0, <1>2, PassedStays
  <2>3. QED
    BY <2>1, <2>2, <1>0, <1>2 DEF DrainInv, WorkerPlaces
<1>10. BarrierPlace'
  BY <1>0, <1>3 DEF DrainInv, BarrierPlace, AtRest, BarrierQueued, BarrierAside,
                    BarrierRuns, NoBarrierHeld, Draining
<1>11. QED
  BY <1>6, <1>7, <1>8, <1>9, <1>10 DEF DrainInv

(* A new process carries nothing, and begins with what is stored.          *)
LEMMA CrashDrain ==
  ASSUME IInv, DrainInv, Crash
  PROVE  DrainInv'
<1>0. /\ latest' = db' /\ queue' = <<>> /\ overflow' = {}
      /\ retry' = {} /\ spilling' = {}
      /\ wpc' = "pick" /\ batch' = {} /\ pending' = NoJob /\ phase' = "idle"
      /\ UNCHANGED <<seq, drained>>
  BY DEF Crash
<1>1. Where' = {}
  BY <1>0, NoJobs DEF Where
<1>2. NoneForgotten' /\ NotAhead'
  BY <1>0, <1>1 DEF DrainInv, NoneForgotten, NotAhead, Settled
<1>3. WorldPlaces' /\ WorkerPlaces'
  BY <1>0 DEF WorldPlaces, WorkerPlaces
<1>4. AtRest'
  <2>1. \A i \in 1..Len(queue') : FALSE
    BY <1>0
  <2>2. QED
    BY <1>0, <2>1 DEF AtRest, NoBarrierHeld, Draining
<1>5. QED
  BY <1>2, <1>3, <1>4 DEF DrainInv, BarrierPlace

LEMMA StutterDrain == ASSUME DrainInv, UNCHANGED vars PROVE DrainInv'
<1>0. UNCHANGED <<seq, latest, queue, overflow, wpc, batch, pending, phase, cur, held, db,
                  retry, spilling, failed, dropped, stranded, drained>>
  BY DEF vars, workerVars, worldVars, exportVars, historyVars, excuses
<1>1. Where' = Where
  BY <1>0 DEF Where
<1>2. NoneForgotten' /\ NotAhead'
  BY <1>0, <1>1, Moved DEF DrainInv, Excused
<1>3. WorldPlaces' /\ WorkerPlaces' /\ BarrierPlace'
  BY <1>0 DEF DrainInv, WorldPlaces, WorkerPlaces, BarrierPlace, AtRest, BarrierQueued,
              BarrierAside, BarrierRuns, NoBarrierHeld, Draining, Passed, Newest
<1>4. QED
  BY <1>2, <1>3 DEF DrainInv

LEMMA NextDrain ==
  ASSUME IInv, DrainInv, [Next]_vars PROVE DrainInv'
<1>1. CASE UNCHANGED vars
  BY <1>1, StutterDrain
<1>2. CASE Next
  BY <1>2, WorldDrain, WorkerDrain, RetryDrain, RetryInsertDrain, CrashDrain DEF Next
<1>3. QED
  BY <1>1, <1>2

LEMMA DrainInvDrains == ASSUME IInv, DrainInv PROVE BarrierDrains
<1> SUFFICES ASSUME NEW k \in Keys, latest[k] <= drained
             PROVE  db[k] = latest[k] \/ k \in Excused
  BY DEF BarrierDrains
<1>1. ~(drained < latest[k])
  BY SeqTypes
<1>2. QED
  BY <1>1 DEF DrainInv, NoneForgotten, Settled

(* Flush and Close (postgres.go) confirm a barrier only when the newest    *)
(* snapshot of every key stamped before it is in the database, or its own  *)
(* write failed, or it met with one of two accidents: it was put aside     *)
(* and overwritten there, or it entered the overflow of a worker already   *)
(* asleep.  Whatever is in the channel, in the overflow, in the batch, put *)
(* aside, superseded, retried, or lost in a crash, there is no third one.  *)
THEOREM BarriersDrain == Spec => []BarrierDrains
<1>1. Init => DrainInv
  BY InitDrainInv
<1>2. IInv /\ DrainInv /\ [Next]_vars => DrainInv'
  BY NextDrain
<1>3. IInv /\ DrainInv => BarrierDrains
  BY DrainInvDrains
<1>4. QED
  BY <1>1, <1>2, <1>3, SpecIInv, PTL DEF Spec

-----------------------------------------------------------------------------
(* The fences as PostgresQueue uses them: two goroutines of KeyLocks.      *)

queueFences ==
  [g \in {"World", "persistLoop"} |-> IF g = "World" THEN held ELSE fenced]

QueueFences == INSTANCE KeyLocks WITH Goroutines <- {"World", "persistLoop"},
                                      owned <- queueFences

(* Whoever waits for nothing but a fence or the database has fences, and   *)
(* nobody else has.                                                        *)
FencesHeld ==
  /\ phase \notin {"insert", "tx"} => held = {}
  /\ wpc # "write" => fenced = {}
  /\ held \intersect fenced = {}

NoBarrierOf(jobs) == \A j \in jobs : j.key # Barrier
NoBarrierIn(q) == \A i \in 1..Len(q) : q[i].key # Barrier
OneBarrierIn(q) ==
  \A i, m \in 1..Len(q) : q[i].key = Barrier /\ q[m].key = Barrier => i = m
Aside == pending # NoJob /\ pending.key = Barrier

NeverBarriers ==
  /\ phase \in {"insert", "tx"} => cur.key # Barrier
  /\ NoBarrierOf(retry \union spilling) /\ NoBarrierOf(overflow)

(* There is one barrier at most, and the World waits for it: who confirms  *)
(* it wakes a World that has no fences.                                    *)
OneBarrier ==
  /\ OneBarrierIn(queue)
  /\ NoBarrierIn(queue) \/ (Draining /\ ~Aside /\ NoBarrierOf(batch))
  /\ ~Aside \/ (Draining /\ NoBarrierOf(batch))
  /\ NoBarrierOf(batch) \/ Draining

FenceUse == FencesHeld /\ NeverBarriers /\ OneBarrier

LEMMA QueueGrows ==
  ASSUME NEW q \in Seq(Job), NEW j \in Job
  PROVE  /\ NoBarrierIn(q) /\ j.key # Barrier => NoBarrierIn(Append(q, j))
         /\ OneBarrierIn(q) /\ j.key # Barrier => OneBarrierIn(Append(q, j))
         /\ NoBarrierIn(q) => OneBarrierIn(Append(q, j))
<1> DEFINE a == Append(q, j)
<1>1. /\ Len(a) = Len(q) + 1 /\ Len(q) \in Nat /\ a[Len(q) + 1] = j
      /\ \A i \in 1..Len(q) : a[i] = q[i]
  OBVIOUS
<1> HIDE DEF a
<1>2. \A i \in 1..Len(a) : (i \in 1..Len(q) /\ a[i] = q[i]) \/ (i = Len(q) + 1 /\ a[i] = j)
  BY <1>1
<1>3. QED
  BY <1>2 DEF NoBarrierIn, OneBarrierIn, a

LEMMA QueueShrinks ==
  ASSUME NEW q \in Seq(Job), q # <<>>
  PROVE  /\ Head(q) \in Job /\ Tail(q) \in Seq(Job)
         /\ NoBarrierIn(q) => NoBarrierIn(Tail(q)) /\ Head(q).key # Barrier
         /\ OneBarrierIn(q) => OneBarrierIn(Tail(q))
         /\ OneBarrierIn(q) /\ Head(q).key = Barrier => NoBarrierIn(Tail(q))
<1> DEFINE t == Tail(q)
<1>1. /\ Head(q) = q[1] /\ 1 \in 1..Len(q) /\ Head(q) \in Job /\ t \in Seq(Job)
      /\ \A i \in 1..Len(t) : i + 1 \in 1..Len(q) /\ t[i] = q[i + 1]
  BY TailJobs
<1>2. \A i \in 1..Len(t) : i \in Nat /\ i >= 1
  BY <1>1
<1> HIDE DEF t
<1>3. NoBarrierIn(q) => NoBarrierIn(t) /\ Head(q).key # Barrier
  BY <1>1 DEF NoBarrierIn
<1>4. OneBarrierIn(q) => OneBarrierIn(t)
  <2>1. ASSUME OneBarrierIn(q), NEW i \in 1..Len(t), NEW m \in 1..Len(t),
               t[i].key = Barrier, t[m].key = Barrier
        PROVE  i = m
    <3>1. i + 1 = m + 1
      BY <1>1, <2>1 DEF OneBarrierIn
    <3>2. QED
      BY <1>2, <3>1
  <2>2. QED
    BY <2>1 DEF OneBarrierIn
<1>5. OneBarrierIn(q) /\ Head(q).key = Barrier => NoBarrierIn(t)
  <2>1. ASSUME OneBarrierIn(q), q[1].key = Barrier, NEW i \in 1..Len(t), t[i].key = Barrier
        PROVE  FALSE
    <3>1. i + 1 = 1
      BY <1>1, <2>1 DEF OneBarrierIn
    <3>2. QED
      BY <1>2, <3>1
  <2>2. QED
    BY <1>1, <2>1 DEF NoBarrierIn
<1>6. QED
  BY <1>1, <1>3, <1>4, <1>5 DEF t

LEMMA InitFenceUse == Init => FenceUse
<1> SUFFICES ASSUME Init PROVE FenceUse
  OBVIOUS
<1>1. FencesHeld /\ NeverBarriers
  BY DEF Init, FencesHeld, NeverBarriers, NoBarrierOf
<1>2. OneBarrierIn(queue) /\ NoBarrierIn(queue)
  BY DEF Init, OneBarrierIn, NoBarrierIn
<1>3. QED
  BY <1>1, <1>2 DEF Init, FenceUse, OneBarrier, NoBarrierOf, Aside

(* What a call of the World leaves that ends, or that goes on to insert.   *)
LEMMA CallEnqueues ==
  ASSUME IInv, FenceUse, NEW j \in Job, j.key # Barrier, Enqueue(j), ~Draining,
         UNCHANGED <<overflow, workerVars, retry, spilling>>, held' \intersect fenced = {}
  PROVE  FenceUse' /\ (held' = {} \/ Len(queue) = QueueCap)
<1>1. NoBarrierIn(queue) /\ ~Aside /\ NoBarrierOf(batch) /\ queue \in Seq(Job)
  BY DrainTypes DEF FenceUse, OneBarrier
<1>2. NoBarrierIn(queue') /\ OneBarrierIn(queue')
  BY <1>1, QueueGrows DEF Enqueue, NoBarrierIn, OneBarrierIn
<1>3. OneBarrier'
  BY <1>1, <1>2 DEF OneBarrier, Aside, NoBarrierOf, workerVars
<1>4. FencesHeld' /\ (held' = {} \/ Len(queue) = QueueCap)
  BY DEF Enqueue, FenceUse, FencesHeld, workerVars
<1>5. NeverBarriers'
  BY DEF Enqueue, FenceUse, NeverBarriers, NoBarrierOf
<1>6. QED
  BY <1>3, <1>4, <1>5 DEF FenceUse

(* What the World has its fences for: a step takes them all or lets them   *)
(* all go.                                                                 *)
Whole(old, new) == old = {} \/ new = {} \/ new = old

LEMMA WorldFences ==
  ASSUME IInv, FenceUse, World
  PROVE  FenceUse' /\ UNCHANGED fenced /\ Whole(held, held')
<1>1. ASSUME NEW k \in Keys, SaveAsync(k)
      PROVE  FenceUse' /\ UNCHANGED fenced /\ Whole(held, held')
  <2>1. MkJob(k, seq + 1) \in Job /\ MkJob(k, seq + 1).key # Barrier
    <3>1. seq \in 0..MaxSeq /\ seq < MaxSeq
      BY <1>1 DEF SaveAsync, Callable, IInv, TypeOK
    <3>2. QED
      BY <3>1, NextJob, DrainTypes DEF MkJob
  <2>2. ~Draining /\ held = {}
    BY <1>1 DEF SaveAsync, Callable, Draining, FenceUse, FencesHeld
  <2>3. held' \in {{}, {k}} /\ held' \intersect fenced = {}
    BY <1>1 DEF SaveAsync, Enqueue
  <2>4. UNCHANGED <<overflow, workerVars, retry, spilling>>
    BY <1>1 DEF SaveAsync, exportVars
  <2>5. QED
    BY <1>1, <2>1, <2>2, <2>3, <2>4, CallEnqueues DEF SaveAsync, Whole, workerVars
<1>2. CASE InsertOverflow
  <2>1. NoBarrierOf(overflow')
    BY <1>2 DEF InsertOverflow, Coalesce, FenceUse, NeverBarriers, NoBarrierOf
  <2>2. OneBarrier'
    BY <1>2 DEF InsertOverflow, FenceUse, OneBarrier, Draining, Aside, workerVars
  <2>3. QED
    BY <1>2, <2>1, <2>2 DEF InsertOverflow, FenceUse, FencesHeld, NeverBarriers, Whole,
       workerVars, exportVars
<1>3. ASSUME NEW K \in CriticalSets, NEW guilds \in BOOLEAN, SaveBegin(K, guilds)
      PROVE  FenceUse' /\ UNCHANGED fenced /\ Whole(held, held')
  <2>1. held = {} /\ ~Draining
    BY <1>3 DEF SaveBegin, Callable, Draining, FenceUse, FencesHeld
  <2>2. OneBarrier'
    BY <1>3, <2>1 DEF SaveBegin, FenceUse, OneBarrier, Draining, Aside, workerVars
  <2>3. FencesHeld'
    BY <1>3 DEF SaveBegin, FenceUse, FencesHeld, workerVars
  <2>4. NeverBarriers'
    BY <1>3, QueueAssumption DEF SaveBegin, MkJob, FenceUse, NeverBarriers, exportVars
  <2>5. QED
    BY <1>3, <2>1, <2>2, <2>3, <2>4 DEF SaveBegin, FenceUse, Whole, workerVars
<1>4. CASE SaveCommit
  <2>1. ~Draining /\ cur \in Job /\ cur.key # Barrier
    BY <1>4 DEF SaveCommit, Draining, IInv, TxIsLatest, FenceUse, NeverBarriers
  <2>2. CASE exporting
    <3>1. /\ Enqueue(cur) /\ UNCHANGED <<overflow, workerVars, retry, spilling>>
          /\ Len(queue) = QueueCap => held' = held
      BY <1>4, <2>2, DrainTypes DEF SaveCommit
    <3>2. held' \in {{}, held}
      BY <3>1 DEF Enqueue
    <3>3. held' \intersect fenced = {}
      BY <3>2 DEF FenceUse, FencesHeld
    <3>4. FenceUse'
      BY <2>1, <3>1, <3>3, CallEnqueues
    <3>5. QED
      BY <3>1, <3>2, <3>4 DEF Whole, workerVars
  <2>3. CASE ~exporting
    <3>1. OneBarrier'
      BY <1>4, <2>1, <2>3 DEF SaveCommit, FenceUse, OneBarrier, Draining, Aside, workerVars
    <3>2. QED
      BY <1>4, <2>3, <3>1 DEF SaveCommit, FenceUse, FencesHeld, NeverBarriers, Whole, workerVars
  <2>4. QED
    BY <2>2, <2>3
<1>5. CASE SaveFail
  <2>1. OneBarrier'
    BY <1>5 DEF SaveFail, FenceUse, OneBarrier, Draining, Aside, workerVars
  <2>2. QED
    BY <1>5, <2>1 DEF SaveFail, FenceUse, FencesHeld, NeverBarriers, Whole, workerVars,
       exportVars
<1>6. CASE FlushBegin
  <2>1. OneBarrier'
    BY <1>6 DEF FlushBegin, Callable, FenceUse, OneBarrier, Draining, Aside, workerVars
  <2>2. QED
    BY <1>6, <2>1 DEF FlushBegin, Callable, FenceUse, FencesHeld, NeverBarriers, Whole,
       workerVars, exportVars
<1>7. CASE FlushSend
  <2>1. ~Draining /\ Draining' /\ cur \in Job /\ queue \in Seq(Job)
    BY <1>7, DrainTypes DEF FlushSend, Draining, IInv, CurPresent
  <2>2. NoBarrierIn(queue) /\ ~Aside /\ NoBarrierOf(batch)
    BY <2>1 DEF FenceUse, OneBarrier
  <2>3. OneBarrierIn(queue') /\ ~Aside' /\ NoBarrierOf(batch')
    BY <1>7, <2>1, <2>2, QueueGrows DEF FlushSend, Aside, workerVars
  <2>4. OneBarrier'
    BY <2>1, <2>3 DEF OneBarrier
  <2>5. QED
    BY <1>7, <2>4 DEF FlushSend, FenceUse, FencesHeld, NeverBarriers, Whole,
       workerVars, exportVars
<1>8. QED
  BY <1>1, <1>2, <1>3, <1>4, <1>5, <1>6, <1>7 DEF World

(* A step of the worker that neither takes nor gives back a fence and      *)
(* leaves the World, the overflow and the timers alone.                    *)
LEMMA WorkerMoves ==
  ASSUME FenceUse, OneBarrier', wpc # "write", wpc' # "write", NoBarrierOf(overflow'),
         UNCHANGED <<fenced, phase, held, cur, retry,
                   spilling>>
  PROVE  FenceUse'
BY DEF FenceUse, FencesHeld, NeverBarriers, NoBarrierOf

LEMMA WorkerFences ==
  ASSUME IInv, FenceUse, Worker
  PROVE  FenceUse' /\ UNCHANGED held /\ Whole(fenced, fenced')
<1>0. queue \in Seq(Job) /\ NoBarrierOf(overflow)
  BY DrainTypes DEF FenceUse, NeverBarriers
<1>1. CASE PickOverflow
  <2>1. NoBarrierOf(batch') /\ NoBarrierOf(overflow') /\ wpc' # "write"
    BY <1>0, <1>1 DEF PickOverflow, Older, Start, NoBarrierOf
  <2>2. OneBarrier'
    BY <1>1, <2>1 DEF PickOverflow, FenceUse, OneBarrier, Draining, Aside, worldVars
  <2>3. QED
    BY <1>1, <2>1, <2>2, WorkerMoves DEF PickOverflow, Whole, worldVars, exportVars
<1>2. CASE PickPending
  <2>1. ~Aside' /\ wpc' # "write" /\ (Aside \/ NoBarrierOf(batch'))
    BY <1>2 DEF PickPending, Start, Aside, NoBarrierOf
  <2>2. Aside => NoBarrierIn(queue) /\ Draining
    BY DEF FenceUse, OneBarrier
  <2>3. OneBarrier'
    BY <1>2, <2>1, <2>2 DEF PickPending, FenceUse, OneBarrier, Draining, worldVars
  <2>4. QED
    BY <1>0, <1>2, <2>1, <2>3, WorkerMoves DEF PickPending, Whole, worldVars, exportVars
<1>3. CASE PickWait \/ ReceiveClosed \/ CollectEnd
  <2>1. OneBarrier'
    BY <1>3 DEF PickWait, ReceiveClosed, CollectEnd, FenceUse, OneBarrier, Draining, Aside,
       worldVars
  <2>2. QED
    BY <1>0, <1>3, <2>1, WorkerMoves
       DEF PickWait, ReceiveClosed, CollectEnd, Whole, worldVars, exportVars
<1>4. CASE Receive
  <2>1. queue # <<>> /\ batch' = {Head(queue)} /\ queue' = Tail(queue) /\ wpc' # "write"
        /\ UNCHANGED <<pending, phase>>
    BY <1>4 DEF Receive, Start, worldVars
  <2>2. CASE Head(queue).key = Barrier
    <3>1. ~NoBarrierIn(queue) /\ NoBarrierIn(queue') /\ OneBarrierIn(queue')
      BY <1>0, <2>1, <2>2, QueueShrinks DEF FenceUse, OneBarrier
    <3>2. QED
      BY <1>0, <1>4, <2>1, <3>1, WorkerMoves
         DEF Receive, FenceUse, OneBarrier, Draining, Aside, Whole, worldVars, exportVars
  <2>3. CASE Head(queue).key # Barrier
    <3>1. /\ NoBarrierIn(queue) => NoBarrierIn(queue')
          /\ OneBarrierIn(queue')
      BY <1>0, <2>1, QueueShrinks DEF FenceUse, OneBarrier
    <3>2. NoBarrierOf(batch')
      BY <2>1, <2>3 DEF NoBarrierOf
    <3>3. OneBarrier'
      BY <2>1, <3>1, <3>2 DEF FenceUse, OneBarrier, Draining, Aside
    <3>4. QED
      BY <1>0, <1>4, <2>1, <3>3, WorkerMoves DEF Receive, Whole, worldVars, exportVars
  <2>4. QED
    BY <2>2, <2>3
<1>5. CASE Collect
  <2>1. /\ queue # <<>> /\ queue' = Tail(queue) /\ wpc' # "write" /\ UNCHANGED phase
        /\ NoBarrierOf(batch)
    BY <1>5, DrainTypes DEF Collect, IInv, BatchKind, NoBarrierOf, worldVars
  <2>2. /\ NoBarrierIn(queue) => NoBarrierIn(queue') /\ Head(queue).key # Barrier
        /\ OneBarrierIn(queue')
        /\ Head(queue).key = Barrier => NoBarrierIn(queue')
    BY <1>0, <2>1, QueueShrinks DEF FenceUse, OneBarrier
  <2>3. CASE (\E j \in batch : SameKind(j, Head(queue)))
             /\ batch' = CollectInto(batch, Head(queue)) /\ UNCHANGED pending
    <3>1. Head(queue).key # Barrier
      BY <2>3, DrainTypes DEF SameKind, Keys
    <3>2. NoBarrierOf(batch')
      BY <2>1, <2>3, <3>1 DEF CollectInto, Coalesce, NoBarrierOf
    <3>3. QED
      BY <2>1, <2>2, <2>3, <3>2, <1>0, <1>5, WorkerMoves
         DEF Collect, FenceUse, OneBarrier, Draining, Aside, Whole, worldVars, exportVars
  <2>4. CASE pending' = Head(queue) /\ UNCHANGED batch
    <3>1. NoBarrierOf(batch')
      BY <2>1, <2>4
    <3>2. Aside' => Head(queue).key = Barrier
      BY <2>4 DEF Aside
    <3>3. OneBarrier'
      BY <2>1, <2>2, <3>1, <3>2 DEF FenceUse, OneBarrier, Draining
    <3>4. QED
      BY <1>0, <1>5, <2>1, <3>3, WorkerMoves DEF Collect, Whole, worldVars, exportVars
  <2>5. QED
    BY <1>5, <2>3, <2>4 DEF Collect
<1>6. CASE Lock
  <2>1. fenced = {} /\ UNCHANGED <<queue, overflow, pending, phase, held, cur, retry,
                   spilling>>
    BY <1>6 DEF Lock, FenceUse, FencesHeld, worldVars, exportVars
  <2>2. NoBarrierOf(batch) => NoBarrierOf(batch')
    BY <1>6 DEF Lock, NoBarrierOf
  <2>3. OneBarrier'
    BY <2>1, <2>2 DEF FenceUse, OneBarrier, Draining, Aside
  <2>4. FencesHeld'
    BY <1>6, <2>1 DEF Lock, FenceUse, FencesHeld
  <2>5. QED
    BY <2>1, <2>3, <2>4 DEF FenceUse, NeverBarriers, NoBarrierOf, Whole
<1>7. CASE Write
  <2>1. OneBarrier'
    BY <1>7 DEF Write, FenceUse, OneBarrier, Draining, Aside, NoBarrierOf, worldVars
  <2>2. QED
    BY <1>7, <2>1 DEF Write, FenceUse, FencesHeld, NeverBarriers, NoBarrierOf, Whole,
       worldVars, exportVars
<1>8. CASE RunBarrier
  <2>1. ~NoBarrierOf(batch) /\ batch' = {} /\ UNCHANGED <<queue, pending>>
    BY <1>8 DEF RunBarrier, NoBarrierOf
  <2>2. Draining /\ NoBarrierIn(queue) /\ ~Aside /\ held = {} /\ fenced = {}
    BY <1>8, <2>1 DEF RunBarrier, FenceUse, FencesHeld, OneBarrier, Draining
  <2>3. OneBarrier'
    BY <2>1, <2>2 DEF FenceUse, OneBarrier, Aside, NoBarrierOf
  <2>4. QED
    BY <1>8, <2>2, <2>3 DEF RunBarrier, FenceUse, FencesHeld, NeverBarriers, NoBarrierOf,
       Whole, exportVars
<1>9. CASE RunExport
  <2>1. batch' = {} /\ UNCHANGED <<queue, pending, phase, held, cur, fenced, overflow,
                                     spilling>>
        /\ fenced = {} /\ wpc' = "pick"
    BY <1>9 DEF RunExport, FenceUse, FencesHeld, worldVars
  <2>2. OneBarrier'
    BY <2>1 DEF FenceUse, OneBarrier, Draining, Aside, NoBarrierOf
  <2>3. NoBarrierOf(retry' \union spilling')
    BY <1>9, QueueAssumption DEF RunExport, FenceUse, NeverBarriers, NoBarrierOf
  <2>4. QED
    BY <2>1, <2>2, <2>3 DEF FenceUse, FencesHeld, NeverBarriers, NoBarrierOf, Whole
<1>10. QED
  BY <1>1, <1>2, <1>3, <1>4, <1>5, <1>6, <1>7, <1>8, <1>9 DEF Worker

LEMMA RetryFences ==
  ASSUME IInv, FenceUse, Retry
  PROVE  FenceUse' /\ UNCHANGED <<held, fenced>>
<1>1. PICK j \in retry :
        /\ retry' = retry \ {j}
        /\ \/ UNCHANGED <<queue, spilling>>
           \/ queue' = Append(queue, j) /\ UNCHANGED spilling
           \/ spilling' = spilling \union {j} /\ UNCHANGED queue
  BY DEF Retry
<1>2. j \in Job /\ j.key # Barrier /\ queue \in Seq(Job)
  BY DrainTypes DEF FenceUse, NeverBarriers, NoBarrierOf
<1>3. NoBarrierOf(retry' \union spilling') /\ NoBarrierOf(overflow')
  BY <1>1, <1>2 DEF Retry, FenceUse, NeverBarriers, NoBarrierOf
<1>4. OneBarrierIn(queue') /\ (NoBarrierIn(queue) => NoBarrierIn(queue'))
  BY <1>1, <1>2, QueueGrows DEF FenceUse, OneBarrier
<1>5. UNCHANGED <<batch, pending, phase, held, fenced, cur, wpc>>
  BY DEF Retry, workerVars, worldVars
<1>6. OneBarrier'
  BY <1>4, <1>5 DEF FenceUse, OneBarrier, Draining, Aside, NoBarrierOf
<1>7. QED
  BY <1>3, <1>5, <1>6 DEF FenceUse, FencesHeld, NeverBarriers

LEMMA RetryInsertFences ==
  ASSUME IInv, FenceUse, RetryInsert
  PROVE  FenceUse' /\ UNCHANGED <<held, fenced>>
<1>1. UNCHANGED <<queue, batch, pending, phase, held, fenced, cur, wpc, retry>>
  BY DEF RetryInsert, workerVars, worldVars
<1>2. NoBarrierOf(retry' \union spilling') /\ NoBarrierOf(overflow')
  BY DEF RetryInsert, Coalesce, FenceUse, NeverBarriers, NoBarrierOf
<1>3. OneBarrier'
  BY <1>1 DEF FenceUse, OneBarrier, Draining, Aside, NoBarrierOf
<1>4. QED
  BY <1>1, <1>2, <1>3 DEF FenceUse, FencesHeld, NeverBarriers

LEMMA CrashFences == ASSUME Crash PROVE FenceUse'
<1>1. OneBarrierIn(queue') /\ NoBarrierIn(queue')
  BY DEF Crash, OneBarrierIn, NoBarrierIn
<1>2. QED
  BY <1>1 DEF Crash, FenceUse, FencesHeld, NeverBarriers, OneBarrier, NoBarrierOf, Aside

(* One of the two takes a set of keys that the other has none of, or lets  *)
(* go of all it has.                                                       *)
LEMMA WholeSetsMove ==
  ASSUME FencesHeld', held' \in SUBSET Keys, fenced' \in SUBSET Keys,
         \/ UNCHANGED fenced /\ Whole(held, held')
         \/ UNCHANGED held /\ Whole(fenced, fenced')
  PROVE  [QueueFences!Next]_queueFences
<1> DEFINE G == {"World", "persistLoop"}
<1>1. /\ queueFences["World"] = held /\ queueFences["persistLoop"] = fenced
      /\ queueFences'["World"] = held' /\ queueFences'["persistLoop"] = fenced'
  BY DEF queueFences
<1>2. ASSUME NEW g \in G, NEW new \in SUBSET Keys, queueFences[g] = {}, new # {},
             \A h \in G : queueFences[h] \intersect new = {},
             queueFences' = [queueFences EXCEPT ![g] = new]
      PROVE  QueueFences!Next
  BY <1>2 DEF QueueFences!Next, QueueFences!Acquire
<1>3. ASSUME NEW g \in G, queueFences[g] # {},
             queueFences' = [queueFences EXCEPT ![g] = {}]
      PROVE  QueueFences!Next
  BY <1>3 DEF QueueFences!Next, QueueFences!Release
<1>4. CASE UNCHANGED fenced /\ Whole(held, held')
  <2>1. queueFences' = [queueFences EXCEPT !["World"] = held']
    BY <1>4 DEF queueFences
  <2>2. CASE held' = held
    BY <1>4, <2>2 DEF queueFences
  <2>3. CASE held' # held /\ held = {}
    <3>1. held' # {} /\ held \intersect held' = {} /\ fenced \intersect held' = {}
      BY <1>4, <2>3 DEF FencesHeld
    <3>2. \A h \in G : queueFences[h] \intersect held' = {}
      BY <1>1, <3>1
    <3>3. QED
      BY <1>1, <1>2, <2>1, <2>3, <3>1, <3>2
  <2>4. CASE held' = {} /\ held # {}
    BY <1>1, <1>3, <2>1, <2>4
  <2>5. QED
    BY <1>4, <2>2, <2>3, <2>4 DEF Whole
<1>5. CASE UNCHANGED held /\ Whole(fenced, fenced')
  <2>1. queueFences' = [queueFences EXCEPT !["persistLoop"] = fenced']
    BY <1>5 DEF queueFences
  <2>2. CASE fenced' = fenced
    BY <1>5, <2>2 DEF queueFences
  <2>3. CASE fenced' # fenced /\ fenced = {}
    <3>1. fenced' # {} /\ fenced \intersect fenced' = {} /\ held \intersect fenced' = {}
      BY <1>5, <2>3 DEF FencesHeld
    <3>2. \A h \in G : queueFences[h] \intersect fenced' = {}
      BY <1>1, <3>1
    <3>3. QED
      BY <1>1, <1>2, <2>1, <2>3, <3>1, <3>2
  <2>4. CASE fenced' = {} /\ fenced # {}
    BY <1>1, <1>3, <2>1, <2>4
  <2>5. QED
    BY <1>5, <2>2, <2>3, <2>4 DEF Whole
<1>6. QED
  BY <1>4, <1>5

LEMMA NextFences ==
  IInv /\ IInv' /\ FenceUse /\ [Next]_vars
    => FenceUse' /\ (Crash \/ [QueueFences!Next]_queueFences)
<1> SUFFICES ASSUME IInv, IInv', FenceUse, [Next]_vars
             PROVE  FenceUse' /\ (Crash \/ [QueueFences!Next]_queueFences)
  OBVIOUS
<1>1. held' \in SUBSET Keys /\ fenced' \in SUBSET Keys
  BY DEF IInv, TypeOK
<1>2. CASE World
  BY <1>1, <1>2, WorldFences, WholeSetsMove DEF FenceUse
<1>3. CASE Worker
  BY <1>1, <1>3, WorkerFences, WholeSetsMove DEF FenceUse
<1>4. CASE Retry \/ RetryInsert
  BY <1>4, RetryFences, RetryInsertFences DEF queueFences
<1>5. CASE Crash
  BY <1>5, CrashFences
<1>6. CASE UNCHANGED vars
  <2>1. UNCHANGED <<queue, overflow, batch, pending, phase, held, fenced, cur, wpc, retry,
                   spilling>>
    BY <1>6 DEF vars, workerVars, worldVars, exportVars
  <2>2. QED
    BY <2>1 DEF FenceUse, FencesHeld, NeverBarriers, OneBarrier, OneBarrierIn, NoBarrierIn,
       NoBarrierOf, Draining, Aside, queueFences
<1>7. QED
  BY <1>2, <1>3, <1>4, <1>5, <1>6 DEF Next

(* Between two crashes World and persistLoop are two goroutines of         *)
(* KeyLocks: each takes the fences of a save or of a batch in one step,    *)
(* has none when it does, never one that the other has, and gives them     *)
(* back together (postgres.go, stampWriteJob to SavePlayerState, and the   *)
(* batch of persistLoop).  So FenceSet, which implements KeyLocks, is all  *)
(* that the steps of PostgresQueue ask of lock.                            *)
THEOREM QueueKeepsToKeyLocks ==
  Spec => QueueFences!Init /\ [][Crash \/ QueueFences!Next]_queueFences
<1>1. Init => FenceUse
  BY InitFenceUse
<1>2. Init => QueueFences!Init
  BY DEF Init, QueueFences!Init, queueFences
<1>3. IInv /\ IInv' /\ FenceUse /\ [Next]_vars
        => FenceUse' /\ [Crash \/ QueueFences!Next]_queueFences
  BY NextFences
<1>4. QED
  BY <1>1, <1>2, <1>3, SpecIInv, PTL DEF Spec

-----------------------------------------------------------------------------
(* The fences. *)

Users(k) == {g \in Goroutines : k \in want[g]}

(* What the program counter says about the keys registered and locked.     *)
Progress ==
  \A g \in Goroutines :
    /\ got[g] \subseteq want[g]
    /\ pc[g] = "idle" <=> want[g] = {}
    /\ pc[g] \in {"idle", "unlocked"} => got[g] = {}
    /\ pc[g] = "held" => got[g] = want[g]

(* A user of a key works with the entry the map holds for it.              *)
SameEntry ==
  \A g \in Goroutines, k \in FenceKeys :
    k \in want[g] => ptr[g][k] = entries[k] /\ entries[k] # NoEntry

Injective ==
  \A k, m \in FenceKeys : entries[k] = entries[m] /\ entries[k] # NoEntry => k = m

(* refs counts the users, and there is an entry only while there are some. *)
Counted ==
  \A k \in FenceKeys : entries[k] # NoEntry =>
    Users(k) # {} /\ refs[entries[k]] = Cardinality(Users(k))

Locked ==
  \A g \in Goroutines, k \in FenceKeys : k \in got[g] => mutex[entries[k]] = g

(* A goroutine that waits has only locked keys below those it lacks.       *)
Upward ==
  \A g \in Goroutines : pc[g] = "locking" =>
    \A k \in got[g], m \in want[g] \ got[g] : k < m

FenceInv == FenceTypeOK /\ Progress /\ SameEntry /\ Injective /\ Counted /\ Locked /\ Upward

-----------------------------------------------------------------------------
LEMMA UsersFinite ==
  ASSUME NEW k PROVE IsFiniteSet(Users(k)) /\ Cardinality(Users(k)) \in Nat
<1>1. IsFiniteSet(Users(k))
  BY FenceAssumption, FS_Subset, Users(k) \in SUBSET Goroutines DEF Users
<1>2. QED
  BY <1>1, FS_CardinalityType

LEMMA InitFenceInv == FenceInit => FenceInv
<1> SUFFICES ASSUME FenceInit PROVE FenceInv
  OBVIOUS
<1>1. FenceTypeOK
  BY DEF FenceInit, FenceTypeOK
<1>2. QED
  BY <1>1 DEF FenceInit, FenceInv, Progress, SameEntry, Injective, Counted, Locked, Upward

LEMMA RegisterStep ==
  ASSUME FenceInv, NEW g \in Goroutines, Register(g) PROVE FenceInv'
<1>0. PICK K \in (SUBSET FenceKeys) \ {{}} : \E new \in Allocations(K) :
       /\ entries' = [k \in FenceKeys |->
                        IF k \in Missing(K) THEN new[k] ELSE entries[k]]
       /\ refs' = [e \in Entries |->
                     IF \E k \in Missing(K) : new[k] = e THEN 1
                     ELSE IF \E k \in K : entries[k] = e THEN refs[e] + 1
                     ELSE refs[e]]
       /\ ptr' = [ptr EXCEPT ![g] =
                    [k \in FenceKeys |-> IF k \in K THEN entries'[k] ELSE NoEntry]]
       /\ want' = [want EXCEPT ![g] = K]
  BY DEF Register
<1>1. PICK new \in Allocations(K) :
       /\ entries' = [k \in FenceKeys |->
                        IF k \in Missing(K) THEN new[k] ELSE entries[k]]
       /\ refs' = [e \in Entries |->
                     IF \E k \in Missing(K) : new[k] = e THEN 1
                     ELSE IF \E k \in K : entries[k] = e THEN refs[e] + 1
                     ELSE refs[e]]
       /\ ptr' = [ptr EXCEPT ![g] =
                    [k \in FenceKeys |-> IF k \in K THEN entries'[k] ELSE NoEntry]]
       /\ want' = [want EXCEPT ![g] = K]
  BY <1>0
<1>2. /\ FenceTypeOK /\ pc[g] = "idle" /\ want[g] = {} /\ got[g] = {}
      /\ pc' = [pc EXCEPT ![g] = "locking"] /\ UNCHANGED <<mutex, got>>
  BY DEF FenceInv, Progress, Register
<1>3. /\ new \in [Missing(K) -> Unused] /\ Missing(K) \subseteq K /\ K \subseteq FenceKeys
      /\ \A k, m \in Missing(K) : new[k] = new[m] => k = m
      /\ \A k \in K : entries[k] = NoEntry <=> k \in Missing(K)
      /\ Unused \subseteq Entries
  BY DEF Allocations, Missing, Unused
<1>4. \A k \in Missing(K), m \in FenceKeys :
        new[k] \in Entries /\ new[k] # NoEntry /\ entries[m] # new[k]
  BY <1>3, FenceAssumption DEF Unused
<1>5. \A k \in FenceKeys : entries'[k] = IF k \in Missing(K) THEN new[k] ELSE entries[k]
  BY <1>1
<1>6. \A h \in Goroutines : want'[h] = IF h = g THEN K ELSE want[h]
  BY <1>1, <1>2 DEF FenceTypeOK
<1>7. \A h \in Goroutines : ptr'[h] = IF h = g
        THEN [k \in FenceKeys |-> IF k \in K THEN entries'[k] ELSE NoEntry] ELSE ptr[h]
  BY <1>1, <1>2 DEF FenceTypeOK
<1>8. FenceTypeOK'
  <2>1. entries' \in [FenceKeys -> Entries \union {NoEntry}]
    BY <1>1, <1>2, <1>4 DEF FenceTypeOK
  <2>2. refs' \in [Entries -> Nat]
    <3>1. refs \in [Entries -> Nat]
      BY <1>2 DEF FenceTypeOK
    <3>2. QED
      BY <1>1, <3>1
  <2>3. ptr' \in [Goroutines -> [FenceKeys -> Entries \union {NoEntry}]]
    BY <1>1, <1>2, <2>1 DEF FenceTypeOK
  <2>4. want' \in [Goroutines -> SUBSET FenceKeys]
    BY <1>1, <1>2 DEF FenceTypeOK
  <2>5. QED
    BY <1>2, <2>1, <2>2, <2>3, <2>4 DEF FenceTypeOK
<1>9. Progress'
  BY <1>2, <1>6 DEF FenceInv, Progress, FenceTypeOK
<1>10. SameEntry'
  <2>1. ASSUME NEW h \in Goroutines, NEW k \in FenceKeys, k \in want'[h]
        PROVE  ptr'[h][k] = entries'[k] /\ entries'[k] # NoEntry
    <3>1. CASE h = g
      BY <1>3, <1>4, <1>5, <1>6, <1>7, <2>1, <3>1
    <3>2. CASE h # g
      <4>1. k \in want[h] /\ ptr[h][k] = entries[k] /\ entries[k] # NoEntry
        BY <1>6, <2>1, <3>2 DEF FenceInv, SameEntry
      <4>2. k \notin Missing(K)
        BY <4>1 DEF Missing
      <4>3. QED
        BY <1>5, <1>7, <3>2, <4>1, <4>2
    <3>3. QED
      BY <3>1, <3>2
  <2>2. QED
    BY <2>1 DEF SameEntry
<1>11. Injective'
  BY <1>3, <1>4, <1>5 DEF FenceInv, Injective
<1>12. Counted'
  <2>1. ASSUME NEW k \in FenceKeys, entries'[k] # NoEntry
        PROVE  Users(k)' # {} /\ refs'[entries'[k]] = Cardinality(Users(k)')
    <3>1. entries'[k] \in Entries
      BY <1>8, <2>1 DEF FenceTypeOK
    <3>2. Users(k)' = IF k \in K THEN Users(k) \union {g} ELSE Users(k)
      BY <1>2, <1>6 DEF Users
    <3>3. g \notin Users(k)
      BY <1>2 DEF Users
    <3>4. CASE k \in Missing(K)
      <4>1. refs'[entries'[k]] = 1
        BY <1>1, <1>5, <3>1, <3>4
      <4>2. Users(k) = {}
        BY <3>4 DEF Users, FenceInv, SameEntry, Missing
      <4>3. Users(k)' = {g}
        BY <1>3, <3>2, <3>4, <4>2
      <4>4. QED
        BY <4>1, <4>3, FS_Singleton
    <3>5. CASE k \in K \ Missing(K)
      <4>1. entries'[k] = entries[k] /\ entries[k] # NoEntry
        BY <1>3, <1>5, <3>5
      <4>2. refs'[entries[k]] = refs[entries[k]] + 1
        <5>1. entries[k] \in Entries
          BY <3>1, <4>1
        <5>2. (~ \E m \in Missing(K) : new[m] = entries[k])
              /\ (\E m \in K : entries[m] = entries[k])
          BY <1>4, <3>5
        <5>3. QED
          BY <1>1, <5>1, <5>2
      <4>3. refs[entries[k]] = Cardinality(Users(k))
        BY <4>1 DEF FenceInv, Counted
      <4>4. Cardinality(Users(k) \union {g}) = Cardinality(Users(k)) + 1
        BY <3>3, UsersFinite, FS_AddElement
      <4>5. QED
        BY <3>2, <3>5, <4>1, <4>2, <4>3, <4>4
    <3>6. CASE k \notin K
      <4>1. entries'[k] = entries[k] /\ entries[k] # NoEntry
        BY <1>3, <1>5, <2>1, <3>6
      <4>2. \A m \in K : entries[m] # entries[k]
        BY <1>3, <3>6, <4>1 DEF FenceInv, Injective
      <4>3. refs'[entries[k]] = refs[entries[k]]
        BY <1>1, <1>3, <1>4, <3>1, <4>1, <4>2
      <4>4. QED
        BY <3>2, <3>6, <4>1, <4>3 DEF FenceInv, Counted
    <3>7. QED
      BY <3>4, <3>5, <3>6
  <2>2. QED
    BY <2>1 DEF Counted
<1>13. Locked'
  <2>1. ASSUME NEW h \in Goroutines, NEW k \in FenceKeys, k \in got[h]
        PROVE  entries'[k] = entries[k]
    <3>1. entries[k] # NoEntry
      BY <2>1 DEF FenceInv, Progress, SameEntry
    <3>2. QED
      BY <1>5, <3>1 DEF Missing
  <2>2. QED
    BY <1>2, <2>1 DEF FenceInv, Locked
<1>14. Upward'
  BY <1>2, <1>6 DEF FenceInv, Upward, FenceTypeOK
<1>15. QED
  BY <1>8, <1>9, <1>10, <1>11, <1>12, <1>13, <1>14 DEF FenceInv

LEMMA LockNextStep == ASSUME FenceInv, NEW g \in Goroutines, LockNext(g) PROVE FenceInv'
<1>1. PICK k \in FenceKeys :
        /\ IsNextToLock(g, k) /\ mutex[ptr[g][k]] = NoOne
        /\ mutex' = [mutex EXCEPT ![ptr[g][k]] = g]
        /\ got' = [got EXCEPT ![g] = @ \union {k}]
        /\ pc' = [pc EXCEPT ![g] =
                    IF want[g] \subseteq got[g] \union {k} THEN "held" ELSE "locking"]
  BY DEF LockNext
<1>2. /\ FenceTypeOK /\ pc[g] = "locking" /\ k \in want[g] /\ k \notin got[g]
      /\ \A m \in want[g] \ got[g] : k <= m
      /\ UNCHANGED <<entries, refs, want, ptr>>
  BY <1>1 DEF LockNext, IsNextToLock, FenceInv
<1>3. ptr[g][k] = entries[k] /\ entries[k] \in Entries
  BY <1>2 DEF FenceInv, SameEntry, FenceTypeOK
<1>4. FenceTypeOK'
  BY <1>1, <1>2, <1>3 DEF FenceTypeOK
<1>5. \A h \in Goroutines : got'[h] = IF h = g THEN got[g] \union {k} ELSE got[h]
  BY <1>1, <1>2 DEF FenceTypeOK
<1>6. Progress'
  BY <1>1, <1>2, <1>5 DEF FenceInv, Progress, FenceTypeOK
<1>7. SameEntry' /\ Injective' /\ Counted'
  BY <1>2 DEF FenceInv, SameEntry, Injective, Counted, Users
<1>8. Locked'
  <2>1. ASSUME NEW h \in Goroutines, NEW m \in FenceKeys, m \in got'[h]
        PROVE  mutex'[entries[m]] = h
    <3>1. CASE h = g /\ m = k
      BY <1>1, <1>2, <1>3, <3>1 DEF FenceTypeOK
    <3>2. CASE m \in got[h]
      <4>1. mutex[entries[m]] = h /\ entries[m] \in Entries
        BY <3>2 DEF FenceInv, Locked, Progress, SameEntry, FenceTypeOK
      <4>2. entries[m] # entries[k]
        BY <1>1, <1>3, <4>1, FenceAssumption
      <4>3. QED
        BY <1>1, <1>2, <1>3, <4>1, <4>2 DEF FenceTypeOK
    <3>3. QED
      BY <1>5, <2>1, <3>1, <3>2
  <2>2. QED
    BY <1>2, <2>1 DEF Locked
<1>9. Upward'
  <2>1. ASSUME NEW h \in Goroutines, pc'[h] = "locking",
               NEW m \in got'[h], NEW n \in want[h] \ got'[h]
        PROVE  m < n
    <3>1. m \in Nat /\ n \in Nat /\ k \in Nat
      BY <1>2, <1>4, FenceAssumption DEF FenceTypeOK, FenceKeys
    <3>2. CASE h = g
      BY <1>2, <1>5, <2>1, <3>1, <3>2 DEF FenceInv, Upward
    <3>3. CASE h # g
      BY <1>1, <1>2, <1>5, <2>1, <3>3 DEF FenceInv, Upward, FenceTypeOK
    <3>4. QED
      BY <3>2, <3>3
  <2>2. QED
    BY <1>2, <2>1 DEF Upward
<1>10. QED
  BY <1>4, <1>6, <1>7, <1>8, <1>9 DEF FenceInv

LEMMA UnlockStep == ASSUME FenceInv, NEW g \in Goroutines, Unlock(g) PROVE FenceInv'
<1>1. PICK k \in FenceKeys :
        /\ k \in got[g]
        /\ mutex' = [mutex EXCEPT ![ptr[g][k]] = NoOne]
        /\ got' = [got EXCEPT ![g] = @ \ {k}]
        /\ pc' = [pc EXCEPT ![g] = IF got[g] = {k} THEN "unlocked" ELSE "unlocking"]
  BY DEF Unlock, IsNextToUnlock
<1>2. /\ FenceTypeOK /\ pc[g] \in {"held", "unlocking"} /\ k \in want[g]
      /\ UNCHANGED <<entries, refs, want, ptr>>
  BY <1>1 DEF Unlock, FenceInv, Progress
<1>3. ptr[g][k] = entries[k] /\ entries[k] \in Entries
  BY <1>2 DEF FenceInv, SameEntry, FenceTypeOK
<1>4. FenceTypeOK'
  BY <1>1, <1>2, <1>3 DEF FenceTypeOK
<1>5. \A h \in Goroutines : got'[h] = IF h = g THEN got[g] \ {k} ELSE got[h]
  BY <1>1, <1>2 DEF FenceTypeOK
<1>6. Progress'
  BY <1>1, <1>2, <1>5 DEF FenceInv, Progress, FenceTypeOK
<1>7. SameEntry' /\ Injective' /\ Counted'
  BY <1>2 DEF FenceInv, SameEntry, Injective, Counted, Users
<1>8. Locked'
  <2>1. ASSUME NEW h \in Goroutines, NEW m \in FenceKeys, m \in got'[h]
        PROVE  mutex'[entries[m]] = h
    <3>1. m \in got[h] /\ mutex[entries[m]] = h /\ (h = g => m # k)
      BY <1>5, <2>1 DEF FenceInv, Locked
    <3>2. mutex[entries[k]] = g
      BY <1>1 DEF FenceInv, Locked
    <3>3. entries[m] \in Entries /\ entries[m] # NoEntry
      BY <3>1 DEF FenceInv, Progress, SameEntry, FenceTypeOK
    <3>4. entries[m] # entries[k]
      BY <3>1, <3>2, <3>3 DEF FenceInv, Injective
    <3>5. QED
      BY <1>1, <1>2, <1>3, <3>1, <3>3, <3>4 DEF FenceTypeOK
  <2>2. QED
    BY <1>2, <2>1 DEF Locked
<1>9. Upward'
  BY <1>1, <1>2, <1>5 DEF FenceInv, Upward, FenceTypeOK
<1>10. QED
  BY <1>4, <1>6, <1>7, <1>8, <1>9 DEF FenceInv

LEMMA UnregisterStep ==
  ASSUME FenceInv, NEW g \in Goroutines, Unregister(g) PROVE FenceInv'
<1>1. /\ FenceTypeOK /\ pc[g] = "unlocked" /\ got[g] = {}
      /\ want' = [want EXCEPT ![g] = {}]
      /\ ptr' = [ptr EXCEPT ![g] = [k \in FenceKeys |-> NoEntry]]
      /\ pc' = [pc EXCEPT ![g] = "idle"] /\ UNCHANGED <<mutex, got>>
  BY DEF FenceInv, Progress, Unregister
<1>2. \A k \in FenceKeys : k \in want[g] => ptr[g][k] = entries[k] /\ entries[k] # NoEntry
  BY DEF FenceInv, SameEntry
<1>3. \A h \in Goroutines : want'[h] = IF h = g THEN {} ELSE want[h]
  BY <1>1 DEF FenceTypeOK
<1>4. \A h \in Goroutines : h # g => ptr'[h] = ptr[h]
  BY <1>1 DEF FenceTypeOK
<1>5. \A k \in FenceKeys : Users(k)' = IF k \in want[g] THEN Users(k) \ {g} ELSE Users(k)
  BY <1>3 DEF Users
<1>6. \A k \in FenceKeys : entries[k] # NoEntry =>
        refs'[entries[k]] = Cardinality(Users(k)')
  <2>1. ASSUME NEW k \in FenceKeys, entries[k] # NoEntry
        PROVE  refs'[entries[k]] = Cardinality(Users(k)')
    <3>1. entries[k] \in Entries /\ refs[entries[k]] = Cardinality(Users(k))
      BY <1>1, <2>1 DEF FenceTypeOK, FenceInv, Counted
    <3>2. (\E m \in want[g] : ptr[g][m] = entries[k]) <=> k \in want[g]
      BY <1>1, <1>2, <2>1 DEF FenceInv, Injective, FenceTypeOK
    <3>3. refs'[entries[k]] = IF k \in want[g] THEN refs[entries[k]] - 1
                                               ELSE refs[entries[k]]
      BY <3>1, <3>2 DEF Unregister
    <3>4. k \in want[g] => g \in Users(k)
      BY DEF Users
    <3>5. QED
      BY <1>5, <3>1, <3>3, <3>4, UsersFinite, FS_RemoveElement
  <2>2. QED
    BY <2>1
<1>7. \A k \in FenceKeys : entries'[k] =
        IF k \in want[g] /\ Users(k)' = {} THEN NoEntry ELSE entries[k]
  <2>1. ASSUME NEW k \in FenceKeys, k \in want[g]
        PROVE  refs'[ptr[g][k]] = 0 <=> Users(k)' = {}
    <3>1. IsFiniteSet(Users(k)')
      BY <1>5, UsersFinite, FS_RemoveElement
    <3>2. QED
      BY <1>2, <1>6, <2>1, <3>1, FS_EmptySet
  <2>2. QED
    BY <2>1 DEF Unregister
<1>8. FenceTypeOK'
  <2>1. refs' \in [Entries -> Nat]
    <3>1. ASSUME NEW e \in Entries, NEW k \in want[g], ptr[g][k] = e
          PROVE  refs[e] - 1 \in Nat
      <4>1. k \in FenceKeys /\ entries[k] = e /\ entries[k] # NoEntry
        BY <1>1, <1>2, <3>1 DEF FenceTypeOK
      <4>2. refs[e] = Cardinality(Users(k)) /\ Users(k) # {}
        BY <4>1 DEF FenceInv, Counted
      <4>3. QED
        BY <4>2, UsersFinite, FS_EmptySet
    <3>2. QED
      BY <1>1, <3>1 DEF Unregister, FenceTypeOK
  <2>2. entries' \in [FenceKeys -> Entries \union {NoEntry}]
    BY <1>1, <1>7 DEF FenceTypeOK, Unregister
  <2>3. QED
    BY <1>1, <2>1, <2>2 DEF FenceTypeOK
<1>9. Progress'
  BY <1>1, <1>3 DEF FenceInv, Progress, FenceTypeOK
<1>10. SameEntry'
  <2>1. ASSUME NEW h \in Goroutines, NEW k \in FenceKeys, k \in want'[h]
        PROVE  ptr'[h][k] = entries'[k] /\ entries'[k] # NoEntry
    <3>1. h # g /\ k \in want[h] /\ ptr[h][k] = entries[k] /\ entries[k] # NoEntry
      BY <1>3, <2>1 DEF FenceInv, SameEntry
    <3>2. h \in Users(k)'
      BY <2>1 DEF Users
    <3>3. QED
      BY <1>4, <1>7, <3>1, <3>2
  <2>2. QED
    BY <2>1 DEF SameEntry
<1>11. Injective'
  BY <1>7 DEF FenceInv, Injective
<1>12. Counted'
  <2>1. ASSUME NEW k \in FenceKeys, entries'[k] # NoEntry
        PROVE  Users(k)' # {} /\ refs'[entries'[k]] = Cardinality(Users(k)')
    <3>1. entries'[k] = entries[k] /\ ~(k \in want[g] /\ Users(k)' = {})
      BY <1>7, <2>1
    <3>2. Users(k)' # {}
      BY <1>5, <2>1, <3>1 DEF FenceInv, Counted
    <3>3. QED
      BY <1>6, <2>1, <3>1, <3>2
  <2>2. QED
    BY <2>1 DEF Counted
<1>13. Locked'
  <2>1. ASSUME NEW h \in Goroutines, NEW k \in FenceKeys, k \in got[h]
        PROVE  entries'[k] = entries[k]
    <3>1. h # g /\ k \in want[h]
      BY <1>1, <2>1 DEF FenceInv, Progress
    <3>2. h \in Users(k)'
      BY <1>3, <3>1 DEF Users
    <3>3. QED
      BY <1>7, <3>2
  <2>2. QED
    BY <1>1, <2>1 DEF FenceInv, Locked
<1>14. Upward'
  BY <1>1, <1>3 DEF FenceInv, Upward, FenceTypeOK
<1>15. QED
  BY <1>8, <1>9, <1>10, <1>11, <1>12, <1>13, <1>14 DEF FenceInv

LEMMA NextFenceInv == FenceInv /\ [FenceNext]_fenceVars => FenceInv'
<1>1. ASSUME FenceInv, UNCHANGED fenceVars PROVE FenceInv'
  <2>1. FenceTypeOK'
    BY <1>1 DEF fenceVars, FenceInv, FenceTypeOK
  <2>2. Counted'
    BY <1>1 DEF fenceVars, FenceInv, Counted, Users
  <2>3. QED
    BY <1>1, <2>1, <2>2 DEF fenceVars, FenceInv, Progress, SameEntry, Injective, Locked,
                            Upward
<1>2. QED
  BY <1>1, RegisterStep, LockNextStep, UnlockStep, UnregisterStep DEF FenceNext

(* The inductive invariant of the fence set: whoever uses a key works with *)
(* the entry in the map, and refs counts exactly those users.              *)
THEOREM SpecFenceInv == FenceSpec => []FenceInv
BY InitFenceInv, NextFenceInv, PTL DEF FenceSpec

(* The type of the map of entries, their counts and mutexes, and of what   *)
(* every call of lock has got so far.                                      *)
THEOREM FenceTypeCorrect == FenceSpec => []FenceTypeOK
<1>1. FenceInv => FenceTypeOK
  BY DEF FenceInv
<1>2. QED
  BY <1>1, SpecFenceInv, PTL

(* Two goroutines never hold the mutex of the same key, although entries   *)
(* are deleted and created again.                                          *)
THEOREM FencesExclude == FenceSpec => []MutualExclusion
<1>1. FenceInv => MutualExclusion
  <2>1. ASSUME FenceInv, NEW g \in Goroutines, NEW h \in Goroutines,
               NEW k \in got[g] \intersect got[h]
        PROVE  g = h
    <3>1. k \in FenceKeys
      BY <2>1 DEF FenceInv, FenceTypeOK
    <3>2. mutex[entries[k]] = g /\ mutex[entries[k]] = h
      BY <2>1, <3>1 DEF FenceInv, Locked
    <3>3. QED
      BY <3>2
  <2>2. QED
    BY <2>1 DEF MutualExclusion
<1>2. QED
  BY <1>1, SpecFenceInv, PTL

(* The map holds an entry exactly for the keys in use.                     *)
THEOREM EntriesAreReclaimed == FenceSpec => []EntriesReclaimed
<1>1. FenceInv => EntriesReclaimed
  BY DEF FenceInv, Counted, SameEntry, Users, EntriesReclaimed
<1>2. QED
  BY <1>1, SpecFenceInv, PTL

-----------------------------------------------------------------------------
(* Circular waits.  Among goroutines that all wait, one waits for the      *)
(* highest key; whoever holds that key waits for a higher one.             *)

LEMMA HighestKey ==
  ASSUME NEW T \in SUBSET FenceKeys, T # {}
  PROVE  \E k \in T : \A m \in T : m <= k
<1> DEFINE Gaps == {n \in Nat : \E k \in T : n = NumKeys - k}
<1>1. \A k \in T : k \in Nat /\ k <= NumKeys /\ NumKeys \in Nat
  BY FenceAssumption DEF FenceKeys
<1>2. Gaps \subseteq Nat /\ Gaps # {}
  BY <1>1
<1>3. PICK n \in Gaps : \A x \in Gaps : ~ (<<x, n>> \in OpToRel(<, Nat))
  <2> HIDE DEF Gaps
  <2>1. QED
    BY <1>2, NatLessThanWellFounded, WFMin
<1>4. \A x \in Gaps : ~ (x < n)
  BY <1>3 DEF OpToRel
<1>5. PICK k \in T : n = NumKeys - k
  OBVIOUS
<1>6. ASSUME NEW m \in T PROVE m <= k
  <2>1. NumKeys - m \in Gaps
    BY <1>1
  <2>2. ~ (NumKeys - m < n)
    BY <1>4, <2>1
  <2>3. QED
    BY <1>1, <1>5, <2>2
<1>7. QED
  BY <1>6

(* However many keys each goroutine asks for, they never wait in a circle. *)
THEOREM NoDeadlock == FenceSpec => []NoCircularWait
<1>1. FenceInv => NoCircularWait
  <2> SUFFICES ASSUME FenceInv, NEW S \in SUBSET Goroutines, S # {},
                      \A g \in S : \E h \in S : BlockedBy(g, h)
               PROVE  FALSE
    BY DEF NoCircularWait
  <2> DEFINE Waited == {k \in FenceKeys : \E g \in S : IsNextToLock(g, k)}
  <2>1. \A g \in S : pc[g] = "locking" /\ \E k \in Waited : IsNextToLock(g, k)
    BY DEF BlockedBy
  <2>2. Waited # {} /\ Waited \in SUBSET FenceKeys
    BY <2>1
  <2>3. PICK k \in Waited : \A m \in Waited : m <= k
    BY <2>2, HighestKey
  <2>4. PICK g \in S : IsNextToLock(g, k)
    OBVIOUS
  <2>5. PICK h \in S, n \in FenceKeys : IsNextToLock(g, n) /\ n \in got[h]
    BY DEF BlockedBy
  <2>6. n = k
    BY <2>4, <2>5 DEF IsNextToLock, FenceInv, FenceTypeOK, FenceKeys
  <2>7. PICK m \in Waited : IsNextToLock(h, m)
    BY <2>1
  <2>8. k < m
    BY <2>1, <2>5, <2>6, <2>7 DEF FenceInv, Upward, IsNextToLock
  <2>9. k \in Nat /\ m \in Nat /\ m <= k
    BY <2>2, <2>3, FenceAssumption DEF FenceKeys
  <2>10. QED
    BY <2>8, <2>9
<1>2. QED
  BY <1>1, SpecFenceInv, PTL

-----------------------------------------------------------------------------
(* The refinement of KeyLocks. *)

owned == [g \in Goroutines |-> IF pc[g] = "held" THEN want[g] ELSE {}]

LEMMA OwnedDisjoint ==
  ASSUME FenceInv, NEW g \in Goroutines, NEW h \in Goroutines, g # h
  PROVE  owned[g] \intersect got[h] = {}
<1>1. ASSUME NEW k \in owned[g] \intersect got[h] PROVE FALSE
  <2>1. k \in got[g] /\ k \in FenceKeys
    BY <1>1 DEF owned, FenceInv, FenceTypeOK, Progress
  <2>2. QED
    BY <1>1, <2>1 DEF FenceInv, Locked
<1>2. QED
  BY <1>1

LEMMA FencesRefine ==
  ASSUME FenceInv, [FenceNext]_fenceVars PROVE [WholeSets!Next]_owned
<1>0. FenceTypeOK /\ Progress
  BY DEF FenceInv
<1>1. ASSUME NEW g \in Goroutines, Register(g) \/ Unregister(g)
      PROVE  owned' = owned
  <2>1. pc[g] # "held" /\ pc'[g] # "held"
        /\ \A h \in Goroutines : h # g => pc'[h] = pc[h] /\ want'[h] = want[h]
    BY <1>0, <1>1 DEF FenceTypeOK, Register, Unregister
  <2>2. QED
    BY <2>1 DEF owned
<1>2. ASSUME NEW g \in Goroutines, LockNext(g)
      PROVE  WholeSets!Acquire(g) \/ owned' = owned
  <2>1. /\ pc[g] = "locking" /\ want' = want
        /\ \A h \in Goroutines : h # g => pc'[h] = pc[h] /\ got'[h] = got[h]
    BY <1>0, <1>2 DEF FenceTypeOK, LockNext
  <2>2. CASE pc'[g] = "held"
    <3>1. FenceInv' /\ got'[g] = want[g] /\ want[g] # {}
      BY <1>2, <2>1, <2>2, LockNextStep DEF FenceInv, Progress
    <3>2. \A h \in Goroutines : owned[h] \intersect want[g] = {}
      <4>1. ASSUME NEW h \in Goroutines, h # g, NEW k \in owned[h] \intersect want[g]
            PROVE  FALSE
        <5>1. k \in got'[h] /\ k \in got'[g] /\ k \in FenceKeys
          BY <1>0, <2>1, <3>1, <4>1 DEF owned, FenceTypeOK, Progress
        <5>2. QED
          BY <3>1, <4>1, <5>1 DEF FenceInv, Locked
      <4>2. owned[g] = {}
        BY <2>1 DEF owned
      <4>3. QED
        BY <4>1, <4>2
    <3>3. owned' = [owned EXCEPT ![g] = want[g]] /\ owned[g] = {}
      BY <2>1, <2>2 DEF owned
    <3>4. want[g] \in (SUBSET FenceKeys) \ {{}}
      BY <1>0, <3>1 DEF FenceTypeOK
    <3>5. QED
      BY <3>2, <3>3, <3>4 DEF WholeSets!Acquire, owned
  <2>3. CASE pc'[g] # "held"
    BY <2>1, <2>3 DEF owned
  <2>4. QED
    BY <2>2, <2>3
<1>3. ASSUME NEW g \in Goroutines, Unlock(g)
      PROVE  WholeSets!Release(g) \/ owned' = owned
  <2>1. /\ pc'[g] # "held" /\ want' = want /\ got[g] # {}
        /\ \A h \in Goroutines : h # g => pc'[h] = pc[h]
    BY <1>0, <1>3 DEF FenceTypeOK, Unlock, IsNextToUnlock
  <2>2. owned' = [owned EXCEPT ![g] = {}]
    BY <2>1 DEF owned
  <2>3. CASE owned[g] = {}
    BY <2>2, <2>3 DEF owned
  <2>4. CASE owned[g] # {}
    BY <2>2, <2>4 DEF WholeSets!Release, owned
  <2>5. QED
    BY <2>3, <2>4
<1>4. CASE UNCHANGED fenceVars
  BY <1>4 DEF fenceVars, owned
<1>5. QED
  BY <1>1, <1>2, <1>3, <1>4 DEF FenceNext, WholeSets!Next

(* Callers may see a fence as an atomic lock of a set of keys, which is    *)
(* how PostgresQueue uses it.                                              *)
THEOREM FencesImplementKeyLocks == FenceSpec => ImplementsKeyLocks
<1>1. FenceInit => WholeSets!Init
  BY DEF FenceInit, WholeSets!Init
<1>2. FenceInv /\ [FenceNext]_fenceVars => [WholeSets!Next]_owned
  BY FencesRefine
<1>3. QED
  BY <1>1, <1>2, SpecFenceInv, PTL DEF FenceSpec, WholeSets!Spec, ImplementsKeyLocks, owned

=============================================================================
