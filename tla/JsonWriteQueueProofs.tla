------------------------ MODULE JsonWriteQueueProofs ------------------------
(***************************************************************************)
(* For any files, saves, capacity of the channel, snapshots and crashes,   *)
(* and whatever is enqueued between the two looks of nextWrite: what a     *)
(* flush leaves undrained and which writes may take a file back are just   *)
(* those that FlushDrains and StaleOnlyIfOvertaken name.                   *)
(***************************************************************************)
EXTENDS JsonWriteQueue, TLAPS

\* Snapshots of one key are in the order they were taken: inside a sequence,
\* from one sequence to the next, from a job to a sequence, and back.
Ordered(s) ==
  \A i, m \in DOMAIN s :
    i < m /\ s[i].key \in Keys /\ s[m].key = s[i].key => s[i].version < s[m].version
Before(s, t) ==
  \A i \in DOMAIN s, m \in DOMAIN t :
    s[i].key \in Keys /\ t[m].key = s[i].key => s[i].version < t[m].version
First(j, s) ==
  \A m \in DOMAIN s : j.key \in Keys /\ s[m].key = j.key => j.version < s[m].version
Last(s, j) ==
  \A i \in DOMAIN s : j.key \in Keys /\ s[i].key = j.key => s[i].version < j.version

\* At most one job of a key.
Single(s) ==
  \A i, m \in DOMAIN s : i < m /\ s[i].key \in Keys => s[m].key # s[i].key

\* The snapshots are between lo and hi.
Fits(j, lo, hi) == j.key \in Keys => lo[j.key] <= j.version /\ j.version <= hi[j.key]
Within(s, lo, hi) == \A i \in DOMAIN s : Fits(s[i], lo, hi)

Has(s, k, v) == \E i \in DOMAIN s : s[i].key = k /\ s[i].version = v
Free(s, k) == \A i \in DOMAIN s : s[i].key # k

NoBarrier(s) == \A i \in DOMAIN s : s[i].key \in Keys
EndsInBarrier(s) ==
  /\ s # <<>> /\ s[Len(s)].key = Barrier
  /\ \A i \in DOMAIN s : i < Len(s) => s[i].key \in Keys

-----------------------------------------------------------------------------
(* The invariant.                                                          *)

Running == wpc = "run"

\* The least snapshot that may still be written to a file, and the least that
\* may be in the overflow.
Floor == [k \in Keys |-> IF db[k] <= overtaken[k] THEN 0 ELSE db[k]]
Above == [k \in Keys |-> overtaken[k] + 1]

\* What is on its way to a file: the job, then the channel, then the overflow;
\* only a job that overtook the channel is newer than what is in it.
Pipeline ==
  /\ \A k \in Keys : db[k] <= latest[k] /\ overtaken[k] <= latest[k]
  /\ Ordered(queue) /\ Single(overflow) /\ Before(queue, overflow)
  /\ Within(queue, Floor, latest)
  /\ Within(overflow, Floor, latest) /\ Within(overflow, Above, latest)
  /\ Running => /\ job \in Job /\ Fits(job, Floor, latest) /\ First(job, overflow)
                /\ job.key \in Keys /\ overtaken[job.key] < job.version
                     => First(job, queue)

\* A barrier is behind every job there is while the World waits for it, until
\* it is taken; whoever takes it from the overflow leaves the channel behind.
JobIsSave == Running => job.key \in Keys

Phases ==
  /\ phase = "idle" =>
       saving = {} /\ JobIsSave /\ NoBarrier(queue) /\ NoBarrier(overflow)
  /\ phase = "flushing" =>
       \/ Running /\ job.key = Barrier /\ NoBarrier(queue) /\ overflow = <<>>
       \/ JobIsSave /\ EndsInBarrier(queue) /\ overflow = <<>> /\ released = {}
       \/ JobIsSave /\ NoBarrier(queue) /\ EndsInBarrier(overflow) /\ released = {}
  /\ phase = "drained" => JobIsSave /\ NoBarrier(queue) /\ overflow = <<>>

\* Once the barrier is taken, the writes it left behind are of the released
\* files, and the ones being saved have been overtaken.
Past == phase = "drained" \/ (Running /\ job.key = Barrier)
OnlyReleased ==
  Past => /\ \A i \in DOMAIN queue : queue[i].key \in released
          /\ Running => job.key \in released \union {Barrier}
          /\ \A k \in released \cap saving : overtaken[k] = latest[k]

\* The newest snapshot of a key is on its way, in its file, lost by its own
\* write or overtaken.
Pending(k) ==
  \/ Running /\ job.key = k /\ job.version = latest[k]
  \/ Has(queue, k, latest[k]) \/ Has(overflow, k, latest[k])

Landed ==
  \A k \in Keys \ saving :
    Pending(k) \/ db[k] = latest[k] \/ k \in failed \/ overtaken[k] = latest[k]

IInv == TypeOK /\ Pipeline /\ Phases /\ OnlyReleased /\ Landed

-----------------------------------------------------------------------------
(* What Append, Head and Tail, and Coalesce do to these relations.         *)

LEMMA EmptyFacts ==
  /\ Ordered(<<>>) /\ Single(<<>>) /\ NoBarrier(<<>>)
  /\ \A s : Before(s, <<>>) /\ Before(<<>>, s)
  /\ \A j : First(j, <<>>) /\ Last(<<>>, j)
  /\ \A lo, hi : Within(<<>>, lo, hi)
  /\ \A k : Free(<<>>, k) /\ \A v : ~Has(<<>>, k, v)
BY DEF Ordered, Single, NoBarrier, Before, First, Last, Within, Free, Has

LEMMA JobShape ==
  ASSUME NEW j \in Job
  PROVE  j.key \in Keys \union {Barrier} /\ j.version \in Nat
BY QueueAssumption DEF Job

LEMMA SeqShape ==
  ASSUME NEW s \in Seq(Job), NEW i \in DOMAIN s
  PROVE  s[i] \in Job /\ s[i].key \in Keys \union {Barrier} /\ s[i].version \in Nat
         /\ i \in Nat /\ i >= 1 /\ i <= Len(s) /\ Len(s) \in Nat
<1>1. s[i] \in Job /\ i \in Nat /\ i >= 1 /\ i <= Len(s) /\ Len(s) \in Nat
  OBVIOUS
<1> QED
  BY <1>1, JobShape

LEMMA AppendIndices ==
  ASSUME NEW s \in Seq(Job), NEW j \in Job
  PROVE  LET a == Append(s, j)
         IN  /\ a \in Seq(Job) /\ Len(a) = Len(s) + 1 /\ a # <<>>
             /\ \A i \in DOMAIN s : i \in DOMAIN a /\ a[i] = s[i] /\ i < Len(a)
             /\ Len(a) \in DOMAIN a /\ a[Len(a)] = j
             /\ \A i \in DOMAIN a : i \in DOMAIN s \/ i = Len(a)
OBVIOUS

LEMMA TailIndices ==
  ASSUME NEW s \in Seq(Job), s # <<>>
  PROVE  /\ Head(s) = s[1] /\ Head(s) \in Job /\ 1 \in DOMAIN s
         /\ Tail(s) \in Seq(Job) /\ Len(Tail(s)) = Len(s) - 1
         /\ \A i \in DOMAIN Tail(s) : i + 1 \in DOMAIN s /\ Tail(s)[i] = s[i + 1]
                                      /\ i >= 1 /\ i \in Nat
         /\ \A i \in DOMAIN s : i = 1 \/ (i - 1 \in DOMAIN Tail(s)
                                          /\ Tail(s)[i - 1] = s[i])
OBVIOUS

LEMMA AppendFacts ==
  ASSUME NEW s \in Seq(Job), NEW j \in Job
  PROVE  LET a == Append(s, j)
         IN  /\ Ordered(s) /\ Last(s, j) => Ordered(a)
             /\ Single(s) /\ Free(s, j.key) => Single(a)
             /\ Single(s) /\ j.key = Barrier => Single(a)
             /\ \A t : Before(s, t) /\ First(j, t) => Before(a, t)
             /\ \A t : Before(t, s) /\ Last(t, j) => Before(t, a)
             /\ \A i : First(i, s) /\ (i.key = j.key => i.version < j.version)
                         => First(i, a)
             /\ \A lo, hi : Within(s, lo, hi) /\ Fits(j, lo, hi) => Within(a, lo, hi)
             /\ \A k, v : Has(s, k, v) \/ (k = j.key /\ v = j.version) => Has(a, k, v)
             /\ \A k : Free(a, k) <=> Free(s, k) /\ j.key # k
             /\ NoBarrier(s) /\ j.key \in Keys => NoBarrier(a)
             /\ NoBarrier(s) /\ j.key = Barrier => EndsInBarrier(a)
<1> DEFINE a == Append(s, j)
<1>1. /\ a \in Seq(Job) /\ Len(a) = Len(s) + 1 /\ a # <<>>
      /\ \A i \in DOMAIN s : i \in DOMAIN a /\ a[i] = s[i] /\ i < Len(a)
      /\ Len(a) \in DOMAIN a /\ a[Len(a)] = j
      /\ \A i \in DOMAIN a : i \in DOMAIN s \/ i = Len(a)
  BY AppendIndices
<1> HIDE DEF a
<1>2. \A i \in DOMAIN a : i \in Nat /\ i <= Len(a)
  BY <1>1, SeqShape
<1>3. \A i, m \in DOMAIN a : i < m => i \in DOMAIN s /\ (m \in DOMAIN s \/ m = Len(a))
  BY <1>1, <1>2
<1>4. Ordered(s) /\ Last(s, j) => Ordered(a)
  BY <1>1, <1>3 DEF Ordered, Last
<1>5. /\ Single(s) /\ Free(s, j.key) => Single(a)
      /\ Single(s) /\ j.key = Barrier => Single(a)
  BY <1>1, <1>3, QueueAssumption DEF Single, Free
<1>6. \A t : Before(s, t) /\ First(j, t) => Before(a, t)
  BY <1>1 DEF Before, First
<1>7. \A t : Before(t, s) /\ Last(t, j) => Before(t, a)
  BY <1>1 DEF Before, Last
<1>8. \A i : First(i, s) /\ (i.key = j.key => i.version < j.version) => First(i, a)
  BY <1>1 DEF First
<1>9. \A lo, hi : Within(s, lo, hi) /\ Fits(j, lo, hi) => Within(a, lo, hi)
  BY <1>1 DEF Within
<1>10. /\ \A k, v : Has(s, k, v) \/ (k = j.key /\ v = j.version) => Has(a, k, v)
       /\ \A k : Free(a, k) <=> Free(s, k) /\ j.key # k
  BY <1>1 DEF Has, Free
<1>11. /\ NoBarrier(s) /\ j.key \in Keys => NoBarrier(a)
       /\ NoBarrier(s) /\ j.key = Barrier => EndsInBarrier(a)
  BY <1>1, <1>3 DEF NoBarrier, EndsInBarrier
<1> QED
  BY <1>4, <1>5, <1>6, <1>7, <1>8, <1>9, <1>10, <1>11 DEF a

LEMMA TailFacts ==
  ASSUME NEW s \in Seq(Job), s # <<>>
  PROVE  LET h == Head(s)
             t == Tail(s)
         IN  /\ Ordered(s) => Ordered(t) /\ First(h, t)
             /\ Single(s) => Single(t) /\ First(h, t)
             /\ \A u : Before(s, u) => Before(t, u) /\ First(h, u)
             /\ \A u : Before(u, s) => Before(u, t)
             /\ \A i : First(i, s) => First(i, t)
             /\ \A lo, hi : Within(s, lo, hi) => Within(t, lo, hi) /\ Fits(h, lo, hi)
             /\ \A k, v : Has(s, k, v) => (h.key = k /\ h.version = v) \/ Has(t, k, v)
             /\ \A k : Free(s, k) => h.key # k /\ Free(t, k)
             /\ NoBarrier(s) => h.key \in Keys /\ NoBarrier(t)
             /\ EndsInBarrier(s) => \/ h.key = Barrier /\ t = <<>>
                                    \/ h.key \in Keys /\ EndsInBarrier(t)
<1> DEFINE h == Head(s)
           t == Tail(s)
<1>1. /\ h = s[1] /\ h \in Job /\ 1 \in DOMAIN s
      /\ t \in Seq(Job) /\ Len(t) = Len(s) - 1
      /\ \A i \in DOMAIN t : i + 1 \in DOMAIN s /\ t[i] = s[i + 1] /\ i >= 1
                             /\ i \in Nat
      /\ \A i \in DOMAIN s : i = 1 \/ (i - 1 \in DOMAIN t /\ t[i - 1] = s[i])
  BY TailIndices
<1> HIDE DEF h, t
<1>2. \A i, m \in DOMAIN t : i < m => i + 1 < m + 1
  BY <1>1
<1>3. \A i \in DOMAIN t : 1 < i + 1
  BY <1>1
<1>a. \A i \in DOMAIN t : \E m \in DOMAIN s : t[i] = s[m]
  BY <1>1
<1>b. h = s[1] /\ 1 \in DOMAIN s
  BY <1>1
<1>4. Ordered(s) => Ordered(t) /\ First(h, t)
  <2> SUFFICES ASSUME Ordered(s) PROVE Ordered(t) /\ First(h, t)
    OBVIOUS
  <2>1. ASSUME NEW i \in DOMAIN t, NEW m \in DOMAIN t, i < m,
               t[i].key \in Keys, t[m].key = t[i].key
        PROVE  t[i].version < t[m].version
    <3>1. i + 1 \in DOMAIN s /\ m + 1 \in DOMAIN s /\ i + 1 < m + 1
          /\ t[i] = s[i + 1] /\ t[m] = s[m + 1]
      BY <1>1, <1>2, <2>1
    <3> QED
      BY <2>1, <3>1 DEF Ordered
  <2>2. ASSUME NEW m \in DOMAIN t, h.key \in Keys, t[m].key = h.key
        PROVE  h.version < t[m].version
    <3>1. m + 1 \in DOMAIN s /\ 1 < m + 1 /\ t[m] = s[m + 1]
      BY <1>1, <1>3
    <3> QED
      BY <1>b, <2>2, <3>1 DEF Ordered
  <2> QED
    BY <2>1, <2>2 DEF Ordered, First
<1>5. Single(s) => Single(t) /\ First(h, t)
  BY <1>1, <1>2, <1>3 DEF Single, First
<1>6. \A u : Before(s, u) => Before(t, u) /\ First(h, u)
  <2> SUFFICES ASSUME NEW u, Before(s, u) PROVE Before(t, u) /\ First(h, u)
    OBVIOUS
  <2>1. Before(t, u)
    BY <1>a DEF Before
  <2>2. First(h, u)
    BY <1>b DEF Before, First
  <2> QED
    BY <2>1, <2>2
<1>7. \A u : Before(u, s) => Before(u, t)
  BY <1>a DEF Before
<1>8. \A i : First(i, s) => First(i, t)
  BY <1>a DEF First
<1>9. \A lo, hi : Within(s, lo, hi) => Within(t, lo, hi) /\ Fits(h, lo, hi)
  BY <1>1 DEF Within
<1>10. /\ \A k, v : Has(s, k, v) => (h.key = k /\ h.version = v) \/ Has(t, k, v)
       /\ \A k : Free(s, k) => h.key # k /\ Free(t, k)
  BY <1>1 DEF Has, Free
<1>11. NoBarrier(s) => h.key \in Keys /\ NoBarrier(t)
  BY <1>1 DEF NoBarrier
<1>12. EndsInBarrier(s) => \/ h.key = Barrier /\ t = <<>>
                           \/ h.key \in Keys /\ EndsInBarrier(t)
  <2> SUFFICES ASSUME EndsInBarrier(s)
               PROVE  \/ h.key = Barrier /\ t = <<>>
                      \/ h.key \in Keys /\ EndsInBarrier(t)
    OBVIOUS
  <2>1. CASE Len(s) = 1
    BY <1>1, <2>1 DEF EndsInBarrier
  <2>2. CASE Len(s) # 1
    <3>1. Len(s) \in Nat /\ Len(s) > 1 /\ Len(s) \in DOMAIN s
      <4>1. Len(s) \in Nat /\ Len(s) >= 1
        BY <1>b, SeqShape
      <4>2. DOMAIN s = 1 .. Len(s)
        OBVIOUS
      <4> QED
        BY <2>2, <4>1, <4>2
    <3>2. t # <<>> /\ t[Len(t)] = s[Len(s)]
      BY <1>1, <3>1
    <3>3. \A i \in DOMAIN t : i < Len(t) => i + 1 < Len(s)
      BY <1>1, <3>1
    <3>4. h.key \in Keys
      BY <1>1, <3>1 DEF EndsInBarrier
    <3> QED
      BY <1>1, <3>2, <3>3, <3>4 DEF EndsInBarrier
  <2> QED
    BY <2>1, <2>2
<1> QED
  BY <1>4, <1>5, <1>6, <1>7, <1>8, <1>9, <1>10, <1>11, <1>12 DEF h, t

\* A job that takes the place of the one of its key.
LEMMA CoalesceFacts ==
  ASSUME overflow \in Seq(Job), NEW j \in Job, j.key \in Keys,
         \E i \in DOMAIN overflow : overflow[i].key = j.key
  PROVE  LET c == Coalesce(j)
         IN  /\ c \in Seq(Job)
             /\ Single(overflow) => Single(c)
             /\ \A t : Before(t, overflow) /\ Last(t, j) => Before(t, c)
             /\ \A i : First(i, overflow) /\ (i.key = j.key => i.version < j.version)
                         => First(i, c)
             /\ \A lo, hi : Within(overflow, lo, hi) /\ Fits(j, lo, hi)
                              => Within(c, lo, hi)
             /\ Has(c, j.key, j.version)
             /\ \A k, v : k # j.key /\ Has(overflow, k, v) => Has(c, k, v)
             /\ \A k : k # j.key /\ Free(overflow, k) => Free(c, k)
             /\ NoBarrier(overflow) => NoBarrier(c)
<1> DEFINE c == Coalesce(j)
<1>1. j.key # Barrier
  BY QueueAssumption
<1>2. c = [i \in DOMAIN overflow |-> IF overflow[i].key = j.key THEN j
                                     ELSE overflow[i]]
  BY <1>1 DEF Coalesce
<1>3. DOMAIN overflow = 1 .. Len(overflow) /\ Len(overflow) \in Nat
      /\ \A i \in DOMAIN overflow : overflow[i] \in Job
  OBVIOUS
<1>4. /\ DOMAIN c = DOMAIN overflow
      /\ \A i \in DOMAIN overflow :
           c[i].key = overflow[i].key
             /\ c[i] = (IF overflow[i].key = j.key THEN j ELSE overflow[i])
  BY <1>2
<1>5. c \in Seq(Job)
  BY <1>2, <1>3
<1> HIDE DEF c
<1>6. Single(overflow) => Single(c)
  BY <1>4 DEF Single
<1>7. \A t : Before(t, overflow) /\ Last(t, j) => Before(t, c)
  <2> SUFFICES ASSUME NEW t, Before(t, overflow), Last(t, j),
                      NEW i \in DOMAIN t, NEW m \in DOMAIN c,
                      t[i].key \in Keys, c[m].key = t[i].key
               PROVE  t[i].version < c[m].version
    BY DEF Before
  <2>1. CASE overflow[m].key = j.key
    BY <1>4, <2>1 DEF Last
  <2>2. CASE overflow[m].key # j.key
    BY <1>4, <2>2 DEF Before
  <2> QED
    BY <2>1, <2>2
<1>8. \A i : First(i, overflow) /\ (i.key = j.key => i.version < j.version)
               => First(i, c)
  BY <1>4 DEF First
<1>9. \A lo, hi : Within(overflow, lo, hi) /\ Fits(j, lo, hi) => Within(c, lo, hi)
  BY <1>4 DEF Within
<1>10. Has(c, j.key, j.version)
  BY <1>4 DEF Has
<1>11. /\ \A k, v : k # j.key /\ Has(overflow, k, v) => Has(c, k, v)
       /\ \A k : k # j.key /\ Free(overflow, k) => Free(c, k)
  BY <1>4 DEF Has, Free
<1>12. NoBarrier(overflow) => NoBarrier(c)
  BY <1>4 DEF NoBarrier
<1> QED
  BY <1>5, <1>6, <1>7, <1>8, <1>9, <1>10, <1>11, <1>12 DEF c

\* Snapshots that fit still do when newer ones have been taken.
LEMMA WithinGrows ==
  ASSUME NEW s \in Seq(Job), NEW lo \in [Keys -> Nat], NEW hi \in [Keys -> Nat],
         NEW up \in [Keys -> Nat], \A k \in Keys : hi[k] <= up[k],
         Within(s, lo, hi)
  PROVE  Within(s, lo, up)
<1> SUFFICES ASSUME NEW i \in DOMAIN s, s[i].key \in Keys
             PROVE  lo[s[i].key] <= s[i].version /\ s[i].version <= up[s[i].key]
  BY DEF Within, Fits
<1>1. s[i].version \in Nat
  BY SeqShape
<1>2. lo[s[i].key] <= s[i].version /\ s[i].version <= hi[s[i].key]
  BY DEF Within, Fits
<1> QED
  BY <1>1, <1>2

LEMMA WithinLowers ==
  ASSUME NEW s \in Seq(Job), NEW lo \in [Keys -> Nat], NEW down \in [Keys -> Nat],
         NEW hi \in [Keys -> Nat], \A k \in Keys : down[k] <= lo[k],
         Within(s, lo, hi)
  PROVE  Within(s, down, hi)
<1> SUFFICES ASSUME NEW i \in DOMAIN s, s[i].key \in Keys
             PROVE  down[s[i].key] <= s[i].version /\ s[i].version <= hi[s[i].key]
  BY DEF Within, Fits
<1>1. s[i].version \in Nat
  BY SeqShape
<1>2. lo[s[i].key] <= s[i].version /\ s[i].version <= hi[s[i].key]
  BY DEF Within, Fits
<1> QED
  BY <1>1, <1>2

LEMMA SingleHead ==
  ASSUME NEW s \in Seq(Job), s # <<>>, Single(s), Head(s).key \in Keys,
         NEW i \in DOMAIN Tail(s)
  PROVE  Tail(s)[i].key # Head(s).key
<1>1. /\ Head(s) = s[1] /\ 1 \in DOMAIN s
      /\ i + 1 \in DOMAIN s /\ Tail(s)[i] = s[i + 1] /\ i >= 1 /\ i \in Nat
  BY TailIndices
<1>2. 1 < i + 1
  BY <1>1
<1> QED
  BY <1>1, <1>2 DEF Single

LEMMA Versions ==
  ASSUME TypeOK
  PROVE  /\ latest \in [Keys -> Nat] /\ db \in [Keys -> Nat] /\ overtaken \in [Keys -> Nat]
         /\ Floor \in [Keys -> Nat] /\ Above \in [Keys -> Nat]
         /\ \A k \in Keys :
              /\ Floor[k] = IF db[k] <= overtaken[k] THEN 0 ELSE db[k]
              /\ Above[k] = overtaken[k] + 1
              /\ Floor[k] <= db[k]
BY QueueAssumption DEF TypeOK, Floor, Above

-----------------------------------------------------------------------------
(* enqueueWrite.                                                           *)

\* A newer snapshot goes behind the older ones of its key, in whichever of the
\* two it is put.
LEMMA EnqueueSave ==
  ASSUME TypeOK, Pipeline, NoBarrier(queue), NoBarrier(overflow),
         NEW k \in Keys, latest[k] < MaxVersion, latest' = Bump({k}),
         Enqueue([key |-> k, version |-> latest[k] + 1]),
         UNCHANGED <<db, wpc, job, overtaken>>
  PROVE  /\ queue' \in Seq(Job) /\ Len(queue') <= QueueCap /\ overflow' \in Seq(Job)
         /\ Pipeline' /\ NoBarrier(queue') /\ NoBarrier(overflow')
         /\ Has(queue', k, latest'[k]) \/ Has(overflow', k, latest'[k])
         /\ \A m \in Keys \ {k} :
              /\ \A v : Has(queue, m, v) => Has(queue', m, v)
              /\ \A v : Has(overflow, m, v) => Has(overflow', m, v)
<1> DEFINE j == [key |-> k, version |-> latest[k] + 1]
<1>1. j \in Job /\ j.key = k /\ j.version = latest[k] + 1
  BY QueueAssumption DEF TypeOK, Job
<1> HIDE DEF j
<1>2. /\ latest \in [Keys -> Nat] /\ latest' \in [Keys -> Nat] /\ db \in [Keys -> Nat]
      /\ overtaken \in [Keys -> Nat]
      /\ Floor \in [Keys -> Nat] /\ Above \in [Keys -> Nat]
      /\ Floor' = Floor /\ Above' = Above
      /\ latest'[k] = latest[k] + 1
      /\ \A m \in Keys : latest[m] <= latest'[m] /\ (m # k => latest'[m] = latest[m])
      /\ Floor[k] <= db[k] /\ Above[k] = overtaken[k] + 1
  <2>1. latest' \in [Keys -> Nat] /\ latest'[k] = latest[k] + 1
        /\ \A m \in Keys : latest[m] <= latest'[m] /\ (m # k => latest'[m] = latest[m])
    BY QueueAssumption DEF TypeOK, Bump
  <2>2. Floor' = Floor /\ Above' = Above
    BY DEF Floor, Above
  <2> QED
    BY <2>1, <2>2, Versions
<1>3. queue \in Seq(Job) /\ overflow \in Seq(Job) /\ Len(queue) <= QueueCap
      /\ Len(queue) \in Nat /\ QueueCap \in Nat
  BY QueueAssumption DEF TypeOK
<1>4. Within(queue, Floor, latest') /\ Within(overflow, Floor, latest')
      /\ Within(overflow, Above, latest')
  BY <1>2, <1>3, WithinGrows DEF Pipeline
<1>5. /\ db[k] <= latest[k] /\ overtaken[k] <= latest[k]
      /\ Fits(j, Floor, latest') /\ Fits(j, Above, latest')
  <2>1. db[k] <= latest[k] /\ overtaken[k] <= latest[k]
    BY DEF Pipeline
  <2>2. Floor[k] <= latest[k] + 1 /\ Above[k] <= latest[k] + 1
    BY <1>2, <2>1
  <2> QED
    BY <1>1, <1>2, <2>1, <2>2 DEF Fits
<1>6. ASSUME NEW s \in Seq(Job), Within(s, Floor, latest)
      PROVE  Last(s, j)
  <2> SUFFICES ASSUME NEW i \in DOMAIN s, s[i].key = k
               PROVE  s[i].version < j.version
    BY <1>1 DEF Last
  <2>1. s[i].version <= latest[k] /\ s[i].version \in Nat
    BY <1>6, SeqShape DEF Within, Fits
  <2> QED
    BY <1>1, <1>2, <2>1
<1>7. Last(queue, j) /\ Last(overflow, j)
  BY <1>3, <1>6 DEF Pipeline
<1>8. Running => job \in Job /\ (job.key = k => job.version < j.version)
                 /\ Fits(job, Floor, latest')
  <2> SUFFICES ASSUME Running
               PROVE  job \in Job /\ (job.key = k => job.version < j.version)
                      /\ Fits(job, Floor, latest')
    OBVIOUS
  <2>1. job \in Job /\ Fits(job, Floor, latest)
    BY DEF Pipeline
  <2>2. job.version \in Nat
    BY <2>1, JobShape
  <2>3. Fits(job, Floor, latest')
    <3> SUFFICES ASSUME job.key \in Keys
                 PROVE  Floor[job.key] <= job.version /\ job.version <= latest'[job.key]
      BY DEF Fits
    <3>1. Floor[job.key] <= job.version /\ job.version <= latest[job.key]
      BY <2>1 DEF Fits
    <3>2. latest[job.key] \in Nat /\ latest'[job.key] \in Nat
          /\ latest[job.key] <= latest'[job.key]
      BY <1>2
    <3> QED
      BY <2>2, <3>1, <3>2
  <2>4. ASSUME job.key = k PROVE job.version < j.version
    <3>1. job.version <= latest[k] /\ latest[k] \in Nat
      BY <1>2, <2>1, <2>4 DEF Fits
    <3> QED
      BY <1>1, <2>2, <3>1
  <2> QED
    BY <2>1, <2>3, <2>4
<1>9. \/ /\ overflow = <<>> /\ Len(queue) < QueueCap
         /\ queue' = Append(queue, j) /\ UNCHANGED overflow
      \/ /\ \A i \in DOMAIN overflow : overflow[i].key # k
         /\ overflow' = Append(overflow, j) /\ UNCHANGED queue
      \/ /\ \E i \in DOMAIN overflow : overflow[i].key = k
         /\ overflow' = Coalesce(j) /\ UNCHANGED queue
  BY <1>1, QueueAssumption DEF Enqueue, Coalesce, j
<1>10. /\ Running' <=> Running
       /\ \A m \in Keys : db'[m] <= latest'[m] /\ overtaken'[m] <= latest'[m]
  <2>1. \A m \in Keys : /\ db[m] <= latest[m] /\ overtaken[m] <= latest[m]
                        /\ db[m] \in Nat /\ overtaken[m] \in Nat
                        /\ latest[m] \in Nat /\ latest'[m] \in Nat
                        /\ latest[m] <= latest'[m]
    BY <1>2 DEF Pipeline
  <2> QED
    BY <2>1 DEF Running
<1>11. CASE /\ overflow = <<>> /\ Len(queue) < QueueCap
            /\ queue' = Append(queue, j) /\ UNCHANGED overflow
  <2>1. queue' \in Seq(Job) /\ Len(queue') <= QueueCap
    BY <1>1, <1>3, <1>11, AppendIndices
  <2>2. Ordered(queue') /\ Within(queue', Floor, latest') /\ NoBarrier(queue')
        /\ Has(queue', k, latest'[k])
    BY <1>1, <1>2, <1>3, <1>4, <1>5, <1>7, <1>11, AppendFacts DEF Pipeline
  <2>3. Before(queue', overflow')
    BY <1>11, EmptyFacts
  <2>4. Running /\ First(job, queue) => First(job, queue')
    BY <1>1, <1>3, <1>8, <1>11, AppendFacts
  <2>5. \A m \in Keys \ {k} : \A v : Has(queue, m, v) => Has(queue', m, v)
    BY <1>1, <1>3, <1>11, AppendFacts
  <2>6. Pipeline'
    BY <1>2, <1>4, <1>8, <1>10, <1>11, <2>2, <2>3, <2>4 DEF Pipeline
  <2> QED
    BY <1>3, <1>11, <2>1, <2>2, <2>5, <2>6
<1>12. CASE /\ \A i \in DOMAIN overflow : overflow[i].key # k
            /\ overflow' = Append(overflow, j) /\ UNCHANGED queue
  <2>1. overflow' \in Seq(Job)
    BY <1>1, <1>3, <1>12, AppendIndices
  <2>2. Free(overflow, j.key)
    BY <1>1, <1>12 DEF Free
  <2>3. /\ Single(overflow') /\ NoBarrier(overflow') /\ Has(overflow', k, latest'[k])
        /\ Within(overflow', Floor, latest') /\ Within(overflow', Above, latest')
    BY <1>1, <1>2, <1>3, <1>4, <1>5, <1>12, <2>2, AppendFacts DEF Pipeline
  <2>4. Before(queue', overflow')
    BY <1>1, <1>3, <1>7, <1>12, AppendFacts DEF Pipeline
  <2>5. Running => First(job, overflow')
    BY <1>1, <1>3, <1>8, <1>12, AppendFacts DEF Pipeline
  <2>6. \A m \in Keys \ {k} : \A v : Has(overflow, m, v) => Has(overflow', m, v)
    BY <1>1, <1>3, <1>12, AppendFacts
  <2>7. Pipeline'
    BY <1>2, <1>4, <1>8, <1>10, <1>12, <2>3, <2>4, <2>5 DEF Pipeline
  <2> QED
    BY <1>3, <1>12, <2>1, <2>3, <2>6, <2>7
<1>13. CASE /\ \E i \in DOMAIN overflow : overflow[i].key = k
            /\ overflow' = Coalesce(j) /\ UNCHANGED queue
  <2>1. overflow' \in Seq(Job)
    BY <1>1, <1>3, <1>13, CoalesceFacts
  <2>2. /\ Single(overflow') /\ NoBarrier(overflow') /\ Has(overflow', k, latest'[k])
        /\ Within(overflow', Floor, latest') /\ Within(overflow', Above, latest')
    BY <1>1, <1>2, <1>3, <1>4, <1>5, <1>13, CoalesceFacts DEF Pipeline
  <2>3. Before(queue', overflow')
    BY <1>1, <1>3, <1>7, <1>13, CoalesceFacts DEF Pipeline
  <2>4. Running => First(job, overflow')
    BY <1>1, <1>3, <1>8, <1>13, CoalesceFacts DEF Pipeline
  <2>5. \A m \in Keys \ {k} : \A v : Has(overflow, m, v) => Has(overflow', m, v)
    BY <1>1, <1>3, <1>13, CoalesceFacts
  <2>6. Pipeline'
    BY <1>2, <1>4, <1>8, <1>10, <1>13, <2>2, <2>3, <2>4 DEF Pipeline
  <2> QED
    BY <1>3, <1>13, <2>1, <2>2, <2>5, <2>6
<1> QED
  BY <1>9, <1>11, <1>12, <1>13

\* A barrier goes behind everything.
LEMMA EnqueueBarrier ==
  ASSUME TypeOK, Pipeline, NoBarrier(queue), NoBarrier(overflow),
         Enqueue([key |-> Barrier, version |-> 0])
  PROVE  /\ queue' \in Seq(Job) /\ Len(queue') <= QueueCap /\ overflow' \in Seq(Job)
         /\ \/ EndsInBarrier(queue') /\ overflow' = <<>>
            \/ NoBarrier(queue') /\ EndsInBarrier(overflow')
         /\ Ordered(queue') /\ Single(overflow') /\ Before(queue', overflow')
         /\ \A lo, hi : Within(queue, lo, hi) => Within(queue', lo, hi)
         /\ \A lo, hi : Within(overflow, lo, hi) => Within(overflow', lo, hi)
         /\ job.key \in Keys /\ First(job, queue) => First(job, queue')
         /\ job.key \in Keys /\ First(job, overflow) => First(job, overflow')
         /\ \A k \in Keys :
              /\ \A v : Has(queue, k, v) => Has(queue', k, v)
              /\ \A v : Has(overflow, k, v) => Has(overflow', k, v)
<1> DEFINE j == [key |-> Barrier, version |-> 0]
<1>1. /\ j \in Job /\ j.key = Barrier /\ Barrier \notin Keys
      /\ \A s : Last(s, j) /\ First(j, s)
      /\ \A lo, hi : Fits(j, lo, hi)
  BY QueueAssumption DEF Job, Last, First, Fits
<1>2. queue \in Seq(Job) /\ overflow \in Seq(Job) /\ Len(queue) <= QueueCap
      /\ Len(queue) \in Nat /\ QueueCap \in Nat
  BY QueueAssumption DEF TypeOK
<1>3. \/ /\ overflow = <<>> /\ Len(queue) < QueueCap
         /\ queue' = Append(queue, j) /\ UNCHANGED overflow
      \/ overflow' = Append(overflow, j) /\ UNCHANGED queue
  BY <1>1 DEF Enqueue, Coalesce
<1> HIDE DEF j
<1>4. CASE /\ overflow = <<>> /\ Len(queue) < QueueCap
           /\ queue' = Append(queue, j) /\ UNCHANGED overflow
  <2>1. queue' \in Seq(Job) /\ Len(queue') <= QueueCap
    BY <1>1, <1>2, <1>4, AppendIndices
  <2>2. /\ Ordered(queue') /\ EndsInBarrier(queue')
        /\ \A lo, hi : Within(queue, lo, hi) => Within(queue', lo, hi)
    BY <1>1, <1>2, <1>4, AppendFacts DEF Pipeline
  <2>3. job.key \in Keys /\ First(job, queue) => First(job, queue')
    BY <1>1, <1>2, <1>4, AppendFacts
  <2>4. \A k \in Keys : \A v : Has(queue, k, v) => Has(queue', k, v)
    BY <1>1, <1>2, <1>4, AppendFacts
  <2> QED
    BY <1>2, <1>4, <2>1, <2>2, <2>3, <2>4, EmptyFacts
<1>5. CASE overflow' = Append(overflow, j) /\ UNCHANGED queue
  <2>1. overflow' \in Seq(Job)
    BY <1>1, <1>2, <1>5, AppendIndices
  <2>2. /\ Single(overflow') /\ EndsInBarrier(overflow')
        /\ \A lo, hi : Within(overflow, lo, hi) => Within(overflow', lo, hi)
    BY <1>1, <1>2, <1>5, AppendFacts DEF Pipeline
  <2>3. Before(queue', overflow')
    BY <1>1, <1>2, <1>5, AppendFacts DEF Pipeline
  <2>4. job.key \in Keys /\ First(job, overflow) => First(job, overflow')
    BY <1>1, <1>2, <1>5, AppendFacts
  <2>5. \A k \in Keys : \A v : Has(overflow, k, v) => Has(overflow', k, v)
    BY <1>1, <1>2, <1>5, AppendFacts
  <2> QED
    BY <1>2, <1>5, <2>1, <2>2, <2>3, <2>4, <2>5 DEF Pipeline
<1> QED
  BY <1>3, <1>4, <1>5

-----------------------------------------------------------------------------
(* The steps.                                                              *)

LEMMA InitIInv == Init => IInv
<1> SUFFICES ASSUME Init PROVE IInv
  OBVIOUS
<1>1. TypeOK
  BY QueueAssumption DEF Init, TypeOK
<1>2. Pipeline
  BY EmptyFacts DEF Init, Pipeline, Running
<1>3. Phases /\ OnlyReleased
  BY EmptyFacts DEF Init, Phases, JobIsSave, Running, OnlyReleased, Past
<1>4. Landed
  BY DEF Init, Landed
<1> QED
  BY <1>1, <1>2, <1>3, <1>4 DEF IInv

LEMMA SaveAsyncIInv ==
  ASSUME IInv, NEW k \in Keys, SaveAsync(k)
  PROVE  IInv'
<1>1. TypeOK /\ Pipeline /\ Phases /\ OnlyReleased /\ Landed
  BY DEF IInv
<1>2. /\ phase = "idle" /\ latest[k] < MaxVersion /\ failed' = failed \ {k}
      /\ latest' = Bump({k}) /\ Enqueue([key |-> k, version |-> latest[k] + 1])
      /\ UNCHANGED <<wpc, job, phase, saving, db, confirmed, crashes, overtaken, released>>
  BY DEF SaveAsync
<1>3. saving = {} /\ JobIsSave /\ NoBarrier(queue) /\ NoBarrier(overflow)
  BY <1>1, <1>2 DEF Phases
<1>4. /\ queue' \in Seq(Job) /\ Len(queue') <= QueueCap /\ overflow' \in Seq(Job)
      /\ Pipeline' /\ NoBarrier(queue') /\ NoBarrier(overflow')
      /\ Has(queue', k, latest'[k]) \/ Has(overflow', k, latest'[k])
      /\ \A m \in Keys \ {k} :
           /\ \A v : Has(queue, m, v) => Has(queue', m, v)
           /\ \A v : Has(overflow, m, v) => Has(overflow', m, v)
  BY <1>1, <1>2, <1>3, EnqueueSave
<1>5. latest' \in [Keys -> 0 .. MaxVersion]
  BY <1>1, <1>2, QueueAssumption DEF TypeOK, Bump
<1>6. \A m \in Keys \ {k} : latest'[m] = latest[m]
  BY <1>1, <1>2 DEF TypeOK, Bump
<1>7. TypeOK'
  BY <1>1, <1>2, <1>4, <1>5 DEF TypeOK
<1>8. Phases' /\ OnlyReleased'
  <2>1. Phases'
    BY <1>2, <1>3, <1>4 DEF Phases, JobIsSave, Running
  <2>2. ~Past'
    BY <1>2, <1>3, QueueAssumption DEF Past, JobIsSave, Running
  <2> QED
    BY <2>1, <2>2 DEF OnlyReleased
<1>9. Landed'
  <2> SUFFICES ASSUME NEW m \in Keys
               PROVE  Pending(m)' \/ db'[m] = latest'[m] \/ m \in failed'
                        \/ overtaken'[m] = latest'[m]
    BY DEF Landed
  <2>1. CASE m = k
    BY <1>4, <2>1 DEF Pending
  <2>2. CASE m # k
    <3>1. m \in Keys \ {k} /\ latest'[m] = latest[m]
      BY <1>6, <2>2
    <3>2. Pending(m) \/ db[m] = latest[m] \/ m \in failed \/ overtaken[m] = latest[m]
      BY <1>1, <1>3 DEF Landed
    <3>3. Pending(m) => Pending(m)'
      BY <1>2, <1>4, <3>1 DEF Pending, Running
    <3> QED
      BY <1>2, <3>1, <3>2, <3>3
  <2> QED
    BY <2>1, <2>2
<1> QED
  BY <1>4, <1>7, <1>8, <1>9 DEF IInv

LEMMA SaveBeginIInv ==
  ASSUME IInv, NEW K \in SyncSets, SaveBegin(K)
  PROVE  IInv'
<1>1. TypeOK /\ Pipeline /\ Phases /\ OnlyReleased /\ Landed
  BY DEF IInv
<1>2. /\ phase = "idle" /\ phase' = "flushing" /\ saving' = K
      /\ \A k \in K : latest[k] < MaxVersion
      /\ latest' = Bump(K) /\ Enqueue([key |-> Barrier, version |-> 0])
      /\ failed' = failed \ K /\ released' = {}
      /\ UNCHANGED <<wpc, job, db, confirmed, crashes, overtaken>>
  BY DEF SaveBegin
<1>3. saving = {} /\ JobIsSave /\ NoBarrier(queue) /\ NoBarrier(overflow)
  BY <1>1, <1>2 DEF Phases
<1>4. /\ queue' \in Seq(Job) /\ Len(queue') <= QueueCap /\ overflow' \in Seq(Job)
      /\ \/ EndsInBarrier(queue') /\ overflow' = <<>>
         \/ NoBarrier(queue') /\ EndsInBarrier(overflow')
      /\ Ordered(queue') /\ Single(overflow') /\ Before(queue', overflow')
      /\ \A lo, hi : Within(queue, lo, hi) => Within(queue', lo, hi)
      /\ \A lo, hi : Within(overflow, lo, hi) => Within(overflow', lo, hi)
      /\ job.key \in Keys /\ First(job, queue) => First(job, queue')
      /\ job.key \in Keys /\ First(job, overflow) => First(job, overflow')
      /\ \A k \in Keys :
           /\ \A v : Has(queue, k, v) => Has(queue', k, v)
           /\ \A v : Has(overflow, k, v) => Has(overflow', k, v)
  BY <1>1, <1>2, <1>3, EnqueueBarrier
<1>5. /\ K \subseteq Keys
      /\ latest' \in [Keys -> 0 .. MaxVersion]
      /\ \A k \in Keys : latest[k] <= latest'[k] /\ (k \notin K => latest'[k] = latest[k])
  BY <1>1, <1>2, QueueAssumption DEF TypeOK, Bump
<1>6. TypeOK'
  BY <1>1, <1>2, <1>4, <1>5 DEF TypeOK
<1>7. /\ latest \in [Keys -> Nat] /\ latest' \in [Keys -> Nat] /\ db \in [Keys -> Nat]
      /\ overtaken \in [Keys -> Nat] /\ Floor \in [Keys -> Nat] /\ Above \in [Keys -> Nat]
      /\ Floor' = Floor /\ Above' = Above
      /\ \A k \in Keys : db[k] <= latest[k] /\ overtaken[k] <= latest[k]
  <2>1. latest' \in [Keys -> Nat]
    BY <1>5, QueueAssumption
  <2>2. Floor' = Floor /\ Above' = Above
    BY <1>2 DEF Floor, Above
  <2> QED
    BY <1>1, <2>1, <2>2, Versions DEF Pipeline
<1>8. Within(queue', Floor, latest') /\ Within(overflow', Floor, latest')
      /\ Within(overflow', Above, latest')
  <2>1. Within(queue, Floor, latest') /\ Within(overflow, Floor, latest')
        /\ Within(overflow, Above, latest')
    BY <1>1, <1>5, <1>7, WithinGrows DEF Pipeline, TypeOK
  <2> QED
    BY <1>4, <2>1
<1>9. Running => job \in Job /\ Fits(job, Floor, latest')
  <2> SUFFICES ASSUME Running PROVE job \in Job /\ Fits(job, Floor, latest')
    OBVIOUS
  <2>1. job \in Job /\ Fits(job, Floor, latest)
    BY <1>1 DEF Pipeline
  <2>2. job.version \in Nat
    BY <2>1, JobShape
  <2>3. job.key \in Keys => latest[job.key] \in Nat /\ latest'[job.key] \in Nat
          /\ latest[job.key] <= latest'[job.key]
    BY <1>5, <1>7
  <2>4. job.key \in Keys => Floor[job.key] <= job.version /\ job.version <= latest'[job.key]
    BY <2>1, <2>2, <2>3 DEF Fits
  <2> QED
    BY <2>1, <2>4 DEF Fits
<1>10. Pipeline'
  <2>1. \A k \in Keys : db'[k] <= latest'[k] /\ overtaken'[k] <= latest'[k]
    <3>1. \A k \in Keys : /\ db[k] <= latest[k] /\ overtaken[k] <= latest[k]
                          /\ db[k] \in Nat /\ overtaken[k] \in Nat
                          /\ latest[k] \in Nat /\ latest'[k] \in Nat
                          /\ latest[k] <= latest'[k]
      BY <1>5, <1>7
    <3> QED
      BY <1>2, <3>1
  <2>2. Running' <=> Running
    BY <1>2 DEF Running
  <2>3. Running => First(job, overflow)
          /\ (job.key \in Keys /\ overtaken[job.key] < job.version => First(job, queue))
    BY <1>1 DEF Pipeline
  <2>4. Running => job.key \in Keys
    BY <1>3 DEF JobIsSave
  <2> QED
    BY <1>2, <1>4, <1>7, <1>8, <1>9, <2>1, <2>2, <2>3, <2>4 DEF Pipeline
<1>11. Phases' /\ OnlyReleased'
  <2>1. Phases'
    BY <1>2, <1>3, <1>4 DEF Phases, JobIsSave, Running
  <2>2. ~Past'
    BY <1>2, <1>3, QueueAssumption DEF Past, JobIsSave, Running
  <2> QED
    BY <2>1, <2>2 DEF OnlyReleased
<1>12. Landed'
  <2> SUFFICES ASSUME NEW k \in Keys \ K
               PROVE  Pending(k)' \/ db'[k] = latest'[k] \/ k \in failed'
                        \/ overtaken'[k] = latest'[k]
    BY <1>2 DEF Landed
  <2>1. Pending(k) \/ db[k] = latest[k] \/ k \in failed \/ overtaken[k] = latest[k]
    BY <1>1, <1>3 DEF Landed
  <2>2. latest'[k] = latest[k]
    BY <1>5
  <2>3. Pending(k) => Pending(k)'
    BY <1>2, <1>4, <2>2 DEF Pending, Running
  <2> QED
    BY <1>2, <2>1, <2>2, <2>3
<1> QED
  BY <1>6, <1>10, <1>11, <1>12 DEF IInv

\* The worker takes the oldest job of the channel.
LEMMA TakeQueued ==
  ASSUME IInv, ~Running, queue # <<>>, Take(Head(queue)), queue' = Tail(queue),
         UNCHANGED <<latest, overflow, phase, saving, db, confirmed, crashes, history>>
  PROVE  IInv'
<1>1. TypeOK /\ Pipeline /\ Phases /\ OnlyReleased /\ Landed
  BY DEF IInv
<1>2. queue \in Seq(Job) /\ Len(queue) <= QueueCap /\ QueueCap \in Nat
      /\ UNCHANGED <<failed, overtaken, released>>
  BY <1>1, QueueAssumption DEF TypeOK, history
<1>3. job' = Head(queue) /\ wpc' = "run" /\ Running'
  BY DEF Take, Running
<1>4. /\ job' \in Job /\ queue' \in Seq(Job) /\ Len(queue') <= QueueCap
  <2>1. Len(queue') = Len(queue) - 1 /\ Len(queue) \in Nat
    BY <1>2, TailIndices
  <2>2. job' \in Job /\ queue' \in Seq(Job)
    BY <1>2, <1>3, TailIndices
  <2> QED
    BY <1>2, <2>1, <2>2
<1>5. TypeOK'
  BY <1>1, <1>2, <1>3, <1>4 DEF TypeOK
<1>6. /\ Ordered(queue') /\ First(job', queue')
      /\ Before(queue', overflow) /\ First(job', overflow)
      /\ Within(queue', Floor, latest) /\ Fits(job', Floor, latest)
  BY <1>1, <1>2, <1>3, TailFacts DEF Pipeline
<1>7. Pipeline'
  <2>1. Floor' = Floor /\ Above' = Above
    BY <1>2 DEF Floor, Above
  <2> QED
    BY <1>1, <1>2, <1>4, <1>6, <2>1 DEF Pipeline
<1>8. /\ NoBarrier(queue) => job'.key \in Keys /\ NoBarrier(queue')
      /\ EndsInBarrier(queue) => \/ job'.key = Barrier /\ queue' = <<>>
                                 \/ job'.key \in Keys /\ EndsInBarrier(queue')
  BY <1>2, <1>3, TailFacts
<1>9. Phases'
  <2>1. phase' = "idle" => saving' = {} /\ JobIsSave' /\ NoBarrier(queue')
                            /\ NoBarrier(overflow')
    BY <1>1, <1>8 DEF Phases, JobIsSave
  <2>2. phase' = "flushing" =>
          \/ Running' /\ job'.key = Barrier /\ NoBarrier(queue') /\ overflow' = <<>>
          \/ JobIsSave' /\ EndsInBarrier(queue') /\ overflow' = <<>> /\ released' = {}
          \/ JobIsSave' /\ NoBarrier(queue') /\ EndsInBarrier(overflow')
               /\ released' = {}
    BY <1>1, <1>2, <1>3, <1>8, EmptyFacts DEF Phases, JobIsSave
  <2>3. phase' = "drained" => JobIsSave' /\ NoBarrier(queue') /\ overflow' = <<>>
    BY <1>1, <1>8 DEF Phases, JobIsSave
  <2> QED
    BY <2>1, <2>2, <2>3 DEF Phases
<1>10. OnlyReleased'
  <2> SUFFICES ASSUME Past'
               PROVE  /\ \A i \in DOMAIN queue' : queue'[i].key \in released'
                      /\ job'.key \in released' \union {Barrier}
                      /\ \A k \in released' \cap saving' : overtaken'[k] = latest'[k]
    BY DEF OnlyReleased
  <2>1. CASE phase = "drained"
    <3>1. Past
      BY <2>1 DEF Past
    <3>2. \A i \in DOMAIN queue' : \E m \in DOMAIN queue : queue'[i] = queue[m]
      BY <1>2, TailIndices
    <3>3. job' = queue[1] /\ 1 \in DOMAIN queue
      BY <1>2, <1>3, TailIndices
    <3> QED
      BY <1>1, <1>2, <3>1, <3>2, <3>3 DEF OnlyReleased
  <2>2. CASE phase # "drained"
    <3>1. job'.key = Barrier /\ Barrier \notin Keys
      BY <2>2, QueueAssumption DEF Past
    <3>2. phase = "flushing"
      BY <1>1, <1>8, <2>2, <3>1 DEF Phases, TypeOK
    <3>3. queue' = <<>> /\ released' = {}
      BY <1>1, <1>2, <1>8, <3>1, <3>2 DEF Phases
    <3> QED
      BY <3>1, <3>3
  <2> QED
    BY <2>1, <2>2
<1>11. Landed'
  <2> SUFFICES ASSUME NEW k \in Keys \ saving
               PROVE  Pending(k)' \/ db'[k] = latest'[k] \/ k \in failed'
                        \/ overtaken'[k] = latest'[k]
    BY DEF Landed
  <2>1. Pending(k) \/ db[k] = latest[k] \/ k \in failed \/ overtaken[k] = latest[k]
    BY <1>1 DEF Landed
  <2>2. Has(queue, k, latest[k]) =>
          (job'.key = k /\ job'.version = latest[k]) \/ Has(queue', k, latest[k])
    BY <1>2, <1>3, TailFacts
  <2>3. Pending(k) => Pending(k)'
    BY <1>3, <2>2 DEF Pending
  <2> QED
    BY <1>2, <2>1, <2>3
<1> QED
  BY <1>5, <1>7, <1>9, <1>10, <1>11 DEF IInv

\* Only where the worker stands changes, and it has no job before or after.
LEMMA WorkerMoves ==
  ASSUME IInv, ~Running, ~Running', wpc' \in {"check", "sleep"},
         UNCHANGED <<job, queue, latest, overflow, phase, saving, db, confirmed, crashes,
                     failed, overtaken, released>>
  PROVE  IInv'
<1>1. TypeOK /\ Pipeline /\ Phases /\ OnlyReleased /\ Landed
  BY DEF IInv
<1>2. TypeOK'
  BY <1>1 DEF TypeOK
<1>3. Pipeline'
  BY <1>1 DEF Pipeline, Floor, Above
<1>4. Phases'
  BY <1>1 DEF Phases, JobIsSave
<1>5. OnlyReleased'
  BY <1>1 DEF OnlyReleased, Past
<1>6. Landed'
  BY <1>1 DEF Landed, Pending
<1> QED
  BY <1>2, <1>3, <1>4, <1>5, <1>6 DEF IInv

LEMMA PollIInv ==
  ASSUME IInv, Poll
  PROVE  IInv'
<1>1. ~Running
      /\ UNCHANGED <<latest, overflow, phase, saving, db, confirmed, crashes, history>>
  BY DEF Poll, Running
<1>2. CASE queue # <<>> /\ Take(Head(queue)) /\ queue' = Tail(queue)
  BY <1>1, <1>2, TakeQueued
<1>3. CASE queue = <<>> /\ wpc' = "check" /\ UNCHANGED <<job, queue>>
  BY <1>1, <1>3, WorkerMoves DEF Running, history
<1> QED
  BY <1>2, <1>3 DEF Poll

LEMMA WakeIInv ==
  ASSUME IInv, Wake
  PROVE  IInv'
<1>1. ~Running
  BY DEF Wake, Running
<1> QED
  BY <1>1, TakeQueued DEF Wake

\* The histories only move up, so what could be written before still can.
LEMMA OvertakeFacts ==
  ASSUME TypeOK, Pipeline, overflow # <<>>, Overtake(Head(overflow)), UNCHANGED db
  PROVE  /\ overtaken' \in [Keys -> 0 .. MaxVersion] /\ released' \in SUBSET Keys
         /\ \A k \in Keys : /\ overtaken[k] <= overtaken'[k] /\ overtaken'[k] <= latest[k]
                            /\ Floor'[k] \in Nat /\ Floor'[k] <= Floor[k]
         /\ Floor' \in [Keys -> Nat] /\ Above' \in [Keys -> Nat]
         /\ \A k \in Keys : k \in LeftBehind /\ k = Head(overflow).key
                              => overtaken'[k] = Head(overflow).version
         /\ \A k \in LeftBehind \cap saving :
              Head(overflow).key = Barrier => overtaken'[k] = latest[k]
         /\ \A k \in Keys : k # Head(overflow).key /\ Head(overflow).key # Barrier
                              => overtaken'[k] = overtaken[k]
<1> DEFINE h == Head(overflow)
<1>1. /\ h \in Job /\ h.version \in Nat /\ h.version \in 0 .. MaxVersion
      /\ Fits(h, Above, latest)
  <2>1. overflow \in Seq(Job)
    BY DEF TypeOK
  <2>2. h \in Job /\ Fits(h, Above, latest)
    BY <2>1, TailIndices, TailFacts DEF Pipeline
  <2> QED
    BY <2>2, QueueAssumption DEF Job
<1> HIDE DEF h
<1>2. /\ latest \in [Keys -> 0 .. MaxVersion] /\ overtaken \in [Keys -> 0 .. MaxVersion]
      /\ released \in SUBSET Keys /\ LeftBehind \subseteq Keys /\ MaxVersion \in Nat
      /\ db \in [Keys -> 0 .. MaxVersion] /\ Barrier \notin Keys
      /\ \A k \in Keys : overtaken[k] <= latest[k]
  BY QueueAssumption DEF TypeOK, LeftBehind, Pipeline
<1>3. /\ overtaken' = [k \in Keys |->
                         CASE k \in LeftBehind /\ k = h.key -> h.version
                           [] k \in LeftBehind \cap saving /\ h.key = Barrier -> latest[k]
                           [] OTHER -> overtaken[k]]
      /\ released' = IF h.key = Barrier THEN LeftBehind ELSE released
  BY DEF Overtake, h
<1>4. ASSUME NEW k \in Keys
      PROVE  /\ overtaken'[k] \in 0 .. MaxVersion
             /\ overtaken[k] <= overtaken'[k] /\ overtaken'[k] <= latest[k]
             /\ k \in LeftBehind /\ k = h.key => overtaken'[k] = h.version
             /\ k \in LeftBehind \cap saving /\ h.key = Barrier => overtaken'[k] = latest[k]
             /\ k # h.key /\ h.key # Barrier => overtaken'[k] = overtaken[k]
  <2>1. CASE k \in LeftBehind /\ k = h.key
    <3>1. overtaken'[k] = h.version /\ h.key # Barrier
      BY <1>2, <1>3, <2>1
    <3>2. overtaken[k] + 1 <= h.version /\ h.version <= latest[k]
      BY <1>1, <2>1 DEF Fits, Above
    <3> QED
      BY <1>1, <1>2, <2>1, <3>1, <3>2
  <2>2. CASE k \in LeftBehind \cap saving /\ h.key = Barrier
    <3>1. overtaken'[k] = latest[k] /\ k # h.key
      BY <1>2, <1>3, <2>2
    <3> QED
      BY <1>2, <2>2, <3>1
  <2>3. CASE ~(k \in LeftBehind /\ k = h.key)
             /\ ~(k \in LeftBehind \cap saving /\ h.key = Barrier)
    <3>1. overtaken'[k] = overtaken[k]
      BY <1>3, <2>3
    <3> QED
      BY <1>2, <2>3, <3>1
  <2> QED
    BY <2>1, <2>2, <2>3
<1>5. overtaken' \in [Keys -> 0 .. MaxVersion] /\ released' \in SUBSET Keys
  <2>1. overtaken' \in [Keys -> 0 .. MaxVersion]
    <3>1. DOMAIN overtaken' = Keys /\ overtaken' = [k \in Keys |-> overtaken'[k]]
      BY <1>3
    <3> QED
      BY <1>4, <3>1
  <2> QED
    BY <1>2, <1>3, <2>1
<1>6. /\ Floor' = [k \in Keys |-> IF db[k] <= overtaken'[k] THEN 0 ELSE db[k]]
      /\ Above' = [k \in Keys |-> overtaken'[k] + 1]
  BY DEF Floor, Above
<1>7. ASSUME NEW k \in Keys
      PROVE  Floor'[k] \in Nat /\ Above'[k] \in Nat /\ Floor'[k] <= Floor[k]
  <2>1. /\ db[k] \in Nat /\ overtaken[k] \in Nat /\ overtaken'[k] \in Nat
        /\ overtaken[k] <= overtaken'[k]
    BY <1>2, <1>4
  <2>2. /\ Floor'[k] = IF db[k] <= overtaken'[k] THEN 0 ELSE db[k]
        /\ Above'[k] = overtaken'[k] + 1
    BY <1>6
  <2>3. Floor[k] = IF db[k] <= overtaken[k] THEN 0 ELSE db[k]
    BY DEF Floor
  <2> QED
    BY <2>1, <2>2, <2>3
<1>8. Floor' \in [Keys -> Nat] /\ Above' \in [Keys -> Nat]
  BY <1>6, <1>7
<1> QED
  BY <1>2, <1>4, <1>5, <1>7, <1>8 DEF h

\* The head of the overflow is newer than what the channel holds of its key.
LEMMA CheckIInv ==
  ASSUME IInv, Check
  PROVE  IInv'
<1>1. TypeOK /\ Pipeline /\ Phases /\ OnlyReleased /\ Landed
  BY DEF IInv
<1>2. /\ wpc = "check" /\ ~Running
      /\ UNCHANGED <<latest, queue, phase, saving, db, confirmed, crashes, failed>>
  BY DEF Check, Running
<1>3. /\ overflow \in Seq(Job) /\ queue \in Seq(Job) /\ ~EndsInBarrier(<<>>)
      /\ Barrier \notin Keys
  BY <1>1, QueueAssumption DEF TypeOK, EndsInBarrier
<1>4. CASE overflow # <<>> /\ Take(Head(overflow)) /\ overflow' = Tail(overflow)
           /\ Overtake(Head(overflow))
  <2>1. job' = Head(overflow) /\ wpc' = "run" /\ Running'
    BY <1>4 DEF Take, Running
  <2>2. job' \in Job /\ overflow' \in Seq(Job) /\ job'.version \in Nat
    BY <1>3, <1>4, <2>1, TailIndices, JobShape
  <2>3. /\ overtaken' \in [Keys -> 0 .. MaxVersion] /\ released' \in SUBSET Keys
        /\ \A k \in Keys : /\ overtaken[k] <= overtaken'[k] /\ overtaken'[k] <= latest[k]
                           /\ Floor'[k] \in Nat /\ Floor'[k] <= Floor[k]
        /\ Floor' \in [Keys -> Nat] /\ Above' \in [Keys -> Nat]
        /\ \A k \in Keys : k \in LeftBehind /\ k = job'.key
                             => overtaken'[k] = job'.version
        /\ \A k \in LeftBehind \cap saving :
             job'.key = Barrier => overtaken'[k] = latest[k]
        /\ \A k \in Keys : k # job'.key /\ job'.key # Barrier
                             => overtaken'[k] = overtaken[k]
    BY <1>1, <1>2, <1>4, <2>1, OvertakeFacts
  <2>4. TypeOK'
    BY <1>1, <1>2, <2>1, <2>2, <2>3 DEF TypeOK
  <2>5. /\ Single(overflow') /\ First(job', overflow') /\ Before(queue, overflow')
        /\ Within(overflow', Floor, latest) /\ Fits(job', Floor, latest)
        /\ Within(overflow', Above, latest)
    BY <1>1, <1>3, <1>4, <2>1, TailFacts DEF Pipeline
  <2>6. /\ NoBarrier(overflow) => job'.key \in Keys /\ NoBarrier(overflow')
        /\ EndsInBarrier(overflow) => \/ job'.key = Barrier /\ overflow' = <<>>
                                      \/ job'.key \in Keys /\ EndsInBarrier(overflow')
    BY <1>3, <1>4, <2>1, TailFacts
  <2>7. /\ latest \in [Keys -> Nat] /\ Floor \in [Keys -> Nat] /\ Above \in [Keys -> Nat]
    BY <1>1, Versions
  <2>8. /\ Within(queue, Floor', latest) /\ Within(overflow', Floor', latest)
    BY <1>1, <1>3, <2>2, <2>3, <2>5, <2>7, WithinLowers DEF Pipeline
  <2>9. job'.key = Barrier => phase = "flushing" /\ overflow' = <<>> /\ NoBarrier(queue)
    BY <1>1, <1>2, <1>3, <1>4, <2>6 DEF Phases, TypeOK
  <2>10. Within(overflow', Above', latest)
    <3>1. CASE job'.key = Barrier
      BY <2>9, <3>1, EmptyFacts
    <3>2. CASE job'.key # Barrier
      <4> SUFFICES ASSUME NEW i \in DOMAIN overflow', overflow'[i].key \in Keys
                   PROVE  /\ Above'[overflow'[i].key] <= overflow'[i].version
                          /\ overflow'[i].version <= latest[overflow'[i].key]
        BY DEF Within, Fits
      <4>1. PICK k \in Keys : k = overflow'[i].key
        OBVIOUS
      <4>2. Above[k] <= overflow'[i].version /\ overflow'[i].version <= latest[k]
        BY <2>5, <4>1 DEF Within, Fits
      <4>3. k # job'.key
        BY <1>3, <1>4, <2>1, <3>2, <4>1, TailIndices, SingleHead, <1>1 DEF Pipeline
      <4>4. overtaken'[k] = overtaken[k]
        BY <2>3, <3>2, <4>3
      <4>5. Above'[k] = Above[k]
        BY <4>4 DEF Above
      <4> QED
        BY <4>1, <4>2, <4>5
    <3> QED
      BY <3>1, <3>2
  <2>11. Fits(job', Floor', latest)
    <3> SUFFICES ASSUME job'.key \in Keys
                 PROVE  Floor'[job'.key] <= job'.version /\ job'.version <= latest[job'.key]
      BY DEF Fits
    <3>1. Floor[job'.key] <= job'.version /\ job'.version <= latest[job'.key]
      BY <2>5 DEF Fits
    <3>2. Floor'[job'.key] \in Nat /\ Floor'[job'.key] <= Floor[job'.key]
          /\ Floor[job'.key] \in Nat
      BY <2>3, <2>7
    <3> QED
      BY <2>2, <3>1, <3>2
  <2>12. job'.key \in Keys /\ overtaken'[job'.key] < job'.version => First(job', queue)
    <3> SUFFICES ASSUME job'.key \in Keys, overtaken'[job'.key] < job'.version
                 PROVE  First(job', queue)
      OBVIOUS
    <3>1. job'.key \notin LeftBehind
      BY <2>2, <2>3
    <3> QED
      BY <3>1 DEF LeftBehind, First
  <2>13. Pipeline'
    <3>1. \A k \in Keys : db'[k] <= latest'[k] /\ overtaken'[k] <= latest'[k]
      BY <1>1, <1>2, <2>3 DEF Pipeline
    <3>2. Ordered(queue') /\ Within(queue', Floor', latest') /\ Before(queue', overflow')
      BY <1>1, <1>2, <2>5, <2>8 DEF Pipeline
    <3> QED
      BY <1>2, <2>2, <2>5, <2>8, <2>10, <2>11, <2>12, <3>1, <3>2 DEF Pipeline
  <2>14. Phases'
    <3>1. phase' = "idle" => saving' = {} /\ JobIsSave' /\ NoBarrier(queue')
                              /\ NoBarrier(overflow')
      BY <1>1, <1>2, <2>6 DEF Phases, JobIsSave
    <3>2. phase' = "flushing" =>
            \/ Running' /\ job'.key = Barrier /\ NoBarrier(queue') /\ overflow' = <<>>
            \/ JobIsSave' /\ NoBarrier(queue') /\ EndsInBarrier(overflow')
                 /\ released' = {}
      <4>1. CASE job'.key = Barrier
        BY <1>2, <2>1, <2>9, <4>1
      <4>2. CASE job'.key # Barrier
        <5>1. released' = released
          BY <1>4, <2>1, <4>2 DEF Overtake
        <5> QED
          BY <1>1, <1>2, <1>3, <1>4, <2>6, <4>2, <5>1 DEF Phases, JobIsSave
      <4> QED
        BY <4>1, <4>2
    <3>3. phase' = "drained" => FALSE
      BY <1>1, <1>2, <1>4 DEF Phases
    <3> QED
      BY <3>1, <3>2, <3>3 DEF Phases
  <2>15. OnlyReleased'
    <3> SUFFICES ASSUME Past'
                 PROVE  /\ \A i \in DOMAIN queue' : queue'[i].key \in released'
                        /\ job'.key \in released' \union {Barrier}
                        /\ \A k \in released' \cap saving' : overtaken'[k] = latest'[k]
      BY DEF OnlyReleased
    <3>1. phase' # "drained"
      BY <1>1, <1>2, <1>4 DEF Phases
    <3>2. job'.key = Barrier
      BY <3>1 DEF Past
    <3>3. released' = LeftBehind
      BY <1>4, <2>1, <3>2 DEF Overtake
    <3>4. \A i \in DOMAIN queue : queue[i].key \in LeftBehind
      BY <2>9, <3>2 DEF NoBarrier, LeftBehind
    <3> QED
      BY <1>2, <2>3, <3>2, <3>3, <3>4
  <2>16. Landed'
    <3> SUFFICES ASSUME NEW k \in Keys \ saving
                 PROVE  Pending(k)' \/ db'[k] = latest'[k] \/ k \in failed'
                          \/ overtaken'[k] = latest'[k]
      BY <1>2 DEF Landed
    <3>1. Pending(k) \/ db[k] = latest[k] \/ k \in failed \/ overtaken[k] = latest[k]
      BY <1>1 DEF Landed
    <3>2. Has(overflow, k, latest[k]) =>
            (job'.key = k /\ job'.version = latest[k]) \/ Has(overflow', k, latest[k])
      BY <1>3, <1>4, <2>1, TailFacts
    <3>3. Pending(k) => Pending(k)'
      BY <1>2, <2>1, <3>2 DEF Pending
    <3>4. overtaken[k] = latest[k] => overtaken'[k] = latest[k]
      <4>1. overtaken[k] <= overtaken'[k] /\ overtaken'[k] <= latest[k]
            /\ overtaken'[k] \in Nat /\ latest[k] \in Nat
        BY <2>3, <2>7
      <4> QED
        BY <4>1
    <3> QED
      BY <1>2, <3>1, <3>3, <3>4
  <2> QED
    BY <2>4, <2>13, <2>14, <2>15, <2>16 DEF IInv
<1>5. CASE overflow = <<>> /\ wpc' = "sleep" /\ UNCHANGED <<job, overflow, overtaken, released>>
  BY <1>2, <1>5, WorkerMoves DEF Running
<1> QED
  BY <1>4, <1>5 DEF Check

\* Unless it was overtaken, the job is older than everything of its key behind
\* it and newer than the file, which then moves on.
LEMMA RunWriteIInv ==
  ASSUME IInv, RunWrite
  PROVE  IInv' /\ (\A k \in Keys : db'[k] < db[k] => db[k] <= overtaken[k])
<1>1. TypeOK /\ Pipeline /\ Phases /\ OnlyReleased /\ Landed
  BY DEF IInv
<1>2. /\ Running /\ ~Running' /\ wpc' = "poll" /\ job' = NoJob /\ job.key \in Keys
      /\ UNCHANGED <<latest, queue, overflow, phase, saving, confirmed, crashes,
                     overtaken, released>>
  BY DEF RunWrite, Running
<1> DEFINE stored == [db EXCEPT ![job.key] = job.version]
<1>3. \/ db' = stored /\ UNCHANGED failed
      \/ /\ db' \in {db, stored}
         /\ failed' = failed \union {k \in {job.key} : job.version = latest[k]}
  BY DEF RunWrite
<1>4. PICK k, v : k \in Keys /\ k = job.key /\ v = job.version
  BY <1>2
<1>5. /\ job \in Job /\ v \in 0 .. MaxVersion /\ v \in Nat
      /\ Floor[k] <= v /\ v <= latest[k]
      /\ First(job, overflow) /\ (overtaken[k] < v => First(job, queue))
  <2>1. job \in Job /\ Fits(job, Floor, latest) /\ First(job, overflow)
        /\ (overtaken[job.key] < job.version => First(job, queue))
    BY <1>1, <1>2 DEF Pipeline
  <2>2. v \in 0 .. MaxVersion /\ v \in Nat
    BY <1>4, <2>1, QueueAssumption DEF Job
  <2> QED
    BY <1>4, <2>1, <2>2 DEF Fits
<1>6. /\ db \in [Keys -> 0 .. MaxVersion] /\ latest \in [Keys -> 0 .. MaxVersion]
      /\ overtaken \in [Keys -> 0 .. MaxVersion]
      /\ failed \in SUBSET Keys /\ MaxVersion \in Nat
      /\ queue \in Seq(Job) /\ overflow \in Seq(Job)
      /\ \A m \in Keys : db[m] <= latest[m] /\ overtaken[m] <= latest[m]
  BY <1>1, QueueAssumption DEF TypeOK, Pipeline
<1>7. /\ db' \in [Keys -> 0 .. MaxVersion] /\ db'[k] \in {db[k], v}
      /\ \A m \in Keys \ {k} : db'[m] = db[m]
      /\ failed' \in SUBSET Keys /\ failed \subseteq failed'
      /\ db'[k] = v \/ v # latest[k] \/ k \in failed'
  BY <1>3, <1>4, <1>5, <1>6
<1>8. \A m \in Keys : db'[m] \in Nat /\ db[m] \in Nat /\ latest[m] \in Nat
                      /\ overtaken[m] \in Nat /\ db'[m] <= latest[m]
                      /\ (db'[m] < db[m] => db[m] <= overtaken[m])
  <2> SUFFICES ASSUME NEW m \in Keys
               PROVE  db'[m] \in Nat /\ db[m] \in Nat /\ latest[m] \in Nat
                      /\ overtaken[m] \in Nat /\ db'[m] <= latest[m]
                      /\ (db'[m] < db[m] => db[m] <= overtaken[m])
    OBVIOUS
  <2>1. db[m] \in Nat /\ latest[m] \in Nat /\ db'[m] \in Nat /\ overtaken[m] \in Nat
        /\ db[m] <= latest[m]
    BY <1>6, <1>7
  <2>2. db'[m] = db[m] \/ (m = k /\ db'[m] = v)
    BY <1>7
  <2>3. Floor[k] = IF db[k] <= overtaken[k] THEN 0 ELSE db[k]
    BY <1>4 DEF Floor
  <2> QED
    BY <1>5, <2>1, <2>2, <2>3
<1>9. /\ \A m \in Keys : Floor'[m] = IF db'[m] <= overtaken[m] THEN 0 ELSE db'[m]
      /\ \A m \in Keys \ {k} : Floor'[m] = Floor[m]
      /\ Above' = Above
  <2>1. Floor' = [m \in Keys |-> IF db'[m] <= overtaken[m] THEN 0 ELSE db'[m]]
        /\ Above' = Above
    BY <1>2 DEF Floor, Above
  <2> QED
    BY <1>7, <2>1 DEF Floor
<1>10. ASSUME NEW s \in Seq(Job), Within(s, Floor, latest), overtaken[k] < v => First(job, s)
       PROVE  Within(s, Floor', latest)
  <2>1. ASSUME NEW i \in DOMAIN s, s[i].key \in Keys
        PROVE  Floor'[s[i].key] <= s[i].version /\ s[i].version <= latest[s[i].key]
    <3>1. s[i].version \in Nat
      BY SeqShape
    <3>2. Floor[s[i].key] <= s[i].version /\ s[i].version <= latest[s[i].key]
      BY <1>10, <2>1 DEF Within, Fits
    <3>3. s[i].key = k /\ overtaken[k] < v => v < s[i].version
      BY <1>4, <1>10, <2>1 DEF First
    <3>4. CASE s[i].key = k
      <4>1. Floor'[k] = IF db'[k] <= overtaken[k] THEN 0 ELSE db'[k]
        BY <1>4, <1>9
      <4>2. Floor[k] = IF db[k] <= overtaken[k] THEN 0 ELSE db[k]
        BY <1>4 DEF Floor
      <4>3. db'[k] = db[k] \/ db'[k] = v
        BY <1>7
      <4>4. db'[k] \in Nat /\ db[k] \in Nat /\ overtaken[k] \in Nat
        BY <1>4, <1>8
      <4> QED
        BY <1>5, <3>1, <3>2, <3>3, <3>4, <4>1, <4>2, <4>3, <4>4
    <3>5. CASE s[i].key # k
      BY <1>9, <2>1, <3>2, <3>5
    <3> QED
      BY <3>4, <3>5
  <2> QED
    BY <2>1 DEF Within, Fits
<1>11. Within(queue, Floor', latest) /\ Within(overflow, Floor', latest)
  BY <1>1, <1>5, <1>6, <1>10 DEF Pipeline
<1>12. TypeOK'
  BY <1>1, <1>2, <1>7 DEF TypeOK
<1>13. Pipeline'
  <2>1. \A m \in Keys : db'[m] <= latest'[m] /\ overtaken'[m] <= latest'[m]
    BY <1>2, <1>6, <1>8
  <2> QED
    BY <1>1, <1>2, <1>9, <1>11, <2>1 DEF Pipeline
<1>14. Phases' /\ OnlyReleased'
  <2>1. Phases'
    BY <1>1, <1>2, QueueAssumption DEF Phases, JobIsSave
  <2>2. OnlyReleased'
    BY <1>1, <1>2, QueueAssumption DEF OnlyReleased, Past
  <2> QED
    BY <2>1, <2>2
<1>15. Landed'
  <2> SUFFICES ASSUME NEW m \in Keys \ saving
               PROVE  Pending(m)' \/ db'[m] = latest'[m] \/ m \in failed'
                        \/ overtaken'[m] = latest'[m]
    BY <1>2 DEF Landed
  <2>1. Pending(m) \/ db[m] = latest[m] \/ m \in failed \/ overtaken[m] = latest[m]
    BY <1>1 DEF Landed
  <2>2. CASE m = k
    <3>1. CASE v = latest[k]
      BY <1>2, <1>7, <2>2, <3>1
    <3>2. CASE v # latest[k]
      <4>1. Pending(k) => Pending(k)'
        BY <1>2, <1>4, <3>2 DEF Pending
      <4>2. db[k] = latest[k] => db'[k] = latest[k] \/ overtaken[k] = latest[k]
        <5>1. db'[k] \in Nat /\ db[k] \in Nat /\ overtaken[k] \in Nat /\ latest[k] \in Nat
              /\ db'[k] <= latest[k] /\ (db'[k] < db[k] => db[k] <= overtaken[k])
              /\ overtaken[k] <= latest[k]
          BY <1>4, <1>6, <1>8
        <5> QED
          BY <5>1
      <4> QED
        BY <1>2, <1>7, <2>1, <2>2, <4>1, <4>2
    <3> QED
      BY <3>1, <3>2
  <2>3. CASE m # k
    <3>1. Pending(m) => Pending(m)'
      BY <1>2, <1>4, <2>3 DEF Pending
    <3> QED
      BY <1>2, <1>7, <2>1, <2>3, <3>1
  <2> QED
    BY <2>2, <2>3
<1> QED
  BY <1>8, <1>12, <1>13, <1>14, <1>15 DEF IInv

LEMMA RunBarrierIInv ==
  ASSUME IInv, RunBarrier
  PROVE  IInv'
<1>1. TypeOK /\ Pipeline /\ Phases /\ OnlyReleased /\ Landed
  BY DEF IInv
<1>2. /\ Running /\ ~Running' /\ wpc' = "poll" /\ job' = NoJob /\ job.key = Barrier
      /\ phase' = "drained"
      /\ UNCHANGED <<latest, queue, overflow, saving, db, confirmed, crashes, failed,
                     overtaken, released>>
  BY DEF RunBarrier, Running, history
<1>3. NoBarrier(queue) /\ overflow = <<>>
  BY <1>1, <1>2, QueueAssumption DEF Phases, JobIsSave, TypeOK
<1>4. TypeOK'
  BY <1>1, <1>2 DEF TypeOK
<1>5. Pipeline'
  BY <1>1, <1>2 DEF Pipeline, Floor, Above
<1>6. Phases' /\ OnlyReleased'
  BY <1>1, <1>2, <1>3 DEF Phases, JobIsSave, OnlyReleased, Past
<1>7. Landed'
  <2>1. Barrier \notin Keys
    BY QueueAssumption
  <2>2. \A k \in Keys : Pending(k) => Pending(k)'
    BY <1>2, <2>1 DEF Pending
  <2> QED
    BY <1>1, <1>2, <2>2 DEF Landed
<1> QED
  BY <1>4, <1>5, <1>6, <1>7 DEF IInv

\* What is still on its way to a file being saved has been overtaken.
LEMMA SaveEndIInv ==
  ASSUME IInv, SaveEnd
  PROVE  IInv' /\ (\A k \in Keys : db'[k] >= db[k])
<1>1. TypeOK /\ Pipeline /\ Phases /\ OnlyReleased /\ Landed
  BY DEF IInv
<1>2. /\ phase = "drained" /\ phase' = "idle" /\ saving' = {}
      /\ UNCHANGED <<latest, queue, overflow, wpc, job, crashes, overtaken, released>>
  BY DEF SaveEnd
<1> DEFINE stored == [k \in Keys |-> IF k \in saving THEN latest[k] ELSE db[k]]
<1>3. \/ /\ db' = stored /\ UNCHANGED failed
         /\ confirmed' = [k \in Keys |->
                            IF k \in saving THEN latest[k] ELSE confirmed[k]]
      \/ /\ db' \in {db, stored} /\ failed' = failed \union saving
         /\ UNCHANGED confirmed
  BY DEF SaveEnd
<1>4. /\ JobIsSave /\ NoBarrier(queue) /\ overflow = <<>>
      /\ Running' <=> Running
      /\ \A i \in DOMAIN queue : queue[i].key \in released
      /\ Running => job.key \in released
      /\ \A k \in released \cap saving : overtaken[k] = latest[k]
  BY <1>1, <1>2, QueueAssumption DEF Phases, Running, OnlyReleased, Past, JobIsSave
<1>5. /\ db \in [Keys -> 0 .. MaxVersion] /\ latest \in [Keys -> 0 .. MaxVersion]
      /\ confirmed \in [Keys -> 0 .. MaxVersion] /\ overtaken \in [Keys -> 0 .. MaxVersion]
      /\ failed \in SUBSET Keys /\ saving \in SUBSET Keys /\ MaxVersion \in Nat
      /\ queue \in Seq(Job)
      /\ \A k \in Keys : db[k] <= latest[k] /\ overtaken[k] <= latest[k]
  BY <1>1, QueueAssumption DEF TypeOK, Pipeline
<1>6. db' \in [Keys -> 0 .. MaxVersion] /\ confirmed' \in [Keys -> 0 .. MaxVersion]
      /\ failed' \in SUBSET Keys
  BY <1>3, <1>5
<1>7. \A k \in Keys : /\ db'[k] >= db[k] /\ db'[k] <= latest[k]
                      /\ k \notin saving => db'[k] = db[k]
  <2> SUFFICES ASSUME NEW k \in Keys
               PROVE  /\ db'[k] >= db[k] /\ db'[k] <= latest[k]
                      /\ k \notin saving => db'[k] = db[k]
    OBVIOUS
  <2>1. db'[k] \in {db[k], latest[k]} /\ (k \notin saving => db'[k] = db[k])
    BY <1>3, <1>5
  <2> QED
    BY <1>5, <2>1
<1>8. TypeOK'
  BY <1>1, <1>2, <1>6 DEF TypeOK
<1>9. /\ Floor' = [m \in Keys |-> IF db'[m] <= overtaken[m] THEN 0 ELSE db'[m]]
      /\ Above' = Above
  BY <1>2 DEF Floor, Above
<1>10. \A k \in released \cap Keys : Floor'[k] <= Floor[k]
  <2> SUFFICES ASSUME NEW k \in released \cap Keys PROVE Floor'[k] <= Floor[k]
    OBVIOUS
  <2>1. /\ db[k] \in Nat /\ latest[k] \in Nat /\ overtaken[k] \in Nat /\ db'[k] \in Nat
        /\ Floor'[k] = IF db'[k] <= overtaken[k] THEN 0 ELSE db'[k]
        /\ Floor[k] = IF db[k] <= overtaken[k] THEN 0 ELSE db[k]
    BY <1>5, <1>6, <1>9 DEF Floor
  <2>2. CASE k \in saving
    <3>1. db'[k] <= overtaken[k]
      BY <1>4, <1>7, <2>2
    <3> QED
      BY <2>1, <3>1
  <2>3. CASE k \notin saving
    BY <1>7, <2>1, <2>3
  <2> QED
    BY <2>2, <2>3
<1>11. Floor \in [Keys -> Nat] /\ Floor' \in [Keys -> Nat]
  <2>1. Floor \in [Keys -> Nat]
    BY <1>1, Versions
  <2>2. \A m \in Keys : (IF db'[m] <= overtaken[m] THEN 0 ELSE db'[m]) \in Nat
    BY <1>6
  <2>3. Floor' \in [Keys -> Nat]
    BY <1>9, <2>2
  <2> QED
    BY <2>1, <2>3
<1>12. Within(queue, Floor', latest)
  <2> SUFFICES ASSUME NEW i \in DOMAIN queue, queue[i].key \in Keys
               PROVE  /\ Floor'[queue[i].key] <= queue[i].version
                      /\ queue[i].version <= latest[queue[i].key]
    BY DEF Within, Fits
  <2>1. Floor[queue[i].key] <= queue[i].version /\ queue[i].version <= latest[queue[i].key]
    BY <1>1 DEF Pipeline, Within, Fits
  <2>2. queue[i].version \in Nat
    BY <1>5, SeqShape
  <2>3. Floor'[queue[i].key] <= Floor[queue[i].key]
    BY <1>4, <1>10
  <2>4. Floor'[queue[i].key] \in Nat /\ Floor[queue[i].key] \in Nat
    BY <1>11
  <2> QED
    BY <2>1, <2>2, <2>3, <2>4
<1>13. Running => job \in Job /\ Fits(job, Floor', latest)
  <2> SUFFICES ASSUME Running, job.key \in Keys
               PROVE  Floor'[job.key] <= job.version /\ job.version <= latest[job.key]
    BY <1>1 DEF Pipeline, Fits
  <2>1. Floor[job.key] <= job.version /\ job.version <= latest[job.key] /\ job \in Job
    BY <1>1 DEF Pipeline, Fits
  <2>2. job.version \in Nat
    BY <2>1, JobShape
  <2>3. Floor'[job.key] <= Floor[job.key]
    BY <1>4, <1>10
  <2>4. Floor'[job.key] \in Nat /\ Floor[job.key] \in Nat
    BY <1>11
  <2> QED
    BY <2>1, <2>2, <2>3, <2>4
<1>14. Pipeline'
  <2>1. \A m \in Keys : db'[m] <= latest'[m] /\ overtaken'[m] <= latest'[m]
    BY <1>2, <1>5, <1>7
  <2>2. Within(overflow', Floor', latest') /\ Within(overflow', Above', latest')
    BY <1>2, <1>4, EmptyFacts
  <2> QED
    BY <1>1, <1>2, <1>4, <1>12, <1>13, <2>1, <2>2 DEF Pipeline
<1>15. Phases' /\ OnlyReleased'
  <2>1. Phases'
    BY <1>2, <1>4, EmptyFacts DEF Phases, JobIsSave
  <2>2. ~Past'
    BY <1>2, <1>4, QueueAssumption DEF Past, JobIsSave
  <2> QED
    BY <2>1, <2>2 DEF OnlyReleased
<1>16. Landed'
  <2> SUFFICES ASSUME NEW k \in Keys
               PROVE  Pending(k)' \/ db'[k] = latest'[k] \/ k \in failed'
                        \/ overtaken'[k] = latest'[k]
    BY DEF Landed
  <2>1. CASE k \in saving
    BY <1>2, <1>3, <1>5, <2>1
  <2>2. CASE k \notin saving
    <3>1. Pending(k) \/ db[k] = latest[k] \/ k \in failed \/ overtaken[k] = latest[k]
      BY <1>1, <2>2 DEF Landed
    <3>2. Pending(k) => Pending(k)'
      BY <1>2, <1>4 DEF Pending
    <3>3. db'[k] = db[k] /\ (k \in failed => k \in failed')
      BY <1>3, <1>7, <2>2
    <3> QED
      BY <1>2, <3>1, <3>2, <3>3
  <2> QED
    BY <2>1, <2>2
<1> QED
  BY <1>7, <1>8, <1>14, <1>15, <1>16 DEF IInv

LEMMA CrashIInv ==
  ASSUME IInv, Crash
  PROVE  IInv'
<1>1. TypeOK
  BY DEF IInv
<1>2. /\ latest' = db /\ db' = db /\ queue' = <<>> /\ overflow' = <<>>
      /\ wpc' = "poll" /\ job' = NoJob /\ phase' = "idle" /\ saving' = {}
      /\ failed' = {} /\ released' = {} /\ overtaken' = [k \in Keys |-> 0]
      /\ confirmed' = confirmed
      /\ crashes < MaxCrashes /\ crashes' = crashes + 1
  BY DEF Crash
<1>3. TypeOK'
  BY <1>1, <1>2, QueueAssumption DEF TypeOK
<1>4. ~Running'
  BY <1>2 DEF Running
<1>5. \A k \in Keys : db'[k] <= latest'[k] /\ overtaken'[k] <= latest'[k]
  BY <1>1, <1>2, QueueAssumption DEF TypeOK
<1>6. Pipeline'
  BY <1>2, <1>4, <1>5, EmptyFacts DEF Pipeline
<1>7. Phases' /\ OnlyReleased'
  BY <1>2, <1>4, EmptyFacts DEF Phases, JobIsSave, OnlyReleased, Past
<1>8. Landed'
  BY <1>2 DEF Landed
<1> QED
  BY <1>3, <1>6, <1>7, <1>8 DEF IInv

LEMMA StutterIInv == ASSUME IInv, UNCHANGED vars PROVE IInv'
BY DEF IInv, vars, history, TypeOK, Pipeline, Floor, Above, Phases, OnlyReleased, Past,
       Landed, Running, JobIsSave, Pending

LEMMA NextIInv == ASSUME IInv, [Next]_vars PROVE IInv'
<1>1. ASSUME NEW k \in Keys, SaveAsync(k) PROVE IInv'
  BY <1>1, SaveAsyncIInv
<1>2. ASSUME NEW K \in SyncSets, SaveBegin(K) PROVE IInv'
  BY <1>2, SaveBeginIInv
<1>3. CASE SaveEnd
  BY <1>3, SaveEndIInv
<1>4. CASE Worker
  BY <1>4, PollIInv, CheckIInv, WakeIInv, RunWriteIInv, RunBarrierIInv DEF Worker
<1>5. CASE Crash
  BY <1>5, CrashIInv
<1>6. CASE UNCHANGED vars
  BY <1>6, StutterIInv
<1> QED
  BY <1>1, <1>2, <1>3, <1>4, <1>5, <1>6 DEF Next

-----------------------------------------------------------------------------
(* The theorems.                                                           *)

(* Snapshots of a file are on their way in the order they were taken, but  *)
(* for a job that overtook the channel; a barrier is behind everything but *)
(* for the writes it left behind; and the newest snapshot is stored, on    *)
(* its way, lost by its own write or overtaken.                            *)
THEOREM SpecIInv == Spec => []IInv
<1>1. Init => IInv
  BY InitIInv
<1>2. IInv /\ [Next]_vars => IInv'
  BY NextIInv
<1> QED
  BY <1>1, <1>2, PTL DEF Spec

(* The channel keeps to its capacity and a key or a barrier is all a job   *)
(* is ever for.                                                            *)
THEOREM TypeCorrect == Spec => []TypeOK
<1>1. IInv => TypeOK
  BY DEF IInv
<1> QED
  BY <1>1, SpecIInv, PTL

(* When flushWrites returns, every snapshot handed over before it is in    *)
(* its file, unless its own write failed, it was overtaken, or the barrier *)
(* was taken from the overflow with a write of the file still in the       *)
(* channel: there is no other way for an autosave to be left behind.       *)
THEOREM FlushLeavesNothing == Spec => []FlushDrains
<1>1. ASSUME IInv PROVE FlushDrains
  <2> SUFFICES ASSUME phase = "drained", NEW k \in Keys \ saving
               PROVE  \/ db[k] = latest[k] \/ k \in failed
                      \/ overtaken[k] = latest[k] \/ k \in released
    BY DEF FlushDrains
  <2>1. Past /\ overflow = <<>> /\ JobIsSave
    BY <1>1 DEF IInv, Phases, Past
  <2>2. Pending(k) \/ db[k] = latest[k] \/ k \in failed \/ overtaken[k] = latest[k]
    BY <1>1 DEF IInv, Landed
  <2>3. ASSUME Pending(k) PROVE k \in released
    <3>1. CASE Running /\ job.key = k
      BY <1>1, <2>1, <3>1, QueueAssumption DEF IInv, OnlyReleased
    <3>2. CASE Has(queue, k, latest[k])
      BY <1>1, <2>1, <3>2 DEF IInv, OnlyReleased, Has
    <3>3. ~Has(overflow, k, latest[k])
      BY <2>1, EmptyFacts
    <3> QED
      BY <2>3, <3>1, <3>2, <3>3 DEF Pending
  <2> QED
    BY <2>2, <2>3
<1>2. IInv => FlushDrains
  BY <1>1
<1> QED
  BY <1>2, SpecIInv, PTL

(* No file goes back to an older snapshot except from one that was served  *)
(* while an older write of the same file was left in the channel, between  *)
(* the two looks of nextWrite.                                             *)
THEOREM OldWritesOnlyIfOvertaken == Spec => StaleOnlyIfOvertaken
<1>1. ASSUME IInv, [Next]_vars
      PROVE  \A k \in Keys : db'[k] < db[k] => db[k] <= overtaken[k]
  <2>1. CASE RunWrite
    BY <1>1, <2>1, RunWriteIInv
  <2>2. CASE SaveEnd
    <3>1. \A k \in Keys : db'[k] >= db[k] /\ db'[k] \in Nat /\ db[k] \in Nat
      <4>1. TypeOK /\ TypeOK' /\ \A k \in Keys : db'[k] >= db[k]
        BY <1>1, <2>2, SaveEndIInv DEF IInv
      <4> QED
        BY <4>1, QueueAssumption DEF TypeOK
    <3> QED
      BY <3>1
  <2>3. CASE db' = db
    <3>1. \A k \in Keys : db[k] \in Nat
      BY <1>1, QueueAssumption DEF IInv, TypeOK
    <3> QED
      BY <2>3, <3>1
  <2> QED
    BY <1>1, <2>1, <2>2, <2>3 DEF Next, Worker, SaveAsync, SaveBegin, Poll, Check, Wake,
                            RunBarrier, Crash, vars
<1>2. IInv /\ [Next]_vars => [\A k \in Keys : db'[k] < db[k] => db[k] <= overtaken[k]]_vars
  BY <1>1
<1> QED
  BY <1>2, SpecIInv, PTL DEF Spec, StaleOnlyIfOvertaken

=============================================================================
