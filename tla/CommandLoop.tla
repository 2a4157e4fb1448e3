------------------------------ MODULE CommandLoop ------------------------------
(***************************************************************************)
(* World.Run: one goroutine handles the commands of all sessions, the      *)
(* ticks of the world and the jobs of the operators.                       *)
(*                                                                         *)
(* It collects commands to a batch, the ones an earlier batch left over    *)
(* before the ones that wait in the channel, and handles the batch one     *)
(* command per session in turn.  A tick that is due or a budget of time    *)
(* that is used up ends the batch; what is left goes back to the front of  *)
(* the left-overs.  Time is not modelled: the budget may end a batch after *)
(* any command, a tick may become due at any moment.                       *)
(***************************************************************************)
EXTENDS Integers, Sequences, FiniteSets, SequencesExt

CONSTANTS
  Senders,     \* sessions; the nil session of the shutdown is one more
  ChannelCap,  \* WorldCommandQueueCapacity
  BatchLimit,  \* worldCommandBatchLimit
  AdminCap,    \* AdminCallCapacity
  InFlight     \* bound: commands of one sender that wait

ASSUME LoopAssumption ==
  /\ ChannelCap \in Nat \ {0} /\ BatchLimit \in Nat \ {0}
  /\ AdminCap \in Nat \ {0} /\ InFlight \in Nat \ {0}

(* Commands of a sender are numbered; the numbers are used again.          *)
Numbers == 0..InFlight
Following(n) == IF n = InFlight THEN 0 ELSE n + 1
Commands == [from : Senders, n : Numbers]

VARIABLES
  channel,   \* commands
  pending,   \* pendingCommands from pendingCommandHead on
  batch,     \* what is left of the batch
  phase,     \* of processCommandBatch, or "idle": the top of Run
  order,     \* commandBatchOrderScratch: the sessions of the batch
  turn,      \* place in order
  progress,  \* the round handled something
  tickDue,   \* the channel of the ticker holds a tick
  admin,     \* length of adminCommands
  sent,      \* history: number of the next command of each sender
  last       \* history: last command of each sender that was handled

batchVars == <<batch, phase, order, turn, progress>>
vars == <<channel, pending, batchVars, tickDue, admin, sent, last>>

TypeOK ==
  /\ channel \in Seq(Commands) /\ Len(channel) <= ChannelCap
  /\ pending \in Seq(Commands)
  /\ batch \in Seq(Commands) /\ Len(batch) <= BatchLimit
  /\ phase \in {"idle", "collect", "execute"}
  /\ phase = "idle" => batch = <<>>
  /\ order \in Seq(Senders) /\ turn \in 1..(Len(order) + 1)
  /\ progress \in BOOLEAN /\ tickDue \in BOOLEAN
  /\ admin \in 0..AdminCap
  /\ sent \in [Senders -> Numbers] /\ last \in [Senders -> Numbers]

Init ==
  /\ channel = <<>> /\ pending = <<>> /\ batch = <<>>
  /\ phase = "idle" /\ order = <<>> /\ turn = 1 /\ progress = FALSE
  /\ tickDue = FALSE /\ admin = 0
  /\ sent = [s \in Senders |-> 0]
  /\ last = [s \in Senders |-> InFlight]

-----------------------------------------------------------------------------
(* The commands of a sender that wait, the oldest first. *)

(* The k-th of a set of places, and the commands at those places.          *)
Nth(places, k) == CHOOSE i \in places : Cardinality(places \cap (1..i)) = k
At(queue, places) == [k \in 1..Cardinality(places) |-> queue[Nth(places, k)]]

From(s, queue) == {i \in DOMAIN queue : queue[i].from = s}
Of(s, queue) == At(queue, From(s, queue))

All == batch \o pending \o channel
Waiting(s) == Of(s, All)

Enqueue(s) ==
  /\ Len(channel) < ChannelCap /\ Len(Waiting(s)) < InFlight
  /\ channel' = Append(channel, [from |-> s, n |-> sent[s]])
  /\ sent' = [sent EXCEPT ![s] = Following(@)]
  /\ UNCHANGED <<pending, batchVars, tickDue, admin, last>>

(* The ticker drops a tick while one is due.                               *)
Ticker ==
  /\ ~tickDue /\ tickDue' = TRUE
  /\ UNCHANGED <<channel, pending, batchVars, admin, sent, last>>

EnqueueAdmin ==
  /\ admin < AdminCap /\ admin' = admin + 1
  /\ UNCHANGED <<channel, pending, batchVars, tickDue, sent, last>>

-----------------------------------------------------------------------------
(* Fault: commands are taken from the channel while it has any.            *)
NewestFirst == IF channel # <<>> THEN "channel" ELSE "pending"

(* Fault: what a batch left over is not taken up again.                    *)
LeftForGood == "channel"

(* The left-overs of earlier batches come before the channel.              *)
TakeFrom == IF pending # <<>> THEN "pending" ELSE "channel"

Take ==
  \/ /\ TakeFrom = "pending" /\ pending # <<>>
     /\ batch' = Append(batch, Head(pending)) /\ pending' = Tail(pending)
     /\ UNCHANGED channel
  \/ /\ TakeFrom = "channel" /\ channel # <<>>
     /\ batch' = Append(batch, Head(channel)) /\ channel' = Tail(channel)
     /\ UNCHANGED pending

(* The top of Run: the first command of a batch.                           *)
Start ==
  /\ phase = "idle" /\ Take
  /\ phase' = "collect"
  /\ UNCHANGED <<order, turn, progress, tickDue, admin, sent, last>>

(* Without left-overs Run may choose a job or a tick instead.              *)
RunJobs ==
  /\ phase = "idle" /\ pending = <<>> /\ admin > 0
  /\ admin' = 0
  /\ UNCHANGED <<channel, pending, batchVars, tickDue, sent, last>>

RunTick ==
  /\ phase = "idle" /\ pending = <<>> /\ tickDue
  /\ tickDue' = FALSE /\ admin' = 0
  /\ UNCHANGED <<channel, pending, batchVars, sent, last>>

HasRoom == Len(batch) < BatchLimit

Collect ==
  /\ phase = "collect" /\ HasRoom /\ Take
  /\ UNCHANGED <<phase, order, turn, progress, tickDue, admin, sent, last>>

(* Fault: a batch does not look at the ticker.                             *)
NeverInterrupted == FALSE

Interrupted == tickDue

(* The tick that ends a batch runs without the jobs of the operators.      *)
CollectTick ==
  /\ phase = "collect" /\ HasRoom /\ pending = <<>> /\ Interrupted
  /\ pending' = batch /\ batch' = <<>> /\ phase' = "idle"
  /\ tickDue' = FALSE
  /\ UNCHANGED <<channel, order, turn, progress, admin, sent, last>>

(* The sessions of a batch, each where its first command is.               *)
Firsts(queue) == {i \in DOMAIN queue :
  \A j \in 1..(i - 1) : queue[j].from # queue[i].from}
FirstSeen(queue) ==
  [k \in 1..Cardinality(Firsts(queue)) |-> At(queue, Firsts(queue))[k].from]

Execute ==
  /\ phase = "collect" /\ phase' = "execute"
  /\ order' = FirstSeen(batch) /\ turn' = 1 /\ progress' = FALSE
  /\ UNCHANGED <<channel, pending, batch, tickDue, admin, sent, last>>

-----------------------------------------------------------------------------
(* What is left, session by session in the order of the batch: the places  *)
(* that do not come after place i.                                         *)
Turn(s) == CHOOSE i \in DOMAIN order : order[i] = s
UpTo(queue, i) == {j \in DOMAIN queue :
  \/ Turn(queue[j].from) < Turn(queue[i].from)
  \/ queue[j].from = queue[i].from /\ j <= i}
BySession(queue) == [k \in DOMAIN queue |->
  queue[CHOOSE i \in DOMAIN queue : Cardinality(UpTo(queue, i)) = k]]

(* Fault: what is left goes behind what an earlier batch left.             *)
RequeueLast(left) == pending \o BySession(left)

Requeue(left) == BySession(left) \o pending

EndBatch(left) ==
  /\ pending' = Requeue(left) /\ batch' = <<>> /\ phase' = "idle"
  /\ order' = <<>> /\ turn' = 1 /\ progress' = FALSE

InTurn == phase = "execute" /\ turn <= Len(order)

ExecuteTick ==
  /\ InTurn /\ Interrupted
  /\ EndBatch(batch) /\ tickDue' = FALSE
  /\ UNCHANGED <<channel, admin, sent, last>>

(* The oldest command of the session, and the batch without it.            *)
OldestOf(s) == CHOOSE i \in DOMAIN batch :
  batch[i].from = s /\ \A j \in DOMAIN batch : batch[j].from = s => i <= j

HandleNext ==
  /\ InTurn /\ ~Interrupted /\ Of(order[turn], batch) # <<>>
  /\ LET i == OldestOf(order[turn]) IN
     /\ last' = [last EXCEPT ![order[turn]] = batch[i].n]
     /\ \/ batch' = RemoveAt(batch, i) /\ turn' = turn + 1 /\ progress' = TRUE
           /\ UNCHANGED <<pending, phase, order>>
        \/ EndBatch(RemoveAt(batch, i))
  /\ UNCHANGED <<channel, tickDue, admin, sent>>

SkipTurn ==
  /\ InTurn /\ ~Interrupted /\ Of(order[turn], batch) = <<>>
  /\ turn' = turn + 1
  /\ UNCHANGED <<channel, pending, batch, phase, order, progress, tickDue, admin,
                 sent, last>>

NextRound ==
  /\ phase = "execute" /\ turn > Len(order) /\ progress
  /\ turn' = 1 /\ progress' = FALSE
  /\ UNCHANGED <<channel, pending, batch, phase, order, tickDue, admin, sent, last>>

BatchDone ==
  /\ phase = "execute" /\ turn > Len(order) /\ ~progress
  /\ phase' = "idle" /\ batch' = <<>> /\ order' = <<>> /\ turn' = 1
  /\ UNCHANGED <<channel, pending, progress, tickDue, admin, sent, last>>

Run ==
  \/ Start \/ RunJobs \/ RunTick \/ Collect \/ CollectTick \/ Execute
  \/ ExecuteTick \/ HandleNext \/ SkipTurn \/ NextRound \/ BatchDone

Next == Run \/ Ticker \/ EnqueueAdmin \/ \E s \in Senders : Enqueue(s)

Spec == Init /\ [][Next]_vars

(* The goroutine of the World runs, and select picks one of the cases that *)
(* are ready at random.                                                    *)
FairSpec == Spec /\ WF_vars(Run) /\ SF_vars(Start) /\ SF_vars(RunJobs) /\ SF_vars(RunTick)

-----------------------------------------------------------------------------
(* The commands that a batch took and did not handle stay within one       *)
(* batch, however many batches are cut short: pendingCommands does not     *)
(* grow while the channel fills.                                           *)
BacklogBounded == Len(batch) + Len(pending) <= BatchLimit

(* Each sender sees a mailbox: through batches, left-overs, rounds and     *)
(* ticks its commands are handled once, all, and in order.                 *)
Mailboxes == INSTANCE SessionMailboxes WITH
  mailbox <- [s \in Senders |-> [i \in DOMAIN Waiting(s) |-> Waiting(s)[i].n]]

ImplementsMailboxes == Mailboxes!Spec

(* A tick that is due runs, whatever the sessions send: a batch that never *)
(* empties cannot stop the world.                                          *)
TickRuns == tickDue ~> ~tickDue

(* A tick, or the budget, ends the batch before every session of the round *)
(* had its turn.                                                           *)
CutByTick   == phase # "idle" /\ tickDue /\ ~tickDue'
CutByBudget == phase = "execute" /\ phase' = "idle" /\ turn < Len(order)

Served(s) == last'[s] # last[s]

Advances(s) == []<>(Waiting(s) = <<>>) \/ []<><<Served(s)>>_vars

(* While rounds fit in the budget and between two ticks, a session that    *)
(* floods the World does not keep the others waiting, whatever the channel *)
(* and the left-overs hold (processCommandBatch).                          *)
RoundsAreFair ==
  <>[][~CutByTick /\ ~CutByBudget]_vars => \A s \in Senders : Advances(s)

(* The same whatever a round costs, as the comments of processCommandBatch *)
(* and worldCommandBatchLimit promise.                                     *)
EveryoneAdvances == <>[][~CutByTick]_vars => \A s \in Senders : Advances(s)
=============================================================================
