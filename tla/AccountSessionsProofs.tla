------------------------ MODULE AccountSessionsProofs -----------------------
(***************************************************************************)
(* For any connections, accounts, slots and operations: the tables of the  *)
(* World agree, nothing is left of a connection that ended, what was       *)
(* confirmed is kept, a shutdown that was answered lost nothing and what a *)
(* panic left half done is stored by nobody but an operator.               *)
(***************************************************************************)
EXTENDS AccountSessions, FiniteSetTheorems, TLAPS

-----------------------------------------------------------------------------
(* The invariant.                                                          *)

Post == [type : {"packet", "gone", "result"}, account : Accounts \union {NoAccount},
         seen : States]

\* TypeOK is Types and Slots.
Types ==
  /\ closed \in [Sessions -> BOOLEAN] /\ served \in [Sessions -> BOOLEAN]
  /\ mail \in [Sessions -> Seq(Post)]
  /\ pending \in [Sessions -> BOOLEAN]
  /\ auth \in [Sessions -> [stage : {"idle", "started", "loaded"},
                            account : Accounts \union {NoAccount},
                            seen : States]]
  /\ owner \in [Accounts -> Sessions \union {NoSession}]
  /\ clients \in SUBSET Sessions
  /\ account \in [Sessions -> Accounts \union {NoAccount}]
  /\ inWorld \in [Sessions -> BOOLEAN] /\ poisoned \in [Sessions -> BOOLEAN]
  /\ ram \in [Sessions -> States] /\ db \in [Accounts -> States]
  /\ ops \in 0..MaxOps
  /\ down \in BOOLEAN /\ drained \in BOOLEAN
  /\ confirmed \in [Accounts -> States] /\ partial \in States
  /\ overlapped \in SUBSET Accounts

Slots == Cardinality(Checking) <= AuthSlots

\* A password check is about an account, and who is in the world has one.
Named ==
  /\ \A s \in Sessions : auth[s].stage # "idle" => auth[s].account \in Accounts
  /\ \A s \in Sessions : inWorld[s] => account[s] \in Accounts

\* A session that waits for its answer is nobody's player yet.
PendingOut == \A s \in Sessions : pending[s] => account[s] = NoAccount

\* The last command of a session comes when its socket is closed, and only
\* answers of its password checks come behind it.
HasGone(q)  == \E i \in DOMAIN q : q[i].type = "gone"
Results(q)  == \A i \in DOMAIN q : q[i].type = "result"
GoneLast(q) ==
  \A i, j \in DOMAIN q : i < j /\ q[i].type = "gone" => q[j].type = "result"
Shaped(q)   == \A i \in DOMAIN q : q[i].type = "gone" => q[i] = Gone

Posts ==
  \A s \in Sessions :
    /\ served[s] => closed[s]
    /\ ~served[s] => ~HasGone(mail[s])
    /\ served[s] /\ ~HasGone(mail[s]) => Results(mail[s]) /\ NoTrace(s)
    /\ GoneLast(mail[s]) /\ Shaped(mail[s])

\* An account that was never claimed from a dead session has one copy, which
\* has everything that was confirmed.
OneCopy ==
  \A s, t \in Players :
    account[s] = account[t] /\ account[s] \notin overlapped => s = t

CopyIsNew ==
  \A s \in Players : account[s] \notin overlapped => confirmed[account[s]] \subseteq ram[s]

\* What a player did before it left the world, or after everything was stored,
\* is in the store.
Clean(s) == ~poisoned[s] /\ account[s] \notin overlapped

LeftStored ==
  \A s \in Players : Clean(s) /\ ~inWorld[s] => ram[s] \subseteq db[account[s]]

DrainedDown == drained => down

\* After a panic everyone is poisoned and nobody is admitted.
AfterPanic == partial # {} => down /\ \A s \in Players : poisoned[s]

IInv ==
  /\ Types /\ Slots /\ Named
  /\ PendingOut /\ SessionsAgree
  /\ Posts
  /\ OneCopy /\ CopyIsNew /\ ConfirmedKept
  /\ LeftStored /\ DrainedDown /\ ShutdownKeepsAll
  /\ AfterPanic

-----------------------------------------------------------------------------
(* What waits for a session.                                               *)

LEMMA SeqFacts ==
  ASSUME NEW q \in Seq(Post)
  PROVE  /\ DOMAIN q = 1 .. Len(q) /\ Len(q) \in Nat
         /\ \A i \in DOMAIN q : i \in Nat /\ q[i] \in Post
         /\ \A m \in Post :
              /\ Append(q, m) \in Seq(Post)
              /\ DOMAIN Append(q, m) = 1 .. Len(q) + 1
              /\ \A i \in DOMAIN q : Append(q, m)[i] = q[i]
              /\ Append(q, m)[Len(q) + 1] = m
         /\ q # <<>> =>
              /\ 1 \in DOMAIN q /\ Head(q) = q[1] /\ Tail(q) \in Seq(Post)
              /\ DOMAIN Tail(q) = 1 .. Len(q) - 1
              /\ \A i \in DOMAIN Tail(q) : Tail(q)[i] = q[i + 1]
OBVIOUS

LEMMA AppendFacts ==
  ASSUME NEW q \in Seq(Post), NEW m \in Post
  PROVE  LET a == Append(q, m)
         IN  /\ HasGone(a) <=> HasGone(q) \/ m.type = "gone"
             /\ Results(q) /\ m.type = "result" => Results(a)
             /\ GoneLast(q) /\ (m.type = "result" \/ ~HasGone(q)) => GoneLast(a)
             /\ Shaped(q) /\ (m.type = "gone" => m = Gone) => Shaped(a)
<1> DEFINE a == Append(q, m)
<1>1. /\ DOMAIN q = 1 .. Len(q) /\ Len(q) \in Nat /\ DOMAIN a = 1 .. Len(q) + 1
      /\ \A i \in DOMAIN q : a[i] = q[i]
      /\ a[Len(q) + 1] = m
  BY SeqFacts
<1>2. /\ \A i \in DOMAIN a : i \in DOMAIN q \/ i = Len(q) + 1
      /\ \A i \in DOMAIN q : i \in DOMAIN a
      /\ Len(q) + 1 \in DOMAIN a
      /\ \A i, j \in DOMAIN a : i < j => i \in DOMAIN q
  BY <1>1
<1> HIDE DEF a
<1>3. HasGone(a) <=> HasGone(q) \/ m.type = "gone"
  BY <1>1, <1>2 DEF HasGone
<1>4. Results(q) /\ m.type = "result" => Results(a)
  BY <1>1, <1>2 DEF Results
<1>5. GoneLast(q) /\ (m.type = "result" \/ ~HasGone(q)) => GoneLast(a)
  BY <1>1, <1>2 DEF GoneLast, HasGone
<1>6. Shaped(q) /\ (m.type = "gone" => m = Gone) => Shaped(a)
  BY <1>1, <1>2 DEF Shaped
<1> QED
  BY <1>3, <1>4, <1>5, <1>6 DEF a

LEMMA TailFacts ==
  ASSUME NEW q \in Seq(Post), q # <<>>
  PROVE  LET t == Tail(q)
             h == Head(q)
         IN  /\ HasGone(t) => HasGone(q)
             /\ HasGone(q) => h.type = "gone" \/ HasGone(t)
             /\ h.type = "gone" => HasGone(q)
             /\ h.type = "gone" /\ GoneLast(q) => Results(t)
             /\ Results(q) => Results(t) /\ h.type = "result"
             /\ GoneLast(q) => GoneLast(t)
             /\ Shaped(q) => Shaped(t)
<1> DEFINE t == Tail(q)
           h == Head(q)
<1>1. /\ DOMAIN q = 1 .. Len(q) /\ Len(q) \in Nat /\ DOMAIN t = 1 .. Len(q) - 1
      /\ 1 \in DOMAIN q /\ h = q[1]
      /\ \A i \in DOMAIN t : t[i] = q[i + 1]
  BY SeqFacts
<1>2. /\ \A i \in DOMAIN t : i + 1 \in DOMAIN q /\ 1 < i + 1
      /\ \A i, j \in DOMAIN t : i < j => i + 1 < j + 1
      /\ \A i \in DOMAIN q : i = 1 \/ (i - 1 \in DOMAIN t /\ q[i] = t[i - 1])
  BY <1>1
<1> HIDE DEF t, h
<1>3. /\ HasGone(t) => HasGone(q)
      /\ HasGone(q) => h.type = "gone" \/ HasGone(t)
      /\ h.type = "gone" => HasGone(q)
  BY <1>1, <1>2 DEF HasGone
<1>4. h.type = "gone" /\ GoneLast(q) => Results(t)
  BY <1>1, <1>2 DEF GoneLast, Results
<1>5. Results(q) => Results(t) /\ h.type = "result"
  BY <1>1, <1>2 DEF Results
<1>6. GoneLast(q) => GoneLast(t)
  <2> SUFFICES ASSUME GoneLast(q), NEW i \in DOMAIN t, NEW j \in DOMAIN t, i < j,
                      t[i].type = "gone"
               PROVE  t[j].type = "result"
    BY DEF GoneLast
  <2>1. i + 1 \in DOMAIN q /\ j + 1 \in DOMAIN q /\ i + 1 < j + 1
        /\ t[i] = q[i + 1] /\ t[j] = q[j + 1]
    BY <1>1, <1>2
  <2> QED
    BY <2>1 DEF GoneLast
<1>7. Shaped(q) => Shaped(t)
  BY <1>1, <1>2 DEF Shaped
<1> QED
  BY <1>3, <1>4, <1>5, <1>6, <1>7 DEF t, h

LEMMA PostFacts ==
  /\ Packet \in Post /\ Gone \in Post /\ Gone.type = "gone" /\ Packet.type = "packet"
  /\ \A a \in Accounts \union {NoAccount}, seen \in States :
       Result(a, seen) \in Post /\ Result(a, seen).type = "result"
BY DEF Post, Packet, Gone, Result, States

LEMMA PutMail ==
  ASSUME Types, NEW s \in Sessions, NEW m \in Post, Put(s, m)
  PROVE  /\ mail' \in [Sessions -> Seq(Post)] /\ mail'[s] = Append(mail[s], m)
         /\ \A t \in Sessions \ {s} : mail'[t] = mail[t]
<1>1. Append(mail[s], m) \in Seq(Post)
  BY SeqFacts DEF Types
<1> QED
  BY <1>1 DEF Types, Put

LEMMA TakeMail ==
  ASSUME Types, NEW s \in Sessions, mail[s] # <<>>, Take(s)
  PROVE  /\ mail' \in [Sessions -> Seq(Post)] /\ mail'[s] = Tail(mail[s])
         /\ mail[s] \in Seq(Post) /\ Head(mail[s]) \in Post
         /\ \A t \in Sessions \ {s} : mail'[t] = mail[t]
<1>1. mail[s] \in Seq(Post) /\ Tail(mail[s]) \in Seq(Post) /\ Head(mail[s]) \in Post
  BY SeqFacts DEF Types
<1> QED
  BY <1>1 DEF Types, Take

-----------------------------------------------------------------------------
(* Types.                                                                  *)

\* Sets of operations.
LEMMA StateFacts ==
  /\ {} \in States
  /\ \A x, y \in States : x \union y \in States
  /\ \A n \in Ops : {n} \in States
BY DEF States

LEMMA NewOpFacts ==
  ASSUME Types, NewOp
  PROVE  ops' \in 0 .. MaxOps /\ ops' \in Ops /\ {ops'} \in States /\ ops' = ops + 1
<1>1. ops \in 0 .. MaxOps /\ ops < MaxOps /\ ops' = ops + 1 /\ MaxOps \in Nat
  BY SessionAssumption DEF Types, NewOp
<1>2. ops' \in 0 .. MaxOps /\ ops' \in Ops
  BY <1>1 DEF Ops
<1> QED
  BY <1>1, <1>2, StateFacts

LEMMA CloseFacts ==
  ASSUME Types, NEW S, Close(S)
  PROVE  /\ closed' \in [Sessions -> BOOLEAN]
         /\ \A s \in Sessions : closed[s] => closed'[s]
         /\ \A s \in Sessions : s \in S => closed'[s]
         /\ \A s \in Sessions : closed'[s] => closed[s] \/ s \in S
BY DEF Types, Close

\* What a save of one player, or of some, can leave in the store.
LEMMA SaveOrFailFacts ==
  ASSUME Types, NEW s \in Sessions, account[s] \in Accounts, SaveOrFail(s)
  PROVE  /\ db' \in [Accounts -> States]
         /\ db'[account[s]] \in {db[account[s]], ram[s]}
         /\ \A a \in Accounts \ {account[s]} : db'[a] = db[a]
BY DEF Types, SaveOrFail

LEMMA AfterSavingFacts ==
  ASSUME Types, NEW S, S \subseteq Players, NEW d, d \in AfterSaving(S)
  PROVE  /\ d \in [Accounts -> States]
         /\ \A a \in Accounts : d[a] = db[a] \/ \E s \in S : account[s] = a /\ d[a] = ram[s]
BY DEF AfterSaving, Copies

LEMMA PlayerFacts ==
  ASSUME Types
  PROVE  /\ \A s \in Sessions : s \in Players <=> account[s] # NoAccount
         /\ \A s \in Players : s \in Sessions /\ account[s] \in Accounts
         /\ \A s \in Sessions : account[s] \in Accounts => s \in Players
BY SessionAssumption DEF Types, Players

\* The answer that is taken names an account, or none.
LEMMA AnswerFacts ==
  ASSUME Types, NEW s \in Sessions, IsAnswer(s)
  PROVE  /\ mail[s] # <<>> /\ Head(mail[s]).type = "result" /\ ~down
         /\ AnswerOf(s).account \in Accounts \union {NoAccount}
         /\ AnswerOf(s).seen \in States
<1>1. mail[s] # <<>> /\ Head(mail[s]).type = "result" /\ ~down
  BY DEF IsAnswer, AnswerOf
<1>2. Head(mail[s]) \in Post
  BY <1>1, SeqFacts DEF Types
<1> QED
  BY <1>1, <1>2 DEF AnswerOf, Post

-----------------------------------------------------------------------------
\* The goroutines of a connection.
LEMMA NetTypes ==
  ASSUME Types, Named, NEW s \in Sessions,
         Receive(s) \/ HangUp(s) \/ Depart(s) \/ AuthLoad(s) \/ AuthAnswer(s)
  PROVE  Types' /\ Named'
<1>1. CASE Receive(s)
  <2>1. mail' \in [Sessions -> Seq(Post)]
    BY <1>1, PostFacts, PutMail DEF Receive
  <2> QED
    BY <1>1, <2>1 DEF Receive, Types, Named, authVars, tables, players, history
<1>2. CASE HangUp(s)
  <2>1. closed' \in [Sessions -> BOOLEAN]
    BY <1>2, CloseFacts DEF HangUp
  <2> QED
    BY <1>2, <2>1 DEF HangUp, Types, Named, authVars, tables, players, history
<1>3. CASE Depart(s)
  <2>1. mail' \in [Sessions -> Seq(Post)]
    BY <1>3, PostFacts, PutMail DEF Depart
  <2>2. served' \in [Sessions -> BOOLEAN]
    BY <1>3 DEF Depart, Types
  <2> QED
    BY <1>3, <2>1, <2>2 DEF Depart, Types, Named, authVars, tables, players, history
<1>4. CASE AuthLoad(s)
  <2>1. auth[s].account \in Accounts /\ db[auth[s].account] \in States
    BY <1>4 DEF AuthLoad, Types, Named
  <2>2. auth' \in [Sessions -> [stage : {"idle", "started", "loaded"},
                                account : Accounts \union {NoAccount},
                                seen : States]]
    <3>1. auth[s] \in [stage : {"idle", "started", "loaded"},
                      account : Accounts \union {NoAccount}, seen : States]
      BY DEF Types
    <3>2. [auth[s] EXCEPT !.stage = "loaded", !.seen = db[auth[s].account]]
            \in [stage : {"idle", "started", "loaded"},
                account : Accounts \union {NoAccount}, seen : States]
      BY <2>1, <3>1
    <3>3. auth' = [auth EXCEPT ![s] = [auth[s] EXCEPT !.stage = "loaded",
                                                    !.seen = db[auth[s].account]]]
      BY <1>4 DEF AuthLoad, Types
    <3> QED
      BY <3>2, <3>3 DEF Types
  <2>3. \A t \in Sessions : auth'[t].stage # "idle" => auth'[t].account \in Accounts
    BY <1>4, <2>1 DEF AuthLoad, Types, Named
  <2> QED
    BY <1>4, <2>2, <2>3 DEF AuthLoad, Types, Named, netVars, tables, players, history
<1>5. CASE AuthAnswer(s)
  <2>1. auth[s].account \in Accounts /\ auth[s].seen \in States
    BY <1>5 DEF AuthAnswer, Types, Named
  <2>2. mail' \in [Sessions -> Seq(Post)]
    <3>1. PICK m \in Post : Put(s, m)
      BY <1>5, <2>1, PostFacts, StateFacts DEF AuthAnswer
    <3> QED
      BY <3>1, PutMail
  <2>3. auth' \in [Sessions -> [stage : {"idle", "started", "loaded"},
                                account : Accounts \union {NoAccount},
                                seen : States]]
    BY <1>5, StateFacts DEF AuthAnswer, Types, Idle
  <2>4. \A t \in Sessions : auth'[t].stage # "idle" => auth'[t].account \in Accounts
    BY <1>5 DEF AuthAnswer, Types, Named, Idle
  <2> QED
    BY <1>5, <2>2, <2>3, <2>4 DEF AuthAnswer, Types, Named, tables, players, history
<1> QED
  BY <1>1, <1>2, <1>3, <1>4, <1>5

LEMMA ServingFacts ==
  ASSUME Types, NEW s \in Sessions, Serving(s), Take(s)
  PROVE  /\ mail' \in [Sessions -> Seq(Post)] /\ mail[s] # <<>>
         /\ Head(mail[s]).type = "packet" /\ ~down
BY TakeMail DEF Serving

\* Logins and their answers.
LEMMA LoginTypes ==
  ASSUME Types, Named, NEW s \in Sessions,
         \/ Ignore(s) \/ DropAnswer(s) \/ ClaimInVain(s) \/ Admit(s)
         \/ \E a \in Accounts : Login(s, a)
  PROVE  Types' /\ Named'
<1>1. CASE Ignore(s)
  <2>1. mail' \in [Sessions -> Seq(Post)]
    BY <1>1, ServingFacts DEF Ignore
  <2> QED
    BY <1>1, <2>1 DEF Ignore, Types, Named, authVars, tables, players, history
<1>2. CASE DropAnswer(s)
  <2>1. mail' \in [Sessions -> Seq(Post)]
    BY <1>2, AnswerFacts, TakeMail DEF DropAnswer
  <2>2. pending' \in [Sessions -> BOOLEAN]
    BY <1>2 DEF DropAnswer, Types
  <2> QED
    BY <1>2, <2>1, <2>2 DEF DropAnswer, Types, Named, tables, players, history
<1>3. CASE ClaimInVain(s)
  <2>1. mail' \in [Sessions -> Seq(Post)]
    BY <1>3, AnswerFacts, TakeMail DEF ClaimInVain
  <2>2. pending' \in [Sessions -> BOOLEAN]
    BY <1>3 DEF ClaimInVain, Types
  <2>3. owner' \in [Accounts -> Sessions \union {NoSession}]
    BY <1>3 DEF ClaimInVain, Types
  <2>4. clients' \in SUBSET Sessions
    BY <1>3 DEF ClaimInVain, Types, Live
  <2> QED
    BY <1>3, <2>1, <2>2, <2>3, <2>4
       DEF ClaimInVain, Types, Named, players, history
<1>4. CASE Admit(s)
  <2>1. mail' \in [Sessions -> Seq(Post)]
    BY <1>4, AnswerFacts, TakeMail DEF Admit
  <2>2. AnswerOf(s).account \in Accounts
    BY <1>4, AnswerFacts DEF Admit
  <2>3. pending' \in [Sessions -> BOOLEAN]
    BY <1>4 DEF Admit, Types
  <2>4. owner' \in [Accounts -> Sessions \union {NoSession}]
    BY <1>4 DEF Admit, Types
  <2>5. clients' \in SUBSET Sessions
    BY <1>4 DEF Admit, Types, Live
  <2>6. /\ account' \in [Sessions -> Accounts \union {NoAccount}]
        /\ \A t \in Sessions : inWorld'[t] => account'[t] \in Accounts
    BY <1>4, <2>2 DEF Admit, Types, Named
  <2>7. ram' \in [Sessions -> States]
    BY <1>4, <2>2 DEF Admit, Admitted, Types
  <2>8. overlapped' \in SUBSET Accounts
    BY <1>4, <2>2 DEF Admit, Types
  <2> QED
    BY <1>4, <2>1, <2>3, <2>4, <2>5, <2>6, <2>7, <2>8 DEF Admit, Types, Named
<1>5. ASSUME NEW a \in Accounts, Login(s, a) PROVE Types' /\ Named'
  <2>1. mail' \in [Sessions -> Seq(Post)]
    BY <1>5, ServingFacts DEF Login
  <2>2. pending' \in [Sessions -> BOOLEAN]
    BY <1>5 DEF Login, Types
  <2>3. auth' \in [Sessions -> [stage : {"idle", "started", "loaded"},
                                account : Accounts \union {NoAccount},
                                seen : States]]
    BY <1>5, StateFacts DEF Login, Types
  <2>4. \A t \in Sessions : auth'[t].stage # "idle" => auth'[t].account \in Accounts
    BY <1>5 DEF Login, Types, Named
  <2> QED
    BY <1>5, <2>1, <2>2, <2>3, <2>4 DEF Login, Types, Named, tables, players, history
<1> QED
  BY <1>1, <1>2, <1>3, <1>4, <1>5

\* What a player does.
LEMMA PlayTypes ==
  ASSUME Types, Named, NEW s \in Sessions,
         \/ Enter(s) \/ Play(s) \/ Commit(s) \/ CommitFails(s) \/ Logout(s)
         \/ Panic(s) \/ Refuse(s)
  PROVE  Types' /\ Named'
<1>1. CASE Enter(s)
  <2>1. mail' \in [Sessions -> Seq(Post)]
    BY <1>1, ServingFacts DEF Enter
  <2>2. account[s] \in Accounts
    BY <1>1 DEF Enter, Types
  <2>3. /\ inWorld' \in [Sessions -> BOOLEAN]
        /\ \A t \in Sessions : inWorld'[t] => account[t] \in Accounts
    BY <1>1, <2>2 DEF Enter, Types, Named
  <2> QED
    BY <1>1, <2>1, <2>3 DEF Enter, Types, Named, authVars, tables, history
<1>2. CASE Play(s)
  <2>1. mail' \in [Sessions -> Seq(Post)]
    BY <1>2, ServingFacts DEF Play
  <2>2. ops' \in 0 .. MaxOps /\ {ops'} \in States
    BY <1>2, NewOpFacts DEF Play
  <2>3. ram' \in [Sessions -> States]
    BY <1>2, <2>2, StateFacts DEF Play, Types
  <2> QED
    BY <1>2, <2>1, <2>2, <2>3 DEF Play, Types, Named, authVars, tables, history
<1>3. CASE Commit(s)
  <2>1. mail' \in [Sessions -> Seq(Post)]
    BY <1>3, ServingFacts DEF Commit
  <2>2. ops' \in 0 .. MaxOps /\ {ops'} \in States /\ account[s] \in Accounts
    BY <1>3, NewOpFacts DEF Commit, Named
  <2>3. ram' \in [Sessions -> States]
    BY <1>3, <2>2, StateFacts DEF Commit, Types
  <2>4. db' \in [Accounts -> States]
    BY <1>3, <2>2, <2>3 DEF Commit, Types
  <2>5. confirmed' \in [Accounts -> States]
    BY <1>3, <2>2, StateFacts DEF Commit, Told, Types
  <2> QED
    BY <1>3, <2>1, <2>2, <2>3, <2>4, <2>5 DEF Commit, Types, Named, authVars, tables
<1>4. CASE CommitFails(s)
  <2>1. mail' \in [Sessions -> Seq(Post)]
    BY <1>4, ServingFacts DEF CommitFails
  <2>2. ops' \in 0 .. MaxOps /\ {ops'} \in States /\ account[s] \in Accounts
    BY <1>4, NewOpFacts DEF CommitFails, Named
  <2>3. ram[s] \union {ops'} \in States
    BY <2>2, StateFacts DEF Types
  <2>4. db' \in [Accounts -> States]
    BY <1>4, <2>2, <2>3 DEF CommitFails, Types
  <2>5. closed' \in [Sessions -> BOOLEAN] /\ poisoned' \in [Sessions -> BOOLEAN]
    <3>1. CASE UNCHANGED <<closed, poisoned>>
      BY <3>1 DEF Types
    <3>2. CASE Close({s}) /\ poisoned' = [poisoned EXCEPT ![s] = TRUE]
      <4>1. closed' \in [Sessions -> BOOLEAN]
        BY <3>2, CloseFacts
      <4>2. poisoned' \in [Sessions -> BOOLEAN]
        BY <3>2 DEF Types
      <4> QED
        BY <4>1, <4>2
    <3> QED
      BY <1>4, <3>1, <3>2 DEF CommitFails
  <2> QED
    BY <1>4, <2>1, <2>2, <2>4, <2>5
       DEF CommitFails, Types, Named, authVars, tables, history
<1>5. CASE Logout(s)
  <2>1. mail' \in [Sessions -> Seq(Post)]
    BY <1>5, ServingFacts DEF Logout
  <2>2. account[s] \in Accounts /\ ram[s] \in States
    BY <1>5 DEF Logout, Named, Types
  <2>3. db' \in [Accounts -> States]
    BY <1>5, <2>2 DEF Logout, SaveOrFail, Types
  <2>4. confirmed' \in [Accounts -> States]
    <3>1. confirmed[account[s]] \union ram[s] \in States
      BY <2>2, StateFacts DEF Types
    <3>2. Told(s, ram[s]) \in [Accounts -> States]
      BY <2>2, <3>1 DEF Told, Types
    <3>3. confirmed' = Told(s, ram[s]) \/ confirmed' = confirmed
      BY <1>5 DEF Logout
    <3> QED
      BY <3>2, <3>3 DEF Types
  <2>5. /\ inWorld' \in [Sessions -> BOOLEAN]
        /\ \A t \in Sessions : inWorld'[t] => account[t] \in Accounts
    BY <1>5 DEF Logout, Types, Named
  <2> QED
    BY <1>5, <2>1, <2>3, <2>4, <2>5 DEF Logout, Types, Named, authVars, tables
<1>6. CASE Panic(s)
  <2>1. mail' \in [Sessions -> Seq(Post)]
    BY <1>6, ServingFacts DEF Panic
  <2>2. ops' \in 0 .. MaxOps /\ {ops'} \in States
    BY <1>6, NewOpFacts DEF Panic
  <2>3. ram' \in [Sessions -> States]
    <3>1. PICK t \in Players : ram' = [ram EXCEPT ![t] = @ \union {ops'}]
      BY <1>6 DEF Panic
    <3>2. t \in Sessions
      BY DEF Players
    <3> QED
      BY <2>2, <3>1, <3>2, StateFacts DEF Types
  <2>4. partial' \in States
    BY <1>6, <2>2, StateFacts DEF Panic, Types
  <2>5. closed' \in [Sessions -> BOOLEAN] /\ poisoned' \in [Sessions -> BOOLEAN]
    <3>1. poisoned' = [t \in Sessions |-> poisoned[t] \/ t \in Players]
      BY <1>6 DEF Panic
    <3>2. closed' \in [Sessions -> BOOLEAN]
      BY <1>6, CloseFacts DEF Panic
    <3> QED
      BY <3>1, <3>2
  <2> QED
    BY <1>6, <2>1, <2>2, <2>3, <2>4, <2>5 DEF Panic, Types, Named, authVars, tables
<1>7. CASE Refuse(s)
  <2>1. mail' \in [Sessions -> Seq(Post)]
    BY <1>7, TakeMail DEF Refuse
  <2>2. closed' \in [Sessions -> BOOLEAN]
    BY <1>7, CloseFacts DEF Refuse
  <2> QED
    BY <1>7, <2>1, <2>2 DEF Refuse, Types, Named, authVars, tables, players, history
<1> QED
  BY <1>1, <1>2, <1>3, <1>4, <1>5, <1>6, <1>7

\* What the end of a session leaves in the store.
LEMMA LastSaveFacts ==
  ASSUME Types, NEW s \in Sessions,
         IF MaySave(s) THEN SaveOrFail(s) ELSE UNCHANGED db
  PROVE  /\ db' \in [Accounts -> States]
         /\ \A a \in Accounts :
              \/ db'[a] = db[a]
              \/ account[s] = a /\ ~poisoned[s] /\ db'[a] = ram[s]
<1>1. CASE MaySave(s)
  <2>1. account[s] \in Accounts /\ ~poisoned[s] /\ SaveOrFail(s)
    BY <1>1 DEF MaySave, Types
  <2> QED
    BY <2>1, SaveOrFailFacts
<1>2. CASE ~MaySave(s)
  BY <1>2 DEF Types
<1> QED
  BY <1>1, <1>2

\* The end of a session, and what the World saves by itself.
LEMMA WorldTypes ==
  ASSUME Types, Named,
         \/ \E s \in Sessions : Disconnect(s) \/ AutoSave(s)
         \/ \E a \in Accounts : AdminKick(a)
         \/ AdminSaveAll \/ RunShutdown
  PROVE  Types' /\ Named'
<1>1. ASSUME NEW s \in Sessions, Disconnect(s) PROVE Types' /\ Named'
  <2>1. mail' \in [Sessions -> Seq(Post)]
    BY <1>1, TakeMail DEF Disconnect, IsEnd
  <2>2. db' \in [Accounts -> States]
    BY <1>1, LastSaveFacts DEF Disconnect
  <2>3. /\ pending' \in [Sessions -> BOOLEAN] /\ poisoned' \in [Sessions -> BOOLEAN]
        /\ inWorld' \in [Sessions -> BOOLEAN]
    BY <1>1 DEF Disconnect, Types
  <2>4. /\ account' \in [Sessions -> Accounts \union {NoAccount}]
        /\ \A t \in Sessions : inWorld'[t] => account'[t] \in Accounts
    BY <1>1 DEF Disconnect, Types, Named
  <2>5. ram' \in [Sessions -> States] /\ clients' \in SUBSET Sessions
    BY <1>1, StateFacts DEF Disconnect, Types
  <2>6. owner' \in [Accounts -> Sessions \union {NoSession}]
    BY <1>1 DEF Disconnect, Released, Types
  <2> QED
    BY <1>1, <2>1, <2>2, <2>3, <2>4, <2>5, <2>6 DEF Disconnect, Types, Named, history
<1>2. ASSUME NEW s \in Sessions, AutoSave(s) PROVE Types' /\ Named'
  <2>1. db' \in [Accounts -> States]
    BY <1>2, SaveOrFailFacts DEF AutoSave, Named
  <2> QED
    BY <1>2, <2>1
       DEF AutoSave, Types, Named, netVars, authVars, tables, players, history
<1>3. ASSUME NEW a \in Accounts, AdminKick(a) PROVE Types' /\ Named'
  <2>1. closed' \in [Sessions -> BOOLEAN]
    BY <1>3, CloseFacts DEF AdminKick
  <2> QED
    BY <1>3, <2>1 DEF AdminKick, Types, Named, authVars, tables, players, history
<1>4. CASE AdminSaveAll
  <2>1. db' \in [Accounts -> States]
    BY <1>4, AfterSavingFacts DEF AdminSaveAll
  <2> QED
    BY <1>4, <2>1
       DEF AdminSaveAll, Types, Named, netVars, authVars, tables, players, history
<1>5. CASE RunShutdown
  <2>1. \E S : S \subseteq Players /\ db' \in AfterSaving(S)
    <3>1. {s \in Players : inWorld[s]} \subseteq Players
      OBVIOUS
    <3> QED
      BY <1>5, <3>1 DEF RunShutdown, AfterSavingAll
  <2>2. db' \in [Accounts -> States]
    BY <2>1, AfterSavingFacts
  <2>3. down' \in BOOLEAN /\ drained' \in BOOLEAN
    BY <1>5 DEF RunShutdown, Types
  <2> QED
    BY <1>5, <2>2, <2>3
       DEF RunShutdown, Types, Named, netVars, authVars, tables, players, history
<1> QED
  BY <1>1, <1>2, <1>3, <1>4, <1>5

LEMMA NextTypes == ASSUME Types, Named, [Next]_vars PROVE Types' /\ Named'
<1>1. CASE UNCHANGED vars
  BY <1>1 DEF vars, netVars, authVars, tables, players, history, Types, Named
<1> QED
  BY <1>1, NetTypes, LoginTypes, PlayTypes, WorldTypes DEF Next, Handle

-----------------------------------------------------------------------------
(* Slots of password checks.                                               *)

LEMMA FiniteChecking ==
  /\ IsFiniteSet(Checking) /\ Cardinality(Checking) \in Nat
  /\ IsFiniteSet(Checking') /\ Cardinality(Checking)' \in Nat
<1>1. Checking \subseteq Sessions /\ Checking' \subseteq Sessions
  BY DEF Checking
<1> QED
  BY <1>1, SessionAssumption, FS_Subset, FS_CardinalityType

\* Only a login starts one, and it looks for a free slot.
LEMMA NextSlots == ASSUME Types, Slots, [Next]_vars PROVE Slots'
<1>1. ASSUME Checking' \subseteq Checking PROVE Slots'
  <2>1. Cardinality(Checking') <= Cardinality(Checking)
    BY <1>1, FiniteChecking, FS_Subset
  <2> QED
    BY <2>1, FiniteChecking, SessionAssumption DEF Slots
<1>2. ASSUME UNCHANGED auth PROVE Slots'
  BY <1>1, <1>2 DEF Checking
<1>3. ASSUME NEW s \in Sessions, NEW a \in Accounts, Login(s, a) PROVE Slots'
  <2>1. Cardinality(Checking) < AuthSlots
        /\ auth' = [auth EXCEPT ![s] = [stage |-> "started", account |-> a, seen |-> {}]]
    BY <1>3 DEF Login
  <2>2. Checking' \subseteq Checking \union {s}
    BY <2>1 DEF Checking, Types
  <2>3. /\ IsFiniteSet(Checking \union {s})
        /\ Cardinality(Checking \union {s}) <= Cardinality(Checking) + 1
    <3>1. /\ IsFiniteSet(Checking \union {s})
          /\ Cardinality(Checking \union {s})
               = IF s \in Checking THEN Cardinality(Checking) ELSE Cardinality(Checking) + 1
      BY FiniteChecking, FS_AddElement
    <3>2. Cardinality(Checking) \in Nat
      BY FiniteChecking
    <3> QED
      BY <3>1, <3>2
  <2>4. Cardinality(Checking') <= Cardinality(Checking \union {s})
    BY <2>2, <2>3, FS_Subset
  <2>5. Cardinality(Checking \union {s}) \in Nat
    BY <2>3, FS_CardinalityType
  <2> QED
    BY <2>1, <2>3, <2>4, <2>5, FiniteChecking, SessionAssumption DEF Slots
<1>4. ASSUME NEW s \in Sessions, AuthLoad(s) PROVE Slots'
  <2>1. auth[s] # Idle
    BY <1>4 DEF AuthLoad, Idle
  <2>2. \A t \in Sessions \ {s} : auth'[t] = auth[t]
    BY <1>4 DEF AuthLoad, Types
  <2>3. Checking' \subseteq Checking
    BY <2>1, <2>2 DEF Checking
  <2> QED
    BY <1>1, <2>3
<1>5. ASSUME NEW s \in Sessions, AuthAnswer(s) PROVE Slots'
  <2>1. Checking' \subseteq Checking
    BY <1>5 DEF AuthAnswer, Checking, Types
  <2> QED
    BY <1>1, <2>1
<1>6. ASSUME NEW s \in Sessions,
             \/ Receive(s) \/ HangUp(s) \/ Depart(s) \/ AutoSave(s)
             \/ Ignore(s) \/ DropAnswer(s) \/ ClaimInVain(s) \/ Admit(s)
             \/ Enter(s) \/ Play(s) \/ Commit(s) \/ CommitFails(s) \/ Logout(s)
             \/ Panic(s) \/ Refuse(s) \/ Disconnect(s)
      PROVE  UNCHANGED auth
  BY <1>6 DEF Receive, HangUp, Depart, AutoSave, Ignore, DropAnswer, ClaimInVain, Admit,
              Enter, Play, Commit, CommitFails, Logout, Panic, Refuse, Disconnect, authVars
<1>7. ASSUME (\E a \in Accounts : AdminKick(a)) \/ AdminSaveAll \/ RunShutdown
             \/ UNCHANGED vars
      PROVE  UNCHANGED auth
  BY <1>7 DEF AdminKick, AdminSaveAll, RunShutdown, vars, authVars
<1> QED
  BY <1>2, <1>3, <1>4, <1>5, <1>6, <1>7 DEF Next, Handle

-----------------------------------------------------------------------------
(* Players, owners and client slots.                                       *)

LEMMA ClosedGrows ==
  ASSUME Types, [Next]_vars
  PROVE  \A s \in Sessions : closed[s] => closed'[s]
<1>1. ASSUME NEW s \in Sessions,
             HangUp(s) \/ CommitFails(s) \/ Panic(s) \/ Refuse(s)
      PROVE  \A t \in Sessions : closed[t] => closed'[t]
  BY <1>1, CloseFacts DEF HangUp, CommitFails, Panic, Refuse
<1>2. ASSUME NEW a \in Accounts, AdminKick(a)
      PROVE  \A t \in Sessions : closed[t] => closed'[t]
  BY <1>2, CloseFacts DEF AdminKick
<1>3. ASSUME NEW s \in Sessions,
             \/ Receive(s) \/ Depart(s) \/ AuthLoad(s) \/ AuthAnswer(s) \/ AutoSave(s)
             \/ Ignore(s) \/ DropAnswer(s) \/ ClaimInVain(s) \/ Admit(s)
             \/ (\E a \in Accounts : Login(s, a))
             \/ Enter(s) \/ Play(s) \/ Commit(s) \/ Logout(s) \/ Disconnect(s)
      PROVE  UNCHANGED closed
  BY <1>3 DEF Receive, Depart, AuthLoad, AuthAnswer, AutoSave, Ignore, DropAnswer,
              ClaimInVain, Admit, Login, Enter, Play, Commit, Logout, Disconnect, netVars
<1>4. ASSUME AdminSaveAll \/ RunShutdown \/ UNCHANGED vars PROVE UNCHANGED closed
  BY <1>4 DEF AdminSaveAll, RunShutdown, vars, netVars
<1> QED
  BY <1>1, <1>2, <1>3, <1>4 DEF Next, Handle

\* Everything but logins, their answers and the end of a session.
LEMMA QuietTables ==
  ASSUME \/ \E s \in Sessions :
              \/ Receive(s) \/ HangUp(s) \/ Depart(s) \/ AuthLoad(s) \/ AuthAnswer(s)
              \/ AutoSave(s) \/ Ignore(s) \/ Enter(s) \/ Play(s) \/ Commit(s)
              \/ CommitFails(s) \/ Logout(s) \/ Panic(s) \/ Refuse(s)
         \/ \E a \in Accounts : AdminKick(a)
         \/ AdminSaveAll \/ RunShutdown \/ UNCHANGED vars
  PROVE  UNCHANGED <<pending, owner, clients, account>>
<1>1. ASSUME NEW s \in Sessions,
              \/ Receive(s) \/ HangUp(s) \/ Depart(s) \/ AuthLoad(s) \/ AuthAnswer(s)
              \/ AutoSave(s) \/ Ignore(s) \/ Enter(s) \/ Play(s) \/ Commit(s)
              \/ CommitFails(s) \/ Logout(s) \/ Panic(s) \/ Refuse(s)
      PROVE  UNCHANGED <<pending, owner, clients, account>>
  BY <1>1 DEF Receive, HangUp, Depart, AuthLoad, AuthAnswer, AutoSave, Ignore, Enter, Play,
              Commit, CommitFails, Logout, Panic, Refuse, authVars, tables, players
<1>2. ASSUME (\E a \in Accounts : AdminKick(a)) \/ AdminSaveAll \/ RunShutdown
             \/ UNCHANGED vars
      PROVE  UNCHANGED <<pending, owner, clients, account>>
  BY <1>2 DEF AdminKick, AdminSaveAll, RunShutdown, vars, authVars, tables, players
<1> QED
  BY <1>1, <1>2

\* claimAccountSession gives away only what no open session has.
LEMMA ClaimFacts ==
  ASSUME Types, PendingOut, SessionsAgree, NEW s \in Sessions, pending[s],
         NEW a \in Accounts, Claimable(s, a)
  PROVE  /\ account[s] = NoAccount /\ s \notin Players /\ s \notin clients
         /\ \A b \in Accounts : owner[b] # s
         /\ \A t \in Players : account[t] = a => closed[t]
<1>1. account[s] = NoAccount
  BY DEF PendingOut
<1>2. s \notin Players /\ s \notin clients
  BY <1>1 DEF SessionsAgree, Players
<1>3. \A b \in Accounts : owner[b] # s
  BY <1>1, SessionAssumption DEF SessionsAgree
<1>4. ASSUME NEW t \in Players, account[t] = a, ~closed[t] PROVE FALSE
  <2>1. owner[a] = t /\ t \in Sessions
    BY <1>4 DEF SessionsAgree, Players
  <2>2. t # NoSession /\ t # s
    BY <1>2, <2>1, SessionAssumption
  <2> QED
    BY <1>4, <2>1, <2>2 DEF Claimable
<1> QED
  BY <1>1, <1>2, <1>3, <1>4

LEMMA NextTables ==
  ASSUME Types, PendingOut, SessionsAgree, [Next]_vars
  PROVE  PendingOut' /\ SessionsAgree'
<1>0. /\ \A s \in Sessions : closed[s] => closed'[s]
      /\ NoAccount \notin Accounts /\ NoSession \notin Sessions
      /\ \A s \in Sessions : s \in Players <=> account[s] # NoAccount
      /\ \A s \in Sessions : (s \in Players)' <=> account'[s] # NoAccount
      /\ Players \subseteq Sessions /\ Players' \subseteq Sessions
  BY ClosedGrows, SessionAssumption DEF Players
<1>1. ASSUME UNCHANGED <<pending, owner, clients, account>>
      PROVE  PendingOut' /\ SessionsAgree'
  <2>1. Players' = Players
    BY <1>1 DEF Players
  <2> QED
    BY <1>0, <1>1, <2>1 DEF PendingOut, SessionsAgree
<1>2. ASSUME NEW s \in Sessions, NEW a \in Accounts, Login(s, a)
      PROVE  PendingOut' /\ SessionsAgree'
  <2>1. /\ account[s] = NoAccount /\ pending' = [pending EXCEPT ![s] = TRUE]
        /\ UNCHANGED <<owner, clients, account, closed>>
    BY <1>2 DEF Login, tables, players
  <2>2. PendingOut'
    BY <2>1 DEF PendingOut, Types
  <2>3. Players' = Players
    BY <2>1 DEF Players
  <2> QED
    BY <2>1, <2>2, <2>3 DEF SessionsAgree
<1>3. ASSUME NEW s \in Sessions, DropAnswer(s)
      PROVE  PendingOut' /\ SessionsAgree'
  <2>1. /\ pending' = [pending EXCEPT ![s] = FALSE]
        /\ UNCHANGED <<owner, clients, account, closed>>
    BY <1>3 DEF DropAnswer, tables, players
  <2>2. PendingOut'
    BY <2>1 DEF PendingOut, Types
  <2>3. Players' = Players
    BY <2>1 DEF Players
  <2> QED
    BY <2>1, <2>2, <2>3 DEF SessionsAgree
<1>4. ASSUME NEW s \in Sessions, ClaimInVain(s)
      PROVE  PendingOut' /\ SessionsAgree'
  <2>1. PICK a \in Accounts :
          /\ Claimable(s, a) /\ pending[s]
          /\ pending' = [pending EXCEPT ![s] = FALSE]
          /\ owner' = [owner EXCEPT ![a] = NoSession]
          /\ clients' \in {Live(clients) \ {s}, clients \ {s}}
          /\ UNCHANGED <<account, closed>>
    BY <1>4, AnswerFacts DEF ClaimInVain, players
  <2>2. /\ s \notin Players /\ s \notin clients
        /\ \A t \in Players : account[t] = a => closed[t]
    BY <2>1, ClaimFacts
  <2>3. PendingOut'
    BY <2>1 DEF PendingOut, Types
  <2>4. Players' = Players
    BY <2>1 DEF Players
  <2>5. \A t \in Players : ~closed[t] => owner'[account[t]] = t /\ t \in clients'
    <3> SUFFICES ASSUME NEW t \in Players, ~closed[t]
                 PROVE  owner'[account[t]] = t /\ t \in clients'
      OBVIOUS
    <3>1. owner[account[t]] = t /\ t \in clients /\ account[t] \in Accounts
          /\ account[t] # a /\ t # s
      BY <1>0, <2>2, PlayerFacts DEF SessionsAgree
    <3> QED
      BY <2>1, <3>1 DEF Types, Live
  <2>6. \A b \in Accounts : owner'[b] # NoSession => account[owner'[b]] = b
    BY <2>1 DEF SessionsAgree, Types
  <2>7. clients' \subseteq Players
    BY <2>1 DEF SessionsAgree, Live
  <2> QED
    BY <2>1, <2>3, <2>4, <2>5, <2>6, <2>7 DEF SessionsAgree
<1>5. ASSUME NEW s \in Sessions, Admit(s)
      PROVE  PendingOut' /\ SessionsAgree'
  <2>1. PICK a \in Accounts :
          /\ Claimable(s, a) /\ pending[s]
          /\ pending' = [pending EXCEPT ![s] = FALSE]
          /\ owner' = [owner EXCEPT ![a] = s]
          /\ clients' = Live(clients) \union {s}
          /\ account' = [account EXCEPT ![s] = a]
          /\ UNCHANGED closed
    BY <1>5, AnswerFacts DEF Admit
  <2>2. /\ account[s] = NoAccount /\ s \notin Players /\ s \notin clients
        /\ \A b \in Accounts : owner[b] # s
        /\ \A t \in Players : account[t] = a => closed[t]
    BY <2>1, ClaimFacts
  <2>3. /\ \A t \in Sessions \ {s} : account'[t] = account[t]
        /\ account'[s] = a /\ owner'[a] = s
        /\ \A b \in Accounts \ {a} : owner'[b] = owner[b]
    BY <2>1 DEF Types
  <2>4. PendingOut'
    BY <2>1, <2>3 DEF PendingOut, Types
  <2>5. Players' = Players \union {s}
    BY <1>0, <2>3
  <2>6. \A t \in Players' : ~closed[t] => owner'[account'[t]] = t /\ t \in clients'
    <3> SUFFICES ASSUME NEW t \in Players', ~closed[t]
                 PROVE  owner'[account'[t]] = t /\ t \in clients'
      OBVIOUS
    <3>1. CASE t = s
      BY <2>1, <2>3, <3>1
    <3>2. CASE t # s
      <4>1. t \in Players /\ t \in Sessions /\ account'[t] = account[t]
        BY <1>0, <2>3, <2>5, <3>2
      <4>2. account[t] \in Accounts /\ account[t] # a
        BY <2>2, <4>1, PlayerFacts
      <4>3. owner[account[t]] = t /\ t \in clients
        BY <4>1 DEF SessionsAgree
      <4> QED
        BY <2>1, <2>3, <4>1, <4>2, <4>3 DEF Live
    <3> QED
      BY <3>1, <3>2
  <2>7. \A b \in Accounts : owner'[b] # NoSession => account'[owner'[b]] = b
    <3> SUFFICES ASSUME NEW b \in Accounts, owner'[b] # NoSession
                 PROVE  account'[owner'[b]] = b
      OBVIOUS
    <3>1. CASE b = a
      BY <2>3, <3>1
    <3>2. CASE b # a
      <4>1. owner'[b] = owner[b] /\ owner[b] # s /\ account[owner[b]] = b
            /\ owner[b] \in Sessions
        BY <2>2, <2>3, <3>2 DEF SessionsAgree, Types
      <4> QED
        BY <2>3, <4>1
    <3> QED
      BY <3>1, <3>2
  <2>8. clients' \subseteq Players'
    BY <2>1, <2>5 DEF SessionsAgree, Live
  <2> QED
    BY <2>1, <2>4, <2>6, <2>7, <2>8 DEF SessionsAgree
<1>6. ASSUME NEW s \in Sessions, Disconnect(s)
      PROVE  PendingOut' /\ SessionsAgree'
  <2>1. /\ pending' = [pending EXCEPT ![s] = FALSE]
        /\ clients' = clients \ {s} /\ owner' = Released(s)
        /\ account' = [account EXCEPT ![s] = NoAccount]
        /\ UNCHANGED closed
    BY <1>6 DEF Disconnect
  <2>2. /\ \A t \in Sessions \ {s} : account'[t] = account[t]
        /\ account'[s] = NoAccount
        /\ \A b \in Accounts : owner'[b] = (IF owner[b] = s THEN NoSession ELSE owner[b])
    BY <2>1 DEF Types, Released
  <2>3. PendingOut'
    BY <2>1, <2>2 DEF PendingOut, Types
  <2>4. Players' = Players \ {s}
    BY <1>0, <2>2
  <2>5. \A t \in Players' : ~closed[t] => owner'[account'[t]] = t /\ t \in clients'
    <3> SUFFICES ASSUME NEW t \in Players', ~closed[t]
                 PROVE  owner'[account'[t]] = t /\ t \in clients'
      OBVIOUS
    <3>1. t \in Players /\ t # s /\ account'[t] = account[t] /\ account[t] \in Accounts
      BY <1>0, <2>2, <2>4, PlayerFacts
    <3>2. owner[account[t]] = t /\ t \in clients
      BY <3>1 DEF SessionsAgree
    <3> QED
      BY <2>1, <2>2, <3>1, <3>2
  <2>6. \A b \in Accounts : owner'[b] # NoSession => account'[owner'[b]] = b
    <3> SUFFICES ASSUME NEW b \in Accounts, owner'[b] # NoSession
                 PROVE  account'[owner'[b]] = b
      OBVIOUS
    <3>1. owner'[b] = owner[b] /\ owner[b] # s /\ owner[b] # NoSession
      BY <2>2
    <3>2. account[owner[b]] = b /\ owner[b] \in Sessions
      BY <3>1 DEF SessionsAgree, Types
    <3> QED
      BY <2>2, <3>1, <3>2
  <2>7. clients' \subseteq Players'
    BY <2>1, <2>4 DEF SessionsAgree
  <2> QED
    BY <2>1, <2>3, <2>5, <2>6, <2>7 DEF SessionsAgree
<1> QED
  BY <1>1, <1>2, <1>3, <1>4, <1>5, <1>6, QuietTables DEF Next, Handle

-----------------------------------------------------------------------------
(* What waits, and the end of a session.                                   *)

\* The part of Posts about one session.
PostsOf(s) ==
  /\ served[s] => closed[s]
  /\ ~served[s] => ~HasGone(mail[s])
  /\ served[s] /\ ~HasGone(mail[s]) => Results(mail[s]) /\ NoTrace(s)
  /\ GoneLast(mail[s]) /\ Shaped(mail[s])

LEMMA PostsSplit == Posts <=> \A s \in Sessions : PostsOf(s)
BY DEF Posts, PostsOf

\* A command of the session that is not its last one.
LEMMA TakePosts ==
  ASSUME Types, NEW s \in Sessions, PostsOf(s), mail[s] # <<>>, Take(s),
         UNCHANGED served, closed[s] => closed'[s],
         \/ Head(mail[s]).type = "packet"
         \/ Head(mail[s]).type = "result" /\ (NoTrace(s) /\ closed[s] => NoTrace(s)')
         \/ NoTrace(s)'
  PROVE  PostsOf(s)'
<1>1. mail'[s] = Tail(mail[s]) /\ mail[s] \in Seq(Post)
  BY TakeMail
<1>2. /\ HasGone(mail'[s]) => HasGone(mail[s])
      /\ HasGone(mail[s]) => Head(mail[s]).type = "gone" \/ HasGone(mail'[s])
      /\ Head(mail[s]).type = "gone" /\ GoneLast(mail[s]) => Results(mail'[s])
      /\ Results(mail[s]) => Results(mail'[s]) /\ Head(mail[s]).type = "result"
      /\ GoneLast(mail[s]) => GoneLast(mail'[s])
      /\ Shaped(mail[s]) => Shaped(mail'[s])
  BY <1>1, TailFacts
<1>3. GoneLast(mail'[s]) /\ Shaped(mail'[s])
  BY <1>2 DEF PostsOf
<1>4. ~served'[s] => ~HasGone(mail'[s])
  BY <1>2 DEF PostsOf
<1>5. ASSUME served'[s], ~HasGone(mail'[s])
      PROVE  Results(mail'[s]) /\ NoTrace(s)'
  <2>1. served[s] /\ closed[s]
    BY <1>5 DEF PostsOf
  <2>2. CASE Head(mail[s]).type = "gone"
    BY <1>2, <2>2 DEF PostsOf
  <2>3. CASE Head(mail[s]).type # "gone"
    <3>1. ~HasGone(mail[s])
      BY <1>2, <1>5, <2>3
    <3>2. Results(mail[s]) /\ NoTrace(s)
      BY <2>1, <3>1 DEF PostsOf
    <3> QED
      BY <1>2, <2>1, <3>2
  <2> QED
    BY <2>2, <2>3
<1> QED
  BY <1>3, <1>4, <1>5 DEF PostsOf

\* One more command.
LEMMA PutPosts ==
  ASSUME Types, NEW s \in Sessions, PostsOf(s), NEW m \in Post, Put(s, m),
         closed[s] => closed'[s], NoTrace(s) => NoTrace(s)',
         \/ m = Packet /\ ~served[s] /\ served'[s] = served[s]
         \/ m = Gone /\ ~served[s] /\ closed[s] /\ served'[s]
         \/ m.type = "result" /\ served'[s] = served[s]
  PROVE  PostsOf(s)'
<1>1. mail'[s] = Append(mail[s], m) /\ mail[s] \in Seq(Post)
  BY PutMail DEF Types
<1>2. /\ HasGone(mail'[s]) <=> HasGone(mail[s]) \/ m.type = "gone"
      /\ Results(mail[s]) /\ m.type = "result" => Results(mail'[s])
      /\ GoneLast(mail[s]) /\ (m.type = "result" \/ ~HasGone(mail[s])) => GoneLast(mail'[s])
      /\ Shaped(mail[s]) /\ (m.type = "gone" => m = Gone) => Shaped(mail'[s])
  BY <1>1, AppendFacts
<1>3. Packet.type = "packet" /\ Gone.type = "gone"
  BY PostFacts
<1> QED
  BY <1>2, <1>3 DEF PostsOf

\* Nothing new of a session but by its own commands.
LEMMA TraceFacts ==
  ASSUME NEW s \in Sessions, UNCHANGED <<pending, owner, clients, account>>
  PROVE  NoTrace(s) => NoTrace(s)'
BY DEF NoTrace

LEMMA StillPosts ==
  ASSUME NEW s \in Sessions, PostsOf(s), mail'[s] = mail[s], served'[s] = served[s],
         closed[s] => closed'[s], NoTrace(s) => NoTrace(s)'
  PROVE  PostsOf(s)'
BY DEF PostsOf

LEMMA NextPosts ==
  ASSUME Types, PendingOut, SessionsAgree, Named, Posts, [Next]_vars
  PROVE  Posts'
<1>0. /\ \A s \in Sessions : PostsOf(s) /\ (closed[s] => closed'[s])
      /\ NoSession \notin Sessions
  BY ClosedGrows, PostsSplit, SessionAssumption
<1> SUFFICES \A s \in Sessions : PostsOf(s)'
  BY DEF Posts, PostsOf
<1>1. ASSUME NEW s \in Sessions, Receive(s) PROVE \A t \in Sessions : PostsOf(t)'
  <2>1. /\ Put(s, Packet) /\ ~served[s]
        /\ UNCHANGED <<served, pending, owner, clients, account>>
    BY <1>1, QuietTables DEF Receive
  <2>2. Packet \in Post /\ \A t \in Sessions : NoTrace(t) => NoTrace(t)'
    BY <2>1, PostFacts, TraceFacts
  <2>3. PostsOf(s)'
    BY <1>0, <2>1, <2>2, PutPosts
  <2>4. ASSUME NEW t \in Sessions \ {s} PROVE PostsOf(t)'
    BY <1>0, <2>1, <2>2, PutMail, StillPosts
  <2> QED
    BY <2>3, <2>4
<1>2. ASSUME NEW s \in Sessions, Depart(s) PROVE \A t \in Sessions : PostsOf(t)'
  <2>1. /\ Put(s, Gone) /\ ~served[s] /\ closed[s]
        /\ served' = [served EXCEPT ![s] = TRUE]
        /\ UNCHANGED <<pending, owner, clients, account>>
    BY <1>2, QuietTables DEF Depart
  <2>2. Gone \in Post /\ \A t \in Sessions : NoTrace(t) => NoTrace(t)'
    BY <2>1, PostFacts, TraceFacts
  <2>3. served'[s] /\ \A t \in Sessions \ {s} : served'[t] = served[t]
    BY <2>1 DEF Types
  <2>4. PostsOf(s)'
    BY <1>0, <2>1, <2>2, <2>3, PutPosts
  <2>5. ASSUME NEW t \in Sessions \ {s} PROVE PostsOf(t)'
    BY <1>0, <2>1, <2>2, <2>3, PutMail, StillPosts
  <2> QED
    BY <2>4, <2>5
<1>3. ASSUME NEW s \in Sessions, AuthAnswer(s) PROVE \A t \in Sessions : PostsOf(t)'
  <2>1. auth[s].account \in Accounts /\ auth[s].seen \in States
    BY <1>3 DEF AuthAnswer, Types, Named
  <2>2. PICK m \in Post : Put(s, m) /\ m.type = "result"
    BY <1>3, <2>1, PostFacts, StateFacts DEF AuthAnswer
  <2>3. UNCHANGED <<served, pending, owner, clients, account>>
    BY <1>3, QuietTables DEF AuthAnswer
  <2>4. \A t \in Sessions : NoTrace(t) => NoTrace(t)'
    BY <2>3, TraceFacts
  <2>5. PostsOf(s)'
    BY <1>0, <2>2, <2>3, <2>4, PutPosts
  <2>6. ASSUME NEW t \in Sessions \ {s} PROVE PostsOf(t)'
    BY <1>0, <2>2, <2>3, <2>4, PutMail, StillPosts
  <2> QED
    BY <2>5, <2>6
<1>4. ASSUME UNCHANGED <<mail, served, pending, owner, clients, account>>
      PROVE  \A t \in Sessions : PostsOf(t)'
  BY <1>0, <1>4, TraceFacts, StillPosts
<1>5. ASSUME NEW s \in Sessions, mail[s] # <<>>, Head(mail[s]).type = "packet", Take(s),
             UNCHANGED <<served, owner, clients, account>>,
             \A t \in Sessions \ {s} : pending'[t] = pending[t]
      PROVE  \A t \in Sessions : PostsOf(t)'
  <2>1. PostsOf(s)'
    BY <1>0, <1>5, TakePosts
  <2>2. ASSUME NEW t \in Sessions \ {s} PROVE PostsOf(t)'
    <3>1. NoTrace(t) => NoTrace(t)'
      BY <1>5 DEF NoTrace
    <3> QED
      BY <1>0, <1>5, <3>1, TakeMail, StillPosts
  <2> QED
    BY <2>1, <2>2
<1>6. ASSUME NEW s \in Sessions,
             \/ Ignore(s) \/ Enter(s) \/ Play(s) \/ Commit(s) \/ CommitFails(s)
             \/ Logout(s) \/ Panic(s) \/ Refuse(s)
      PROVE  \A t \in Sessions : PostsOf(t)'
  <2>1. UNCHANGED <<pending, owner, clients, account>>
    BY <1>6, QuietTables
  <2>2. /\ mail[s] # <<>> /\ Head(mail[s]).type = "packet" /\ Take(s)
        /\ UNCHANGED served
    BY <1>6 DEF Ignore, Enter, Play, Commit, CommitFails, Logout, Panic, Refuse, Serving
  <2> QED
    BY <1>5, <2>1, <2>2
<1>7. ASSUME NEW s \in Sessions, NEW a \in Accounts, Login(s, a)
      PROVE  \A t \in Sessions : PostsOf(t)'
  <2>1. /\ mail[s] # <<>> /\ Head(mail[s]).type = "packet" /\ Take(s)
        /\ UNCHANGED <<served, owner, clients, account>>
        /\ pending' = [pending EXCEPT ![s] = TRUE]
    BY <1>7 DEF Login, Serving, tables, players
  <2>2. \A t \in Sessions \ {s} : pending'[t] = pending[t]
    BY <2>1 DEF Types
  <2> QED
    BY <1>5, <2>1, <2>2
<1>8. ASSUME NEW s \in Sessions, DropAnswer(s)
      PROVE  \A t \in Sessions : PostsOf(t)'
  <2>1. /\ mail[s] # <<>> /\ Head(mail[s]).type = "result" /\ Take(s)
        /\ UNCHANGED <<served, owner, clients, account>>
        /\ pending' = [pending EXCEPT ![s] = FALSE]
    BY <1>8, AnswerFacts DEF DropAnswer, tables, players
  <2>2. \A t \in Sessions : NoTrace(t) => NoTrace(t)'
    BY <2>1 DEF NoTrace, Types
  <2>3. PostsOf(s)'
    BY <1>0, <2>1, <2>2, TakePosts
  <2>4. ASSUME NEW t \in Sessions \ {s} PROVE PostsOf(t)'
    BY <1>0, <2>1, <2>2, TakeMail, StillPosts
  <2> QED
    BY <2>3, <2>4
<1>9. ASSUME NEW s \in Sessions, ClaimInVain(s) \/ Admit(s)
      PROVE  \A t \in Sessions : PostsOf(t)'
  <2>1. /\ mail[s] # <<>> /\ Head(mail[s]).type = "result" /\ Take(s) /\ ~closed[s]
        /\ UNCHANGED served
    BY <1>9, AnswerFacts DEF ClaimInVain, Admit
  <2>2. PostsOf(s)'
    BY <1>0, <2>1, TakePosts
  <2>3. ASSUME NEW t \in Sessions \ {s} PROVE PostsOf(t)'
    <3>1. NoTrace(t) => NoTrace(t)'
      <4>1. PICK a \in Accounts :
              /\ pending' = [pending EXCEPT ![s] = FALSE]
              /\ owner' \in {[owner EXCEPT ![a] = NoSession], [owner EXCEPT ![a] = s]}
              /\ clients' \subseteq clients \union {s}
              /\ account' \in {account, [account EXCEPT ![s] = a]}
        <5>1. AnswerOf(s).account \in Accounts
          BY <1>9, AnswerFacts DEF ClaimInVain, Admit
        <5>2. CASE ClaimInVain(s)
          BY <5>1, <5>2 DEF ClaimInVain, players, Live
        <5>3. CASE Admit(s)
          BY <5>1, <5>3 DEF Admit, Live
        <5> QED
          BY <1>9, <5>2, <5>3
      <4>2. /\ pending'[t] = pending[t] /\ account'[t] = account[t]
            /\ t \notin clients => t \notin clients'
            /\ \A b \in Accounts : owner'[b] # t \/ owner[b] = t
        BY <1>0, <2>3, <4>1 DEF Types
      <4> QED
        BY <4>2 DEF NoTrace
    <3> QED
      BY <1>0, <2>1, <2>3, <3>1, TakeMail, StillPosts
  <2> QED
    BY <2>2, <2>3
<1>10. ASSUME NEW s \in Sessions, Disconnect(s)
       PROVE  \A t \in Sessions : PostsOf(t)'
  <2>1. /\ mail[s] # <<>> /\ Take(s) /\ UNCHANGED served
        /\ pending' = [pending EXCEPT ![s] = FALSE]
        /\ clients' = clients \ {s} /\ owner' = Released(s)
        /\ account' = [account EXCEPT ![s] = NoAccount]
    BY <1>10 DEF Disconnect, IsEnd
  <2>2. NoTrace(s)'
    BY <1>0, <2>1 DEF NoTrace, Released, Types
  <2>3. PostsOf(s)'
    BY <1>0, <2>1, <2>2, TakePosts
  <2>4. ASSUME NEW t \in Sessions \ {s} PROVE PostsOf(t)'
    <3>1. NoTrace(t) => NoTrace(t)'
      BY <1>0, <2>1 DEF NoTrace, Released, Types
    <3> QED
      BY <1>0, <2>1, <2>4, <3>1, TakeMail, StillPosts
  <2> QED
    BY <2>3, <2>4
<1>11. ASSUME \/ \E s \in Sessions : HangUp(s) \/ AuthLoad(s) \/ AutoSave(s)
              \/ \E a \in Accounts : AdminKick(a)
              \/ AdminSaveAll \/ RunShutdown \/ UNCHANGED vars
       PROVE  \A t \in Sessions : PostsOf(t)'
  <2>1. UNCHANGED <<pending, owner, clients, account>>
    BY <1>11, QuietTables
  <2>2. UNCHANGED <<mail, served>>
    BY <1>11 DEF HangUp, AuthLoad, AutoSave, AdminKick, AdminSaveAll, RunShutdown, vars,
                 netVars
  <2> QED
    BY <1>4, <2>1, <2>2
<1> QED
  BY <1>1, <1>2, <1>3, <1>6, <1>7, <1>8, <1>9, <1>10, <1>11 DEF Next, Handle

-----------------------------------------------------------------------------
(* The copies of an account and what is stored of it.                      *)

Memory ==
  /\ OneCopy /\ CopyIsNew /\ ConfirmedKept
  /\ LeftStored /\ DrainedDown /\ ShutdownKeepsAll
  /\ AfterPanic

\* Saves of players, and everything that leaves their memory alone.
LEMMA SavesKeepMemory ==
  ASSUME Types, Memory,
         UNCHANGED <<account, poisoned, ram, confirmed, partial, overlapped, drained>>,
         \A s \in Sessions : inWorld[s] => inWorld'[s],
         down => down',
         \A a \in Accounts : db'[a] = db[a] \/ \E s \in Players : account[s] = a /\ db'[a] = ram[s]
  PROVE  Memory'
<1>1. Players' = Players /\ \A s \in Players : s \in Sessions /\ account[s] \in Accounts
  BY PlayerFacts DEF Players
<1>2. OneCopy' /\ CopyIsNew' /\ DrainedDown' /\ AfterPanic'
  BY <1>1 DEF Memory, OneCopy, CopyIsNew, DrainedDown, AfterPanic
<1>3. ConfirmedKept'
  <2> SUFFICES ASSUME NEW a \in Accounts \ overlapped PROVE confirmed[a] \subseteq db'[a]
    BY DEF ConfirmedKept
  <2>1. confirmed[a] \subseteq db[a]
    BY DEF Memory, ConfirmedKept
  <2>2. \A s \in Players : account[s] = a => confirmed[a] \subseteq ram[s]
    BY DEF Memory, CopyIsNew
  <2> QED
    BY <2>1, <2>2
<1>4. ASSUME NEW s \in Players, Clean(s), ram[s] \subseteq db[account[s]]
      PROVE  ram[s] \subseteq db'[account[s]]
  <2>1. \A t \in Players : account[t] = account[s] => t = s
    BY <1>4 DEF Memory, OneCopy, Clean
  <2> QED
    BY <1>1, <1>4, <2>1
<1>5. LeftStored'
  <2> SUFFICES ASSUME NEW s \in Players, Clean(s), ~inWorld'[s]
               PROVE  ram[s] \subseteq db'[account[s]]
    BY <1>1 DEF LeftStored, Clean
  <2>1. ram[s] \subseteq db[account[s]]
    BY <1>1 DEF Memory, LeftStored
  <2> QED
    BY <1>4, <2>1
<1>6. ShutdownKeepsAll'
  <2> SUFFICES ASSUME drained, NEW s \in Players, Clean(s)
               PROVE  ram[s] \subseteq db'[account[s]]
    BY <1>1 DEF ShutdownKeepsAll, Clean
  <2>1. ram[s] \subseteq db[account[s]]
    BY DEF Memory, ShutdownKeepsAll, Clean
  <2> QED
    BY <1>4, <2>1
<1> QED
  BY <1>2, <1>3, <1>5, <1>6 DEF Memory

\* An operation of a player: its copy grows, and what is confirmed of it is in
\* the copy and in the store.
LEMMA OperationKeepsMemory ==
  ASSUME Types, Memory, ~down, NEW s \in Sessions, account[s] \in Accounts,
         UNCHANGED <<account, partial, overlapped, down, drained>>,
         ram[s] \subseteq ram'[s],
         \A t \in Sessions \ {s} : ram'[t] = ram[t] /\ inWorld'[t] = inWorld[t]
                                   /\ poisoned'[t] = poisoned[t],
         \A a \in Accounts \ {account[s]} : db'[a] = db[a] /\ confirmed'[a] = confirmed[a],
         account[s] \notin overlapped =>
           /\ confirmed'[account[s]] \subseteq ram'[s] \intersect db'[account[s]]
           /\ ~poisoned'[s] /\ ~inWorld'[s] => ram'[s] \subseteq db'[account[s]]
  PROVE  Memory'
<1>1. /\ Players' = Players /\ s \in Players
      /\ \A t \in Players : t \in Sessions /\ account[t] \in Accounts
  BY PlayerFacts DEF Players
<1>2. ~drained /\ partial = {}
  BY DEF Memory, DrainedDown, AfterPanic
<1>3. OneCopy' /\ DrainedDown' /\ AfterPanic' /\ ShutdownKeepsAll'
  BY <1>1, <1>2 DEF Memory, OneCopy, DrainedDown, AfterPanic, ShutdownKeepsAll
<1>4. ASSUME NEW t \in Players \ {s}, account[t] \notin overlapped
      PROVE  account[t] # account[s]
  BY <1>1, <1>4 DEF Memory, OneCopy
<1>5. CopyIsNew'
  <2> SUFFICES ASSUME NEW t \in Players, account[t] \notin overlapped
               PROVE  confirmed'[account[t]] \subseteq ram'[t]
    BY <1>1 DEF CopyIsNew
  <2>1. CASE t = s
    BY <2>1
  <2>2. CASE t # s
    BY <1>1, <1>4, <2>2 DEF Memory, CopyIsNew
  <2> QED
    BY <2>1, <2>2
<1>6. ConfirmedKept'
  <2> SUFFICES ASSUME NEW a \in Accounts \ overlapped PROVE confirmed'[a] \subseteq db'[a]
    BY DEF ConfirmedKept
  <2>1. CASE a = account[s]
    BY <2>1
  <2>2. CASE a # account[s]
    BY <2>2 DEF Memory, ConfirmedKept
  <2> QED
    BY <2>1, <2>2
<1>7. LeftStored'
  <2> SUFFICES ASSUME NEW t \in Players, ~poisoned'[t], account[t] \notin overlapped,
                      ~inWorld'[t]
               PROVE  ram'[t] \subseteq db'[account[t]]
    BY <1>1 DEF LeftStored, Clean
  <2>1. CASE t = s
    BY <2>1
  <2>2. CASE t # s
    BY <1>1, <1>4, <2>2 DEF Memory, LeftStored, Clean
  <2> QED
    BY <2>1, <2>2
<1> QED
  BY <1>3, <1>5, <1>6, <1>7 DEF Memory

\* What a player has confirmed is in its copy and in the store.
LEMMA OwnFacts ==
  ASSUME Types, Named, Memory, NEW s \in Sessions, inWorld[s]
  PROVE  /\ account[s] \in Accounts /\ s \in Players
         /\ account[s] \notin overlapped =>
              /\ confirmed[account[s]] \subseteq ram[s]
              /\ confirmed[account[s]] \subseteq db[account[s]]
BY PlayerFacts DEF Named, Memory, CopyIsNew, ConfirmedKept

LEMMA ToldFacts ==
  ASSUME Types, NEW s \in Sessions, account[s] \in Accounts, NEW D
  PROVE  /\ Told(s, D)[account[s]] \subseteq confirmed[account[s]] \union D
         /\ \A a \in Accounts \ {account[s]} : Told(s, D)[a] = confirmed[a]
BY DEF Told, Types

LEMMA PlayMemory ==
  ASSUME Types, Named, Memory, NEW s \in Sessions,
         Play(s) \/ Commit(s) \/ CommitFails(s) \/ Logout(s)
  PROVE  Memory'
<1>1. /\ ~down /\ inWorld[s]
      /\ UNCHANGED <<account, partial, overlapped, down, drained>>
  BY DEF Play, Commit, CommitFails, Logout, Serving, history
<1>2. /\ account[s] \in Accounts
      /\ account[s] \notin overlapped =>
           /\ confirmed[account[s]] \subseteq ram[s]
           /\ confirmed[account[s]] \subseteq db[account[s]]
  BY <1>1, OwnFacts
<1>3. CASE Play(s)
  <2>1. ram' = [ram EXCEPT ![s] = @ \union {ops'}]
        /\ UNCHANGED <<inWorld, poisoned, db, confirmed>>
    BY <1>3 DEF Play, history
  <2>2. /\ ram[s] \subseteq ram'[s]
        /\ \A t \in Sessions \ {s} : ram'[t] = ram[t]
    BY <2>1 DEF Types
  <2> QED
    BY <1>1, <1>2, <2>1, <2>2, OperationKeepsMemory
<1>4. CASE Commit(s)
  <2>1. /\ ram' = [ram EXCEPT ![s] = @ \union {ops'}]
        /\ db' = [db EXCEPT ![account[s]] = ram'[s]]
        /\ confirmed' = Told(s, {ops'})
        /\ UNCHANGED <<inWorld, poisoned>>
    BY <1>4 DEF Commit
  <2>2. /\ ram'[s] = ram[s] \union {ops'} /\ db'[account[s]] = ram'[s]
        /\ \A t \in Sessions \ {s} : ram'[t] = ram[t]
        /\ \A a \in Accounts \ {account[s]} : db'[a] = db[a]
    BY <1>2, <2>1 DEF Types
  <2>3. /\ confirmed'[account[s]] \subseteq confirmed[account[s]] \union {ops'}
        /\ \A a \in Accounts \ {account[s]} : confirmed'[a] = confirmed[a]
    BY <1>2, <2>1, ToldFacts
  <2>4. account[s] \notin overlapped =>
          confirmed'[account[s]] \subseteq ram'[s] \intersect db'[account[s]]
    BY <1>2, <2>2, <2>3
  <2> QED
    BY <1>1, <1>2, <2>1, <2>2, <2>3, <2>4, OperationKeepsMemory
<1>5. CASE CommitFails(s)
  <2>1. /\ db' \in {db, [db EXCEPT ![account[s]] = ram[s] \union {ops'}]}
        /\ poisoned' = poisoned \/ poisoned' = [poisoned EXCEPT ![s] = TRUE]
        /\ UNCHANGED <<inWorld, ram, confirmed>>
    BY <1>5 DEF CommitFails, history
  <2>2. /\ db'[account[s]] = db[account[s]] \/ db'[account[s]] = ram[s] \union {ops'}
        /\ \A a \in Accounts \ {account[s]} : db'[a] = db[a]
        /\ \A t \in Sessions \ {s} : poisoned'[t] = poisoned[t]
    BY <1>2, <2>1 DEF Types
  <2>3. account[s] \notin overlapped =>
          confirmed[account[s]] \subseteq ram[s] \intersect db'[account[s]]
    BY <1>2, <2>2
  <2> QED
    BY <1>1, <1>2, <2>1, <2>2, <2>3, OperationKeepsMemory
<1>6. CASE Logout(s)
  <2>1. /\ UNCHANGED <<ram, poisoned>>
        /\ \/ /\ db' = [db EXCEPT ![account[s]] = ram[s]]
              /\ inWorld' = [inWorld EXCEPT ![s] = FALSE]
              /\ confirmed' = Told(s, ram[s])
           \/ SaveOrFail(s) /\ UNCHANGED <<inWorld, confirmed>>
    BY <1>6 DEF Logout
  <2>2. CASE SaveOrFail(s) /\ UNCHANGED <<inWorld, confirmed>>
    <3>1. /\ db'[account[s]] \in {db[account[s]], ram[s]}
          /\ \A a \in Accounts \ {account[s]} : db'[a] = db[a]
      BY <1>2, <2>2, SaveOrFailFacts
    <3>2. account[s] \notin overlapped =>
            confirmed[account[s]] \subseteq ram[s] \intersect db'[account[s]]
      BY <1>2, <3>1
    <3> QED
      BY <1>1, <1>2, <2>1, <2>2, <3>1, <3>2, OperationKeepsMemory
  <2>3. CASE /\ db' = [db EXCEPT ![account[s]] = ram[s]]
             /\ inWorld' = [inWorld EXCEPT ![s] = FALSE]
             /\ confirmed' = Told(s, ram[s])
    <3>1. /\ db'[account[s]] = ram[s]
          /\ \A a \in Accounts \ {account[s]} : db'[a] = db[a]
          /\ \A t \in Sessions \ {s} : inWorld'[t] = inWorld[t]
      BY <1>2, <2>3 DEF Types
    <3>2. /\ confirmed'[account[s]] \subseteq confirmed[account[s]] \union ram[s]
          /\ \A a \in Accounts \ {account[s]} : confirmed'[a] = confirmed[a]
      BY <1>2, <2>3, ToldFacts
    <3>3. account[s] \notin overlapped =>
            confirmed'[account[s]] \subseteq ram[s] \intersect db'[account[s]]
      BY <1>2, <3>1, <3>2
    <3> QED
      BY <1>1, <1>2, <2>1, <3>1, <3>2, <3>3, OperationKeepsMemory
  <2> QED
    BY <2>1, <2>2, <2>3
<1> QED
  BY <1>3, <1>4, <1>5, <1>6

\* Half an operation is in the memory of a player, and everyone is poisoned.
LEMMA PanicMemory ==
  ASSUME Types, Named, Memory, NEW s \in Sessions, Panic(s)
  PROVE  Memory'
<1>1. /\ ~down /\ down'
      /\ poisoned' = [t \in Sessions |-> poisoned[t] \/ t \in Players]
      /\ UNCHANGED <<account, inWorld, db, drained, confirmed, overlapped>>
  BY DEF Panic, Serving
<1>2. PICK p \in Players : ram' = [ram EXCEPT ![p] = @ \union {ops'}]
  BY DEF Panic
<1>3. /\ Players' = Players /\ Players \subseteq Sessions
      /\ \A t \in Sessions : ram[t] \subseteq ram'[t]
      /\ \A t \in Players : poisoned'[t]
  BY <1>1, <1>2 DEF Players, Types
<1>4. ~drained
  BY <1>1 DEF Memory, DrainedDown
<1>5. OneCopy' /\ CopyIsNew' /\ ConfirmedKept'
  BY <1>1, <1>3 DEF Memory, OneCopy, CopyIsNew, ConfirmedKept
<1>6. LeftStored' /\ DrainedDown' /\ ShutdownKeepsAll' /\ AfterPanic'
  BY <1>1, <1>3, <1>4 DEF LeftStored, Clean, DrainedDown, ShutdownKeepsAll, AfterPanic
<1> QED
  BY <1>5, <1>6 DEF Memory

\* The account is read after it is claimed.
LEMMA AdmitMemory ==
  ASSUME Types, Named, PendingOut, Memory, NEW s \in Sessions, Admit(s)
  PROVE  Memory'
<1>1. PICK a \in Accounts :
        /\ pending[s] /\ ~down
        /\ account' = [account EXCEPT ![s] = a]
        /\ ram' = [ram EXCEPT ![s] = db[a]]
        /\ overlapped' = overlapped \union
                           (IF \E t \in Players : account[t] = a THEN {a} ELSE {})
        /\ UNCHANGED <<inWorld, poisoned, db, down, drained, confirmed, partial>>
  BY AnswerFacts DEF Admit, Admitted
<1>2. ~drained /\ partial = {} /\ s \notin Players
  BY <1>1, PlayerFacts DEF Memory, DrainedDown, AfterPanic, PendingOut
<1>3. /\ account'[s] = a /\ ram'[s] = db[a]
      /\ \A t \in Sessions \ {s} : account'[t] = account[t] /\ ram'[t] = ram[t]
      /\ overlapped \subseteq overlapped'
  BY <1>1 DEF Types
<1>4. /\ Players' = Players \union {s}
      /\ \A t \in Players : /\ t \in Sessions /\ t # s /\ account'[t] = account[t]
                            /\ ram'[t] = ram[t] /\ account[t] \in Accounts
                            /\ account[t] = a => a \in overlapped'
  <2>1. Players' = Players \union {s}
    BY <1>3, SessionAssumption DEF Players
  <2>2. \A t \in Players : t \in Sessions /\ t # s /\ account[t] \in Accounts
    BY <1>2, PlayerFacts
  <2> QED
    BY <1>1, <1>3, <2>1, <2>2
<1>5. OneCopy'
  <2> SUFFICES ASSUME NEW t \in Players', NEW u \in Players', account'[t] = account'[u],
                      account'[t] \notin overlapped'
               PROVE  t = u
    BY DEF OneCopy
  <2>1. CASE t = s \/ u = s
    BY <1>3, <1>4, <2>1
  <2>2. CASE t # s /\ u # s
    BY <1>3, <1>4, <2>2 DEF Memory, OneCopy
  <2> QED
    BY <2>1, <2>2
<1>6. ConfirmedKept'
  BY <1>1, <1>3 DEF Memory, ConfirmedKept
<1>7. CopyIsNew'
  <2> SUFFICES ASSUME NEW t \in Players', account'[t] \notin overlapped'
               PROVE  confirmed'[account'[t]] \subseteq ram'[t]
    BY DEF CopyIsNew
  <2>1. CASE t = s
    BY <1>1, <1>3, <2>1 DEF Memory, ConfirmedKept
  <2>2. CASE t # s
    BY <1>1, <1>3, <1>4, <2>2 DEF Memory, CopyIsNew
  <2> QED
    BY <2>1, <2>2
<1>8. LeftStored'
  <2> SUFFICES ASSUME NEW t \in Players', ~poisoned[t], account'[t] \notin overlapped',
                      ~inWorld[t]
               PROVE  ram'[t] \subseteq db[account'[t]]
    BY <1>1 DEF LeftStored, Clean
  <2>1. CASE t = s
    BY <1>3, <2>1
  <2>2. CASE t # s
    BY <1>1, <1>3, <1>4, <2>2 DEF Memory, LeftStored, Clean
  <2> QED
    BY <2>1, <2>2
<1>9. DrainedDown' /\ ShutdownKeepsAll' /\ AfterPanic'
  BY <1>1, <1>2 DEF DrainedDown, ShutdownKeepsAll, AfterPanic
<1> QED
  BY <1>5, <1>6, <1>7, <1>8, <1>9 DEF Memory

\* The last save of a session is of the only copy, or of an overlapped one.
LEMMA DisconnectMemory ==
  ASSUME Types, Named, Memory, NEW s \in Sessions, Disconnect(s)
  PROVE  Memory'
<1>1. /\ account' = [account EXCEPT ![s] = NoAccount]
      /\ inWorld' = [inWorld EXCEPT ![s] = FALSE]
      /\ poisoned' = [poisoned EXCEPT ![s] = FALSE]
      /\ ram' = [ram EXCEPT ![s] = {}]
      /\ UNCHANGED <<down, drained, confirmed, partial, overlapped>>
  BY DEF Disconnect, history
<1>2. \A a \in Accounts :
        db'[a] = db[a] \/ (account[s] = a /\ ~poisoned[s] /\ db'[a] = ram[s])
  BY LastSaveFacts DEF Disconnect
<1>3. /\ account'[s] = NoAccount
      /\ \A t \in Sessions \ {s} : /\ account'[t] = account[t] /\ inWorld'[t] = inWorld[t]
                                   /\ poisoned'[t] = poisoned[t] /\ ram'[t] = ram[t]
  BY <1>1 DEF Types
<1>4. /\ Players' = Players \ {s}
      /\ \A t \in Players : t \in Sessions /\ account[t] \in Accounts
      /\ \A a \in Accounts : account[s] = a => s \in Players
  BY <1>3, PlayerFacts DEF Players
<1>5. OneCopy' /\ CopyIsNew'
  BY <1>1, <1>3, <1>4 DEF Memory, OneCopy, CopyIsNew
<1>6. ConfirmedKept'
  <2> SUFFICES ASSUME NEW a \in Accounts \ overlapped PROVE confirmed[a] \subseteq db'[a]
    BY <1>1 DEF ConfirmedKept
  <2>1. confirmed[a] \subseteq db[a]
    BY DEF Memory, ConfirmedKept
  <2>2. account[s] = a => confirmed[a] \subseteq ram[s]
    BY <1>4 DEF Memory, CopyIsNew
  <2> QED
    BY <1>2, <2>1, <2>2
<1>7. ASSUME NEW t \in Players', account'[t] \notin overlapped
      PROVE  /\ db'[account'[t]] = db[account[t]] /\ account'[t] = account[t]
             /\ ram'[t] = ram[t] /\ inWorld'[t] = inWorld[t] /\ poisoned'[t] = poisoned[t]
             /\ t \in Players
  <2>1. t \in Players /\ t # s /\ t \in Sessions /\ account[t] \in Accounts
    BY <1>4
  <2>2. account'[t] = account[t] /\ ram'[t] = ram[t] /\ inWorld'[t] = inWorld[t]
        /\ poisoned'[t] = poisoned[t]
    BY <1>3, <2>1
  <2>3. account[s] # account[t]
    BY <1>4, <1>7, <2>1, <2>2 DEF Memory, OneCopy
  <2> QED
    BY <1>2, <2>1, <2>2, <2>3
<1>8. LeftStored' /\ ShutdownKeepsAll'
  <2>1. ASSUME NEW t \in Players', Clean(t)', ~inWorld'[t]
        PROVE  ram'[t] \subseteq db'[account'[t]]
    <3>1. account'[t] \notin overlapped /\ ~poisoned'[t]
      BY <1>1, <2>1 DEF Clean
    <3> QED
      BY <1>7, <2>1, <3>1 DEF Memory, LeftStored, Clean
  <2>2. ASSUME drained, NEW t \in Players', ~poisoned'[t], account'[t] \notin overlapped
        PROVE  ram'[t] \subseteq db'[account'[t]]
    BY <1>7, <2>2 DEF Memory, ShutdownKeepsAll
  <2>3. LeftStored'
    BY <2>1 DEF LeftStored
  <2>4. ShutdownKeepsAll'
    BY <1>1, <2>2 DEF ShutdownKeepsAll
  <2> QED
    BY <2>3, <2>4
<1>9. DrainedDown' /\ AfterPanic'
  BY <1>1, <1>3, <1>4 DEF Memory, DrainedDown, AfterPanic
<1> QED
  BY <1>5, <1>6, <1>8, <1>9 DEF Memory

\* The last snapshot is of the only copy of each account, and those that have
\* left the world are stored already.
LEMMA ShutdownMemory ==
  ASSUME Types, Named, Memory, RunShutdown
  PROVE  Memory'
<1> DEFINE present == {s \in Players : inWorld[s]}
<1>1. /\ down'
      /\ db' \in AfterSaving(present)
      /\ \/ db' \in AfterSavingAll(present)
         \/ drained' = drained
      /\ UNCHANGED <<account, inWorld, poisoned, ram, confirmed, partial, overlapped>>
  BY DEF RunShutdown, AfterSavingAll, players, history
<1>2. \A a \in Accounts : db'[a] = db[a] \/ \E s \in present : account[s] = a /\ db'[a] = ram[s]
  BY <1>1, AfterSavingFacts
<1>3. Players' = Players /\ \A s \in Players : account[s] \in Accounts
  BY <1>1, PlayerFacts DEF Players
<1>4. OneCopy' /\ CopyIsNew' /\ DrainedDown' /\ AfterPanic'
  BY <1>1, <1>3 DEF Memory, OneCopy, CopyIsNew, DrainedDown, AfterPanic
<1>5. ConfirmedKept'
  <2> SUFFICES ASSUME NEW a \in Accounts \ overlapped PROVE confirmed[a] \subseteq db'[a]
    BY <1>1 DEF ConfirmedKept
  <2>1. confirmed[a] \subseteq db[a]
    BY DEF Memory, ConfirmedKept
  <2>2. \A s \in Players : account[s] = a => confirmed[a] \subseteq ram[s]
    BY DEF Memory, CopyIsNew
  <2> QED
    BY <1>2, <2>1, <2>2
<1>6. ASSUME NEW s \in Players, Clean(s),
             \/ ram[s] \subseteq db[account[s]]
             \/ inWorld[s] /\ db' \in AfterSavingAll(present)
      PROVE  ram[s] \subseteq db'[account[s]]
  <2>1. \A t \in Players : account[t] = account[s] => t = s
    BY <1>6 DEF Memory, OneCopy, Clean
  <2>2. CASE ram[s] \subseteq db[account[s]]
    BY <1>2, <1>3, <2>1, <2>2
  <2>3. CASE inWorld[s] /\ db' \in AfterSavingAll(present)
    <3>1. s \in present /\ account[s] \in Accounts
      BY <1>3, <2>3
    <3>2. db'[account[s]] \in Copies(present, account[s])
      BY <2>3, <3>1 DEF AfterSavingAll, Copies
    <3>3. PICK t \in present : account[t] = account[s] /\ db'[account[s]] = ram[t]
      BY <3>2 DEF Copies
    <3> QED
      BY <2>1, <3>3
  <2> QED
    BY <1>6, <2>2, <2>3
<1>7. LeftStored'
  <2> SUFFICES ASSUME NEW s \in Players, Clean(s), ~inWorld[s]
               PROVE  ram[s] \subseteq db'[account[s]]
    BY <1>1, <1>3 DEF LeftStored, Clean
  <2>1. ram[s] \subseteq db[account[s]]
    BY DEF Memory, LeftStored
  <2> QED
    BY <1>6, <2>1
<1>8. ShutdownKeepsAll'
  <2> SUFFICES ASSUME drained', NEW s \in Players, Clean(s)
               PROVE  ram[s] \subseteq db'[account[s]]
    BY <1>1, <1>3 DEF ShutdownKeepsAll, Clean
  <2>1. CASE ~inWorld[s]
    BY <1>6, <2>1 DEF Memory, LeftStored
  <2>2. CASE drained
    BY <1>6, <2>2 DEF Memory, ShutdownKeepsAll, Clean
  <2>3. CASE inWorld[s] /\ ~drained
    <3>1. db' \in AfterSavingAll(present)
      BY <1>1, <2>3
    <3> QED
      BY <1>6, <2>3, <3>1
  <2> QED
    BY <2>1, <2>2, <2>3
<1> QED
  BY <1>4, <1>5, <1>7, <1>8 DEF Memory

LEMMA NextMemory ==
  ASSUME Types, Named, PendingOut, Memory, [Next]_vars
  PROVE  Memory'
<1>1. ASSUME \/ \E s \in Sessions :
                  \/ Receive(s) \/ HangUp(s) \/ Depart(s) \/ AuthLoad(s) \/ AuthAnswer(s)
                  \/ Ignore(s) \/ Refuse(s) \/ DropAnswer(s) \/ ClaimInVain(s)
                  \/ (\E a \in Accounts : Login(s, a))
             \/ (\E a \in Accounts : AdminKick(a)) \/ UNCHANGED vars
      PROVE  UNCHANGED <<account, inWorld, poisoned, ram, db, down, drained, confirmed,
                         partial, overlapped>>
  BY <1>1 DEF Receive, HangUp, Depart, AuthLoad, AuthAnswer, Ignore, Refuse, DropAnswer,
              ClaimInVain, Login, AdminKick, vars, players, history
<1>2. ASSUME UNCHANGED <<account, inWorld, poisoned, ram, db, down, drained, confirmed,
                         partial, overlapped>>
      PROVE  Memory'
  BY <1>2, SavesKeepMemory
<1>3. ASSUME NEW s \in Sessions, Enter(s) PROVE Memory'
  <2>1. /\ inWorld' = [inWorld EXCEPT ![s] = TRUE]
        /\ UNCHANGED <<account, poisoned, ram, db, down, drained, confirmed, partial,
                       overlapped>>
    BY <1>3 DEF Enter, history
  <2>2. \A t \in Sessions : inWorld[t] => inWorld'[t]
    BY <2>1 DEF Types
  <2> QED
    BY <2>1, <2>2, SavesKeepMemory
<1>4. ASSUME NEW s \in Sessions, AutoSave(s) PROVE Memory'
  <2>1. /\ inWorld[s] /\ SaveOrFail(s)
        /\ UNCHANGED <<account, inWorld, poisoned, ram, down, drained, confirmed, partial,
                       overlapped>>
    BY <1>4 DEF AutoSave, players, history
  <2>2. account[s] \in Accounts /\ s \in Players
    BY <2>1, PlayerFacts DEF Named
  <2>3. \A a \in Accounts : db'[a] = db[a] \/ (account[s] = a /\ db'[a] = ram[s])
    BY <2>1, <2>2, SaveOrFailFacts
  <2> QED
    BY <2>1, <2>2, <2>3, SavesKeepMemory
<1>5. CASE AdminSaveAll
  <2>1. /\ db' \in AfterSaving(Players)
        /\ UNCHANGED <<account, inWorld, poisoned, ram, down, drained, confirmed, partial,
                       overlapped>>
    BY <1>5 DEF AdminSaveAll, players, history
  <2>2. \A a \in Accounts :
          db'[a] = db[a] \/ \E s \in Players : account[s] = a /\ db'[a] = ram[s]
    BY <2>1, AfterSavingFacts
  <2> QED
    BY <2>1, <2>2, SavesKeepMemory
<1> QED
  BY <1>1, <1>2, <1>3, <1>4, <1>5, PlayMemory, PanicMemory, AdmitMemory,
     DisconnectMemory, ShutdownMemory DEF Next, Handle

-----------------------------------------------------------------------------
(* The theorems.                                                           *)

LEMMA InitIInv == Init => IInv
<1> SUFFICES ASSUME Init PROVE IInv
  OBVIOUS
<1>1. Types
  <2>1. /\ closed \in [Sessions -> BOOLEAN] /\ served \in [Sessions -> BOOLEAN]
        /\ pending \in [Sessions -> BOOLEAN] /\ inWorld \in [Sessions -> BOOLEAN]
        /\ poisoned \in [Sessions -> BOOLEAN]
        /\ down \in BOOLEAN /\ drained \in BOOLEAN
    BY DEF Init
  <2>2. mail \in [Sessions -> Seq(Post)] /\ ops \in 0 .. MaxOps
    BY SessionAssumption DEF Init
  <2>3. auth \in [Sessions -> [stage : {"idle", "started", "loaded"},
                              account : Accounts \union {NoAccount}, seen : States]]
    BY StateFacts DEF Init, Idle
  <2>4. /\ owner \in [Accounts -> Sessions \union {NoSession}] /\ clients \in SUBSET Sessions
        /\ account \in [Sessions -> Accounts \union {NoAccount}]
        /\ ram \in [Sessions -> States] /\ db \in [Accounts -> States]
        /\ confirmed \in [Accounts -> States] /\ partial \in States
        /\ overlapped \in SUBSET Accounts
    BY StateFacts DEF Init
  <2> QED
    BY <2>1, <2>2, <2>3, <2>4 DEF Types
<1>2. Checking = {} /\ Players = {}
  BY DEF Init, Checking, Players
<1>3. Slots
  BY <1>2, SessionAssumption, FS_EmptySet DEF Slots
<1>4. Named /\ PendingOut
  BY DEF Init, Named, PendingOut, Idle
<1>5. SessionsAgree
  BY <1>2 DEF Init, SessionsAgree
<1>6. Posts
  BY DEF Init, Posts, HasGone, GoneLast, Shaped
<1>7. OneCopy /\ CopyIsNew /\ ConfirmedKept
  BY <1>2 DEF Init, OneCopy, CopyIsNew, ConfirmedKept
<1>8. LeftStored /\ DrainedDown /\ ShutdownKeepsAll /\ AfterPanic
  BY <1>2 DEF Init, LeftStored, DrainedDown, ShutdownKeepsAll, AfterPanic
<1> QED
  BY <1>1, <1>3, <1>4, <1>5, <1>6, <1>7, <1>8 DEF IInv

LEMMA NextIInv == ASSUME IInv, [Next]_vars PROVE IInv'
<1>1. Types /\ Slots /\ Named /\ PendingOut /\ SessionsAgree /\ Posts /\ Memory
  BY DEF IInv, Memory
<1>2. Types' /\ Named'
  BY <1>1, NextTypes
<1>3. Slots'
  BY <1>1, NextSlots
<1>4. PendingOut' /\ SessionsAgree'
  BY <1>1, NextTables
<1>5. Posts'
  BY <1>1, NextPosts
<1>6. Memory'
  BY <1>1, NextMemory
<1> QED
  BY <1>2, <1>3, <1>4, <1>5, <1>6 DEF IInv, Memory

(* The invariant holds in every state.                                     *)
THEOREM SpecIInv == Spec => []IInv
<1>1. IInv /\ [Next]_vars => IInv'
  BY NextIInv
<1> QED
  BY <1>1, InitIInv, PTL DEF Spec

(* Every variable has its type, and no more passwords are checked at a     *)
(* time than authSlots has places.                                         *)
THEOREM TypeCorrect == Spec => []TypeOK
<1>1. IInv => TypeOK
  BY DEF IInv, Types, Slots, Post, TypeOK
<1> QED
  BY <1>1, SpecIInv, PTL

(* players, accountSessions and authClientsByIP agree about every session  *)
(* that is open, on every early return of onLoginResult and onDisconnect.  *)
THEOREM TablesAgree == Spec => []SessionsAgree
<1>1. IInv => SessionsAgree
  BY DEF IInv
<1> QED
  BY <1>1, SpecIInv, PTL

(* Once the end of a session was handled nothing of it is left in any      *)
(* table, and an answer that comes later does not bring it back.           *)
THEOREM EndLeavesNothing == Spec => []NothingLeaks
<1>1. ASSUME IInv PROVE NothingLeaks
  <2> SUFFICES ASSUME NEW s \in Sessions, Ended(s) PROVE NoTrace(s)
    BY DEF NothingLeaks
  <2>1. PostsOf(s)
    BY <1>1, PostsSplit DEF IInv
  <2>2. served[s] /\ \A i \in DOMAIN mail[s] : mail[s][i] # Gone
    BY DEF Ended
  <2>3. ~HasGone(mail[s])
    BY <2>1, <2>2 DEF PostsOf, Shaped, HasGone
  <2> QED
    BY <2>1, <2>2, <2>3 DEF PostsOf
<1>2. IInv => NothingLeaks
  BY <1>1
<1> QED
  BY <1>2, SpecIInv, PTL

(* What a client was told is stored stays stored, whatever saves fail, for *)
(* every account that was never claimed while a dead session had it.       *)
THEOREM ConfirmedStaysStored == Spec => []ConfirmedKept
<1>1. IInv => ConfirmedKept
  BY DEF IInv
<1> QED
  BY <1>1, SpecIInv, PTL

(* runShutdown that was answered without an error has stored everything    *)
(* that is in the memory of its players, and nothing is served after it.   *)
THEOREM ShutdownStoresAll == Spec => []ShutdownKeepsAll
<1>1. IInv => ShutdownKeepsAll
  BY DEF IInv
<1> QED
  BY <1>1, SpecIInv, PTL

(* After a panic only AdminSaveAll changes what is stored, so half an      *)
(* operation is stored by nobody else (failClosedAfterHandlerPanic).       *)
THEOREM HalfDoneIsNotStored == Spec => PartialStaysOut
<1>1. ASSUME IInv, [Next]_vars,
             NEW a \in Accounts, ~((db'[a] \intersect partial) \subseteq db[a])
      PROVE  AdminSaveAll
  <2> SUFFICES ASSUME ~AdminSaveAll PROVE FALSE
    OBVIOUS
  <2>1. Types /\ Named /\ Memory
    BY <1>1 DEF IInv, Memory
  <2>2. db' # db /\ partial # {}
    BY <1>1
  <2>3. down /\ \A s \in Players : poisoned[s]
    BY <2>1, <2>2 DEF Memory, AfterPanic
  <2>4. ASSUME NEW s \in Sessions, Play(s) \/ Commit(s) \/ CommitFails(s) \/ Logout(s)
        PROVE  FALSE
    BY <2>3, <2>4 DEF Play, Commit, CommitFails, Logout, Serving
  <2>5. ASSUME NEW s \in Sessions, AutoSave(s) PROVE FALSE
    BY <2>1, <2>3, <2>5, PlayerFacts DEF AutoSave, Named
  <2>6. ASSUME NEW s \in Sessions, Disconnect(s) PROVE FALSE
    <3>1. CASE MaySave(s)
      BY <2>3, <3>1 DEF MaySave, Players
    <3>2. CASE ~MaySave(s)
      BY <2>2, <2>6, <3>2 DEF Disconnect
    <3> QED
      BY <3>1, <3>2
  <2>7. ~RunShutdown
    BY <2>3 DEF RunShutdown
  <2>8. ASSUME \/ \E s \in Sessions :
                    \/ Receive(s) \/ HangUp(s) \/ Depart(s) \/ AuthLoad(s) \/ AuthAnswer(s)
                    \/ Ignore(s) \/ Refuse(s) \/ DropAnswer(s) \/ ClaimInVain(s) \/ Admit(s)
                    \/ Enter(s) \/ Panic(s) \/ (\E b \in Accounts : Login(s, b))
               \/ (\E b \in Accounts : AdminKick(b)) \/ UNCHANGED vars
        PROVE  FALSE
    BY <2>2, <2>8 DEF Receive, HangUp, Depart, AuthLoad, AuthAnswer, Ignore, Refuse,
                      DropAnswer, ClaimInVain, Admit, Enter, Panic, Login, AdminKick, vars
  <2> QED
    BY <1>1, <2>4, <2>5, <2>6, <2>7, <2>8 DEF Next, Handle
<1>2. IInv /\ [Next]_vars =>
        [(\E a \in Accounts : ~((db'[a] \intersect partial) \subseteq db[a]))
           => AdminSaveAll]_vars
  BY <1>1
<1> QED
  BY <1>2, SpecIInv, PTL DEF Spec, PartialStaysOut

=============================================================================
