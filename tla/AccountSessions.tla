---------------------------- MODULE AccountSessions ----------------------------
(***************************************************************************)
(* Who owns an account: connections, logins, the copies of the account in  *)
(* memory and what is stored.                                              *)
(*                                                                         *)
(* A connection delivers its packets in order and ends with one command    *)
(* that says it is gone; the password of a login is checked by a goroutine *)
(* of its own whose answer comes back as one more command of the session.  *)
(* The World handles the commands one at a time, the next one of any       *)
(* session (CommandLoop).                                                  *)
(*                                                                         *)
(* What a player does is a set of operations: an account is the set of     *)
(* operations it shows, in memory (ram) and in the store (db).             *)
(***************************************************************************)
EXTENDS Naturals, Sequences, FiniteSets

CONSTANTS
  Sessions,     \* connections, each used once, all of one address
  Accounts,
  NoAccount, NoSession,
  AuthSlots,    \* capacity of authSlots
  ClientLimit,  \* authenticated clients per address
  MailCap,      \* bound: commands of a session that wait
  MaxOps        \* bound: operations

ASSUME SessionAssumption ==
  /\ NoAccount \notin Accounts /\ NoSession \notin Sessions
  /\ IsFiniteSet(Sessions)
  /\ AuthSlots \in Nat \ {0} /\ ClientLimit \in Nat \ {0}
  /\ MailCap \in Nat \ {0} /\ MaxOps \in Nat

Ops == 1..MaxOps
States == SUBSET Ops

VARIABLES
  closed,     \* IsClosed: the done channel is closed
  served,     \* Serve has sent its last command
  mail,       \* commands of each session that wait
  pending,    \* authPending
  auth,       \* the goroutine that checks a password
  owner,      \* accountSessions
  clients,    \* authClientsByIP
  account,    \* players[s].Account, and whether players[s] exists
  inWorld, poisoned,
  ram,        \* the account as players[s] sees it
  db,         \* the account as it is stored
  ops,        \* operations so far
  down,       \* shuttingDown
  drained,    \* the shutdown was answered without error
  confirmed,  \* history: operations confirmed to the client
  partial,    \* history: operations a panic left half done in memory
  overlapped  \* history: accounts claimed while a dead session had them

netVars   == <<closed, served, mail>>
authVars  == <<pending, auth>>
tables    == <<owner, clients>>
players   == <<account, inWorld, poisoned, ram>>
history   == <<confirmed, partial, overlapped>>
vars == <<netVars, authVars, tables, players, db, ops, down, drained, history>>

Packet == [type |-> "packet", account |-> NoAccount, seen |-> {}]
Gone   == [type |-> "gone", account |-> NoAccount, seen |-> {}]
Result(a, seen) == [type |-> "result", account |-> a, seen |-> seen]

Idle == [stage |-> "idle", account |-> NoAccount, seen |-> {}]

Checking == {s \in Sessions : auth[s] # Idle}

TypeOK ==
  /\ closed \in [Sessions -> BOOLEAN] /\ served \in [Sessions -> BOOLEAN]
  /\ mail \in [Sessions -> Seq([type : {"packet", "gone", "result"},
                                account : Accounts \union {NoAccount},
                                seen : States])]
  /\ pending \in [Sessions -> BOOLEAN]
  /\ auth \in [Sessions -> [stage : {"idle", "started", "loaded"},
                            account : Accounts \union {NoAccount},
                            seen : States]]
  /\ Cardinality(Checking) <= AuthSlots
  /\ owner \in [Accounts -> Sessions \union {NoSession}]
  /\ clients \in SUBSET Sessions
  /\ account \in [Sessions -> Accounts \union {NoAccount}]
  /\ inWorld \in [Sessions -> BOOLEAN] /\ poisoned \in [Sessions -> BOOLEAN]
  /\ ram \in [Sessions -> States] /\ db \in [Accounts -> States]
  /\ ops \in 0..MaxOps
  /\ down \in BOOLEAN /\ drained \in BOOLEAN
  /\ confirmed \in [Accounts -> States] /\ partial \in States
  /\ overlapped \in SUBSET Accounts

Init ==
  /\ closed = [s \in Sessions |-> FALSE] /\ served = [s \in Sessions |-> FALSE]
  /\ mail = [s \in Sessions |-> <<>>]
  /\ pending = [s \in Sessions |-> FALSE] /\ auth = [s \in Sessions |-> Idle]
  /\ owner = [a \in Accounts |-> NoSession] /\ clients = {}
  /\ account = [s \in Sessions |-> NoAccount]
  /\ inWorld = [s \in Sessions |-> FALSE] /\ poisoned = [s \in Sessions |-> FALSE]
  /\ ram = [s \in Sessions |-> {}] /\ db = [a \in Accounts |-> {}]
  /\ ops = 0 /\ down = FALSE /\ drained = FALSE
  /\ confirmed = [a \in Accounts |-> {}] /\ partial = {} /\ overlapped = {}

Put(s, m) == mail' = [mail EXCEPT ![s] = Append(@, m)]
Close(S)  == closed' = [s \in Sessions |-> closed[s] \/ s \in S]

-----------------------------------------------------------------------------
(* The goroutines of a connection. *)

Receive(s) ==
  /\ ~served[s] /\ Len(mail[s]) < MailCap
  /\ Put(s, Packet)
  /\ UNCHANGED <<closed, served, authVars, tables, players, db, ops, down,
                 drained, history>>

(* The socket ends: Serve marks the session before it tells the World.     *)
HangUp(s) ==
  /\ ~closed[s] /\ Close({s})
  /\ UNCHANGED <<served, mail, authVars, tables, players, db, ops, down,
                 drained, history>>

(* Fault: Serve returns without its last command.                          *)
DepartSilently(s) ==
  /\ closed[s] /\ ~served[s]
  /\ served' = [served EXCEPT ![s] = TRUE]
  /\ UNCHANGED <<closed, mail, authVars, tables, players, db, ops, down, drained,
                 history>>

Depart(s) ==
  /\ closed[s] /\ ~served[s]
  /\ served' = [served EXCEPT ![s] = TRUE]
  /\ Put(s, Gone)
  /\ UNCHANGED <<closed, authVars, tables, players, db, ops, down, drained,
                 history>>

(* The goroutine of a login reads the account, then checks the password.   *)
AuthLoad(s) ==
  /\ auth[s].stage = "started"
  /\ auth' = [auth EXCEPT ![s].stage = "loaded", ![s].seen = db[auth[s].account]]
  /\ UNCHANGED <<netVars, pending, tables, players, db, ops, down, drained,
                 history>>

AuthAnswer(s) ==
  /\ auth[s].stage = "loaded"
  /\ auth' = [auth EXCEPT ![s] = Idle]
  /\ \/ Put(s, Result(auth[s].account, auth[s].seen))
     \/ Put(s, Result(NoAccount, {}))
  /\ UNCHANGED <<closed, served, pending, tables, players, db, ops, down,
                 drained, history>>

-----------------------------------------------------------------------------
(* The World handles the next command of a session. *)

(* Fault: packets are handled after the final snapshot too.                *)
ServingAlways(s) == mail[s] # <<>> /\ Head(mail[s]).type = "packet"

(* The barrier of handle: no packet changes the world after the shutdown.  *)
Serving(s) == ~down /\ mail[s] # <<>> /\ Head(mail[s]).type = "packet"

Take(s) == mail' = [mail EXCEPT ![s] = Tail(@)]

Players == {s \in Sessions : account[s] # NoAccount}

(* A save that fails may have reached the store or not.                    *)
SaveOrFail(s) == db' \in {db, [db EXCEPT ![account[s]] = ram[s]]}

(* Anything that ends in an early return: an opcode outside the phase of   *)
(* the session, a refused login, a save that was rolled back in memory     *)
(* before it reached the store.                                            *)
Ignore(s) ==
  /\ Serving(s) /\ Take(s)
  /\ UNCHANGED <<closed, served, authVars, tables, players, db, ops, down,
                 drained, history>>

(* onLogin: at most one password check per session, AuthSlots in all.      *)
Login(s, a) ==
  /\ Serving(s) /\ Take(s)
  /\ ~pending[s] /\ account[s] = NoAccount
  /\ Cardinality(Checking) < AuthSlots
  /\ pending' = [pending EXCEPT ![s] = TRUE]
  /\ auth' = [auth EXCEPT ![s] = [stage |-> "started", account |-> a, seen |-> {}]]
  /\ UNCHANGED <<closed, served, tables, players, db, ops, down, drained,
                 history>>

-----------------------------------------------------------------------------
(* onLoginResult: the answer of a password check. *)

AnswerOf(s) == Head(mail[s])

IsAnswer(s) == ~down /\ mail[s] # <<>> /\ AnswerOf(s).type = "result"

(* The session is gone, or the password is wrong, or the account is banned.*)
DropAnswer(s) ==
  /\ IsAnswer(s) /\ Take(s)
  /\ pending' = [pending EXCEPT ![s] = FALSE]
  /\ UNCHANGED <<closed, served, auth, tables, players, db, ops, down, drained,
                 history>>

Live(S) == {s \in S : ~closed[s]}

Claimable(s, a) ==
  owner[a] \in {NoSession, s} \union {t \in Sessions : closed[t]}

(* The account is claimed and given back: the address has all its clients, *)
(* or the account cannot be read again.                                    *)
ClaimInVain(s) ==
  LET a == AnswerOf(s).account IN
  /\ IsAnswer(s) /\ pending[s] /\ ~closed[s] /\ a # NoAccount /\ Claimable(s, a)
  /\ Take(s)
  /\ pending' = [pending EXCEPT ![s] = FALSE]
  /\ owner' = [owner EXCEPT ![a] = NoSession]
  /\ clients' \in {Live(clients) \ {s}, clients \ {s}}
  /\ UNCHANGED <<closed, served, auth, players, db, ops, down, drained, history>>

(* Fault: the account is admitted as the password check read it.           *)
AsChecked(s) == AnswerOf(s).seen

(* What is admitted: the account is read again once it is claimed.         *)
Admitted(s) == db[AnswerOf(s).account]

Admit(s) ==
  LET a == AnswerOf(s).account IN
  /\ IsAnswer(s) /\ pending[s] /\ ~closed[s] /\ a # NoAccount /\ Claimable(s, a)
  /\ Cardinality(Live(clients)) < ClientLimit
  /\ Take(s)
  /\ pending' = [pending EXCEPT ![s] = FALSE]
  /\ owner' = [owner EXCEPT ![a] = s]
  /\ clients' = Live(clients) \union {s}
  /\ account' = [account EXCEPT ![s] = a]
  /\ ram' = [ram EXCEPT ![s] = Admitted(s)]
  /\ overlapped' = overlapped \union
                     (IF \E t \in Players : account[t] = a THEN {a} ELSE {})
  /\ UNCHANGED <<closed, served, auth, inWorld, poisoned, db, ops, down,
                 drained, confirmed, partial>>

-----------------------------------------------------------------------------
(* Packets of a player. *)

Enter(s) ==
  /\ Serving(s) /\ Take(s) /\ account[s] # NoAccount
  /\ inWorld' = [inWorld EXCEPT ![s] = TRUE]
  /\ UNCHANGED <<closed, served, authVars, tables, account, poisoned, ram, db,
                 ops, down, drained, history>>

NewOp == ops < MaxOps /\ ops' = ops + 1

(* Anything the client is told before it is stored: the autosave, the      *)
(* logout or the disconnection stores it.                                  *)
Play(s) ==
  /\ Serving(s) /\ Take(s) /\ inWorld[s] /\ NewOp
  /\ ram' = [ram EXCEPT ![s] = @ \union {ops'}]
  /\ UNCHANGED <<closed, served, authVars, tables, account, inWorld, poisoned,
                 db, down, drained, history>>

(* A reply reaches the client while the connection is open.                *)
Told(s, done) ==
  IF closed[s] THEN confirmed
  ELSE [confirmed EXCEPT ![account[s]] = @ \union done]

(* An operation that moves items is confirmed once it is stored.           *)
Commit(s) ==
  /\ Serving(s) /\ Take(s) /\ inWorld[s] /\ NewOp
  /\ ram' = [ram EXCEPT ![s] = @ \union {ops'}]
  /\ db' = [db EXCEPT ![account[s]] = ram'[s]]
  /\ confirmed' = Told(s, {ops'})
  /\ UNCHANGED <<closed, served, authVars, tables, account, inWorld, poisoned,
                 down, drained, partial, overlapped>>

(* The save of such an operation fails: memory is rolled back, and some    *)
(* operations poison the player and close the connection.                  *)
CommitFails(s) ==
  /\ Serving(s) /\ Take(s) /\ inWorld[s] /\ NewOp
  /\ db' \in {db, [db EXCEPT ![account[s]] = ram[s] \union {ops'}]}
  /\ \/ UNCHANGED <<closed, poisoned>>
     \/ Close({s}) /\ poisoned' = [poisoned EXCEPT ![s] = TRUE]
  /\ UNCHANGED <<served, authVars, tables, account, inWorld, ram, down, drained,
                 history>>

(* onCharacterLogout: back to the list of characters once all is stored.   *)
Logout(s) ==
  /\ Serving(s) /\ Take(s) /\ inWorld[s]
  /\ \/ /\ db' = [db EXCEPT ![account[s]] = ram[s]]
        /\ inWorld' = [inWorld EXCEPT ![s] = FALSE]
        /\ confirmed' = Told(s, ram[s])
     \/ SaveOrFail(s) /\ UNCHANGED <<inWorld, confirmed>>
  /\ UNCHANGED <<closed, served, authVars, tables, account, poisoned, ram, ops,
                 down, drained, partial, overlapped>>

(* A handler panics half way through an operation that touches any player: *)
(* nothing of the memory may be stored any more.                           *)
Panic(s) ==
  /\ Serving(s) /\ Take(s) /\ inWorld[s] /\ NewOp
  /\ \E t \in Players : ram' = [ram EXCEPT ![t] = @ \union {ops'}]
  /\ partial' = partial \union {ops'}
  /\ down' = TRUE
  /\ poisoned' = [t \in Sessions |-> poisoned[t] \/ t \in Players]
  /\ Close(Players)
  /\ UNCHANGED <<served, authVars, tables, account, inWorld, db, drained,
                 confirmed, overlapped>>

(* The barrier closes the connection whose packet comes too late.          *)
Refuse(s) ==
  /\ down /\ mail[s] # <<>> /\ Head(mail[s]).type = "packet"
  /\ Take(s) /\ Close({s})
  /\ UNCHANGED <<served, authVars, tables, players, db, ops, down, drained,
                 history>>

-----------------------------------------------------------------------------
(* The end of a session, and what the World saves by itself. *)

IsEnd(s) ==
  /\ mail[s] # <<>>
  /\ Head(mail[s]).type = "gone" \/ (down /\ Head(mail[s]).type = "result")

(* Fault: the disconnection saves whatever the player has in memory.       *)
MaySaveAny(s) == account[s] # NoAccount

MaySave(s) == account[s] # NoAccount /\ ~poisoned[s]

(* Fault: the account is given back by whoever had it.                     *)
ReleasedAny(s) == [a \in Accounts |-> IF a = account[s] THEN NoSession ELSE owner[a]]

(* releaseAccountSession: only the session that owns the account frees it. *)
Released(s) == [a \in Accounts |-> IF owner[a] = s THEN NoSession ELSE owner[a]]

(* Fault: the slot of the address is not given back.                       *)
DisconnectKeepsSlot(s) ==
  /\ IsEnd(s) /\ Take(s)
  /\ IF MaySave(s) THEN SaveOrFail(s) ELSE UNCHANGED db
  /\ pending' = [pending EXCEPT ![s] = FALSE]
  /\ owner' = Released(s)
  /\ account' = [account EXCEPT ![s] = NoAccount]
  /\ inWorld' = [inWorld EXCEPT ![s] = FALSE]
  /\ poisoned' = [poisoned EXCEPT ![s] = FALSE]
  /\ ram' = [ram EXCEPT ![s] = {}]
  /\ UNCHANGED <<closed, served, auth, clients, ops, down, drained, history>>

(* onDisconnect: store what the session had unless it is poisoned, whether *)
(* it still owns the account or not, and forget the session.               *)
Disconnect(s) ==
  /\ IsEnd(s) /\ Take(s)
  /\ IF MaySave(s) THEN SaveOrFail(s) ELSE UNCHANGED db
  /\ pending' = [pending EXCEPT ![s] = FALSE]
  /\ clients' = clients \ {s}
  /\ owner' = Released(s)
  /\ account' = [account EXCEPT ![s] = NoAccount]
  /\ inWorld' = [inWorld EXCEPT ![s] = FALSE]
  /\ poisoned' = [poisoned EXCEPT ![s] = FALSE]
  /\ ram' = [ram EXCEPT ![s] = {}]
  /\ UNCHANGED <<closed, served, auth, ops, down, drained, history>>

(* autoSaveAccounts: one player of a slice.                                *)
AutoSave(s) ==
  /\ inWorld[s] /\ ~poisoned[s] /\ SaveOrFail(s)
  /\ UNCHANGED <<netVars, authVars, tables, players, ops, down, drained, history>>

(* What the stored accounts can be once the players of S were saved, each  *)
(* save failing or not.                                                    *)
Copies(S, a) == {ram[s] : s \in {t \in S : account[t] = a}}

AfterSaving(S) ==
  {d \in [Accounts -> States] : \A a \in Accounts : d[a] \in {db[a]} \union Copies(S, a)}

AfterSavingAll(S) ==
  {d \in AfterSaving(S) :
     \A a \in Accounts : Copies(S, a) # {} => d[a] \in Copies(S, a)}

(* An operator kicks an account: the end of the session does the rest.     *)
AdminKick(a) ==
  /\ {s \in Players : account[s] = a /\ ~closed[s]} # {}
  /\ Close({s \in Players : account[s] = a})
  /\ UNCHANGED <<served, mail, authVars, tables, players, db, ops, down, drained,
                 history>>

(* An operator saves every player there is, poisoned ones included.        *)
AdminSaveAll ==
  /\ Players # {}
  /\ db' \in AfterSaving(Players)
  /\ UNCHANGED <<netVars, authVars, tables, players, ops, down, drained, history>>

(* runShutdown: the last snapshot of everyone in the world, poisoned       *)
(* players included; nothing is served after it.                           *)
RunShutdown ==
  LET present == {s \in Players : inWorld[s]} IN
  /\ ~down /\ down' = TRUE
  /\ \/ db' \in AfterSavingAll(present) /\ drained' = TRUE
     \/ db' \in AfterSaving(present) /\ UNCHANGED drained
  /\ UNCHANGED <<netVars, authVars, tables, players, ops, history>>

-----------------------------------------------------------------------------
Handle(s) ==
  \/ Ignore(s) \/ DropAnswer(s) \/ ClaimInVain(s) \/ Admit(s)
  \/ \E a \in Accounts : Login(s, a)
  \/ Enter(s) \/ Play(s) \/ Commit(s) \/ CommitFails(s) \/ Logout(s)
  \/ Panic(s) \/ Refuse(s) \/ Disconnect(s)

Next ==
  \/ \E s \in Sessions :
       Receive(s) \/ HangUp(s) \/ Depart(s) \/ AuthLoad(s) \/ AuthAnswer(s)
       \/ Handle(s) \/ AutoSave(s)
  \/ \E a \in Accounts : AdminKick(a)
  \/ AdminSaveAll \/ RunShutdown

Spec == Init /\ [][Next]_vars

(* Serve returns once its socket is closed, and the World takes turns      *)
(* among the sessions that wait (CommandLoop).                             *)
Fairness == \A s \in Sessions : WF_vars(Depart(s)) /\ WF_vars(Handle(s))

FairSpec == Spec /\ Fairness

-----------------------------------------------------------------------------
(* The three tables tell the same story of the sessions that are open: an  *)
(* account has one open session at most, its player, its owner and its     *)
(* client slot are of that session, and no slot or owner stands for a      *)
(* session without an account.  claimAccountSession, releaseAccountSession *)
(* and the client slots are kept by different code on every early return.  *)
SessionsAgree ==
  /\ \A s \in Players : ~closed[s] => owner[account[s]] = s /\ s \in clients
  /\ \A a \in Accounts : owner[a] # NoSession => account[owner[a]] = a
  /\ clients \subseteq Players

(* Nothing is left of a session once the World handled its end, although   *)
(* the answer of its password check may still come: no player, no account, *)
(* no slot, no pending login (onDisconnect against onLoginResult).         *)
Ended(s) == served[s] /\ \A i \in DOMAIN mail[s] : mail[s][i] # Gone

NoTrace(s) ==
  /\ ~pending[s] /\ account[s] = NoAccount /\ s \notin clients
  /\ \A a \in Accounts : owner[a] # s

NothingLeaks == \A s \in Sessions : Ended(s) => NoTrace(s)

(* What was confirmed to a client is stored and stays stored, through      *)
(* logins that raced the last save, failed saves, panics, kicks and the    *)
(* shutdown; except for the accounts that were claimed while a dead        *)
(* session had not ended yet.                                              *)
ConfirmedKept == \A a \in Accounts \ overlapped : confirmed[a] \subseteq db[a]

(* The same with no exception: the comment in claimAccountSession takes a  *)
(* dead session for harmless, but its end stores its copy of the account.  *)
ConfirmedSurvives == \A a \in Accounts : confirmed[a] \subseteq db[a]

(* Once a shutdown was answered without an error, everything the players   *)
(* did is stored: the packets and logins that were still queued change     *)
(* nothing that a restart would lose.                                      *)
ShutdownKeepsAll ==
  drained => \A s \in Players :
    (~poisoned[s] /\ account[s] \notin overlapped) => ram[s] \subseteq db[account[s]]

(* The comments of safeHandle and failClosedAfterHandlerPanic: a possibly  *)
(* partial state never goes back to the database, every snapshot online is *)
(* forbidden to save.  AdminSaveAll does not ask whether a player is       *)
(* poisoned, so the code does not keep it.                                 *)
PartialNeverStored ==
  [][\A a \in Accounts : (db'[a] \intersect partial) \subseteq db[a]]_vars

(* What it does keep: AdminSaveAll is the only way.  No disconnection, late *)
(* packet, autosave, kick, shutdown or takeover of the account stores what *)
(* a panic left half done in the memory of any player it touched.          *)
PartialStaysOut ==
  [][(\E a \in Accounts : ~((db'[a] \intersect partial) \subseteq db[a]))
       => AdminSaveAll]_vars

(* Every session whose connection closed is forgotten, in any phase of its *)
(* login, before or after the shutdown or a panic.                         *)
SessionEnds == \A s \in Sessions : closed[s] ~> NoTrace(s)
=============================================================================
