------------------------------- MODULE FenceSet -------------------------------
(***************************************************************************)
(* postgresFenceSet: one mutex per key, created by the first user of the   *)
(* key and thrown away by the last one.  A caller registers all its keys   *)
(* under the map's mutex, then locks the mutexes one by one in the order   *)
(* of the keys, and gives everything back in the reverse order.            *)
(* Names that PostgresQueue has as well begin with Fence here, so that one *)
(* module can extend both parts of PostgresStore.                          *)
(***************************************************************************)
EXTENDS Naturals, FiniteSets

CONSTANTS
  Goroutines,
  NumKeys,    \* keys are 1..NumKeys, in the order sort.Strings puts them
  Entries,    \* identities of postgresFenceEntry objects
  NoEntry,    \* the map has no entry for a key
  NoOne       \* a mutex nobody holds

FenceKeys == 1..NumKeys

ASSUME FenceAssumption ==
  /\ NumKeys \in Nat /\ IsFiniteSet(Goroutines)
  /\ NoEntry \notin Entries /\ NoOne \notin Goroutines

VARIABLES
  entries,    \* the map: entry of each key
  refs,       \* refs of each entry
  mutex,      \* who holds the mutex of each entry
  want,       \* keys of the call each goroutine has in progress
  ptr,        \* the entries that call works with
  got,        \* keys whose mutex it has locked
  pc

fenceVars == <<entries, refs, mutex, want, ptr, got, pc>>

FenceTypeOK ==
  /\ entries \in [FenceKeys -> Entries \union {NoEntry}]
  /\ refs \in [Entries -> Nat]
  /\ mutex \in [Entries -> Goroutines \union {NoOne}]
  /\ want \in [Goroutines -> SUBSET FenceKeys]
  /\ ptr \in [Goroutines -> [FenceKeys -> Entries \union {NoEntry}]]
  /\ got \in [Goroutines -> SUBSET FenceKeys]
  /\ pc \in [Goroutines -> {"idle", "locking", "held", "unlocking", "unlocked"}]

FenceInit ==
  /\ entries = [k \in FenceKeys |-> NoEntry]
  /\ refs = [e \in Entries |-> 0]
  /\ mutex = [e \in Entries |-> NoOne]
  /\ want = [g \in Goroutines |-> {}]
  /\ ptr = [g \in Goroutines |-> [k \in FenceKeys |-> NoEntry]]
  /\ got = [g \in Goroutines |-> {}]
  /\ pc = [g \in Goroutines |-> "idle"]

-----------------------------------------------------------------------------
(* Memory nobody points to any more can be allocated again.                *)
Unused ==
  {e \in Entries : /\ \A k \in FenceKeys : entries[k] # e
                   /\ \A g \in Goroutines, k \in FenceKeys : ptr[g][k] # e}

Missing(K) == {k \in K : entries[k] = NoEntry}

(* New entries for the keys of K that have none.                           *)
Allocations(K) ==
  {f \in [Missing(K) -> Unused] : \A k, m \in Missing(K) : f[k] = f[m] => k = m}

(* Fault: the keys are locked in the order the caller gave them.           *)
IsAnyToLock(g, k) == k \in want[g] \ got[g]

(* The key a goroutine locks next, and the one it unlocks next.            *)
IsNextToLock(g, k) ==
  k \in want[g] \ got[g] /\ \A m \in want[g] \ got[g] : k <= m

IsNextToUnlock(g, k) == k \in got[g] /\ \A m \in got[g] : m <= k

(* Under the map's mutex: find or create the entries and count the user.   *)
Register(g) ==
  /\ pc[g] = "idle"
  /\ \E K \in (SUBSET FenceKeys) \ {{}} : \E new \in Allocations(K) :
       /\ entries' = [k \in FenceKeys |->
                        IF k \in Missing(K) THEN new[k] ELSE entries[k]]
       /\ refs' = [e \in Entries |->
                     IF \E k \in Missing(K) : new[k] = e THEN 1
                     ELSE IF \E k \in K : entries[k] = e THEN refs[e] + 1
                     ELSE refs[e]]
       /\ ptr' = [ptr EXCEPT ![g] =
                    [k \in FenceKeys |-> IF k \in K THEN entries'[k] ELSE NoEntry]]
       /\ want' = [want EXCEPT ![g] = K]
  /\ pc' = [pc EXCEPT ![g] = "locking"]
  /\ UNCHANGED <<mutex, got>>

(* Fault: the goroutine goes on after the first mutex.                     *)
LockFirst(g) ==
  /\ pc[g] = "locking"
  /\ \E k \in FenceKeys :
       /\ IsNextToLock(g, k)
       /\ mutex[ptr[g][k]] = NoOne
       /\ mutex' = [mutex EXCEPT ![ptr[g][k]] = g]
       /\ got' = [got EXCEPT ![g] = @ \union {k}]
       /\ pc' = [pc EXCEPT ![g] = "held"]
  /\ UNCHANGED <<entries, refs, want, ptr>>

(* entry.mu.Lock() of the next key.                                        *)
LockNext(g) ==
  /\ pc[g] = "locking"
  /\ \E k \in FenceKeys :
       /\ IsNextToLock(g, k)
       /\ mutex[ptr[g][k]] = NoOne
       /\ mutex' = [mutex EXCEPT ![ptr[g][k]] = g]
       /\ got' = [got EXCEPT ![g] = @ \union {k}]
       /\ pc' = [pc EXCEPT ![g] =
                   IF want[g] \subseteq got[g] \union {k} THEN "held" ELSE "locking"]
  /\ UNCHANGED <<entries, refs, want, ptr>>

(* Fault: only the last mutex is unlocked.                                 *)
UnlockOne(g) ==
  /\ pc[g] \in {"held", "unlocking"}
  /\ \E k \in FenceKeys :
       /\ IsNextToUnlock(g, k)
       /\ mutex' = [mutex EXCEPT ![ptr[g][k]] = NoOne]
  /\ got' = [got EXCEPT ![g] = {}]
  /\ pc' = [pc EXCEPT ![g] = "unlocked"]
  /\ UNCHANGED <<entries, refs, want, ptr>>

(* The function that lock returned unlocks the mutexes in reverse order.   *)
Unlock(g) ==
  /\ pc[g] \in {"held", "unlocking"}
  /\ \E k \in FenceKeys :
       /\ IsNextToUnlock(g, k)
       /\ mutex' = [mutex EXCEPT ![ptr[g][k]] = NoOne]
       /\ got' = [got EXCEPT ![g] = @ \ {k}]
       /\ pc' = [pc EXCEPT ![g] =
                   IF got[g] = {k} THEN "unlocked" ELSE "unlocking"]
  /\ UNCHANGED <<entries, refs, want, ptr>>

(* Fault: whoever leaves deletes the entries of its keys.                  *)
UnregisterAll(g) ==
  /\ pc[g] = "unlocked"
  /\ refs' = [e \in Entries |->
                IF \E k \in want[g] : ptr[g][k] = e THEN refs[e] - 1 ELSE refs[e]]
  /\ entries' = [k \in FenceKeys |-> IF k \in want[g] THEN NoEntry ELSE entries[k]]
  /\ want' = [want EXCEPT ![g] = {}]
  /\ ptr' = [ptr EXCEPT ![g] = [k \in FenceKeys |-> NoEntry]]
  /\ pc' = [pc EXCEPT ![g] = "idle"]
  /\ UNCHANGED <<mutex, got>>

(* Fault: entries are never deleted.                                       *)
UnregisterNone(g) ==
  /\ pc[g] = "unlocked"
  /\ refs' = [e \in Entries |->
                IF \E k \in want[g] : ptr[g][k] = e THEN refs[e] - 1 ELSE refs[e]]
  /\ want' = [want EXCEPT ![g] = {}]
  /\ ptr' = [ptr EXCEPT ![g] = [k \in FenceKeys |-> NoEntry]]
  /\ pc' = [pc EXCEPT ![g] = "idle"]
  /\ UNCHANGED <<mutex, got, entries>>

(* Under the map's mutex: the last user of a key deletes its entry.        *)
Unregister(g) ==
  /\ pc[g] = "unlocked"
  /\ refs' = [e \in Entries |->
                IF \E k \in want[g] : ptr[g][k] = e THEN refs[e] - 1 ELSE refs[e]]
  /\ entries' = [k \in FenceKeys |->
                   IF k \in want[g] /\ refs'[ptr[g][k]] = 0 THEN NoEntry
                                                            ELSE entries[k]]
  /\ want' = [want EXCEPT ![g] = {}]
  /\ ptr' = [ptr EXCEPT ![g] = [k \in FenceKeys |-> NoEntry]]
  /\ pc' = [pc EXCEPT ![g] = "idle"]
  /\ UNCHANGED <<mutex, got>>

FenceNext ==
  \E g \in Goroutines : Register(g) \/ LockNext(g) \/ Unlock(g) \/ Unregister(g)

FenceSpec == FenceInit /\ [][FenceNext]_fenceVars

(* Mutexes of Go are handed to a waiter that has waited for long, and a    *)
(* holder gives them back: its transaction carries a deadline.             *)
FenceFairness ==
  \A g \in Goroutines : /\ SF_fenceVars(LockNext(g))
                        /\ WF_fenceVars(Unlock(g)) /\ WF_fenceVars(Unregister(g))

FairFenceSpec == FenceSpec /\ FenceFairness

-----------------------------------------------------------------------------
(* Properties. *)

(* Two saves that share an account or a charstate never run together, even *)
(* when the entry of the key was deleted and created again in between.     *)
MutualExclusion ==
  \A g, h \in Goroutines : g # h => got[g] \intersect got[h] = {}

(* The map keeps an entry for a key exactly while somebody uses it: it     *)
(* neither grows with every account ever saved nor forgets a user.         *)
EntriesReclaimed ==
  \A k \in FenceKeys : entries[k] # NoEntry <=> \E g \in Goroutines : k \in want[g]

(* h holds the mutex g is waiting for.                                     *)
BlockedBy(g, h) ==
  /\ pc[g] = "locking"
  /\ \E k \in FenceKeys : IsNextToLock(g, k) /\ k \in got[h]

(* No goroutines ever wait in a circle, whatever keys each of them wants.  *)
NoCircularWait ==
  \A S \in SUBSET Goroutines :
    S # {} => \E g \in S : \A h \in S : ~BlockedBy(g, h)

(* Every call of lock returns.                                             *)
LockReturns == \A g \in Goroutines : pc[g] = "locking" ~> pc[g] = "held"

(* Seen by its callers, the fence set takes and releases whole key sets.   *)
WholeSets == INSTANCE KeyLocks WITH
  Keys <- FenceKeys,
  owned <- [g \in Goroutines |-> IF pc[g] = "held" THEN want[g] ELSE {}]
ImplementsKeyLocks == WholeSets!Spec
=============================================================================
