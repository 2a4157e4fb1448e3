------------------------------- MODULE KeyLocks -------------------------------
(***************************************************************************)
(* What the fences of PostgresStore promise: a goroutine takes a set of    *)
(* keys in one step and nobody else has any of them until it lets them go. *)
(* PostgresQueue takes its fences this way.                                *)
(***************************************************************************)
CONSTANTS Goroutines, Keys

VARIABLE owned   \* the keys each goroutine has

Init == owned = [g \in Goroutines |-> {}]

Acquire(g) ==
  /\ owned[g] = {}
  /\ \E K \in (SUBSET Keys) \ {{}} :
       /\ \A h \in Goroutines : owned[h] \intersect K = {}
       /\ owned' = [owned EXCEPT ![g] = K]

Release(g) ==
  /\ owned[g] # {}
  /\ owned' = [owned EXCEPT ![g] = {}]

Next == \E g \in Goroutines : Acquire(g) \/ Release(g)

Spec == Init /\ [][Next]_owned
=============================================================================
