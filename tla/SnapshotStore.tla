---------------------------- MODULE SnapshotStore ----------------------------
(***************************************************************************)
(* What PostgresStore, the authoritative store of the game server,         *)
(* promises the World about the snapshots it is handed, whatever queue,    *)
(* batch or lock stands behind it: the stored version of a key only moves  *)
(* forward, never past the newest one issued, and a save that was          *)
(* confirmed is stored.                                                    *)
(***************************************************************************)
EXTENDS Naturals

CONSTANTS
  Keys,       \* accounts and charstates
  MaxVersion  \* bound: versions issued

VARIABLES
  issued,     \* newest snapshot of each key handed to the store
  durable,    \* snapshot stored for each key
  confirmed   \* newest snapshot the store has acknowledged as stored

vars == <<issued, durable, confirmed>>

Versions == [Keys -> 0..MaxVersion]

Init ==
  /\ issued = [k \in Keys |-> 0]
  /\ durable = [k \in Keys |-> 0]
  /\ confirmed = [k \in Keys |-> 0]

(* The World hands over newer snapshots of some keys.                      *)
Issue ==
  /\ issued' \in Versions
  /\ \A k \in Keys : issued[k] <= issued'[k]
  /\ UNCHANGED <<durable, confirmed>>

(* Any snapshot up to the newest one may be stored, never an older one     *)
(* than the one already there.                                             *)
Forward ==
  /\ durable' \in Versions
  /\ \A k \in Keys : durable[k] <= durable'[k] /\ durable'[k] <= issued[k]

Persist == Forward /\ UNCHANGED <<issued, confirmed>>

(* A critical save returns: what it confirms is what is stored.            *)
Confirm ==
  /\ Forward
  /\ \E K \in SUBSET Keys :
       confirmed' = [k \in Keys |->
                       IF k \in K THEN durable'[k] ELSE confirmed[k]]
  /\ UNCHANGED issued

(* A restart forgets the snapshots that were only in memory.               *)
Restart == Forward /\ issued' = durable' /\ UNCHANGED confirmed

Next == Issue \/ Persist \/ Confirm \/ Restart

Spec == Init /\ [][Next]_vars
=============================================================================
