--------------------------- MODULE SessionMailboxes ---------------------------
(***************************************************************************)
(* What the World promises the goroutines that send it commands: every     *)
(* sender has a mailbox of its own, its commands are handled one at a time *)
(* in the order it sent them, and none is lost or handled twice.           *)
(***************************************************************************)
EXTENDS Naturals, Sequences

CONSTANTS Senders, Numbers

VARIABLES mailbox, last

mailboxVars == <<mailbox, last>>

Init ==
  /\ mailbox = [s \in Senders |-> <<>>]
  /\ last \in [Senders -> Numbers]

Send(s) ==
  /\ \E n \in Numbers : mailbox' = [mailbox EXCEPT ![s] = Append(@, n)]
  /\ UNCHANGED last

Deliver(s) ==
  /\ mailbox[s] # <<>>
  /\ last' = [last EXCEPT ![s] = Head(mailbox[s])]
  /\ mailbox' = [mailbox EXCEPT ![s] = Tail(@)]

Next == \E s \in Senders : Send(s) \/ Deliver(s)

Spec == Init /\ [][Next]_mailboxVars
=============================================================================
