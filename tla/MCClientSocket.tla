--------------------------- MODULE MCClientSocket ---------------------------
(* An instance of ClientSocket for TLC, and the mutants of its properties. *)
EXTENDS ClientSocket

MCFrames == {[size |-> 1, kind |-> "confirm"], [size |-> 1, kind |-> "leave"],
             [size |-> 2, kind |-> "plain"]}

=============================================================================
