---------------------------- MODULE MCCommandLoop ----------------------------
(* Two sessions; a batch has room for one command more than one of them sends. *)
EXTENDS CommandLoop

CONSTANTS s1, s2
TwoSessions == {s1, s2}
=============================================================================
