---------------------------- MODULE MCTouchInput ----------------------------
(***************************************************************************)
(* Two fingers and one skill button.  The fingers are alike.               *)
(***************************************************************************)
EXTENDS TouchInput, TLC

CONSTANTS f1, f2

MCFingers == {f1, f2}
MCSkills  == {"skill"}
MCSimple  == {"attack"}

=============================================================================
