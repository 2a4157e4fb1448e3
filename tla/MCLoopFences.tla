----------------------------- MODULE MCLoopFences -----------------------------
(***************************************************************************)
(* Small instances of CommandLoop and of FenceSet, checked in one run: a   *)
(* behaviour is one of the loop or one of the fences, and the other part   *)
(* rests.                                                                  *)
(*                                                                         *)
(* Two sessions; a batch has room for one command more than one of them    *)
(* sends.  The World, persistLoop and a third user of the fences.          *)
(***************************************************************************)
EXTENDS CommandLoop, FenceSet

CONSTANTS s1, s2, w, p, x, e1, e2, e3

TwoSessions == {s1, s2}

ThreeGoroutines == {w, p, x}
ThreeEntries == {e1, e2, e3}

VARIABLE part   \* which of the two runs

InLoop   == part = "loop" /\ UNCHANGED part
InFences == part = "fences" /\ UNCHANGED part

InitBoth == Init /\ FenceInit /\ part \in {"loop", "fences"}

NextBoth ==
  \/ InLoop /\ Next /\ UNCHANGED fenceVars
  \/ InFences /\ FenceNext /\ UNCHANGED vars

(* The fairness of FairSpec and of FairFenceSpec, each for its part.       *)
SpecBoth ==
  /\ InitBoth /\ [][NextBoth]_<<vars, fenceVars, part>>
  /\ WF_vars(InLoop /\ Run) /\ SF_vars(InLoop /\ Start)
  /\ SF_vars(InLoop /\ RunJobs) /\ SF_vars(InLoop /\ RunTick)
  /\ \A g \in Goroutines : /\ SF_fenceVars(InFences /\ LockNext(g))
                           /\ WF_fenceVars(InFences /\ Unlock(g))
                           /\ WF_fenceVars(InFences /\ Unregister(g))
=============================================================================
