--------------------------- MODULE MCJsonWriteQueue ---------------------------
(* Small instances of JsonWriteQueue for TLC.                              *)
EXTENDS JsonWriteQueue

CONSTANTS a, b

TwoFiles == {a, b}
(* Flush, SaveAccount of a, SaveGameState of both.                         *)
Saves == {{}, {a}, {a, b}}
=============================================================================
