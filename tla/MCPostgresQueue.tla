--------------------------- MODULE MCPostgresQueue ---------------------------
(* A small instance of PostgresQueue for TLC.                              *)
EXTENDS PostgresQueue

CONSTANTS a, c

OneAccount == {a}
OneState == {c}

(* SavePlayerState: the account and the charstate of a player.             *)
PlayerSave == {{a, c}}
=============================================================================
