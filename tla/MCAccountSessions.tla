--------------------------- MODULE MCAccountSessions --------------------------
(* Two connections of one address race for two accounts. *)
EXTENDS AccountSessions

CONSTANTS s1, s2, a1, a2
TwoSessions == {s1, s2}
TwoAccounts == {a1, a2}
=============================================================================
