---------------------------- MODULE MCTradeJournal ----------------------------
(***************************************************************************)
(* Small instances of Trade and of StoreJournal, checked in one run: a     *)
(* behaviour is one of the trades or one of the journal, and the other     *)
(* part rests.                                                             *)
(*                                                                         *)
(* Two players with an item and a unit of gold each, and a third that gets *)
(* in between; one of the items is a coin; an inventory has room for one   *)
(* item, a purse for one unit.  The journal covers a trade and a player    *)
(* who founds a guild.                                                     *)
(***************************************************************************)
EXTENDS Trade, StoreJournal

CONSTANTS a, b, c, x, y, guilds

ThreePlayers == {a, b, c}
TwoItems == {x, y}
OneCoin == {y}
Price == [k \in OneCoin |-> 1]
Start == [p \in ThreePlayers |-> IF p = a THEN {x} ELSE IF p = b THEN {y} ELSE {}]
Traders == {a, b}
Purses == [p \in ThreePlayers |-> IF p = c THEN 0 ELSE 1]

Accounts == {a, b}
Others == {guilds}
Commits == {{a, b}, {a, guilds}}

VARIABLE part   \* which of the two runs

InitBoth == TradeInit /\ Init /\ part \in {"trade", "journal"}

NextBoth ==
  \/ part = "trade" /\ TradeNext /\ UNCHANGED <<vars, part>>
  \/ part = "journal" /\ Next /\ UNCHANGED <<tradeVars, part>>

SpecBoth == InitBoth /\ [][NextBoth]_<<tradeVars, vars, part>>
=============================================================================
