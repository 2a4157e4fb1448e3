---------------------------- MODULE MCStoreJournal ----------------------------
(* Small instances of StoreJournal for TLC.                                *)
EXTENDS StoreJournal

CONSTANTS a, b, guilds

Accounts == {a, b}
Others == {guilds}
(* A trade, and a player who founds a guild.                               *)
Commits == {{a, b}, {a, guilds}}
=============================================================================
