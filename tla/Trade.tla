--------------------------------- MODULE Trade ---------------------------------
(***************************************************************************)
(* Items and gold that change hands: trades between two players, items     *)
(* dropped and picked up, the saves of these operations, and the store     *)
(* that gives every item one account.                                      *)
(*                                                                         *)
(* An item is its UID; an inventory is the set of items it holds, whatever *)
(* their slots.  A packet that does not match the inventory, the distance, *)
(* the health and the time a trade stays open are reasons to cancel.       *)
(* Some items are coins: on the ground they are worth gold.                *)
(***************************************************************************)
EXTENDS Naturals, FiniteSets, FiniteSetsExt, Functions

CONSTANTS
  Players,    \* characters, one per account
  Items,
  Capacity,   \* PlayerCarrySlots
  MaxGold,    \* maxCharacterGold
  Coins,      \* items whose rule is ground_gold
  Worth,      \* [Coins -> Nat]: volatileGoldValue
  FirstItems, \* [Players -> SUBSET Items]: what is stored at first
  FirstGold,  \* [Players -> 0..MaxGold]
  NoTrade,
  Places,     \* identifiers of players
  MaxDoubts,  \* bound: saves that report an error after their commit
  DoubtCrowd  \* bound: who is in the world during and after such a save

Ids == 1..Places

ASSUME TradeAssumption ==
  /\ IsFiniteSet(Players) /\ Places \in Nat
  /\ Capacity \in Nat /\ MaxGold \in Nat /\ MaxDoubts \in Nat
  /\ Coins \subseteq Items /\ IsFiniteSet(Coins) /\ Worth \in [Coins -> Nat]
  /\ FirstItems \in [Players -> SUBSET Items]
  /\ FirstGold \in [Players -> 0..MaxGold]
  /\ \A p \in Players :
       IsFiniteSet(FirstItems[p]) /\ Cardinality(FirstItems[p]) <= Capacity
  /\ \A p, q \in Players : p # q => FirstItems[p] \intersect FirstItems[q] = {}

VARIABLES
  id,      \* Player.ID, 0 when the player is not in the world
  inv,     \* Char.Inv of the players in the world
  gold,    \* Char.Gold
  trade,   \* Player.Trade
  ground,  \* groundItems
  stored,  \* the ledger: items of each account
  storedGold,
  gone,    \* history: items that were on the ground for too long, or in a crash
  cashed,  \* history: coins that were turned into gold
  doubts   \* history: saves that were stored although they reported an error

ram    == <<inv, gold>>
store  == <<stored, storedGold>>
past   == <<gone, cashed>>
tradeVars == <<id, ram, trade, ground, store, past, doubts>>

Online == {p \in Players : id[p] # 0}

Offers == [items : SUBSET Items, gold : 0..MaxGold]

(* agreed is history: both offers when the player confirmed, its own first.*)
Trades == [with : Ids, offer : Offers, checked : BOOLEAN,
           agreed : (Offers \X Offers) \union {NoTrade}]

ASSUME NoTradeAssumption == NoTrade \notin Trades

Nothing == [items |-> {}, gold |-> 0]

TradeTypeOK ==
  /\ id \in [Players -> {0} \union Ids]
  /\ inv \in [Players -> SUBSET Items] /\ gold \in [Players -> 0..MaxGold]
  /\ \A p \in Players : Cardinality(inv[p]) <= Capacity
  /\ trade \in [Players -> Trades \union {NoTrade}]
  /\ ground \in SUBSET Items /\ gone \in SUBSET Items /\ cashed \in SUBSET Coins
  /\ stored \in [Players -> SUBSET Items] /\ storedGold \in [Players -> 0..MaxGold]
  /\ doubts \in 0..MaxDoubts

TradeInit ==
  /\ id = [p \in Players |-> 0]
  /\ inv = [p \in Players |-> {}] /\ gold = [p \in Players |-> 0]
  /\ trade = [p \in Players |-> NoTrade]
  /\ ground = {} /\ gone = {} /\ cashed = {}
  /\ stored = FirstItems /\ storedGold = FirstGold
  /\ doubts = 0

-----------------------------------------------------------------------------
(* One transaction stores what the accounts of P hold according to i and g.*)

(* snapshotAccounts, persistAccountSnapshots: the transaction fails when    *)
(* two of its accounts hold an item, or an account outside of it does.     *)
LedgerAccepts(P, i) ==
  LET after == [p \in Players |-> IF p \in P THEN i[p] ELSE stored[p]] IN
  \A p \in P, q \in Players : p # q => after[p] \intersect after[q] = {}

Write(P, i, g) ==
  /\ LedgerAccepts(P, i)
  /\ stored' = [p \in Players |-> IF p \in P THEN i[p] ELSE stored[p]]
  /\ storedGold' = [p \in Players |-> IF p \in P THEN g[p] ELSE storedGold[p]]

Saved(P, i, g) == Write(P, i, g) /\ UNCHANGED doubts

(* An error leaves the store alone, or comes after the commit.             *)
SaveFails(P, i, g) ==
  \/ UNCHANGED <<store, doubts>>
  \/ /\ doubts < MaxDoubts /\ Online \subseteq DoubtCrowd
     /\ Write(P, i, g) /\ doubts' = doubts + 1

-----------------------------------------------------------------------------
Free == Ids \ Range(id)

(* allocPlayerID: a character enters the world with what is stored, under  *)
(* the smallest identifier that is free.                                   *)
Join(p) ==
  /\ id[p] = 0 /\ Free # {}
  /\ doubts > 0 => p \in DoubtCrowd
  /\ id' = [id EXCEPT ![p] = Min(Free)]
  /\ inv' = [inv EXCEPT ![p] = stored[p]] /\ gold' = [gold EXCEPT ![p] = storedGold[p]]
  /\ UNCHANGED <<trade, ground, store, past, doubts>>

Facing(p) == {q \in Online : trade[p] # NoTrade /\ id[q] = trade[p].with
                             /\ trade[q] # NoTrade /\ trade[q].with = id[p]}

(* cancelTrade: the trade of the player, and of the other one if it is     *)
(* with this player.                                                       *)
CancelTrade(p) ==
  trade' = [q \in Players |-> IF q = p \/ q \in Facing(p) THEN NoTrade ELSE trade[q]]

(* A save that rolls nothing back: an error after the commit is a success. *)
SaveOrNot(p) ==
  \/ Saved({p}, inv, gold)
  \/ UNCHANGED <<store, doubts>>

(* onDisconnect: the last save, then the trade is cancelled.               *)
Leave(p) ==
  /\ id[p] # 0
  /\ SaveOrNot(p) /\ CancelTrade(p)
  /\ id' = [id EXCEPT ![p] = 0]
  /\ inv' = [inv EXCEPT ![p] = {}] /\ gold' = [gold EXCEPT ![p] = 0]
  /\ UNCHANGED <<ground, past>>

AutoSave(p) ==
  /\ id[p] # 0
  /\ SaveOrNot(p)
  /\ UNCHANGED <<id, ram, trade, ground, past>>

(* Moving, fighting, dying, closing the window, an item moved between      *)
(* slots, a request that does not hold, the time of the trade is over.     *)
Interrupt(p) ==
  /\ trade[p] # NoTrade /\ CancelTrade(p)
  /\ UNCHANGED <<id, ram, ground, store, past, doubts>>

-----------------------------------------------------------------------------
(* onTrade: p asks q for a trade with an offer and maybe its confirmation. *)

CanTrade(p, q) == p # q /\ {p, q} \subseteq Online

Open(p, q) ==
  trade' = [trade EXCEPT ![p] = [with |-> id[q], offer |-> Nothing, checked |-> FALSE,
                                 agreed |-> NoTrade]]

(* The other one has a trade with p, or none.                              *)
InviteOrAccept(p, q) ==
  /\ CanTrade(p, q) /\ trade[p] = NoTrade
  /\ trade[q] # NoTrade => trade[q].with = id[p]
  /\ Open(p, q)
  /\ UNCHANGED <<id, ram, ground, store, past, doubts>>

Together(p, q) == CanTrade(p, q) /\ q \in Facing(p)

Covered(p, offer) == offer.items \subseteq inv[p] /\ offer.gold <= gold[p]

(* Fault: the confirmation of the other player survives a new offer.       *)
KeepsCheck(t, offer) == TRUE

(* updateTradeOffer: the confirmation of the other one survives only when  *)
(* the offer is the same and no confirmation is taken back.                *)
Uncontested(t, offer) == t.offer = offer /\ ~t.checked

Unchecked(t) == [t EXCEPT !.checked = FALSE, !.agreed = NoTrade]

Offer(p, q, offer) ==
  /\ Together(p, q) /\ Covered(p, offer)
  /\ trade' = [trade EXCEPT
       ![p] = [Unchecked(@) EXCEPT !.offer = offer],
       ![q] = IF Uncontested(trade[p], offer) THEN @ ELSE Unchecked(@)]
  /\ UNCHANGED <<id, ram, ground, store, past, doubts>>

Check(p, q) ==
  /\ Together(p, q) /\ ~trade[q].checked /\ Covered(p, trade[p].offer)
  /\ trade' = [trade EXCEPT ![p].checked = TRUE,
                            ![p].agreed = <<trade[p].offer, trade[q].offer>>]
  /\ UNCHANGED <<id, ram, ground, store, past, doubts>>

(* buildTradeInventory, tradeGold                                          *)
TradedItems(p, q) == (inv[p] \ trade[p].offer.items) \union trade[q].offer.items

(* Fault: what a player pays is not taken from its gold.                   *)
GoldOnlyAdded(p, q) == gold[p] + trade[q].offer.gold

TradedGold(p, q)  == (gold[p] - trade[p].offer.gold) + trade[q].offer.gold

(* An account with the same item twice is refused by the store.            *)
Distinct(p, q) == trade[q].offer.items \intersect (inv[p] \ trade[p].offer.items) = {}

Acceptable(p, q) ==
  /\ Distinct(p, q)
  /\ Covered(p, trade[p].offer)
  /\ TradedGold(p, q) <= MaxGold
  /\ Cardinality(TradedItems(p, q)) <= Capacity

(* The second confirmation: both sides are computed, checked again, stored *)
(* in one transaction, and only then published; otherwise nothing changes. *)
TradeCommit(p, q) ==
  LET i == [inv EXCEPT ![p] = TradedItems(p, q), ![q] = TradedItems(q, p)]
      g == [gold EXCEPT ![p] = TradedGold(p, q), ![q] = TradedGold(q, p)] IN
  /\ Together(p, q) /\ trade[q].checked /\ Covered(p, trade[p].offer)
  /\ CancelTrade(p)
  /\ \/ /\ Acceptable(p, q) /\ Acceptable(q, p)
        /\ \/ Saved({p, q}, i, g) /\ inv' = i /\ gold' = g
           \/ SaveFails({p, q}, i, g) /\ UNCHANGED ram
     \/ ~(Acceptable(p, q) /\ Acceptable(q, p)) /\ UNCHANGED <<ram, store, doubts>>
  /\ UNCHANGED <<id, ground, past>>

-----------------------------------------------------------------------------
(* onDropItem: the item is on the ground once its owner is stored without. *)
Drop(p, x) ==
  LET i == [inv EXCEPT ![p] = @ \ {x}] IN
  /\ id[p] # 0 /\ x \in inv[p] /\ CancelTrade(p)
  /\ \/ Saved({p}, i, gold) /\ inv' = i /\ ground' = ground \union {x}
     \/ SaveFails({p}, i, gold) /\ UNCHANGED <<inv, ground>>
  /\ UNCHANGED <<id, gold, past>>

(* onGetItem; the store refuses an account with the same item twice.       *)
PickUp(p, x) ==
  LET i == [inv EXCEPT ![p] = @ \union {x}] IN
  /\ id[p] # 0 /\ x \in ground \ Coins /\ CancelTrade(p)
  /\ x \notin inv[p] /\ Cardinality(inv[p]) < Capacity
  /\ \/ Saved({p}, i, gold) /\ inv' = i /\ ground' = ground \ {x}
     \/ SaveFails({p}, i, gold) /\ UNCHANGED <<inv, ground>>
  /\ UNCHANGED <<id, gold, past>>

(* onGetItem of a coin: it becomes gold, which must fit into the purse.    *)
CashIn(p, x) ==
  LET g == [gold EXCEPT ![p] = @ + Worth[x]] IN
  /\ id[p] # 0 /\ x \in ground \intersect Coins /\ CancelTrade(p)
  /\ Worth[x] > 0 /\ gold[p] + Worth[x] <= MaxGold
  /\ \/ /\ Saved({p}, inv, g)
        /\ gold' = g /\ ground' = ground \ {x} /\ cashed' = cashed \union {x}
     \/ SaveFails({p}, inv, g) /\ UNCHANGED <<gold, ground, cashed>>
  /\ UNCHANGED <<id, inv, gone>>

(* expireGroundItems                                                       *)
Expire(x) ==
  /\ x \in ground
  /\ ground' = ground \ {x} /\ gone' = gone \union {x}
  /\ UNCHANGED <<id, ram, trade, store, cashed, doubts>>

(* The process ends: what lies on the ground is lost.                      *)
TradeCrash ==
  /\ Online # {} \/ ground # {}
  /\ id' = [p \in Players |-> 0]
  /\ inv' = [p \in Players |-> {}] /\ gold' = [p \in Players |-> 0]
  /\ trade' = [p \in Players |-> NoTrade]
  /\ ground' = {} /\ gone' = gone \union ground
  /\ UNCHANGED <<store, cashed, doubts>>

TradeNext ==
  \/ \E p \in Players :
       \/ Join(p) \/ Leave(p) \/ AutoSave(p) \/ Interrupt(p)
       \/ \E x \in Items : Drop(p, x) \/ PickUp(p, x) \/ CashIn(p, x)
       \/ \E q \in Players :
            \/ InviteOrAccept(p, q) \/ Check(p, q) \/ TradeCommit(p, q)
            \/ \E items \in SUBSET inv[p], pay \in 0..gold[p] :
                 Offer(p, q, [items |-> items, gold |-> pay])
  \/ \E x \in Items : Expire(x)
  \/ TradeCrash

TradeSpec == TradeInit /\ [][TradeNext]_tradeVars

-----------------------------------------------------------------------------
(* As long as no save failed after its commit, trades, drops, pick-ups,    *)
(* failed saves, departures and crashes neither create nor lose: an item   *)
(* is stored for somebody, on the ground, lost there or turned into gold,  *)
(* a player in the world has what is stored for it, and the gold of all    *)
(* players is what there was at first and what the coins were worth.       *)
ItemsConserved ==
  \A x \in Items : x \in (UNION Range(FirstItems)) \ (ground \union gone \union cashed)
                     <=> x \in UNION Range(stored)

MemoryIsStored == \A p \in Online : inv[p] = stored[p] /\ gold[p] = storedGold[p]

CashedGold == [x \in Coins |-> IF x \in cashed THEN Worth[x] ELSE 0]

Conserved ==
  doubts = 0 =>
    /\ ItemsConserved /\ MemoryIsStored
    /\ SumFunction(storedGold) = SumFunction(FirstGold) + SumFunction(CashedGold)

(* No gold is made, whatever saves fail.  This does not hold: the ledger   *)
(* refuses an item twice, but it does not know gold (Trade_doubt.cfg).     *)
NoGoldMade ==
  SumFunction(storedGold) <= SumFunction(FirstGold) + SumFunction(CashedGold)

(* What changes hands is what both players confirmed: neither offer can be *)
(* altered between the two confirmations (updateTradeOffer).               *)
Passed(q, p) ==
  \/ (inv[q] \ inv'[q]) \intersect (inv'[p] \ inv[p]) # {}
  \/ gold'[q] < gold[q] /\ gold'[p] > gold[p]

OnlyAgreed ==
  [][\A p, q \in Players : Passed(q, p) =>
       LET mine == trade[p].offer
           theirs == trade[q].offer IN
       /\ inv'[p] = (inv[p] \ mine.items) \union theirs.items
       /\ gold'[p] = (gold[p] - mine.gold) + theirs.gold
       /\ \/ trade[q].agreed = <<theirs, mine>>
          \/ trade[p].agreed = <<mine, theirs>>]_ram
=============================================================================
