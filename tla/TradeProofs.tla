------------------------------ MODULE TradeProofs ------------------------------
(***************************************************************************)
(* Proofs about Trade, for any finite set of players and any set of items. *)
(***************************************************************************)
EXTENDS Trade, FiniteSetTheorems, WellFoundedInduction, TLAPS

(* A player that is not in the world has no trade, and no two players that *)
(* are have the same identifier.                                           *)
Placed ==
  /\ \A p \in Players : id[p] = 0 => trade[p] = NoTrade
  /\ \A p, q \in Online : id[p] = id[q] => p = q

(* A confirmation stands only while both trade with each other, and then   *)
(* both offers are still those that were confirmed.                        *)
StillAgreed ==
  \A p \in Players : trade[p] # NoTrade /\ trade[p].checked =>
    \E q \in Facing(p) : trade[p].agreed = <<trade[p].offer, trade[q].offer>>

(* The ledger has every item once.                                         *)
NoDuplicateStored ==
  \A p, q \in Players : p # q => stored[p] \intersect stored[q] = {}

Shape ==
  /\ id \in [Players -> {0} \union Ids]
  /\ trade \in [Players -> Trades \union {NoTrade}]
  /\ inv \in [Players -> SUBSET Items] /\ gold \in [Players -> 0..MaxGold]
  /\ stored \in [Players -> SUBSET Items] /\ storedGold \in [Players -> 0..MaxGold]
  /\ ground \in SUBSET Items

IInv == Shape /\ Placed /\ StillAgreed /\ NoDuplicateStored

-----------------------------------------------------------------------------
(* The store.                                                              *)

LEMMA WriteStep ==
  ASSUME Shape, NoDuplicateStored, NEW P \in SUBSET Players,
         NEW i \in [Players -> SUBSET Items], NEW g \in [Players -> 0..MaxGold],
         Write(P, i, g)
  PROVE  /\ NoDuplicateStored'
         /\ stored' \in [Players -> SUBSET Items]
         /\ storedGold' \in [Players -> 0..MaxGold]
<1>1. NoDuplicateStored'
  BY DEF Write, LedgerAccepts, NoDuplicateStored, Shape
<1>2. QED
  BY <1>1 DEF Write, Shape

LEMMA SaveStep ==
  ASSUME Shape, NoDuplicateStored, NEW P \in SUBSET Players,
         NEW i \in [Players -> SUBSET Items], NEW g \in [Players -> 0..MaxGold],
         \/ Saved(P, i, g) \/ SaveFails(P, i, g) \/ UNCHANGED store
  PROVE  /\ NoDuplicateStored'
         /\ stored' \in [Players -> SUBSET Items]
         /\ storedGold' \in [Players -> 0..MaxGold]
<1>1. CASE Write(P, i, g)
  BY <1>1, WriteStep
<1>2. CASE UNCHANGED store
  BY <1>2 DEF store, NoDuplicateStored, Shape
<1>3. QED
  BY <1>1, <1>2 DEF Saved, SaveFails, store

-----------------------------------------------------------------------------
(* The table of trades.                                                    *)

LEMMA FacingSymmetric ==
  ASSUME Shape, Placed, NEW p \in Players, NEW q \in Facing(p)
  PROVE  p \in Facing(q) /\ q \in Online /\ p \in Online
BY DEF Facing, Online, Placed, Shape

(* Nobody faces two players.                                               *)
LEMMA FacingUnique ==
  ASSUME Shape, Placed, NEW p \in Players, NEW q \in Facing(p), NEW r \in Facing(p)
  PROVE  q = r
BY DEF Facing, Online, Placed, Shape

LEMMA CancelStep ==
  ASSUME Shape, Placed, StillAgreed, NEW r \in Players, r \in Online, CancelTrade(r),
         id' = id \/ id' = [id EXCEPT ![r] = 0]
  PROVE  /\ trade' \in [Players -> Trades \union {NoTrade}]
         /\ id' \in [Players -> {0} \union Ids]
         /\ Placed' /\ StillAgreed'
<1>1. trade' \in [Players -> Trades \union {NoTrade}]
  BY DEF CancelTrade, Shape
<1>2. id' \in [Players -> {0} \union Ids]
  BY DEF Shape
<1>3. Placed'
  BY DEF Placed, CancelTrade, Online, Shape
<1>4. ASSUME NEW p \in Players, trade'[p] # NoTrade, trade'[p].checked
      PROVE  \E q \in Facing(p)' : trade'[p].agreed = <<trade'[p].offer, trade'[q].offer>>
  <2>1. p # r /\ p \notin Facing(r) /\ trade'[p] = trade[p] /\ trade[p] # NoTrade
    BY <1>4 DEF CancelTrade
  <2>2. PICK q \in Facing(p) : trade[p].agreed = <<trade[p].offer, trade[q].offer>>
    BY <1>4, <2>1 DEF StillAgreed
  <2>3. p \in Facing(q) /\ q \in Online /\ p \in Online /\ q \in Players
    BY <2>2, FacingSymmetric DEF Online
  <2>4. q # r
    BY <2>1, <2>3
  <2>5. q \notin Facing(r)
    <3>1. SUFFICES ASSUME q \in Facing(r) PROVE FALSE
      OBVIOUS
    <3>2. r \in Facing(q)
      BY <3>1, FacingSymmetric
    <3>3. QED
      BY <2>1, <2>3, <3>2, FacingUnique
  <2>6. trade'[q] = trade[q]
    BY <2>3, <2>4, <2>5 DEF CancelTrade
  <2>7. id'[p] = id[p] /\ id'[q] = id[q]
    BY <2>1, <2>3, <2>4 DEF Shape
  <2>8. q \in Facing(p)'
    BY <2>1, <2>2, <2>3, <2>6, <2>7 DEF Facing, Online
  <2>9. QED
    BY <2>1, <2>2, <2>6, <2>8
<1>5. QED
  BY <1>1, <1>2, <1>3, <1>4 DEF StillAgreed

(* What holds of the trades still does when they and the identifiers stay. *)
LEMMA SameTrades ==
  ASSUME Shape, Placed, StillAgreed, UNCHANGED <<id, trade>>
  PROVE  /\ trade' \in [Players -> Trades \union {NoTrade}]
         /\ id' \in [Players -> {0} \union Ids]
         /\ Placed' /\ StillAgreed'
BY DEF Shape, Placed, StillAgreed, Facing, Online

(* Induction over numbers, by the smallest one for which a fact fails.     *)
LEMMA Least ==
  ASSUME NEW T, T \subseteq Nat, T # {}
  PROVE  \E n \in T : \A m \in T : n <= m
<1>1. PICK n \in T : \A m \in T : ~ (<<m, n>> \in OpToRel(<, Nat))
  <2>1. IsWellFoundedOn(OpToRel(<, Nat), Nat)
    BY NatLessThanWellFounded
  <2>2. QED
    BY <2>1, WFMin, Zenon
<1>2. ASSUME NEW m \in T PROVE n <= m
  <2>1. m \in Nat /\ n \in Nat
    OBVIOUS
  <2>2. ~ (m < n)
    BY <1>1, <2>1 DEF OpToRel
  <2>3. QED
    BY <2>1, <2>2
<1>3. QED
  BY <1>2

LEMMA FreeMin ==
  ASSUME Shape, Free # {}
  PROVE  Min(Free) \in Free /\ Min(Free) \in Ids /\ Min(Free) # 0
<1>1. Free \subseteq Nat
  BY TradeAssumption DEF Free, Ids
<1>2. PICK x \in Free : \A y \in Free : x <= y
  BY <1>1, Least
<1>3. Min(Free) \in Free
  BY <1>2 DEF Min
<1>4. QED
  BY <1>3, TradeAssumption DEF Free, Ids

-----------------------------------------------------------------------------
(* Each action keeps the invariant.                                        *)

LEMMA InitIInv == TradeInit => IInv
<1> SUFFICES ASSUME TradeInit PROVE IInv
  OBVIOUS
<1>1. Shape /\ NoDuplicateStored
  BY TradeAssumption DEF TradeInit, Shape, NoDuplicateStored
<1>2. Placed /\ StillAgreed
  BY DEF TradeInit, Placed, StillAgreed, Online
<1>3. QED
  BY <1>1, <1>2 DEF IInv

LEMMA JoinStep ==
  ASSUME IInv, NEW p \in Players, Join(p) PROVE IInv'
<1>1. Min(Free) \in Free /\ Min(Free) \in Ids /\ Min(Free) # 0
  BY FreeMin DEF IInv, Join
<1>2. \A q \in Players : id[q] # Min(Free)
  BY <1>1 DEF Free, Range, IInv, Shape
<1>3. /\ id' \in [Players -> {0} \union Ids]
      /\ \A q \in Players : q # p => id'[q] = id[q]
      /\ id[p] = 0 /\ id'[p] = Min(Free) /\ UNCHANGED <<trade, ground, stored, storedGold>>
  BY <1>1 DEF Join, IInv, Shape, store
<1>4. Shape' /\ NoDuplicateStored'
  BY <1>3 DEF Join, IInv, Shape, store, NoDuplicateStored
<1>5. Placed'
  BY <1>1, <1>2, <1>3 DEF IInv, Placed, Online
<1>6. ASSUME NEW q \in Players, trade'[q] # NoTrade, trade'[q].checked
      PROVE  \E r \in Facing(q)' : trade'[q].agreed = <<trade'[q].offer, trade'[r].offer>>
  <2>1. PICK r \in Facing(q) : trade[q].agreed = <<trade[q].offer, trade[r].offer>>
    BY <1>3, <1>6 DEF IInv, StillAgreed
  <2>2. q \in Online /\ r \in Online /\ r \in Players
    BY <2>1, FacingSymmetric DEF IInv, Online
  <2>3. r \in Facing(q)'
    BY <1>3, <2>1, <2>2 DEF Facing, Online
  <2>4. QED
    BY <1>3, <2>1, <2>3
<1>7. QED
  BY <1>4, <1>5, <1>6 DEF IInv, StillAgreed

LEMMA LeaveStep ==
  ASSUME IInv, NEW p \in Players, Leave(p) PROVE IInv'
<1>1. p \in Online /\ CancelTrade(p) /\ id' = [id EXCEPT ![p] = 0]
  BY DEF Leave, Online
<1>2. /\ trade' \in [Players -> Trades \union {NoTrade}]
      /\ id' \in [Players -> {0} \union Ids]
      /\ Placed' /\ StillAgreed'
  BY <1>1, CancelStep DEF IInv
<1>3. /\ NoDuplicateStored'
      /\ stored' \in [Players -> SUBSET Items]
      /\ storedGold' \in [Players -> 0..MaxGold]
  BY SaveStep DEF IInv, Shape, Leave, SaveOrNot
<1>4. /\ inv' \in [Players -> SUBSET Items] /\ gold' \in [Players -> 0..MaxGold]
      /\ ground' \in SUBSET Items
  BY TradeAssumption DEF Leave, IInv, Shape
<1>5. QED
  BY <1>2, <1>3, <1>4 DEF IInv, Shape

LEMMA AutoSaveStep ==
  ASSUME IInv, NEW p \in Players, AutoSave(p) PROVE IInv'
<1>1. /\ trade' \in [Players -> Trades \union {NoTrade}]
      /\ id' \in [Players -> {0} \union Ids]
      /\ Placed' /\ StillAgreed'
  BY SameTrades DEF IInv, AutoSave
<1>2. /\ NoDuplicateStored'
      /\ stored' \in [Players -> SUBSET Items]
      /\ storedGold' \in [Players -> 0..MaxGold]
  BY SaveStep DEF IInv, Shape, AutoSave, SaveOrNot
<1>3. QED
  BY <1>1, <1>2 DEF IInv, Shape, AutoSave, ram

LEMMA InterruptStep ==
  ASSUME IInv, NEW p \in Players, Interrupt(p) PROVE IInv'
<1>1. p \in Online /\ CancelTrade(p) /\ id' = id
  BY DEF Interrupt, Online, IInv, Placed
<1>2. /\ trade' \in [Players -> Trades \union {NoTrade}]
      /\ id' \in [Players -> {0} \union Ids]
      /\ Placed' /\ StillAgreed'
  BY <1>1, CancelStep DEF IInv
<1>3. QED
  BY <1>2 DEF IInv, Shape, Interrupt, ram, store, NoDuplicateStored

(* p and q trade with each other and with nobody else.                     *)
LEMMA TogetherPair ==
  ASSUME IInv, NEW p \in Players, NEW q \in Players, Together(p, q)
  PROVE  /\ p # q /\ p \in Online /\ q \in Online
         /\ trade[p] \in Trades /\ trade[q] \in Trades
         /\ q \in Facing(p) /\ p \in Facing(q)
         /\ \A r \in Players : r # p => q \notin Facing(r)
         /\ \A r \in Players : r # q => p \notin Facing(r)
<1>1. p # q /\ p \in Online /\ q \in Online /\ q \in Facing(p)
  BY DEF Together, CanTrade
<1>2. p \in Facing(q)
  BY <1>1, FacingSymmetric DEF IInv
<1>3. trade[p] \in Trades /\ trade[q] \in Trades
  BY <1>1 DEF Facing, IInv, Shape, Online
<1>4. ASSUME NEW r \in Players, q \in Facing(r) PROVE r = p
  <2>1. r \in Facing(q)
    BY <1>4, FacingSymmetric DEF IInv
  <2>2. QED
    BY <1>2, <2>1, FacingUnique DEF IInv
<1>5. ASSUME NEW r \in Players, p \in Facing(r) PROVE r = q
  <2>1. r \in Facing(p)
    BY <1>5, FacingSymmetric DEF IInv
  <2>2. QED
    BY <1>1, <2>1, FacingUnique DEF IInv
<1>6. QED
  BY <1>1, <1>2, <1>3, <1>4, <1>5

(* The trades of p and q change, their partners do not.                    *)
LEMMA PairStep ==
  ASSUME IInv, NEW p \in Players, NEW q \in Players, Together(p, q), UNCHANGED id,
         NEW t \in Trades, NEW u \in Trades,
         t # NoTrade, u # NoTrade,
         t.with = trade[p].with, u.with = trade[q].with,
         t.checked => t.agreed = <<t.offer, u.offer>>,
         u.checked => u.agreed = <<u.offer, t.offer>>,
         trade' = [trade EXCEPT ![p] = t, ![q] = u]
  PROVE  /\ trade' \in [Players -> Trades \union {NoTrade}]
         /\ id' \in [Players -> {0} \union Ids]
         /\ Placed' /\ StillAgreed'
<1>1. /\ p # q /\ p \in Online /\ q \in Online
      /\ q \in Facing(p) /\ p \in Facing(q)
      /\ \A r \in Players : r # p => q \notin Facing(r)
      /\ \A r \in Players : r # q => p \notin Facing(r)
  BY TogetherPair
<1>2. /\ trade' \in [Players -> Trades \union {NoTrade}]
      /\ trade'[p] = t /\ trade'[q] = u
      /\ \A r \in Players : r # p /\ r # q => trade'[r] = trade[r]
  BY <1>1 DEF IInv, Shape
<1>3. q \in Facing(p)' /\ p \in Facing(q)'
  BY <1>1, <1>2 DEF Facing, Online
<1>4. Placed'
  BY <1>1, <1>2 DEF IInv, Placed, Online
<1>5. ASSUME NEW r \in Players, trade'[r] # NoTrade, trade'[r].checked
      PROVE  \E s \in Facing(r)' : trade'[r].agreed = <<trade'[r].offer, trade'[s].offer>>
  <2>1. CASE r = p
    BY <1>2, <1>3, <1>5, <2>1
  <2>2. CASE r = q
    BY <1>2, <1>3, <1>5, <2>2
  <2>3. CASE r # p /\ r # q
    <3>1. PICK s \in Facing(r) : trade[r].agreed = <<trade[r].offer, trade[s].offer>>
      BY <1>2, <1>5, <2>3 DEF IInv, StillAgreed
    <3>2. s # p /\ s # q /\ s \in Players
      BY <1>1, <2>3, <3>1 DEF Facing, Online
    <3>3. s \in Facing(r)'
      BY <1>2, <2>3, <3>1, <3>2 DEF Facing, Online
    <3>4. QED
      BY <1>2, <2>3, <3>1, <3>2, <3>3
  <2>4. QED
    BY <2>1, <2>2, <2>3
<1>6. QED
  BY <1>2, <1>4, <1>5 DEF IInv, Shape, StillAgreed

LEMMA InviteOrAcceptStep ==
  ASSUME IInv, NEW p \in Players, NEW q \in Players, InviteOrAccept(p, q) PROVE IInv'
<1>1. /\ trade[p] = NoTrade /\ p \in Online /\ q \in Online /\ id' = id
      /\ trade' = [trade EXCEPT ![p] = [with |-> id[q], offer |-> Nothing, checked |-> FALSE,
                                        agreed |-> NoTrade]]
  BY DEF InviteOrAccept, CanTrade, Open
<1>2. [with |-> id[q], offer |-> Nothing, checked |-> FALSE, agreed |-> NoTrade] \in Trades
  BY <1>1, TradeAssumption DEF Trades, Offers, Nothing, IInv, Shape, Online
<1>3. /\ trade' \in [Players -> Trades \union {NoTrade}]
      /\ \A r \in Players : r # p => trade'[r] = trade[r]
      /\ ~ trade'[p].checked
  BY <1>1, <1>2 DEF IInv, Shape
<1>4. Placed'
  BY <1>1, <1>3 DEF IInv, Placed, Online
<1>5. ASSUME NEW r \in Players, trade'[r] # NoTrade, trade'[r].checked
      PROVE  \E s \in Facing(r)' : trade'[r].agreed = <<trade'[r].offer, trade'[s].offer>>
  <2>1. r # p /\ trade'[r] = trade[r]
    BY <1>3, <1>5
  <2>2. PICK s \in Facing(r) : trade[r].agreed = <<trade[r].offer, trade[s].offer>>
    BY <1>5, <2>1 DEF IInv, StillAgreed
  <2>3. s # p /\ s \in Players
    BY <1>1, <2>2 DEF Facing, Online
  <2>4. s \in Facing(r)'
    BY <1>1, <1>3, <2>1, <2>2, <2>3 DEF Facing, Online
  <2>5. QED
    BY <1>3, <2>1, <2>2, <2>3, <2>4
<1>6. QED
  BY <1>1, <1>3, <1>4, <1>5
     DEF IInv, Shape, StillAgreed, InviteOrAccept, ram, store, NoDuplicateStored

LEMMA OfferStep ==
  ASSUME IInv, NEW p \in Players, NEW q \in Players, NEW offer \in Offers,
         Offer(p, q, offer)
  PROVE  IInv'
<1> DEFINE t == [Unchecked(trade[p]) EXCEPT !.offer = offer]
           u == IF Uncontested(trade[p], offer) THEN trade[q] ELSE Unchecked(trade[q])
<1>1. Together(p, q) /\ UNCHANGED id
  BY DEF Offer
<1>2. p # q /\ trade[p] \in Trades /\ trade[q] \in Trades /\ q \in Facing(p) /\ p \in Facing(q)
  BY <1>1, TogetherPair
<1>3. /\ t \in Trades /\ t.with = trade[p].with /\ ~ t.checked /\ t.offer = offer
  BY <1>2 DEF Trades, Unchecked
<1>4. u \in Trades /\ u.with = trade[q].with
  BY <1>2 DEF Trades, Unchecked
<1>5. u.checked => u.agreed = <<u.offer, t.offer>>
  <2>1. CASE Uncontested(trade[p], offer)
    <3>1. SUFFICES ASSUME trade[q].checked PROVE trade[q].agreed = <<trade[q].offer, offer>>
      BY <1>3, <2>1
    <3>2. PICK r \in Facing(q) : trade[q].agreed = <<trade[q].offer, trade[r].offer>>
      BY <1>2, <3>1, NoTradeAssumption DEF IInv, StillAgreed
    <3>3. r = p
      BY <1>2, <3>2, FacingUnique DEF IInv
    <3>4. QED
      BY <2>1, <3>2, <3>3 DEF Uncontested
  <2>2. CASE ~ Uncontested(trade[p], offer)
    BY <1>2, <2>2 DEF Trades, Unchecked
  <2>3. QED
    BY <2>1, <2>2
<1>6. trade' = [trade EXCEPT ![p] = t, ![q] = u]
  BY <1>2 DEF Offer, IInv, Shape
<1>7. /\ trade' \in [Players -> Trades \union {NoTrade}]
      /\ id' \in [Players -> {0} \union Ids]
      /\ Placed' /\ StillAgreed'
  <2> HIDE DEF t, u
  <2> QED
    BY <1>1, <1>3, <1>4, <1>5, <1>6, NoTradeAssumption, PairStep
<1>8. QED
  BY <1>7 DEF IInv, Shape, Offer, ram, store, NoDuplicateStored

LEMMA CheckStep ==
  ASSUME IInv, NEW p \in Players, NEW q \in Players, Check(p, q) PROVE IInv'
<1> DEFINE t == [trade[p] EXCEPT !.checked = TRUE,
                                 !.agreed = <<trade[p].offer, trade[q].offer>>]
<1>1. Together(p, q) /\ UNCHANGED id /\ ~ trade[q].checked
  BY DEF Check
<1>2. p # q /\ trade[p] \in Trades /\ trade[q] \in Trades
  BY <1>1, TogetherPair
<1>3. /\ t \in Trades /\ t.with = trade[p].with
      /\ t.offer = trade[p].offer /\ t.agreed = <<t.offer, trade[q].offer>>
  BY <1>2 DEF Trades
<1>4. trade' = [trade EXCEPT ![p] = t, ![q] = trade[q]]
  <2>1. DOMAIN trade = Players /\ DOMAIN trade' = Players
    BY DEF Check, IInv, Shape
  <2>2. trade'[p] = t
    BY <1>2 DEF Check, IInv, Shape, Trades
  <2>3. \A r \in Players \ {p} : trade'[r] = trade[r]
    BY DEF Check, IInv, Shape
  <2>4. trade' = [r \in Players |-> IF r = p THEN t ELSE trade[r]]
    <3> HIDE DEF t
    <3>1. trade' = [r \in Players |-> trade'[r]]
      BY DEF Check, IInv, Shape
    <3>2. QED
      BY <2>2, <2>3, <3>1
  <2> HIDE DEF t
  <2>5. QED
    BY <1>2, <2>1, <2>4 DEF IInv, Shape
<1>5. /\ trade' \in [Players -> Trades \union {NoTrade}]
      /\ id' \in [Players -> {0} \union Ids]
      /\ Placed' /\ StillAgreed'
  <2> HIDE DEF t
  <2> QED
    BY <1>1, <1>2, <1>3, <1>4, NoTradeAssumption, PairStep
<1>6. QED
  BY <1>5 DEF IInv, Shape, Check, ram, store, NoDuplicateStored

(* What a trade leaves each side with is well-formed.                      *)
LEMMA Computed ==
  ASSUME IInv, NEW p \in Players, NEW q \in Players, Together(p, q),
         Acceptable(p, q), Acceptable(q, p)
  PROVE  /\ TradedItems(p, q) \in SUBSET Items /\ TradedItems(q, p) \in SUBSET Items
         /\ TradedGold(p, q) \in 0..MaxGold /\ TradedGold(q, p) \in 0..MaxGold
<1>1. trade[p] \in Trades /\ trade[q] \in Trades
  BY TogetherPair
<1>2. /\ trade[p].offer.items \subseteq Items /\ trade[q].offer.items \subseteq Items
      /\ trade[p].offer.gold \in 0..MaxGold /\ trade[q].offer.gold \in 0..MaxGold
  BY <1>1 DEF Trades, Offers
<1>3. gold[p] \in 0..MaxGold /\ gold[q] \in 0..MaxGold /\ inv[p] \subseteq Items /\ inv[q] \subseteq Items
  BY DEF IInv, Shape
<1>4. /\ TradedGold(p, q) \in 0..MaxGold /\ TradedGold(q, p) \in 0..MaxGold
  BY <1>2, <1>3, TradeAssumption DEF TradedGold, Acceptable, Covered
<1>5. QED
  BY <1>2, <1>3, <1>4 DEF TradedItems

LEMMA CommitStep ==
  ASSUME IInv, NEW p \in Players, NEW q \in Players, TradeCommit(p, q) PROVE IInv'
<1> DEFINE i == [inv EXCEPT ![p] = TradedItems(p, q), ![q] = TradedItems(q, p)]
           g == [gold EXCEPT ![p] = TradedGold(p, q), ![q] = TradedGold(q, p)]
<1>1. /\ Together(p, q) /\ p \in Online /\ CancelTrade(p)
      /\ UNCHANGED <<id, ground>>
  BY DEF TradeCommit, Together, CanTrade
<1>2. /\ trade' \in [Players -> Trades \union {NoTrade}]
      /\ id' \in [Players -> {0} \union Ids]
      /\ Placed' /\ StillAgreed'
  BY <1>1, CancelStep DEF IInv
<1>3. CASE Acceptable(p, q) /\ Acceptable(q, p)
  <2>1. i \in [Players -> SUBSET Items] /\ g \in [Players -> 0..MaxGold]
    <3> HIDE DEF i, g
    <3>1. i \in [Players -> SUBSET Items]
      BY <1>1, <1>3, Computed DEF i, IInv, Shape
    <3>2. g \in [Players -> 0..MaxGold]
      BY <1>1, <1>3, Computed DEF g, IInv, Shape
    <3>3. QED
      BY <3>1, <3>2
  <2>2. \/ Saved({p, q}, i, g) /\ inv' = i /\ gold' = g
        \/ SaveFails({p, q}, i, g) /\ UNCHANGED ram
    BY <1>3 DEF TradeCommit
  <2> HIDE DEF i, g
  <2>3. /\ NoDuplicateStored'
        /\ stored' \in [Players -> SUBSET Items]
        /\ storedGold' \in [Players -> 0..MaxGold]
    BY <2>1, <2>2, SaveStep DEF IInv
  <2>4. inv' \in [Players -> SUBSET Items] /\ gold' \in [Players -> 0..MaxGold]
    BY <2>1, <2>2 DEF ram, IInv, Shape
  <2>5. QED
    BY <1>1, <1>2, <2>3, <2>4 DEF IInv, Shape
<1>4. CASE ~ (Acceptable(p, q) /\ Acceptable(q, p))
  <2>1. UNCHANGED <<ram, store>>
    BY <1>4 DEF TradeCommit
  <2>2. QED
    BY <1>1, <1>2, <2>1 DEF IInv, Shape, ram, store, NoDuplicateStored
<1>5. QED
  BY <1>3, <1>4

LEMMA DropStep ==
  ASSUME IInv, NEW p \in Players, NEW x \in Items, Drop(p, x) PROVE IInv'
<1> DEFINE i == [inv EXCEPT ![p] = @ \ {x}]
<1>1. p \in Online /\ CancelTrade(p) /\ UNCHANGED <<id, gold>>
  BY DEF Drop, Online
<1>2. /\ trade' \in [Players -> Trades \union {NoTrade}]
      /\ id' \in [Players -> {0} \union Ids]
      /\ Placed' /\ StillAgreed'
  BY <1>1, CancelStep DEF IInv
<1>3. i \in [Players -> SUBSET Items]
  BY DEF IInv, Shape
<1>4. \/ Saved({p}, i, gold) /\ inv' = i /\ ground' = ground \union {x}
      \/ SaveFails({p}, i, gold) /\ UNCHANGED <<inv, ground>>
  BY DEF Drop
<1> HIDE DEF i
<1>5. /\ NoDuplicateStored'
      /\ stored' \in [Players -> SUBSET Items]
      /\ storedGold' \in [Players -> 0..MaxGold]
  BY <1>3, <1>4, SaveStep DEF IInv, Shape
<1>6. QED
  BY <1>1, <1>2, <1>3, <1>4, <1>5 DEF IInv, Shape

LEMMA PickUpStep ==
  ASSUME IInv, NEW p \in Players, NEW x \in Items, PickUp(p, x) PROVE IInv'
<1> DEFINE i == [inv EXCEPT ![p] = @ \union {x}]
<1>1. p \in Online /\ CancelTrade(p) /\ UNCHANGED <<id, gold>>
  BY DEF PickUp, Online
<1>2. /\ trade' \in [Players -> Trades \union {NoTrade}]
      /\ id' \in [Players -> {0} \union Ids]
      /\ Placed' /\ StillAgreed'
  BY <1>1, CancelStep DEF IInv
<1>3. i \in [Players -> SUBSET Items]
  BY DEF IInv, Shape
<1>4. \/ Saved({p}, i, gold) /\ inv' = i /\ ground' = ground \ {x}
      \/ SaveFails({p}, i, gold) /\ UNCHANGED <<inv, ground>>
  BY DEF PickUp
<1> HIDE DEF i
<1>5. /\ NoDuplicateStored'
      /\ stored' \in [Players -> SUBSET Items]
      /\ storedGold' \in [Players -> 0..MaxGold]
  BY <1>3, <1>4, SaveStep DEF IInv, Shape
<1>6. QED
  BY <1>1, <1>2, <1>3, <1>4, <1>5 DEF IInv, Shape

LEMMA CashInStep ==
  ASSUME IInv, NEW p \in Players, NEW x \in Items, CashIn(p, x) PROVE IInv'
<1> DEFINE g == [gold EXCEPT ![p] = @ + Worth[x]]
<1>1. p \in Online /\ CancelTrade(p) /\ UNCHANGED <<id, inv>> /\ ground' \in SUBSET ground
  BY DEF CashIn, Online
<1>2. /\ trade' \in [Players -> Trades \union {NoTrade}]
      /\ id' \in [Players -> {0} \union Ids]
      /\ Placed' /\ StillAgreed'
  BY <1>1, CancelStep DEF IInv
<1>3. g \in [Players -> 0..MaxGold]
  <2>1. gold[p] + Worth[x] \in 0..MaxGold
    BY TradeAssumption DEF CashIn, IInv, Shape
  <2>2. QED
    BY <2>1 DEF IInv, Shape
<1>4. \/ Saved({p}, inv, g) /\ gold' = g
      \/ SaveFails({p}, inv, g) /\ UNCHANGED gold
  BY DEF CashIn
<1> HIDE DEF g
<1>5. /\ NoDuplicateStored'
      /\ stored' \in [Players -> SUBSET Items]
      /\ storedGold' \in [Players -> 0..MaxGold]
  BY <1>3, <1>4, SaveStep DEF IInv, Shape
<1>6. QED
  BY <1>1, <1>2, <1>3, <1>4, <1>5 DEF IInv, Shape

LEMMA ExpireStep ==
  ASSUME IInv, NEW x \in Items, Expire(x) PROVE IInv'
<1>1. /\ trade' \in [Players -> Trades \union {NoTrade}]
      /\ id' \in [Players -> {0} \union Ids]
      /\ Placed' /\ StillAgreed'
  BY SameTrades DEF IInv, Expire
<1>2. QED
  BY <1>1 DEF IInv, Shape, Expire, ram, store, NoDuplicateStored

LEMMA CrashStep ==
  ASSUME IInv, TradeCrash PROVE IInv'
<1>1. Shape' /\ NoDuplicateStored'
  BY TradeAssumption DEF IInv, Shape, TradeCrash, store, NoDuplicateStored
<1>2. Placed' /\ StillAgreed'
  BY DEF TradeCrash, Placed, StillAgreed, Online
<1>3. QED
  BY <1>1, <1>2 DEF IInv

LEMMA NextStep ==
  ASSUME IInv, [TradeNext]_tradeVars PROVE IInv'
<1>1. ASSUME NEW p \in Players, NEW q \in Players, NEW items \in SUBSET inv[p],
             NEW pay \in 0..gold[p], Offer(p, q, [items |-> items, gold |-> pay])
      PROVE  IInv'
  <2>1. [items |-> items, gold |-> pay] \in Offers
    <3>1. items \in SUBSET Items
      BY DEF IInv, Shape
    <3>2. pay \in 0..MaxGold
      BY TradeAssumption DEF IInv, Shape
    <3>3. QED
      BY <3>1, <3>2 DEF Offers
  <2>2. QED
    BY <1>1, <2>1, OfferStep
<1>2. CASE UNCHANGED tradeVars
  <2>1. /\ trade' \in [Players -> Trades \union {NoTrade}]
        /\ id' \in [Players -> {0} \union Ids]
        /\ Placed' /\ StillAgreed'
    BY <1>2, SameTrades DEF IInv, tradeVars
  <2>2. QED
    BY <1>2, <2>1 DEF IInv, Shape, tradeVars, ram, store, NoDuplicateStored
<1>3. QED
  BY <1>1, <1>2, JoinStep, LeaveStep, AutoSaveStep, InterruptStep, InviteOrAcceptStep,
     CheckStep, CommitStep, DropStep, PickUpStep, CashInStep, ExpireStep, CrashStep DEF TradeNext

(* The invariant the others rest on.                                       *)
THEOREM SpecIInv == TradeSpec => []IInv
<1>1. TradeInit => IInv
  BY InitIInv
<1>2. IInv /\ [TradeNext]_tradeVars => IInv'
  BY NextStep
<1>3. QED
  BY <1>1, <1>2, PTL DEF TradeSpec

-----------------------------------------------------------------------------
(* What passes from one player to another is what both confirmed.          *)

AsAgreed(p, q) ==
  LET mine == trade[p].offer
      theirs == trade[q].offer IN
  /\ inv'[p] = (inv[p] \ mine.items) \union theirs.items
  /\ gold'[p] = (gold[p] - mine.gold) + theirs.gold
  /\ \/ trade[q].agreed = <<theirs, mine>>
     \/ trade[p].agreed = <<mine, theirs>>

(* Nothing passes when at most one player's inventory and gold change.     *)
LEMMA OneChanges ==
  ASSUME Shape, Shape', NEW r \in Players,
         \A s \in Players : s # r => inv'[s] = inv[s] /\ gold'[s] = gold[s],
         NEW p \in Players, NEW q \in Players
  PROVE  ~ Passed(q, p)
<1>1. CASE p # r
  <2>1. inv'[p] = inv[p] /\ gold'[p] = gold[p] /\ gold[p] \in Nat
    BY <1>1, TradeAssumption DEF Shape
  <2>2. QED
    BY <2>1 DEF Passed
<1>2. CASE q # r
  <2>1. inv'[q] = inv[q] /\ gold'[q] = gold[q] /\ gold[q] \in Nat
    BY <1>2, TradeAssumption DEF Shape
  <2>2. QED
    BY <2>1 DEF Passed
<1>3. CASE p = r /\ q = r
  <2>1. gold[p] \in Int /\ gold'[p] \in Int
    BY TradeAssumption DEF Shape
  <2>2. ~ (gold'[q] < gold[q] /\ gold'[p] > gold[p])
    BY <1>3, <2>1
  <2>3. QED
    BY <1>3, <2>2 DEF Passed
<1>4. QED
  BY <1>1, <1>2, <1>3

LEMMA CommitAgreed ==
  ASSUME IInv, IInv', NEW p0 \in Players, NEW q0 \in Players, TradeCommit(p0, q0),
         NEW p \in Players, NEW q \in Players, Passed(q, p)
  PROVE  AsAgreed(p, q)
<1>1. /\ p0 # q0 /\ q0 \in Facing(p0) /\ p0 \in Facing(q0)
      /\ trade[p0] \in Trades /\ trade[q0] \in Trades
  BY TogetherPair DEF TradeCommit
<1>2. trade[q0].agreed = <<trade[q0].offer, trade[p0].offer>>
  <2>1. PICK r \in Facing(q0) : trade[q0].agreed = <<trade[q0].offer, trade[r].offer>>
    BY <1>1, NoTradeAssumption DEF TradeCommit, IInv, StillAgreed
  <2>2. r = p0
    BY <1>1, <2>1, FacingUnique DEF IInv
  <2>3. QED
    BY <2>1, <2>2
<1>3. CASE UNCHANGED ram
  BY <1>3, OneChanges DEF ram, IInv
<1>4. CASE /\ inv' = [inv EXCEPT ![p0] = TradedItems(p0, q0), ![q0] = TradedItems(q0, p0)]
           /\ gold' = [gold EXCEPT ![p0] = TradedGold(p0, q0), ![q0] = TradedGold(q0, p0)]
  <2>1. /\ inv'[p0] = TradedItems(p0, q0) /\ inv'[q0] = TradedItems(q0, p0)
        /\ gold'[p0] = TradedGold(p0, q0) /\ gold'[q0] = TradedGold(q0, p0)
        /\ \A r \in Players \ {p0, q0} : inv'[r] = inv[r] /\ gold'[r] = gold[r]
    BY <1>1, <1>4 DEF IInv, Shape
  <2>2. gold \in [Players -> Int] /\ gold' \in [Players -> Int]
    BY TradeAssumption DEF IInv, Shape
  <2>3. p # q /\ p \in {p0, q0} /\ q \in {p0, q0}
    <3>1. p # q
      BY <2>2 DEF Passed
    <3>2. \A r \in Players : inv'[r] = inv[r] /\ gold'[r] = gold[r] => r # p /\ r # q
      BY <2>2 DEF Passed
    <3>3. QED
      BY <2>1, <3>1, <3>2
  <2>4. CASE p = p0 /\ q = q0
    BY <1>2, <2>1, <2>4 DEF AsAgreed, TradedItems, TradedGold
  <2>5. CASE p = q0 /\ q = p0
    BY <1>2, <2>1, <2>5 DEF AsAgreed, TradedItems, TradedGold
  <2>6. QED
    BY <2>3, <2>4, <2>5
<1>5. QED
  BY <1>3, <1>4 DEF TradeCommit, ram

LEMMA NextAgreed ==
  ASSUME IInv, IInv', TradeNext, NEW p \in Players, NEW q \in Players, Passed(q, p)
  PROVE  AsAgreed(p, q)
<1>1. ASSUME NEW r \in Players,
             \A s \in Players : s # r => inv'[s] = inv[s] /\ gold'[s] = gold[s]
      PROVE  FALSE
  BY <1>1, OneChanges DEF IInv
<1>2. \A r \in Players : ~ (Join(r) \/ Leave(r))
  <2> SUFFICES ASSUME NEW r \in Players, Join(r) \/ Leave(r) PROVE FALSE
    OBVIOUS
  <2>1. \A s \in Players : s # r => inv'[s] = inv[s] /\ gold'[s] = gold[s]
    BY DEF Join, Leave, IInv, Shape
  <2>2. QED
    BY <1>1, <2>1
<1>3. ~ UNCHANGED ram
  BY <1>1 DEF ram
<1>4. \A r \in Players, x \in Items : ~ (Drop(r, x) \/ PickUp(r, x) \/ CashIn(r, x))
  <2> SUFFICES ASSUME NEW r \in Players, NEW x \in Items,
                      Drop(r, x) \/ PickUp(r, x) \/ CashIn(r, x)
               PROVE  FALSE
    OBVIOUS
  <2>1. \A s \in Players : s # r => inv'[s] = inv[s] /\ gold'[s] = gold[s]
    BY DEF Drop, PickUp, CashIn, IInv, Shape
  <2>2. QED
    BY <1>1, <2>1
<1>5. ~ TradeCrash
  <2> SUFFICES ASSUME TradeCrash PROVE FALSE
    OBVIOUS
  <2>1. inv'[p] = {} /\ gold'[p] = 0 /\ gold[p] \in Nat
    BY TradeAssumption DEF TradeCrash, IInv, Shape
  <2>2. QED
    BY <2>1 DEF Passed
<1>6. \A r \in Players : ~ (AutoSave(r) \/ Interrupt(r))
  BY <1>3 DEF AutoSave, Interrupt
<1>7. \A r, t \in Players : ~ (InviteOrAccept(r, t) \/ Check(r, t))
  BY <1>3 DEF InviteOrAccept, Check
<1>8. \A r, t, o : ~ Offer(r, t, o)
  BY <1>3 DEF Offer
<1>9. \A x : ~ Expire(x)
  BY <1>3 DEF Expire
<1>10. \E p0, q0 \in Players : TradeCommit(p0, q0)
  BY <1>2, <1>4, <1>5, <1>6, <1>7, <1>8, <1>9 DEF TradeNext
<1>11. QED
  BY <1>10, CommitAgreed

(* A trade moves exactly the two offers that one of the players confirmed  *)
(* while both stood as they are: no offer changes under a confirmation     *)
(* (updateTradeOffer, commitTrade).                                      *)
THEOREM OnlyAgreedHolds == TradeSpec => OnlyAgreed
<1>1. IInv /\ IInv' /\ [TradeNext]_tradeVars =>
        [\A p, q \in Players : Passed(q, p) => AsAgreed(p, q)]_ram
  BY NextAgreed DEF tradeVars
<1>2. [][\A p, q \in Players : Passed(q, p) => AsAgreed(p, q)]_ram => OnlyAgreed
  BY DEF OnlyAgreed, AsAgreed
<1>3. QED
  BY <1>1, <1>2, SpecIInv, PTL DEF TradeSpec

-----------------------------------------------------------------------------
(* Inventories have room for what they hold.                               *)

Fits(S) == IsFiniteSet(S) /\ Cardinality(S) <= Capacity

Bounded ==
  /\ \A p \in Players : Fits(inv[p]) /\ Fits(stored[p])
  /\ gone \in SUBSET Items /\ cashed \in SUBSET Coins /\ doubts \in 0..MaxDoubts

LEMMA SmallerFits == ASSUME NEW S, Fits(S), NEW T \in SUBSET S PROVE Fits(T)
<1>1. IsFiniteSet(T) /\ Cardinality(T) <= Cardinality(S)
  BY FS_Subset DEF Fits
<1>2. Cardinality(T) \in Nat /\ Cardinality(S) \in Nat
  BY <1>1, FS_CardinalityType DEF Fits
<1>3. QED
  BY <1>1, <1>2, TradeAssumption DEF Fits

(* A save of what fits leaves what fits in the store.                      *)
LEMMA SaveFits ==
  ASSUME Shape, Bounded, NEW P \in SUBSET Players, NEW i \in [Players -> SUBSET Items],
         NEW g, \A p \in P : Fits(i[p]),
         Saved(P, i, g) \/ SaveFails(P, i, g) \/ UNCHANGED <<store, doubts>>
  PROVE  (\A p \in Players : Fits(stored'[p])) /\ doubts' \in 0..MaxDoubts
<1>1. doubts' \in 0..MaxDoubts
  BY TradeAssumption DEF Bounded, Saved, SaveFails
<1>2. CASE Write(P, i, g)
  BY <1>1, <1>2 DEF Write, Bounded
<1>3. CASE UNCHANGED store
  BY <1>1, <1>3 DEF store, Bounded
<1>4. QED
  BY <1>2, <1>3 DEF Saved, SaveFails, store

(* So does a save of what a player has.                                    *)
LEMMA SaveOwnFits ==
  ASSUME IInv, Bounded, NEW p \in Players, NEW g,
         Saved({p}, inv, g) \/ SaveFails({p}, inv, g) \/ UNCHANGED <<store, doubts>>
  PROVE  (\A r \in Players : Fits(stored'[r])) /\ doubts' \in 0..MaxDoubts
<1>1. Shape /\ {p} \in SUBSET Players /\ inv \in [Players -> SUBSET Items]
  BY DEF IInv, Shape
<1>2. \A r \in {p} : Fits(inv[r])
  BY DEF Bounded
<1>3. QED
  BY <1>1, <1>2, SaveFits

LEMMA EmptyFits == Fits({})
BY FS_EmptySet, TradeAssumption DEF Fits

LEMMA OneMoreFits ==
  ASSUME NEW S, Fits(S), Cardinality(S) < Capacity, NEW x, x \notin S
  PROVE  Fits(S \union {x})
<1>1. IsFiniteSet(S \union {x}) /\ Cardinality(S \union {x}) = Cardinality(S) + 1
  BY FS_AddElement DEF Fits
<1>2. Cardinality(S) \in Nat
  BY FS_CardinalityType DEF Fits
<1>3. QED
  BY <1>1, <1>2, TradeAssumption DEF Fits

LEMMA CommitFits ==
  ASSUME IInv, Bounded, NEW p \in Players, NEW q \in Players, TradeCommit(p, q)
  PROVE  Bounded'
<1> DEFINE i == [inv EXCEPT ![p] = TradedItems(p, q), ![q] = TradedItems(q, p)]
           g == [gold EXCEPT ![p] = TradedGold(p, q), ![q] = TradedGold(q, p)]
<1>1. Together(p, q) /\ UNCHANGED past
  BY DEF TradeCommit
<1>2. CASE Acceptable(p, q) /\ Acceptable(q, p)
  <2>1. /\ TradedItems(p, q) \in SUBSET Items /\ TradedItems(q, p) \in SUBSET Items
        /\ p # q
    BY <1>1, <1>2, Computed, TogetherPair
  <2>2. ASSUME NEW r \in Players, NEW s \in Players, Together(p, q),
               r \in {p, q}, s \in {p, q}, r # s, Acceptable(r, s), Acceptable(s, r)
        PROVE  Fits(TradedItems(r, s))
    <3>1. /\ IsFiniteSet(inv[r]) /\ IsFiniteSet(inv[s])
      BY DEF Bounded, Fits
    <3>2. TradedItems(r, s) \subseteq inv[r] \union inv[s]
      BY <2>2 DEF TradedItems, Acceptable, Covered
    <3>3. IsFiniteSet(inv[r] \union inv[s])
      BY <3>1, FS_Union
    <3>4. QED
      BY <2>2, <3>2, <3>3, FS_Subset DEF Fits, Acceptable
  <2>3. Fits(TradedItems(p, q)) /\ Fits(TradedItems(q, p))
    BY <1>1, <1>2, <2>1, <2>2
  <2>4. i \in [Players -> SUBSET Items]
    BY <2>1 DEF IInv, Shape
  <2>5. \A r \in Players : Fits(i[r])
    BY <2>1, <2>3 DEF IInv, Shape, Bounded
  <2>6. \/ Saved({p, q}, i, g) /\ inv' = i /\ gold' = g
        \/ SaveFails({p, q}, i, g) /\ UNCHANGED ram
    BY <1>2 DEF TradeCommit
  <2> HIDE DEF i, g
  <2>7. (\A r \in Players : Fits(stored'[r])) /\ doubts' \in 0..MaxDoubts
    BY <2>4, <2>5, <2>6, SaveFits DEF IInv
  <2>8. QED
    BY <1>1, <2>5, <2>6, <2>7 DEF Bounded, ram, past
<1>3. CASE ~ (Acceptable(p, q) /\ Acceptable(q, p))
  BY <1>1, <1>3 DEF TradeCommit, Bounded, ram, store, past
<1>4. QED
  BY <1>2, <1>3

LEMMA BoundedStep ==
  ASSUME IInv, Bounded, [TradeNext]_tradeVars
  PROVE  Bounded'
<1>1. ASSUME NEW p \in Players, Join(p) PROVE Bounded'
  BY <1>1 DEF Join, Bounded, store, past, IInv, Shape
<1>2. ASSUME NEW p \in Players, Leave(p) PROVE Bounded'
  <2>1. (\A r \in Players : Fits(stored'[r])) /\ doubts' \in 0..MaxDoubts
    <3>1. Saved({p}, inv, gold) \/ UNCHANGED <<store, doubts>>
      BY <1>2 DEF Leave, SaveOrNot
    <3>2. QED
      BY <3>1, SaveOwnFits
  <2>2. QED
    BY <1>2, <2>1, EmptyFits DEF Leave, Bounded, past, IInv, Shape
<1>3. ASSUME NEW p \in Players, AutoSave(p) PROVE Bounded'
  <2>1. (\A r \in Players : Fits(stored'[r])) /\ doubts' \in 0..MaxDoubts
    <3>1. Saved({p}, inv, gold) \/ UNCHANGED <<store, doubts>>
      BY <1>3 DEF AutoSave, SaveOrNot
    <3>2. QED
      BY <3>1, SaveOwnFits
  <2>2. QED
    BY <1>3, <2>1 DEF AutoSave, Bounded, ram, past
<1>4. ASSUME NEW p \in Players, NEW x \in Items, Drop(p, x) PROVE Bounded'
  <2> DEFINE i == [inv EXCEPT ![p] = @ \ {x}]
  <2>1. i \in [Players -> SUBSET Items] /\ \A r \in Players : i[r] \in SUBSET inv[r]
    BY DEF IInv, Shape
  <2>2. \A r \in Players : Fits(i[r])
    BY <2>1, SmallerFits DEF Bounded
  <2>3. \/ Saved({p}, i, gold) /\ inv' = i
        \/ SaveFails({p}, i, gold) /\ UNCHANGED inv
    BY <1>4 DEF Drop
  <2> HIDE DEF i
  <2>4. (\A r \in Players : Fits(stored'[r])) /\ doubts' \in 0..MaxDoubts
    BY <2>1, <2>2, <2>3, SaveFits DEF IInv
  <2>5. QED
    BY <1>4, <2>2, <2>3, <2>4 DEF Drop, Bounded, past
<1>5. ASSUME NEW p \in Players, NEW x \in Items, PickUp(p, x) PROVE Bounded'
  <2> DEFINE i == [inv EXCEPT ![p] = @ \union {x}]
  <2>1. /\ i \in [Players -> SUBSET Items] /\ i[p] = inv[p] \union {x}
        /\ \A r \in Players : r # p => i[r] = inv[r]
    BY DEF IInv, Shape
  <2>2. Fits(inv[p] \union {x})
    BY <1>5, OneMoreFits DEF PickUp, Bounded, past
  <2>3. \A r \in Players : Fits(i[r])
    BY <2>1, <2>2 DEF Bounded
  <2>4. \/ Saved({p}, i, gold) /\ inv' = i
        \/ SaveFails({p}, i, gold) /\ UNCHANGED inv
    BY <1>5 DEF PickUp
  <2> HIDE DEF i
  <2>5. (\A r \in Players : Fits(stored'[r])) /\ doubts' \in 0..MaxDoubts
    BY <2>1, <2>3, <2>4, SaveFits DEF IInv
  <2>6. QED
    BY <1>5, <2>3, <2>4, <2>5 DEF PickUp, Bounded, past
<1>6. ASSUME NEW x \in Items, Expire(x) PROVE Bounded'
  BY <1>6 DEF Expire, Bounded, ram, store
<1>7. CASE TradeCrash
  BY <1>7, EmptyFits DEF TradeCrash, Bounded, store, IInv, Shape
<1>8. CASE UNCHANGED <<ram, store, past, doubts>>
  BY <1>8 DEF Bounded, ram, store, past
<1>9. CASE UNCHANGED tradeVars
  BY <1>8, <1>9 DEF tradeVars
<1>10. ASSUME NEW p \in Players, NEW x \in Items, CashIn(p, x) PROVE Bounded'
  <2> DEFINE g == [gold EXCEPT ![p] = @ + Worth[x]]
  <2>1. Saved({p}, inv, g) \/ SaveFails({p}, inv, g)
    BY <1>10 DEF CashIn
  <2> HIDE DEF g
  <2>2. (\A r \in Players : Fits(stored'[r])) /\ doubts' \in 0..MaxDoubts
    BY <2>1, SaveOwnFits
  <2>3. cashed' \in SUBSET Coins /\ UNCHANGED <<inv, gone>>
    BY <1>10 DEF CashIn, Bounded
  <2>4. QED
    BY <2>2, <2>3 DEF Bounded
<1>11. QED
  BY <1>1, <1>2, <1>3, <1>4, <1>5, <1>6, <1>7, <1>8, <1>9, <1>10, CommitFits
     DEF TradeNext, Interrupt, InviteOrAccept, Check, Offer

(* The types of Trade; in particular no inventory ever holds more than it  *)
(* has slots, in memory or in the store (buildTradeInventory, onGetItem).  *)
THEOREM TypeCorrect == TradeSpec => []TradeTypeOK
<1>1. TradeInit => Bounded
  BY EmptyFits, TradeAssumption DEF TradeInit, Bounded, Fits
<1>2. IInv /\ Bounded /\ [TradeNext]_tradeVars => Bounded'
  BY BoundedStep
<1>3. IInv /\ Bounded => TradeTypeOK
  BY DEF IInv, Shape, Bounded, Fits, TradeTypeOK
<1>4. QED
  BY <1>1, <1>2, <1>3, SpecIInv, PTL DEF TradeSpec

-----------------------------------------------------------------------------
(* Items are conserved while no save was stored that reported an error.    *)

First(x) == \E p \in Players : x \in FirstItems[p]
Held(x)  == \E p \in Players : x \in stored[p]

LEMMA HeldIsStored ==
  ASSUME Shape, NEW x \in Items
  PROVE  /\ x \in UNION Range(stored) <=> Held(x)
         /\ x \in UNION Range(FirstItems) <=> First(x)
BY TradeAssumption DEF Shape, Range, Held, First

(* Where an item can be when nobody has it.                                *)
Away == ground \union gone \union cashed

(* What is on the ground came from somebody and has not been lost or       *)
(* turned into gold yet.                                                   *)
Accounted ==
  /\ \A x \in Items : First(x) /\ x \notin Away <=> Held(x)
  /\ MemoryIsStored
  /\ \A x \in ground : First(x) /\ x \notin gone \union cashed

Kept == doubts = 0 => Accounted

(* A save that leaves no doubt stores what it was given, or nothing.       *)
LEMMA SureSave ==
  ASSUME Bounded, doubts' = 0, NEW P, NEW i, NEW g,
         Saved(P, i, g) \/ SaveFails(P, i, g) \/ UNCHANGED <<store, doubts>>
  PROVE  /\ doubts = 0
         /\ Saved(P, i, g) \/ UNCHANGED store
         /\ SaveFails(P, i, g) => UNCHANGED store
<1>1. doubts \in Nat
  BY TradeAssumption DEF Bounded
<1>2. QED
  BY <1>1 DEF Saved, SaveFails

LEMMA SavedAs ==
  ASSUME Shape, NEW P \in SUBSET Players, NEW i, NEW g, Saved(P, i, g)
  PROVE  /\ \A p \in P : stored'[p] = i[p] /\ storedGold'[p] = g[p]
         /\ \A p \in Players \ P : stored'[p] = stored[p] /\ storedGold'[p] = storedGold[p]
BY DEF Saved, Write, Shape

(* What a save of the memory as it is stores is stored already.            *)
LEMMA SaveChangesNothing ==
  ASSUME Shape, Bounded, doubts' = 0, Kept, NEW p \in Online, SaveOrNot(p)
  PROVE  doubts = 0 /\ UNCHANGED store
<1>1. doubts = 0
  BY SureSave DEF SaveOrNot
<1>2. CASE Saved({p}, inv, gold)
  <2>1. p \in Players /\ inv[p] = stored[p] /\ gold[p] = storedGold[p]
    BY <1>1 DEF Kept, Accounted, MemoryIsStored, Online
  <2>2. \A q \in Players : (IF q \in {p} THEN inv[q] ELSE stored[q]) = stored[q]
    BY <2>1
  <2>3. \A q \in Players : (IF q \in {p} THEN gold[q] ELSE storedGold[q]) = storedGold[q]
    BY <2>1
  <2>4. stored' = [q \in Players |-> stored[q]] /\ storedGold' = [q \in Players |-> storedGold[q]]
    BY <1>2, <2>2, <2>3 DEF Saved, Write
  <2>5. QED
    BY <1>1, <2>4 DEF Shape, store
<1>3. QED
  BY <1>1, <1>2 DEF SaveOrNot

LEMMA CommitKept ==
  ASSUME IInv, Bounded, Accounted, NEW p \in Players, NEW q \in Players, TradeCommit(p, q),
         doubts' = 0
  PROVE  Accounted'
<1> DEFINE i == [inv EXCEPT ![p] = TradedItems(p, q), ![q] = TradedItems(q, p)]
           g == [gold EXCEPT ![p] = TradedGold(p, q), ![q] = TradedGold(q, p)]
<1>1. Together(p, q) /\ UNCHANGED <<id, ground, past>>
  BY DEF TradeCommit
<1>2. p # q /\ p \in Online /\ q \in Online
  BY <1>1, TogetherPair
<1>3. ASSUME Acceptable(p, q), Acceptable(q, p), Saved({p, q}, i, g), inv' = i, gold' = g
      PROVE  Accounted'
  <2>1. /\ i[p] = TradedItems(p, q) /\ i[q] = TradedItems(q, p)
        /\ \A r \in Players \ {p, q} : i[r] = inv[r] /\ g[r] = gold[r]
    BY <1>2 DEF IInv, Shape
  <2>2. /\ \A r \in {p, q} : stored'[r] = inv'[r] /\ storedGold'[r] = gold'[r]
        /\ \A r \in Players \ {p, q} : stored'[r] = stored[r] /\ storedGold'[r] = storedGold[r]
    <3> HIDE DEF i, g
    <3>1. /\ \A r \in {p, q} : stored'[r] = i[r] /\ storedGold'[r] = g[r]
          /\ \A r \in Players \ {p, q} : stored'[r] = stored[r] /\ storedGold'[r] = storedGold[r]
      <4>1. {p, q} \in SUBSET Players /\ Shape
        BY DEF IInv
      <4>2. QED
        BY <1>3, <4>1, SavedAs
    <3>2. QED
      BY <1>3, <3>1
  <2>3. stored'[p] = TradedItems(p, q) /\ stored'[q] = TradedItems(q, p)
    BY <1>3, <2>1, <2>2
  <2>4. /\ inv[p] = stored[p] /\ inv[q] = stored[q]
        /\ trade[p].offer.items \subseteq stored[p]
        /\ trade[q].offer.items \subseteq stored[q]
    BY <1>2, <1>3 DEF Accounted, MemoryIsStored, Acceptable, Covered
  <2>5. \A x : x \in stored'[p] \/ x \in stored'[q] <=> x \in stored[p] \/ x \in stored[q]
    BY <2>3, <2>4 DEF TradedItems
  <2>6. \A x : Held(x)' <=> Held(x)
    BY <2>2, <2>5 DEF Held
  <2>7. MemoryIsStored'
    <3>1. \A r \in Players \ {p, q} : inv'[r] = inv[r] /\ gold'[r] = gold[r]
      BY <1>3, <2>1
    <3>2. QED
      BY <1>1, <2>2, <3>1 DEF MemoryIsStored, Accounted, Online
  <2>8. QED
    BY <1>1, <2>6, <2>7 DEF Accounted, Away, past
<1>4. ASSUME UNCHANGED <<ram, store>> PROVE Accounted'
  BY <1>1, <1>4 DEF Accounted, Away, past, MemoryIsStored, Held, Online, ram, store
<1>5. \/ Acceptable(p, q) /\ Acceptable(q, p) /\ Saved({p, q}, i, g) /\ inv' = i /\ gold' = g
      \/ SaveFails({p, q}, i, g) /\ UNCHANGED ram
      \/ UNCHANGED <<ram, store>>
  BY DEF TradeCommit
<1> HIDE DEF i, g
<1>6. SaveFails({p, q}, i, g) => UNCHANGED store
  BY SureSave
<1>7. QED
  BY <1>3, <1>4, <1>5, <1>6

LEMMA DropKept ==
  ASSUME IInv, Bounded, Accounted, NEW p \in Players, NEW x \in Items, Drop(p, x),
         doubts' = 0
  PROVE  Accounted'
<1> DEFINE i == [inv EXCEPT ![p] = @ \ {x}]
<1>1. /\ p \in Online /\ x \in inv[p] /\ inv[p] = stored[p] /\ UNCHANGED <<id, gold, past>>
  BY DEF Drop, Online, Accounted, MemoryIsStored
<1>2. /\ x \in stored[p] /\ First(x) /\ x \notin Away
      /\ \A r \in Players \ {p} : x \notin stored[r]
  BY <1>1 DEF Accounted, Away, Held, IInv, NoDuplicateStored
<1>3. ASSUME Saved({p}, i, gold), inv' = i, ground' = ground \union {x}
      PROVE  Accounted'
  <2>1. i[p] = inv[p] \ {x} /\ \A r \in Players \ {p} : i[r] = inv[r]
    BY DEF IInv, Shape
  <2>2. /\ stored'[p] = i[p] /\ storedGold'[p] = gold[p]
        /\ \A r \in Players \ {p} : stored'[r] = stored[r] /\ storedGold'[r] = storedGold[r]
    <3> HIDE DEF i
    <3>1. QED
      BY <1>3, SavedAs DEF IInv
  <2>3. ~ Held(x)' /\ \A y \in Items : y # x => (Held(y)' <=> Held(y))
    BY <1>1, <1>2, <2>1, <2>2 DEF Held
  <2>4. MemoryIsStored'
    BY <1>1, <1>3, <2>1, <2>2 DEF MemoryIsStored, Accounted, Online
  <2>5. \A y \in Items : First(y) /\ y \notin Away' <=> Held(y)'
    BY <1>1, <1>2, <1>3, <2>3 DEF Accounted, Away, past
  <2>6. \A y \in ground' : First(y) /\ y \notin (gone \union cashed)'
    BY <1>1, <1>2, <1>3 DEF Accounted, Away, past
  <2>7. QED
    BY <2>4, <2>5, <2>6 DEF Accounted, First
<1>4. \/ Saved({p}, i, gold) /\ inv' = i /\ ground' = ground \union {x}
      \/ SaveFails({p}, i, gold) /\ UNCHANGED <<inv, ground>>
  BY DEF Drop
<1> HIDE DEF i
<1>5. SaveFails({p}, i, gold) => UNCHANGED store
  BY SureSave
<1>6. ASSUME UNCHANGED <<inv, ground, store>> PROVE Accounted'
  BY <1>1, <1>6 DEF Accounted, Away, past, MemoryIsStored, Held, Online, store
<1>7. QED
  BY <1>3, <1>4, <1>5, <1>6

LEMMA PickUpKept ==
  ASSUME IInv, Bounded, Accounted, NEW p \in Players, NEW x \in Items, PickUp(p, x),
         doubts' = 0
  PROVE  Accounted'
<1> DEFINE i == [inv EXCEPT ![p] = @ \union {x}]
<1>1. /\ p \in Online /\ x \in ground /\ inv[p] = stored[p] /\ UNCHANGED <<id, gold, past>>
  BY DEF PickUp, Online, Accounted, MemoryIsStored
<1>2. First(x) /\ x \notin gone \union cashed
  BY <1>1 DEF Accounted
<1>3. ASSUME Saved({p}, i, gold), inv' = i, ground' = ground \ {x}
      PROVE  Accounted'
  <2>1. i[p] = inv[p] \union {x} /\ \A r \in Players \ {p} : i[r] = inv[r]
    BY DEF IInv, Shape
  <2>2. /\ stored'[p] = i[p] /\ storedGold'[p] = gold[p]
        /\ \A r \in Players \ {p} : stored'[r] = stored[r] /\ storedGold'[r] = storedGold[r]
    <3> HIDE DEF i
    <3>1. QED
      BY <1>3, SavedAs DEF IInv
  <2>3. Held(x)' /\ \A y \in Items : y # x => (Held(y)' <=> Held(y))
    BY <1>1, <2>1, <2>2 DEF Held
  <2>4. MemoryIsStored'
    BY <1>1, <1>3, <2>1, <2>2 DEF MemoryIsStored, Accounted, Online
  <2>5. \A y \in Items : First(y) /\ y \notin Away' <=> Held(y)'
    BY <1>1, <1>2, <1>3, <2>3 DEF Accounted, Away, past
  <2>6. \A y \in ground' : First(y) /\ y \notin (gone \union cashed)'
    BY <1>1, <1>3 DEF Accounted, Away, past
  <2>7. QED
    BY <2>4, <2>5, <2>6 DEF Accounted, First
<1>4. \/ Saved({p}, i, gold) /\ inv' = i /\ ground' = ground \ {x}
      \/ SaveFails({p}, i, gold) /\ UNCHANGED <<inv, ground>>
  BY DEF PickUp
<1> HIDE DEF i
<1>5. SaveFails({p}, i, gold) => UNCHANGED store
  BY SureSave
<1>6. ASSUME UNCHANGED <<inv, ground, store>> PROVE Accounted'
  BY <1>1, <1>6 DEF Accounted, Away, past, MemoryIsStored, Held, Online, store
<1>7. QED
  BY <1>3, <1>4, <1>5, <1>6

LEMMA CashInKept ==
  ASSUME IInv, Bounded, Accounted, NEW p \in Players, NEW x \in Items, CashIn(p, x),
         doubts' = 0
  PROVE  Accounted'
<1> DEFINE g == [gold EXCEPT ![p] = @ + Worth[x]]
<1>1. /\ p \in Online /\ x \in ground /\ inv[p] = stored[p] /\ UNCHANGED <<id, inv, gone>>
  BY DEF CashIn, Online, Accounted, MemoryIsStored
<1>2. First(x) /\ x \notin gone \union cashed
  BY <1>1 DEF Accounted
<1>3. ASSUME Saved({p}, inv, g), gold' = g, ground' = ground \ {x}, cashed' = cashed \union {x}
      PROVE  Accounted'
  <2>1. \A r \in Players \ {p} : g[r] = gold[r]
    BY DEF IInv, Shape
  <2>2. /\ stored'[p] = inv[p] /\ storedGold'[p] = g[p]
        /\ \A r \in Players \ {p} : stored'[r] = stored[r] /\ storedGold'[r] = storedGold[r]
    <3> HIDE DEF g
    <3>1. QED
      BY <1>3, SavedAs DEF IInv
  <2>3. \A y \in Items : Held(y)' <=> Held(y)
    BY <1>1, <2>2 DEF Held
  <2>4. MemoryIsStored'
    BY <1>1, <1>3, <2>1, <2>2 DEF MemoryIsStored, Accounted, Online
  <2>5. Away' = Away
    BY <1>1, <1>3 DEF Away
  <2>6. \A y \in ground' : First(y) /\ y \notin (gone \union cashed)'
    BY <1>1, <1>3 DEF Accounted
  <2>7. QED
    BY <2>3, <2>4, <2>5, <2>6 DEF Accounted, First
<1>4. \/ /\ Saved({p}, inv, g) /\ gold' = g
         /\ ground' = ground \ {x} /\ cashed' = cashed \union {x}
      \/ SaveFails({p}, inv, g) /\ UNCHANGED <<gold, ground, cashed>>
  BY DEF CashIn
<1> HIDE DEF g
<1>5. SaveFails({p}, inv, g) => UNCHANGED store
  BY SureSave
<1>6. ASSUME UNCHANGED <<gold, ground, cashed, store>> PROVE Accounted'
  BY <1>1, <1>6 DEF Accounted, Away, MemoryIsStored, Held, Online, store
<1>7. QED
  BY <1>3, <1>4, <1>5, <1>6

(* No action makes a doubt go away.                                        *)
LEMMA DoubtsStay ==
  ASSUME Bounded, [TradeNext]_tradeVars, doubts' = 0
  PROVE  doubts = 0
<1>1. doubts \in Nat
  BY TradeAssumption DEF Bounded
<1> DEFINE Grows == doubts' = doubts \/ doubts' = doubts + 1
<1>2. ASSUME NEW p \in Players, Leave(p) \/ AutoSave(p) PROVE Grows
  BY <1>2 DEF Leave, AutoSave, SaveOrNot, Saved
<1>3. ASSUME NEW p \in Players, NEW x \in Items, Drop(p, x) \/ PickUp(p, x) \/ CashIn(p, x)
      PROVE  Grows
  BY <1>3 DEF Drop, PickUp, CashIn, Saved, SaveFails
<1>4. ASSUME NEW p \in Players, NEW q \in Players, TradeCommit(p, q) PROVE Grows
  BY <1>4 DEF TradeCommit, Saved, SaveFails
<1>5. UNCHANGED doubts => Grows
  OBVIOUS
<1> HIDE DEF Grows
<1>6. ASSUME NEW p \in Players, Join(p) \/ Interrupt(p) PROVE Grows
  BY <1>5, <1>6 DEF Join, Interrupt
<1>7. ASSUME NEW p \in Players, NEW q \in Players, NEW o,
             InviteOrAccept(p, q) \/ Check(p, q) \/ Offer(p, q, o)
      PROVE  Grows
  BY <1>5, <1>7 DEF InviteOrAccept, Check, Offer
<1>8. ASSUME NEW x, Expire(x) PROVE Grows
  BY <1>5, <1>8 DEF Expire
<1>9. TradeCrash \/ UNCHANGED tradeVars => Grows
  BY <1>5 DEF TradeCrash, tradeVars
<1>10. Grows
  BY <1>2, <1>3, <1>4, <1>6, <1>7, <1>8, <1>9 DEF TradeNext
<1>11. QED
  BY <1>1, <1>10 DEF Grows

LEMMA KeptStep ==
  ASSUME IInv, Bounded, Kept, [TradeNext]_tradeVars
  PROVE  Kept'
<1> SUFFICES ASSUME doubts' = 0 PROVE Accounted'
  BY DEF Kept
<1>1. doubts = 0 /\ Accounted
  BY DoubtsStay DEF Kept
<1>2. ASSUME NEW p \in Players, Join(p) PROVE Accounted'
  <2>1. inv'[p] = stored[p] /\ gold'[p] = storedGold[p]
    BY <1>2 DEF Join, IInv, Shape
  <2>2. \A r \in Players \ {p} : inv'[r] = inv[r] /\ gold'[r] = gold[r] /\ id'[r] = id[r]
    BY <1>2 DEF Join, IInv, Shape
  <2>3. QED
    BY <1>1, <1>2, <2>1, <2>2 DEF Join, Accounted, Away, past, MemoryIsStored, Held, Online, store
<1>3. ASSUME NEW p \in Players, Leave(p) PROVE Accounted'
  <2>1. UNCHANGED store
    BY <1>1, <1>3, SaveChangesNothing DEF Leave, IInv, Online
  <2>2. /\ id'[p] = 0
        /\ \A r \in Players \ {p} : inv'[r] = inv[r] /\ gold'[r] = gold[r] /\ id'[r] = id[r]
    BY <1>3 DEF Leave, IInv, Shape
  <2>3. QED
    BY <1>1, <1>3, <2>1, <2>2 DEF Leave, Accounted, Away, past, MemoryIsStored, Held, Online, store
<1>4. ASSUME NEW p \in Players, AutoSave(p) PROVE Accounted'
  <2>1. UNCHANGED store
    BY <1>1, <1>4, SaveChangesNothing DEF AutoSave, IInv, Online
  <2>2. QED
    BY <1>1, <1>4, <2>1 DEF AutoSave, Accounted, Away, past, MemoryIsStored, Held, Online, store, ram
<1>5. ASSUME NEW x \in Items, Expire(x) PROVE Accounted'
  BY <1>1, <1>5 DEF Expire, Accounted, Away, MemoryIsStored, Held, First, Online, store, ram
<1>6. CASE TradeCrash
  <2>1. MemoryIsStored'
    BY <1>6 DEF TradeCrash, MemoryIsStored, Online
  <2>2. QED
    BY <1>1, <1>6, <2>1 DEF TradeCrash, Accounted, Away, Held, First, store
<1>7. ASSUME UNCHANGED <<id, ram, ground, store, past>> PROVE Accounted'
  BY <1>1, <1>7 DEF Accounted, Away, past, MemoryIsStored, Held, Online, store, ram
<1>8. QED
  BY <1>1, <1>2, <1>3, <1>4, <1>5, <1>6, <1>7, CommitKept, DropKept, PickUpKept, CashInKept
     DEF TradeNext, Interrupt, InviteOrAccept, Check, Offer, tradeVars

(* While no save was stored that reported an error, every item that was    *)
(* there at first is stored for somebody, lies on the ground, was lost     *)
(* there or became gold, nothing else is stored, and whoever is in the     *)
(* world has what is stored for it.                                        *)
THEOREM ItemsAreConserved ==
  TradeSpec => [](doubts = 0 => ItemsConserved /\ MemoryIsStored)
<1>1. TradeInit => Bounded /\ Kept
  <2> SUFFICES ASSUME TradeInit PROVE Bounded /\ Kept
    OBVIOUS
  <2>1. Bounded
    BY EmptyFits, TradeAssumption DEF TradeInit, Bounded, Fits
  <2>2. Accounted
    BY TradeAssumption DEF TradeInit, Accounted, Away, MemoryIsStored, Held, First, Online
  <2>3. QED
    BY <2>1, <2>2 DEF Kept
<1>2. IInv /\ Bounded /\ Kept /\ [TradeNext]_tradeVars => Bounded' /\ Kept'
  BY BoundedStep, KeptStep
<1>3. IInv /\ Kept => (doubts = 0 => ItemsConserved /\ MemoryIsStored)
  <2> SUFFICES ASSUME IInv, Accounted PROVE ItemsConserved /\ MemoryIsStored
    BY DEF Kept
  <2>1. ASSUME NEW x \in Items
        PROVE  x \in (UNION Range(FirstItems)) \ (ground \union gone \union cashed)
                 <=> x \in UNION Range(stored)
    <3>1. /\ x \in UNION Range(stored) <=> Held(x)
          /\ x \in UNION Range(FirstItems) <=> First(x)
      BY HeldIsStored DEF IInv
    <3>2. First(x) /\ x \notin Away <=> Held(x)
      BY DEF Accounted
    <3>3. QED
      BY <3>1, <3>2 DEF Away
  <2>2. QED
    BY <2>1 DEF ItemsConserved, Accounted
<1>4. QED
  BY <1>1, <1>2, <1>3, SpecIInv, PTL DEF TradeSpec

-----------------------------------------------------------------------------
(* The gold of all players together, and that of the coins.  SumFunction   *)
(* adds up the elements of a set in an order nobody fixes; what follows is *)
(* induction over the size of a subset.                                    *)

(* The element of a set that is added first.                               *)
FirstOf(P) == CHOOSE x \in P : TRUE

Sums(S, g) ==
  CHOOSE s : s = [P \in SUBSET S |->
                    IF P = {} THEN 0 ELSE g[FirstOf(P)] + s[P \ {FirstOf(P)}]]

SumOf(S, g, P) == Sums(S, g)[P]

LEMMA SumIs ==
  ASSUME NEW S, IsFiniteSet(S), NEW g, DOMAIN g = S
  PROVE  SumFunction(g) = SumOf(S, g, S)
BY Zenon DEF SumFunction, SumFunctionOnSet, FoldFunctionOnSet, MapThenFoldSet,
             SumOf, Sums, FirstOf

Upto(S, n) == {P \in SUBSET S : Cardinality(P) <= n}

SumsUpto(S, g, n, s) ==
  s = [P \in Upto(S, n) |-> IF P = {} THEN 0 ELSE g[FirstOf(P)] + s[P \ {FirstOf(P)}]]

LEMMA SubsetCard ==
  ASSUME NEW S, IsFiniteSet(S), NEW P \in SUBSET S
  PROVE  /\ IsFiniteSet(P) /\ Cardinality(P) \in Nat
         /\ P # {} => /\ FirstOf(P) \in P
                      /\ P \ {FirstOf(P)} \in SUBSET S
                      /\ Cardinality(P \ {FirstOf(P)}) = Cardinality(P) - 1
                      /\ Cardinality(P) # 0
         /\ Cardinality(P) <= Cardinality(S)
<1>1. IsFiniteSet(P) /\ Cardinality(P) <= Cardinality(S)
  BY FS_Subset
<1>2. Cardinality(P) \in Nat
  BY <1>1, FS_CardinalityType
<1>3. ASSUME P # {}
      PROVE  /\ FirstOf(P) \in P /\ P \ {FirstOf(P)} \in SUBSET S
             /\ Cardinality(P \ {FirstOf(P)}) = Cardinality(P) - 1
             /\ Cardinality(P) # 0
  <2>1. FirstOf(P) \in P
    BY <1>3 DEF FirstOf
  <2>2. Cardinality(P \ {FirstOf(P)}) = Cardinality(P) - 1
    BY <1>1, <2>1, FS_RemoveElement
  <2>3. Cardinality(P) # 0
    BY <1>1, <1>3, FS_EmptySet
  <2>4. QED
    BY <2>1, <2>2, <2>3
<1>4. QED
  BY <1>1, <1>2, <1>3

LEMMA SumsUptoExist ==
  ASSUME NEW S, IsFiniteSet(S), NEW g, NEW n \in Nat
  PROVE  \E s : SumsUpto(S, g, n, s)
<1> DEFINE Bad == {m \in Nat : ~ \E s : SumsUpto(S, g, m, s)}
<1>1. SUFFICES ASSUME Bad # {} PROVE FALSE
  OBVIOUS
<1>2. PICK m \in Bad : \A k \in Bad : m <= k
  <2>1. Bad \subseteq Nat
    OBVIOUS
  <2>2. QED
    BY <1>1, <2>1, Least
<1>3. CASE m = 0
  <2>1. ASSUME NEW P \in Upto(S, 0) PROVE P = {}
    <3>1. P \in SUBSET S /\ Cardinality(P) <= 0
      BY DEF Upto
    <3>2. IsFiniteSet(P) /\ Cardinality(P) \in Nat
      BY <3>1, SubsetCard
    <3>3. Cardinality(P) = 0
      BY <3>1, <3>2
    <3>4. QED
      BY <3>2, <3>3, FS_EmptySet
  <2>2. [P \in Upto(S, 0) |-> 0] = [P \in Upto(S, 0) |-> IF P = {} THEN 0
          ELSE g[FirstOf(P)] + [Q \in Upto(S, 0) |-> 0][P \ {FirstOf(P)}]]
    BY <2>1
  <2>3. SumsUpto(S, g, 0, [P \in Upto(S, 0) |-> 0])
    BY <2>2 DEF SumsUpto
  <2>4. QED
    BY <1>3, <2>3
<1>4. CASE m # 0
  <2>1. m - 1 \in Nat /\ m - 1 \notin Bad
    BY <1>2, <1>4
  <2>2. PICK s : SumsUpto(S, g, m - 1, s)
    BY <2>1
  <2>3. DEFINE t == [P \in Upto(S, m) |-> IF P = {} THEN 0 ELSE g[FirstOf(P)] + s[P \ {FirstOf(P)}]]
  <2>4. ASSUME NEW P \in Upto(S, m), P # {}
        PROVE  t[P \ {FirstOf(P)}] = s[P \ {FirstOf(P)}]
    <3>1. P \ {FirstOf(P)} \in Upto(S, m - 1) /\ P \ {FirstOf(P)} \in Upto(S, m)
      BY <2>4, SubsetCard DEF Upto
    <3>2. QED
      BY <2>2, <3>1 DEF SumsUpto
  <2>5. t = [P \in Upto(S, m) |-> IF P = {} THEN 0 ELSE g[FirstOf(P)] + t[P \ {FirstOf(P)}]]
    <3> HIDE DEF t
    <3>1. t = [P \in Upto(S, m) |-> IF P = {} THEN 0 ELSE g[FirstOf(P)] + s[P \ {FirstOf(P)}]]
      BY DEF t
    <3>2. QED
      BY <3>1, <2>4
  <2>6. SumsUpto(S, g, m, t)
    BY <2>5 DEF SumsUpto
  <2>7. QED
    BY <2>6
<1>5. QED
  BY <1>3, <1>4

LEMMA SumRec ==
  ASSUME NEW S, IsFiniteSet(S), NEW g, NEW P \in SUBSET S
  PROVE  SumOf(S, g, P) = IF P = {} THEN 0 ELSE g[FirstOf(P)] + SumOf(S, g, P \ {FirstOf(P)})
<1>1. Cardinality(S) \in Nat
  BY FS_CardinalityType
<1>2. Upto(S, Cardinality(S)) = SUBSET S
  BY SubsetCard DEF Upto
<1>3. \E s : s = [Q \in SUBSET S |->
                   IF Q = {} THEN 0 ELSE g[FirstOf(Q)] + s[Q \ {FirstOf(Q)}]]
  <2>1. PICK s : SumsUpto(S, g, Cardinality(S), s)
    BY <1>1, SumsUptoExist
  <2>2. s = [Q \in SUBSET S |-> IF Q = {} THEN 0 ELSE g[FirstOf(Q)] + s[Q \ {FirstOf(Q)}]]
    BY <2>1, <1>2 DEF SumsUpto
  <2>3. QED
    BY <2>2
<1>4. Sums(S, g) = [Q \in SUBSET S |->
                   IF Q = {} THEN 0 ELSE g[FirstOf(Q)] + Sums(S, g)[Q \ {FirstOf(Q)}]]
  BY <1>3, Zenon DEF Sums
<1>5. QED
  BY <1>4 DEF SumOf

LEMMA SumType ==
  ASSUME NEW S, IsFiniteSet(S), NEW g \in [S -> Nat], NEW P \in SUBSET S
  PROVE  SumOf(S, g, P) \in Nat
<1> DEFINE Bad == {n \in Nat : \E Q \in SUBSET S : Cardinality(Q) = n /\ SumOf(S, g, Q) \notin Nat}
<1>1. SUFFICES ASSUME Bad # {} PROVE FALSE
  <2>1. Cardinality(P) \in Nat
    BY SubsetCard
  <2>2. QED
    BY <1>1, <2>1
<1>2. PICK n \in Bad : \A k \in Bad : n <= k
  <2>1. Bad \subseteq Nat
    OBVIOUS
  <2>2. QED
    BY <1>1, <2>1, Least
<1>3. PICK Q \in SUBSET S : Cardinality(Q) = n /\ SumOf(S, g, Q) \notin Nat
  BY <1>2
<1>4. Q # {}
  <2>1. SumOf(S, g, {}) = 0
    BY SumRec
  <2>2. QED
    BY <1>3, <2>1
<1>5. /\ FirstOf(Q) \in S /\ Q \ {FirstOf(Q)} \in SUBSET S
      /\ Cardinality(Q \ {FirstOf(Q)}) = n - 1 /\ n - 1 \in Nat /\ n \in Nat
  <2>1. /\ FirstOf(Q) \in Q /\ Q \ {FirstOf(Q)} \in SUBSET S
        /\ Cardinality(Q \ {FirstOf(Q)}) = n - 1 /\ n # 0
    BY <1>3, <1>4, SubsetCard
  <2>2. n \in Nat
    BY <1>2
  <2>3. QED
    BY <1>3, <2>1, <2>2
<1>6. SumOf(S, g, Q \ {FirstOf(Q)}) \in Nat
  <2>1. n - 1 \notin Bad
    BY <1>2, <1>5
  <2>2. QED
    BY <2>1, <1>5
<1>7. SumOf(S, g, Q) = g[FirstOf(Q)] + SumOf(S, g, Q \ {FirstOf(Q)})
  BY <1>4, SumRec
<1>8. QED
  BY <1>3, <1>5, <1>6, <1>7

(* Any element of the set may be added first.                               *)
LEMMA SumSplit ==
  ASSUME NEW S, IsFiniteSet(S), NEW g \in [S -> Nat], NEW P \in SUBSET S, NEW p \in P
  PROVE  SumOf(S, g, P) = g[p] + SumOf(S, g, P \ {p})
<1> DEFINE Fails(Q, q) == SumOf(S, g, Q) # g[q] + SumOf(S, g, Q \ {q})
           Bad == {n \in Nat : \E Q \in SUBSET S : Cardinality(Q) = n /\ \E q \in Q : Fails(Q, q)}
<1>1. SUFFICES ASSUME Bad # {} PROVE FALSE
  <2>1. Cardinality(P) \in Nat
    BY SubsetCard
  <2>2. QED
    BY <1>1, <2>1
<1>2. PICK n \in Bad : \A k \in Bad : n <= k
  <2>1. Bad \subseteq Nat
    OBVIOUS
  <2>2. QED
    BY <1>1, <2>1, Least
<1>3. PICK Q \in SUBSET S : Cardinality(Q) = n /\ \E q \in Q : Fails(Q, q)
  BY <1>2
<1>4. PICK q \in Q : Fails(Q, q)
  BY <1>3
<1> DEFINE c == FirstOf(Q)
<1>5. /\ c \in Q /\ Q \ {c} \in SUBSET S /\ Q \ {q} \in SUBSET S
      /\ IsFiniteSet(Q) /\ Cardinality(Q \ {c}) = n - 1 /\ n - 1 \in Nat /\ n \in Nat
  <2>1. Q # {}
    OBVIOUS
  <2>2. /\ c \in Q /\ Q \ {c} \in SUBSET S /\ IsFiniteSet(Q)
        /\ Cardinality(Q \ {c}) = n - 1 /\ n # 0
    BY <1>3, <2>1, SubsetCard
  <2>3. n \in Nat
    BY <1>2
  <2>4. QED
    BY <1>3, <2>2, <2>3
<1>6. Cardinality(Q \ {q}) = n - 1
  BY <1>3, <1>5, FS_RemoveElement
<1>7. SumOf(S, g, Q) = g[c] + SumOf(S, g, Q \ {c})
  BY <1>5, SumRec
<1> HIDE DEF c
<1>8. c # q
  BY <1>4, <1>7
<1>9. n - 1 \notin Bad
  BY <1>2, <1>5
<1>10. SumOf(S, g, Q \ {c}) = g[q] + SumOf(S, g, (Q \ {c}) \ {q})
  BY <1>3, <1>5, <1>8, <1>9
<1>11. SumOf(S, g, Q \ {q}) = g[c] + SumOf(S, g, (Q \ {q}) \ {c})
  BY <1>5, <1>6, <1>8, <1>9
<1>12. (Q \ {q}) \ {c} = (Q \ {c}) \ {q}
  OBVIOUS
<1>13. /\ g[c] \in Nat /\ g[q] \in Nat
       /\ SumOf(S, g, (Q \ {c}) \ {q}) \in Nat
  <2>1. (Q \ {c}) \ {q} \in SUBSET S /\ c \in S /\ q \in S
    BY <1>3, <1>5
  <2>2. QED
    BY <2>1, SumType
<1>14. SumOf(S, g, Q) = g[q] + SumOf(S, g, Q \ {q})
  BY <1>7, <1>10, <1>11, <1>12, <1>13
<1>15. QED
  BY <1>4, <1>14

(* The sum depends on the elements of the set, and on nothing else.        *)
LEMMA SumSame ==
  ASSUME NEW S, IsFiniteSet(S), NEW g, NEW h, NEW P \in SUBSET S, \A p \in P : g[p] = h[p]
  PROVE  SumOf(S, g, P) = SumOf(S, h, P)
<1> DEFINE Bad == {n \in Nat : \E Q \in SUBSET P : Cardinality(Q) = n /\ SumOf(S, g, Q) # SumOf(S, h, Q)}
<1>1. SUFFICES ASSUME Bad # {} PROVE FALSE
  <2>1. Cardinality(P) \in Nat
    BY SubsetCard
  <2>2. QED
    BY <1>1, <2>1
<1>2. PICK n \in Bad : \A k \in Bad : n <= k
  <2>1. Bad \subseteq Nat
    OBVIOUS
  <2>2. QED
    BY <1>1, <2>1, Least
<1>3. PICK Q \in SUBSET P : Cardinality(Q) = n /\ SumOf(S, g, Q) # SumOf(S, h, Q)
  BY <1>2
<1>4. Q \in SUBSET S
  BY <1>3
<1>5. Q # {}
  BY <1>3, <1>4, SumRec
<1>6. /\ FirstOf(Q) \in P /\ Q \ {FirstOf(Q)} \in SUBSET P
      /\ Cardinality(Q \ {FirstOf(Q)}) = n - 1 /\ n - 1 \in Nat /\ n \in Nat
  BY <1>3, <1>4, <1>5, SubsetCard
<1>7. SumOf(S, g, Q \ {FirstOf(Q)}) = SumOf(S, h, Q \ {FirstOf(Q)})
  <2>1. n - 1 \notin Bad
    BY <1>2, <1>6
  <2>2. QED
    BY <2>1, <1>6
<1>8. /\ SumOf(S, g, Q) = g[FirstOf(Q)] + SumOf(S, g, Q \ {FirstOf(Q)})
      /\ SumOf(S, h, Q) = h[FirstOf(Q)] + SumOf(S, h, Q \ {FirstOf(Q)})
  BY <1>4, <1>5, SumRec
<1>9. QED
  BY <1>3, <1>6, <1>7, <1>8

(* The sum stays when two elements exchange something.                     *)
LEMMA SumMoved ==
  ASSUME NEW S, IsFiniteSet(S), NEW g \in [S -> Nat], NEW h \in [S -> Nat],
         NEW p \in S, NEW q \in S, p # q,
         \A r \in S \ {p, q} : h[r] = g[r],
         h[p] + h[q] = g[p] + g[q]
  PROVE  SumOf(S, h, S) = SumOf(S, g, S)
<1> DEFINE Rest == (S \ {p}) \ {q}
<1>1. q \in S \ {p} /\ S \ {p} \in SUBSET S /\ Rest \in SUBSET S
  OBVIOUS
<1>2. SumOf(S, h, Rest) = SumOf(S, g, Rest)
  BY <1>1, SumSame
<1>3. ASSUME NEW f \in [S -> Nat]
      PROVE  /\ SumOf(S, f, S) = f[p] + (f[q] + SumOf(S, f, Rest))
             /\ f[p] \in Nat /\ f[q] \in Nat /\ SumOf(S, f, Rest) \in Nat
  <2>1. SumOf(S, f, S) = f[p] + SumOf(S, f, S \ {p})
    BY SumSplit
  <2>2. SumOf(S, f, S \ {p}) = f[q] + SumOf(S, f, Rest)
    BY <1>1, SumSplit
  <2>3. SumOf(S, f, Rest) \in Nat
    BY <1>1, SumType
  <2>4. QED
    BY <2>1, <2>2, <2>3
<1> HIDE DEF Rest
<1>4. QED
  BY <1>2, <1>3

LEMMA SumZero ==
  ASSUME NEW S, IsFiniteSet(S), NEW g, \A p \in S : g[p] = 0
  PROVE  SumOf(S, g, S) = 0
<1> DEFINE Bad == {n \in Nat : \E Q \in SUBSET S : Cardinality(Q) = n /\ SumOf(S, g, Q) # 0}
<1>1. SUFFICES ASSUME Bad # {} PROVE FALSE
  <2>1. Cardinality(S) \in Nat
    BY SubsetCard
  <2>2. QED
    BY <1>1, <2>1
<1>2. PICK n \in Bad : \A k \in Bad : n <= k
  <2>1. Bad \subseteq Nat
    OBVIOUS
  <2>2. QED
    BY <1>1, <2>1, Least
<1>3. PICK Q \in SUBSET S : Cardinality(Q) = n /\ SumOf(S, g, Q) # 0
  BY <1>2
<1>4. Q # {}
  BY <1>3, SumRec
<1>5. /\ FirstOf(Q) \in S /\ Q \ {FirstOf(Q)} \in SUBSET S
      /\ Cardinality(Q \ {FirstOf(Q)}) = n - 1 /\ n - 1 \in Nat /\ n \in Nat
  <2>1. /\ FirstOf(Q) \in Q /\ Q \ {FirstOf(Q)} \in SUBSET S
        /\ Cardinality(Q \ {FirstOf(Q)}) = n - 1 /\ n # 0
    BY <1>3, <1>4, SubsetCard
  <2>2. n \in Nat
    BY <1>2
  <2>3. QED
    BY <1>3, <2>1, <2>2
<1>6. SumOf(S, g, Q \ {FirstOf(Q)}) = 0
  <2>1. n - 1 \notin Bad
    BY <1>2, <1>5
  <2>2. QED
    BY <2>1, <1>5
<1>7. QED
  BY <1>3, <1>4, <1>5, <1>6, SumRec

(* One element grows.                                                      *)
LEMMA SumGrows ==
  ASSUME NEW S, IsFiniteSet(S), NEW g \in [S -> Nat], NEW h \in [S -> Nat],
         NEW p \in S, NEW n \in Nat,
         \A r \in S \ {p} : h[r] = g[r], h[p] = g[p] + n
  PROVE  SumOf(S, h, S) = SumOf(S, g, S) + n
<1>1. SumOf(S, h, S \ {p}) = SumOf(S, g, S \ {p})
  BY SumSame
<1>2. ASSUME NEW f \in [S -> Nat]
      PROVE  /\ SumOf(S, f, S) = f[p] + SumOf(S, f, S \ {p})
             /\ f[p] \in Nat /\ SumOf(S, f, S \ {p}) \in Nat
  BY SumSplit, SumType
<1>3. QED
  BY <1>1, <1>2

-----------------------------------------------------------------------------
(* A trade moves the gold that is stored, a coin adds what it is worth, and *)
(* nothing else changes it.                                                 *)

GoldMoves ==
  \/ UNCHANGED <<storedGold, cashed>>
  \/ \E p, q \in Players :
       /\ p # q /\ \A r \in Players \ {p, q} : storedGold'[r] = storedGold[r]
       /\ storedGold'[p] + storedGold'[q] = storedGold[p] + storedGold[q]
       /\ UNCHANGED cashed
  \/ \E p \in Players, x \in Coins \ cashed :
       /\ \A r \in Players \ {p} : storedGold'[r] = storedGold[r]
       /\ storedGold'[p] = storedGold[p] + Worth[x]
       /\ cashed' = cashed \union {x}

LEMMA CommitGold ==
  ASSUME IInv, Bounded, Accounted, NEW p \in Players, NEW q \in Players, TradeCommit(p, q),
         doubts' = 0
  PROVE  GoldMoves
<1> DEFINE i == [inv EXCEPT ![p] = TradedItems(p, q), ![q] = TradedItems(q, p)]
           g == [gold EXCEPT ![p] = TradedGold(p, q), ![q] = TradedGold(q, p)]
<1>1. Together(p, q) /\ UNCHANGED cashed
  BY DEF TradeCommit, past
<1>2. p # q /\ p \in Online /\ q \in Online
  BY <1>1, TogetherPair
<1>3. ASSUME Acceptable(p, q), Acceptable(q, p), Saved({p, q}, i, g)
      PROVE  GoldMoves
  <2>1. g[p] = TradedGold(p, q) /\ g[q] = TradedGold(q, p)
    BY <1>2 DEF IInv, Shape
  <2>2. /\ storedGold'[p] = g[p] /\ storedGold'[q] = g[q]
        /\ \A r \in Players \ {p, q} : storedGold'[r] = storedGold[r]
    <3> HIDE DEF i, g
    <3>1. storedGold' = [r \in Players |-> IF r \in {p, q} THEN g[r] ELSE storedGold[r]]
      BY <1>3 DEF Saved, Write
    <3>2. QED
      BY <3>1
  <2>3. gold[p] = storedGold[p] /\ gold[q] = storedGold[q]
    BY <1>2 DEF Accounted, MemoryIsStored
  <2>4. trade[p] \in Trades /\ trade[q] \in Trades
    BY <1>1, <1>2 DEF Together, Facing, IInv, Shape
  <2>5. \A n \in 0..MaxGold : n \in Nat
    BY TradeAssumption
  <2>6. /\ trade[p].offer.gold \in Nat /\ trade[q].offer.gold \in Nat
        /\ gold[p] \in Nat /\ gold[q] \in Nat
    BY <2>4, <2>5 DEF Trades, Offers, IInv, Shape
  <2>7. g[p] + g[q] = gold[p] + gold[q]
    BY <2>1, <2>6 DEF TradedGold
  <2>8. QED
    BY <1>1, <1>2, <2>2, <2>3, <2>7 DEF GoldMoves
<1>4. \/ Acceptable(p, q) /\ Acceptable(q, p) /\ Saved({p, q}, i, g)
      \/ SaveFails({p, q}, i, g)
      \/ UNCHANGED store
  BY DEF TradeCommit
<1> HIDE DEF i, g
<1>5. SaveFails({p, q}, i, g) => UNCHANGED store
  BY SureSave
<1>6. QED
  BY <1>1, <1>3, <1>4, <1>5 DEF GoldMoves, store

(* A save of one player's gold as it is.                                   *)
LEMMA OwnGold ==
  ASSUME Shape, Bounded, Accounted, NEW p \in Online, NEW i, doubts' = 0,
         Saved({p}, i, gold) \/ SaveFails({p}, i, gold)
  PROVE  storedGold' = storedGold
<1>1. Saved({p}, i, gold) \/ UNCHANGED store
  BY SureSave
<1>2. CASE Saved({p}, i, gold)
  <2>1. p \in Players /\ gold[p] = storedGold[p]
    BY DEF Accounted, MemoryIsStored, Online
  <2>2. \A r \in Players : (IF r \in {p} THEN gold[r] ELSE storedGold[r]) = storedGold[r]
    BY <2>1
  <2>3. storedGold' = [r \in Players |-> storedGold[r]]
    BY <1>2, <2>2 DEF Saved, Write
  <2>4. QED
    BY <2>3 DEF Shape
<1>3. QED
  BY <1>1, <1>2 DEF store

(* A coin that becomes gold.                                               *)
LEMMA CashInGold ==
  ASSUME IInv, Bounded, Accounted, NEW p \in Players, NEW x \in Items, CashIn(p, x),
         doubts' = 0
  PROVE  GoldMoves
<1> DEFINE g == [gold EXCEPT ![p] = @ + Worth[x]]
<1>1. /\ p \in Online /\ x \in Coins \ cashed
      /\ \A r \in Online : gold[r] = storedGold[r]
  BY DEF CashIn, Online, Accounted, MemoryIsStored
<1>2. ASSUME Saved({p}, inv, g), cashed' = cashed \union {x} PROVE GoldMoves
  <2>1. g[p] = storedGold[p] + Worth[x]
    BY <1>1 DEF IInv, Shape
  <2>2. storedGold'[p] = g[p] /\ \A r \in Players \ {p} : storedGold'[r] = storedGold[r]
    <3> HIDE DEF g
    <3>1. {p} \in SUBSET Players /\ Shape
      BY DEF IInv
    <3>2. QED
      BY <1>2, <3>1, SavedAs
  <2>3. QED
    BY <1>1, <1>2, <2>1, <2>2 DEF GoldMoves
<1>3. \/ Saved({p}, inv, g) /\ cashed' = cashed \union {x}
      \/ SaveFails({p}, inv, g) /\ UNCHANGED cashed
  BY DEF CashIn
<1> HIDE DEF g
<1>4. SaveFails({p}, inv, g) => UNCHANGED store
  BY SureSave
<1>5. QED
  BY <1>2, <1>3, <1>4 DEF GoldMoves, store

LEMMA GoldStep ==
  ASSUME IInv, Bounded, Accounted, [TradeNext]_tradeVars, doubts' = 0
  PROVE  GoldMoves
<1>1. doubts = 0 /\ Kept
  BY DoubtsStay DEF Kept
<1>2. ASSUME NEW p \in Players, NEW x \in Items, Drop(p, x) \/ PickUp(p, x)
      PROVE  GoldMoves
  <2>1. /\ p \in Online /\ UNCHANGED cashed
        /\ \E i : Saved({p}, i, gold) \/ SaveFails({p}, i, gold)
    BY <1>2 DEF Drop, PickUp, Online, past
  <2>2. QED
    BY <2>1, OwnGold DEF GoldMoves, IInv
<1>3. ASSUME NEW p \in Players, Leave(p) \/ AutoSave(p) PROVE GoldMoves
  <2>1. UNCHANGED <<store, cashed>>
    BY <1>1, <1>3, SaveChangesNothing DEF Leave, AutoSave, IInv, Online, past
  <2>2. QED
    BY <2>1 DEF GoldMoves, store
<1>4. ASSUME UNCHANGED <<store, cashed>> PROVE GoldMoves
  BY <1>4 DEF GoldMoves, store
<1>5. ASSUME NEW p \in Players, Join(p) \/ Interrupt(p) PROVE GoldMoves
  BY <1>4, <1>5 DEF Join, Interrupt, past
<1>6. ASSUME NEW p \in Players, NEW q \in Players, NEW o,
             InviteOrAccept(p, q) \/ Check(p, q) \/ Offer(p, q, o)
      PROVE  GoldMoves
  BY <1>4, <1>6 DEF InviteOrAccept, Check, Offer, past
<1>7. ASSUME NEW x, Expire(x) PROVE GoldMoves
  BY <1>4, <1>7 DEF Expire
<1>8. TradeCrash \/ UNCHANGED tradeVars => GoldMoves
  BY <1>4 DEF TradeCrash, tradeVars, past
<1>9. QED
  BY <1>2, <1>3, <1>5, <1>6, <1>7, <1>8, CommitGold, CashInGold DEF TradeNext

AllGold  == SumOf(Players, storedGold, Players)
AllCoins == SumOf(Coins, CashedGold, Coins)

AllTheGold ==
  doubts = 0 => AllGold = SumOf(Players, FirstGold, Players) + AllCoins

LEMMA AllTheGoldStep ==
  ASSUME IInv, IInv', Bounded, Kept, AllTheGold, [TradeNext]_tradeVars
  PROVE  AllTheGold'
<1> SUFFICES ASSUME doubts' = 0
             PROVE  AllGold' = SumOf(Players, FirstGold, Players) + AllCoins'
  BY DEF AllTheGold
<1>1. /\ doubts = 0 /\ Accounted /\ GoldMoves
      /\ AllGold = SumOf(Players, FirstGold, Players) + AllCoins
  BY DoubtsStay, GoldStep DEF Kept, AllTheGold
<1>2. /\ storedGold \in [Players -> Nat] /\ storedGold' \in [Players -> Nat]
      /\ FirstGold \in [Players -> Nat] /\ IsFiniteSet(Players) /\ IsFiniteSet(Coins)
  <2>1. \A n \in 0..MaxGold : n \in Nat
    BY TradeAssumption
  <2>2. QED
    BY <2>1, TradeAssumption DEF IInv, Shape
<1>3. CashedGold \in [Coins -> Nat] /\ CashedGold' \in [Coins -> Nat]
  BY TradeAssumption DEF CashedGold
<1>4. /\ SumOf(Players, FirstGold, Players) \in Nat /\ AllCoins \in Nat
  BY <1>2, <1>3, SumType DEF AllCoins
<1>5. UNCHANGED cashed => AllCoins' = AllCoins
  BY DEF AllCoins, CashedGold
<1>6. CASE UNCHANGED <<storedGold, cashed>>
  BY <1>1, <1>5, <1>6 DEF AllGold
<1>7. ASSUME NEW p \in Players, NEW q \in Players, p # q, UNCHANGED cashed,
             \A r \in Players \ {p, q} : storedGold'[r] = storedGold[r],
             storedGold'[p] + storedGold'[q] = storedGold[p] + storedGold[q]
      PROVE  AllGold' = SumOf(Players, FirstGold, Players) + AllCoins'
  <2>1. AllGold' = AllGold
    BY <1>2, <1>7, SumMoved DEF AllGold
  <2>2. QED
    BY <1>1, <1>5, <1>7, <2>1
<1>8. ASSUME NEW p \in Players, NEW x \in Coins \ cashed,
             \A r \in Players \ {p} : storedGold'[r] = storedGold[r],
             storedGold'[p] = storedGold[p] + Worth[x],
             cashed' = cashed \union {x}
      PROVE  AllGold' = SumOf(Players, FirstGold, Players) + AllCoins'
  <2>1. Worth[x] \in Nat
    BY TradeAssumption
  <2>2. AllGold' = AllGold + Worth[x]
    BY <1>2, <1>8, <2>1, SumGrows DEF AllGold
  <2>3. AllCoins' = AllCoins + Worth[x]
    <3>1. CashedGold[x] = 0 /\ CashedGold'[x] = Worth[x]
      BY <1>8 DEF CashedGold
    <3>2. \A r \in Coins \ {x} : CashedGold'[r] = CashedGold[r]
      BY <1>8 DEF CashedGold
    <3>3. CashedGold'[x] = CashedGold[x] + Worth[x]
      BY <2>1, <3>1
    <3>4. QED
      BY <1>2, <1>3, <2>1, <3>2, <3>3, SumGrows DEF AllCoins
  <2>4. QED
    BY <1>1, <1>4, <2>1, <2>2, <2>3
<1>9. QED
  BY <1>1, <1>6, <1>7, <1>8 DEF GoldMoves

(* Trades, drops, pick-ups, failed saves, departures and crashes neither   *)
(* create nor lose: while no save was stored that reported an error, every *)
(* item is accounted for, whoever is in the world has what is stored for   *)
(* it, and all the players together have the gold they had at first and    *)
(* what the coins they picked up were worth.                               *)
THEOREM ConservedHolds == TradeSpec => []Conserved
<1>1. TradeInit => Bounded /\ Kept /\ AllTheGold
  <2> SUFFICES ASSUME TradeInit PROVE Bounded /\ Kept /\ AllTheGold
    OBVIOUS
  <2>1. Bounded
    BY EmptyFits, TradeAssumption DEF TradeInit, Bounded, Fits
  <2>2. Accounted
    BY TradeAssumption DEF TradeInit, Accounted, Away, MemoryIsStored, Held, First, Online
  <2>3. AllTheGold
    <3>1. FirstGold \in [Players -> Nat] /\ IsFiniteSet(Players)
      <4>1. \A n \in 0..MaxGold : n \in Nat
        BY TradeAssumption
      <4>2. QED
        BY <4>1, TradeAssumption
    <3>2. SumOf(Players, FirstGold, Players) \in Nat
      BY <3>1, SumType
    <3>3. AllCoins = 0
      BY TradeAssumption, SumZero DEF AllCoins, CashedGold, TradeInit
    <3>4. QED
      BY <3>2, <3>3 DEF AllTheGold, AllGold, TradeInit
  <2>4. QED
    BY <2>1, <2>2, <2>3 DEF Kept
<1>2. IInv /\ IInv' /\ Bounded /\ Kept /\ AllTheGold /\ [TradeNext]_tradeVars
        => Bounded' /\ Kept' /\ AllTheGold'
  BY BoundedStep, KeptStep, AllTheGoldStep
<1>3. TradeSpec => []AllTheGold
  BY <1>1, <1>2, SpecIInv, PTL DEF TradeSpec
<1>4. IInv /\ AllTheGold /\ (doubts = 0 => ItemsConserved /\ MemoryIsStored) => Conserved
  <2> SUFFICES ASSUME IInv, doubts = 0,
                      AllGold = SumOf(Players, FirstGold, Players) + AllCoins
               PROVE  SumFunction(storedGold)
                        = SumFunction(FirstGold) + SumFunction(CashedGold)
    BY DEF AllTheGold, Conserved
  <2>1. /\ DOMAIN storedGold = Players /\ DOMAIN FirstGold = Players
        /\ DOMAIN CashedGold = Coins
    BY TradeAssumption DEF IInv, Shape, CashedGold
  <2>2. IsFiniteSet(Players) /\ IsFiniteSet(Coins)
    BY TradeAssumption
  <2>3. /\ SumFunction(storedGold) = AllGold
        /\ SumFunction(FirstGold) = SumOf(Players, FirstGold, Players)
        /\ SumFunction(CashedGold) = AllCoins
    BY <2>1, <2>2, SumIs DEF AllGold, AllCoins
  <2>4. QED
    BY <2>3
<1>5. QED
  BY <1>3, <1>4, SpecIInv, ItemsAreConserved, PTL

=============================================================================
