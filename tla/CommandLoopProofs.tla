--------------------------- MODULE CommandLoopProofs ---------------------------
(***************************************************************************)
(* Proofs about CommandLoop, for any senders and any sizes of the channel, *)
(* the batch and the numbers.                                              *)
(***************************************************************************)
EXTENDS CommandLoop, FiniteSetTheorems, SequenceTheorems, WellFoundedInduction, TLAPS

(* How many numbers n is behind m, counting round, and the number k after  *)
(* m.  InFlight + 1 numbers are in use.                                    *)
Gap(m, n) == IF n > m THEN n - m ELSE n - m + InFlight + 1
After(m, k) == IF m + k <= InFlight THEN m + k ELSE m + k - (InFlight + 1)

Behind(l, c) == Gap(l[c.from], c.n)

(* With l the last numbers handled and t the next ones to be given out:    *)
(* what waits was given out, each number between l and t waits, and each   *)
(* sender's commands stand in the order of their numbers.                  *)
GivenOut(queue, l, t) ==
  \A i \in DOMAIN queue : Behind(l, queue[i]) < Gap(l[queue[i].from], t[queue[i].from])

Complete(queue, l, t) ==
  \A s \in Senders : \A k \in 1..(Gap(l[s], t[s]) - 1) :
    \E i \in From(s, queue) : queue[i].n = After(l[s], k)

Ascending(queue, l) ==
  \A i, j \in DOMAIN queue :
    i < j /\ queue[i].from = queue[j].from => Behind(l, queue[i]) < Behind(l, queue[j])

InOrder(queue, l, t) ==
  GivenOut(queue, l, t) /\ Complete(queue, l, t) /\ Ascending(queue, l)

(* The order of a batch names every session that still has a command in it. *)
OrderCovers ==
  phase = "execute" =>
    \A i \in DOMAIN batch : \E k \in DOMAIN order : order[k] = batch[i].from

(* A round that handled nothing found nothing so far.                      *)
NothingSeen ==
  phase = "execute" /\ ~progress => \A k \in 1..(turn - 1) : From(order[k], batch) = {}

LoopInv ==
  TypeOK /\ BacklogBounded /\ OrderCovers /\ NothingSeen /\ InOrder(All, last, sent)

-----------------------------------------------------------------------------
(* Numbers that go round. *)

LEMMA GapType ==
  ASSUME NEW m \in Numbers, NEW n \in Numbers
  PROVE  Gap(m, n) \in 1..(InFlight + 1) /\ After(m, Gap(m, n)) = n
BY LoopAssumption DEF Numbers, Gap, After

LEMMA AfterType ==
  ASSUME NEW m \in Numbers, NEW k \in 1..(InFlight + 1)
  PROVE  After(m, k) \in Numbers /\ Gap(m, After(m, k)) = k
BY LoopAssumption DEF Numbers, Gap, After

LEMMA FollowingType ==
  ASSUME NEW m \in Numbers
  PROVE  Following(m) \in Numbers /\ Following(m) = After(m, 1)
BY LoopAssumption DEF Numbers, Following, After

(* One more number given out.                                              *)
LEMMA GapGrows ==
  ASSUME NEW m \in Numbers, NEW n \in Numbers, n # m
  PROVE  Gap(m, Following(n)) = Gap(m, n) + 1
BY LoopAssumption DEF Numbers, Gap, Following

(* One more number handled.                                                *)
LEMMA GapShrinks ==
  ASSUME NEW m \in Numbers, NEW n \in Numbers, Gap(m, n) > 1
  PROVE  Gap(Following(m), n) = Gap(m, n) - 1
BY LoopAssumption DEF Numbers, Gap, Following

LEMMA AfterFollowing ==
  ASSUME NEW m \in Numbers, NEW k \in 1..InFlight
  PROVE  After(Following(m), k) = After(m, k + 1)
BY LoopAssumption DEF Numbers, After, Following

LEMMA BehindType ==
  ASSUME NEW queue \in Seq(Commands), NEW l \in [Senders -> Numbers],
         NEW i \in DOMAIN queue
  PROVE  /\ queue[i] \in Commands /\ queue[i].from \in Senders /\ queue[i].n \in Numbers
         /\ i \in Nat /\ i \in 1..Len(queue)
         /\ Behind(l, queue[i]) \in 1..(InFlight + 1)
         /\ queue[i].n = After(l[queue[i].from], Behind(l, queue[i]))
<1>1. queue[i] \in Commands /\ i \in 1..Len(queue) /\ i \in Nat
  OBVIOUS
<1>2. queue[i].from \in Senders /\ queue[i].n \in Numbers
  BY <1>1 DEF Commands
<1>3. l[queue[i].from] \in Numbers
  BY <1>2
<1>4. QED
  BY <1>1, <1>2, <1>3, GapType DEF Behind

-----------------------------------------------------------------------------
(* Places of a queue. *)

LEMMA PlacesFinite ==
  ASSUME NEW n \in Nat, NEW S \in SUBSET (1..n)
  PROVE  IsFiniteSet(S) /\ Cardinality(S) \in Nat
<1>1. IsFiniteSet(1..n)
  BY FS_Interval
<1>2. QED
  BY <1>1, FS_Subset, FS_CardinalityType

(* As many values as elements: none is missed.                             *)
LEMMA Onto ==
  ASSUME NEW S, IsFiniteSet(S), NEW f \in [S -> 1..Cardinality(S)],
         \A x, y \in S : f[x] = f[y] => x = y
  PROVE  \A k \in 1..Cardinality(S) : \E x \in S : f[x] = k
<1>1. Cardinality(S) \in Nat
  BY FS_CardinalityType
<1>2. IsFiniteSet(1..Cardinality(S)) /\ Cardinality(1..Cardinality(S)) = Cardinality(S)
  BY <1>1, FS_Interval
<1>3. f \in Injection(S, 1..Cardinality(S))
  BY DEF Injection, IsInjective
<1>4. f \in Surjection(S, 1..Cardinality(S))
  BY <1>2, <1>3, FS_Injection
<1>5. QED
  BY <1>4 DEF Surjection

(* What a set is counted to.                                               *)
LEMMA CountedTo ==
  ASSUME NEW S, NEW n \in Nat, NEW f \in [S -> 1..n], IsFiniteSet(S),
         \A x, y \in S : f[x] = f[y] => x = y,
         \A k \in 1..n : \E x \in S : f[x] = k
  PROVE  Cardinality(S) = n
<1>1. f \in Bijection(S, 1..n)
  BY DEF Bijection, Injection, IsInjective, Surjection
<1>2. Cardinality(1..n) = Cardinality(S)
  BY <1>1, FS_Bijection DEF ExistsBijection
<1>3. Cardinality(1..n) = n
  BY FS_Interval
<1>4. QED
  BY <1>2, <1>3

LEMMA RankGrows ==
  ASSUME NEW n \in Nat, NEW S \in SUBSET (1..n), NEW T \in SUBSET S, T # S
  PROVE  Cardinality(T) < Cardinality(S)
<1>1. IsFiniteSet(S) /\ Cardinality(S) \in Nat
  BY PlacesFinite
<1>2. Cardinality(T) \in Nat
  BY PlacesFinite, T \in SUBSET (1..n)
<1>3. Cardinality(T) <= Cardinality(S) /\ Cardinality(S) # Cardinality(T)
  BY <1>1, FS_Subset
<1>4. QED
  BY <1>1, <1>2, <1>3

(* Nth counts the places of a set from the lowest to the highest.          *)
LEMMA NthCounts ==
  ASSUME NEW n \in Nat, NEW P \in SUBSET (1..n)
  PROVE  /\ \A k \in 1..Cardinality(P) : Nth(P, k) \in P
         /\ \A i \in P : \E k \in 1..Cardinality(P) : Nth(P, k) = i
<1> DEFINE rank == [i \in P |-> Cardinality(P \cap (1..i))]
<1>1. IsFiniteSet(P) /\ Cardinality(P) \in Nat
  BY PlacesFinite
<1>2. \A i \in P : i \in P \cap (1..i)
  OBVIOUS
<1>3. ASSUME NEW i \in P PROVE rank[i] \in 1..Cardinality(P)
  <2>1. P \cap (1..i) \in SUBSET P
    OBVIOUS
  <2>2. rank[i] <= Cardinality(P)
    BY <1>1, <2>1, FS_Subset
  <2>3. IsFiniteSet(P \cap (1..i)) /\ Cardinality(P \cap (1..i)) \in Nat
    BY PlacesFinite, P \cap (1..i) \in SUBSET (1..n)
  <2>4. rank[i] # 0
    BY <1>2, <2>3, FS_EmptySet
  <2>5. QED
    BY <1>1, <2>2, <2>3, <2>4
<1>4. ASSUME NEW i \in P, NEW j \in P, i < j PROVE rank[i] < rank[j]
  <2>1. P \cap (1..i) \in SUBSET (P \cap (1..j))
    BY <1>4
  <2>2. j \in P \cap (1..j) /\ j \notin P \cap (1..i)
    BY <1>4
  <2>3. P \cap (1..j) \in SUBSET (1..n)
    OBVIOUS
  <2>4. QED
    BY <2>1, <2>2, <2>3, RankGrows
<1>5. \A i, j \in P : rank[i] = rank[j] => i = j
  <2>1. \A i, j \in P : i < j => rank[i] < rank[j]
    BY <1>4
  <2>2. \A i \in P : rank[i] \in Nat /\ i \in Nat
    BY <1>3
  <2> HIDE DEF rank
  <2>3. QED
    BY <2>1, <2>2
<1>6. rank \in [P -> 1..Cardinality(P)]
  BY <1>3
<1>7. \A k \in 1..Cardinality(P) : \E i \in P : rank[i] = k
  <2> HIDE DEF rank
  <2>1. QED
    BY <1>1, <1>5, <1>6, Onto
<1>8. ASSUME NEW k \in 1..Cardinality(P)
      PROVE  Nth(P, k) \in P /\ rank[Nth(P, k)] = k
  BY <1>7 DEF Nth
<1>9. \A i \in P : rank[i] \in 1..Cardinality(P) /\ Nth(P, rank[i]) = i
  <2> HIDE DEF rank
  <2>1. QED
    BY <1>3, <1>5, <1>8
<1>10. QED
  BY <1>8, <1>9

(* A set of places that is not empty has a lowest one.                     *)
LEMMA Lowest ==
  ASSUME NEW P \in SUBSET Nat, P # {}
  PROVE  \E i \in P : \A j \in P : i <= j
<1>1. PICK i \in P : \A j \in P : ~ (<<j, i>> \in OpToRel(<, Nat))
  BY NatLessThanWellFounded, WFMin
<1>2. \A j \in P : ~ (j < i)
  BY <1>1 DEF OpToRel
<1>3. QED
  BY <1>2

-----------------------------------------------------------------------------
(* What waits, when it is in order. *)

LEMMA FromType ==
  ASSUME NEW queue \in Seq(Commands), NEW s
  PROVE  /\ From(s, queue) \in SUBSET (1..Len(queue)) /\ Len(queue) \in Nat
         /\ DOMAIN queue = 1..Len(queue) /\ From(s, queue) \in SUBSET Nat
         /\ IsFiniteSet(From(s, queue))
<1>1. DOMAIN queue = 1..Len(queue) /\ Len(queue) \in Nat
  OBVIOUS
<1>2. From(s, queue) \in SUBSET (1..Len(queue))
  BY <1>1 DEF From
<1>3. IsFiniteSet(From(s, queue))
  BY <1>1, <1>2, PlacesFinite
<1>4. 1..Len(queue) \subseteq Nat
  OBVIOUS
<1>5. QED
  BY <1>1, <1>2, <1>3, <1>4

(* The k-th command that waits from a sender has the k-th number after the *)
(* last one handled.                                                       *)
LEMMA PlaceOfNumber ==
  ASSUME NEW queue \in Seq(Commands), NEW l \in [Senders -> Numbers],
         NEW t \in [Senders -> Numbers], InOrder(queue, l, t), NEW s \in Senders
  PROVE  /\ Cardinality(From(s, queue)) = Gap(l[s], t[s]) - 1
         /\ \A i \in From(s, queue) :
              Cardinality(From(s, queue) \cap (1..i)) = Behind(l, queue[i])
<1> DEFINE P == From(s, queue)
<1> DEFINE place == [i \in P |-> Behind(l, queue[i])]
<1>1. P \in SUBSET (1..Len(queue)) /\ Len(queue) \in Nat /\ DOMAIN queue = 1..Len(queue)
      /\ IsFiniteSet(P)
  BY FromType
<1>2. Gap(l[s], t[s]) \in 1..(InFlight + 1) /\ InFlight \in Nat
  BY GapType, LoopAssumption
<1>3. ASSUME NEW i \in P
      PROVE  /\ i \in DOMAIN queue /\ queue[i].from = s /\ i \in Nat
             /\ place[i] = Behind(l, queue[i])
             /\ place[i] \in 1..(Gap(l[s], t[s]) - 1)
             /\ queue[i].n = After(l[s], place[i])
             /\ place[i] = Gap(l[s], queue[i].n)
  <2>1. i \in DOMAIN queue /\ queue[i].from = s
    BY DEF From
  <2>2. /\ Behind(l, queue[i]) \in 1..(InFlight + 1) /\ i \in Nat
        /\ queue[i].n = After(l[s], Behind(l, queue[i]))
    BY <2>1, BehindType
  <2>3. Behind(l, queue[i]) < Gap(l[s], t[s])
    BY <2>1 DEF InOrder, GivenOut
  <2>4. Behind(l, queue[i]) = Gap(l[s], queue[i].n)
    BY <2>1 DEF Behind
  <2>5. place[i] = Behind(l, queue[i])
    OBVIOUS
  <2> HIDE DEF place
  <2>6. Behind(l, queue[i]) \in 1..(Gap(l[s], t[s]) - 1)
    BY <1>2, <2>2, <2>3
  <2>7. QED
    BY <2>1, <2>2, <2>4, <2>5, <2>6
<1>4. ASSUME NEW i \in P, NEW j \in P, i < j PROVE place[i] < place[j]
  BY <1>3, <1>4 DEF InOrder, Ascending
<1>5. ASSUME NEW k \in 1..(Gap(l[s], t[s]) - 1) PROVE \E i \in P : place[i] = k
  <2>1. PICK i \in P : queue[i].n = After(l[s], k)
    BY DEF InOrder, Complete
  <2>2. k \in 1..(InFlight + 1) /\ l[s] \in Numbers
    BY <1>2
  <2>3. Gap(l[s], queue[i].n) = k
    BY <2>1, <2>2, AfterType
  <2>4. QED
    BY <1>3, <2>3
<1> HIDE DEF P, place
<1>6. \A i, j \in P : place[i] = place[j] => i = j
  <2>1. \A i \in P : place[i] \in Nat /\ i \in Nat
    BY <1>2, <1>3
  <2>2. \A i, j \in P : i < j => place[i] < place[j]
    BY <1>4
  <2>3. QED
    BY <2>1, <2>2
<1>7. Cardinality(P) = Gap(l[s], t[s]) - 1
  <2> DEFINE n == Gap(l[s], t[s]) - 1
  <2>1. place \in [P -> 1..n]
    BY <1>3 DEF place
  <2>2. n \in Nat
    BY <1>2
  <2>3. \A k \in 1..n : \E i \in P : place[i] = k
    BY <1>5
  <2>4. IsFiniteSet(P)
    BY <1>1
  <2> HIDE DEF n
  <2>5. Cardinality(P) = n
    BY <1>6, <2>1, <2>2, <2>3, <2>4, CountedTo
  <2>6. QED
    BY <2>5 DEF n
<1>8. ASSUME NEW i \in P PROVE Cardinality(P \cap (1..i)) = place[i]
  <2> DEFINE Q == P \cap (1..i)
  <2> DEFINE low == [j \in Q |-> place[j]]
  <2>1. IsFiniteSet(Q)
    BY <1>1, FS_Subset
  <2>2. place[i] \in Nat /\ place[i] \in 1..(Gap(l[s], t[s]) - 1) /\ i \in Nat
    BY <1>2, <1>3
  <2>3. ASSUME NEW j \in Q PROVE place[j] \in 1..place[i]
    <3>1. j \in P /\ j <= i /\ j \in Nat
      BY <1>3, <2>2
    <3>2. place[j] \in 1..(Gap(l[s], t[s]) - 1)
      BY <1>3, <3>1
    <3>3. j = i \/ place[j] < place[i]
      BY <1>4, <2>2, <3>1
    <3>4. QED
      BY <1>2, <2>2, <3>2, <3>3
  <2>4. ASSUME NEW k \in 1..place[i] PROVE \E j \in Q : low[j] = k
    <3>1. k \in 1..(Gap(l[s], t[s]) - 1)
      BY <1>2, <2>2
    <3>2. PICK j \in P : place[j] = k
      BY <1>5, <3>1
    <3>3. j \in Nat /\ ~ (i < j)
      BY <1>3, <1>4, <2>2, <3>2
    <3>4. j \in 1..i
      BY <1>1, <2>2, <3>3
    <3>5. QED
      BY <3>2, <3>4
  <2>5. low \in [Q -> 1..place[i]]
    BY <2>3
  <2>6. \A j, k \in Q : low[j] = low[k] => j = k
    BY <1>6
  <2>7. \A k \in 1..place[i] : \E j \in Q : low[j] = k
    BY <2>4
  <2> HIDE DEF Q, low
  <2>8. Cardinality(Q) = place[i]
    BY <2>1, <2>2, <2>5, <2>6, <2>7, CountedTo
  <2>9. QED
    BY <2>8 DEF Q
<1>9. QED
  BY <1>3, <1>7, <1>8 DEF P, place

(* The numbers that wait from a sender, the oldest first.                  *)
NumbersOf(s, queue) == [i \in DOMAIN Of(s, queue) |-> Of(s, queue)[i].n]

LEMMA NumbersWaiting ==
  ASSUME NEW queue \in Seq(Commands), NEW l \in [Senders -> Numbers],
         NEW t \in [Senders -> Numbers], InOrder(queue, l, t), NEW s \in Senders
  PROVE  /\ Len(Of(s, queue)) = Gap(l[s], t[s]) - 1
         /\ NumbersOf(s, queue) = [k \in 1..(Gap(l[s], t[s]) - 1) |-> After(l[s], k)]
<1> DEFINE P == From(s, queue)
<1>1. Cardinality(P) = Gap(l[s], t[s]) - 1 /\ Cardinality(P) \in Nat
  <2>1. l[s] \in Numbers /\ t[s] \in Numbers
    OBVIOUS
  <2>2. Gap(l[s], t[s]) \in 1..(InFlight + 1) /\ InFlight \in Nat
    BY <2>1, GapType, LoopAssumption
  <2>3. Cardinality(P) = Gap(l[s], t[s]) - 1
    BY PlaceOfNumber
  <2>4. QED
    BY <2>2, <2>3
<1>2. P \in SUBSET (1..Len(queue)) /\ Len(queue) \in Nat
  BY FromType
<1>3. ASSUME NEW k \in 1..Cardinality(P)
      PROVE  queue[Nth(P, k)].n = After(l[s], k)
  <2>1. \A i \in P : \E m \in 1..Cardinality(P) : Nth(P, m) = i
    BY <1>2, NthCounts
  <2>2. PICK i \in P : queue[i].n = After(l[s], k)
    BY <1>1 DEF InOrder, Complete
  <2>3. l[s] \in Numbers /\ k \in 1..(InFlight + 1) /\ i \in DOMAIN queue /\ queue[i].from = s
    BY <1>1, GapType, LoopAssumption DEF From
  <2>4. Behind(l, queue[i]) = k
    BY <2>2, <2>3, AfterType DEF Behind
  <2>5. Cardinality(P \cap (1..i)) = k
    BY <2>4, PlaceOfNumber
  <2>6. Nth(P, k) \in P /\ Cardinality(P \cap (1..Nth(P, k))) = k
    BY <2>5 DEF Nth
  <2>7. Behind(l, queue[Nth(P, k)]) = k
    BY <2>6, PlaceOfNumber
  <2>8. Nth(P, k) \in DOMAIN queue /\ queue[Nth(P, k)].from = s
    BY <2>6 DEF From
  <2>9. QED
    BY <2>7, <2>8, BehindType
<1>4. Of(s, queue) = [k \in 1..Cardinality(P) |-> queue[Nth(P, k)]]
  BY DEF Of, At
<1> HIDE DEF P
<1>5. Len(Of(s, queue)) = Cardinality(P) /\ DOMAIN Of(s, queue) = 1..Cardinality(P)
  BY <1>1, <1>4
<1>6. QED
  BY <1>1, <1>3, <1>4, <1>5 DEF NumbersOf

-----------------------------------------------------------------------------
(* What keeps the order. *)

LEMMA GivesOut ==
  ASSUME NEW queue \in Seq(Commands), NEW l \in [Senders -> Numbers],
         NEW t \in [Senders -> Numbers], NEW s \in Senders, t[s] # l[s],
         InOrder(queue, l, t)
  PROVE  InOrder(Append(queue, [from |-> s, n |-> t[s]]), l,
                 [t EXCEPT ![s] = Following(t[s])])
<1> DEFINE c == [from |-> s, n |-> t[s]]
<1> DEFINE q == Append(queue, c)
<1> DEFINE u == [t EXCEPT ![s] = Following(t[s])]
<1>1. c \in Commands /\ c.from = s /\ c.n = t[s] /\ l[s] \in Numbers /\ t[s] \in Numbers
  BY DEF Commands
<1>2. /\ Len(queue) \in Nat /\ DOMAIN queue = 1..Len(queue)
      /\ DOMAIN q = 1..(Len(queue) + 1) /\ q[Len(queue) + 1] = c
      /\ \A i \in DOMAIN queue : q[i] = queue[i]
  OBVIOUS
<1>3. Behind(l, c) = Gap(l[s], t[s]) /\ Gap(l[s], t[s]) \in Nat
      /\ c.n = After(l[s], Gap(l[s], t[s]))
  BY <1>1, GapType DEF Behind
<1>4. Gap(l[s], u[s]) = Gap(l[s], t[s]) + 1
  BY <1>1, GapGrows
<1>5. \A v \in Senders : v # s => u[v] = t[v]
  OBVIOUS
<1> HIDE DEF c, q, u
<1>6. GivenOut(q, l, u)
  <2>1. ASSUME NEW i \in DOMAIN queue
        PROVE  Behind(l, queue[i]) < Gap(l[queue[i].from], u[queue[i].from])
    <3>1. Behind(l, queue[i]) < Gap(l[queue[i].from], t[queue[i].from])
          /\ Behind(l, queue[i]) \in Nat /\ queue[i].from \in Senders
      BY BehindType DEF InOrder, GivenOut
    <3>2. QED
      BY <1>3, <1>4, <1>5, <3>1
  <2>2. Behind(l, c) < Gap(l[c.from], u[c.from])
    <3>1. Behind(l, c) < Gap(l[s], u[s])
      BY <1>3, <1>4
    <3>2. QED
      BY <1>1, <3>1
  <2>3. QED
    BY <1>2, <2>1, <2>2 DEF GivenOut
<1>7. Complete(q, l, u)
  <2>1. ASSUME NEW v \in Senders, NEW k \in 1..(Gap(l[v], u[v]) - 1)
        PROVE  \E i \in From(v, q) : q[i].n = After(l[v], k)
    <3>1. CASE k \in 1..(Gap(l[v], t[v]) - 1)
      <4>1. PICK i \in From(v, queue) : queue[i].n = After(l[v], k)
        BY <3>1 DEF InOrder, Complete
      <4>2. i \in DOMAIN q /\ q[i] = queue[i]
        BY <1>2 DEF From
      <4>3. QED
        BY <4>1, <4>2 DEF From
    <3>2. CASE k \notin 1..(Gap(l[v], t[v]) - 1)
      <4>1. v = s
        BY <1>5, <3>2
      <4>2. k = Gap(l[s], t[s])
        BY <1>3, <1>4, <3>2, <4>1
      <4>3. QED
        BY <1>1, <1>2, <1>3, <4>1, <4>2 DEF From
    <3>3. QED
      BY <3>1, <3>2
  <2>2. QED
    BY <2>1 DEF Complete
<1>8. Ascending(q, l)
  <2>1. ASSUME NEW i \in DOMAIN queue, queue[i].from = s
        PROVE  Behind(l, queue[i]) < Behind(l, c)
    BY <1>3, <2>1 DEF InOrder, GivenOut
  <2>2. \A i, j \in DOMAIN q : i < j => i \in DOMAIN queue
    BY <1>2
  <2>3. \A j \in DOMAIN q : j \notin DOMAIN queue => q[j] = c
    BY <1>2
  <2>4. QED
    BY <1>1, <1>2, <2>1, <2>2, <2>3 DEF InOrder, Ascending
<1>9. QED
  BY <1>6, <1>7, <1>8 DEF InOrder, c, q, u

LEMMA JoinedTwice ==
  ASSUME NEW a \in Seq(Commands), NEW b \in Seq(Commands), NEW c \in Seq(Commands)
  PROVE  (a \o b) \o c = a \o (b \o c)
BY ConcatAssociative

LEMMA Joined ==
  ASSUME NEW a \in Seq(Commands), NEW b \in Seq(Commands)
  PROVE  /\ a \o b \in Seq(Commands) /\ Len(a \o b) = Len(a) + Len(b)
         /\ Len(a) \in Nat /\ Len(b) \in Nat /\ DOMAIN a = 1..Len(a)
         /\ DOMAIN (a \o b) = 1..(Len(a) + Len(b))
         /\ \A i \in 1..Len(a) : (a \o b)[i] = a[i]
         /\ \A i \in 1..(Len(a) + Len(b)) : i > Len(a) => (a \o b)[i] = b[i - Len(a)]
<1>1. a \o b \in Seq(Commands) /\ Len(a \o b) = Len(a) + Len(b)
  BY ConcatProperties
<1>2. \A i \in 1..(Len(a) + Len(b)) :
        (a \o b)[i] = IF i <= Len(a) THEN a[i] ELSE b[i - Len(a)]
  BY ConcatProperties
<1>3. Len(a) \in Nat /\ Len(b) \in Nat /\ DOMAIN a = 1..Len(a)
  OBVIOUS
<1>4. DOMAIN (a \o b) = 1..(Len(a) + Len(b))
  <2> DEFINE c == a \o b
  <2> HIDE DEF c
  <2>1. c \in Seq(Commands) /\ Len(c) = Len(a) + Len(b)
    BY <1>1 DEF c
  <2>2. DOMAIN c = 1..(Len(a) + Len(b))
    BY <2>1
  <2>3. QED
    BY <2>2 DEF c
<1>5. \A i \in 1..Len(a) : (a \o b)[i] = a[i]
  BY <1>2, <1>3
<1>6. \A i \in 1..(Len(a) + Len(b)) : i > Len(a) => (a \o b)[i] = b[i - Len(a)]
  BY <1>2, <1>3
<1>7. QED
  BY <1>1, <1>3, <1>4, <1>5, <1>6

LEMMA Removed ==
  ASSUME NEW queue \in Seq(Commands), NEW i \in DOMAIN queue
  PROVE  /\ RemoveAt(queue, i) \in Seq(Commands)
         /\ Len(RemoveAt(queue, i)) = Len(queue) - 1
         /\ \A j \in 1..(Len(queue) - 1) :
              RemoveAt(queue, i)[j] = queue[IF j < i THEN j ELSE j + 1]
<1>1. i \in 1..Len(queue) /\ Len(queue) \in Nat
  OBVIOUS
<1> DEFINE a == SubSeq(queue, 1, i - 1)
<1> DEFINE b == SubSeq(queue, i + 1, Len(queue))
<1>2. a \in Seq(Commands) /\ Len(a) = i - 1 /\ \A j \in 1..(i - 1) : a[j] = queue[j]
  BY <1>1
<1>3. b \in Seq(Commands) /\ Len(b) = Len(queue) - i
      /\ \A j \in 1..(Len(queue) - i) : b[j] = queue[i + j]
  BY <1>1
<1>4. RemoveAt(queue, i) = a \o b
  BY DEF RemoveAt
<1> HIDE DEF a, b
<1>5. a \o b \in Seq(Commands) /\ Len(a \o b) = Len(queue) - 1
  BY <1>1, <1>2, <1>3
<1>6. ASSUME NEW j \in 1..(Len(queue) - 1)
      PROVE  (a \o b)[j] = queue[IF j < i THEN j ELSE j + 1]
  <2>1. CASE j < i
    BY <1>1, <1>2, <1>3, <2>1
  <2>2. CASE ~ (j < i)
    <3>1. (a \o b)[j] = b[j - (i - 1)]
      <4>1. j \in 1..(Len(a) + Len(b)) /\ j > Len(a)
        BY <1>1, <1>2, <1>3, <2>2
      <4>2. (a \o b)[j] = b[j - Len(a)]
        BY <1>2, <1>3, <4>1, Joined
      <4>3. QED
        BY <1>2, <4>2
    <3>2. j - (i - 1) \in 1..(Len(queue) - i) /\ i + (j - (i - 1)) = j + 1
      BY <1>1, <2>2
    <3>3. b[j - (i - 1)] = queue[i + (j - (i - 1))]
      BY <1>3, <3>2
    <3>4. QED
      BY <2>2, <3>1, <3>2, <3>3
  <2>3. QED
    BY <2>1, <2>2
<1>7. QED
  BY <1>4, <1>5, <1>6

(* The oldest command of a sender has the number after the last one        *)
(* handled; without it the rest is in order.                               *)
LEMMA HandsOver ==
  ASSUME NEW queue \in Seq(Commands), NEW l \in [Senders -> Numbers],
         NEW t \in [Senders -> Numbers], InOrder(queue, l, t), NEW s \in Senders,
         NEW i \in From(s, queue), \A j \in From(s, queue) : i <= j
  PROVE  /\ queue[i].n = Following(l[s]) /\ Gap(l[s], t[s]) > 1
         /\ InOrder(RemoveAt(queue, i), [l EXCEPT ![s] = queue[i].n], t)
<1> DEFINE r == RemoveAt(queue, i)
<1> DEFINE m == [l EXCEPT ![s] = queue[i].n]
<1>1. i \in DOMAIN queue /\ queue[i].from = s /\ i \in 1..Len(queue) /\ Len(queue) \in Nat
      /\ DOMAIN queue = 1..Len(queue)
  BY FromType DEF From
<1>2. /\ Behind(l, queue[i]) \in 1..(InFlight + 1) /\ InFlight \in Nat
      /\ queue[i].n = After(l[s], Behind(l, queue[i])) /\ queue[i].n \in Numbers
  BY <1>1, BehindType, LoopAssumption
<1>3. Gap(l[s], t[s]) \in 1..(InFlight + 1) /\ l[s] \in Numbers /\ t[s] \in Numbers
  BY GapType
<1>4. Gap(l[s], t[s]) > 1
  <2>1. Behind(l, queue[i]) < Gap(l[s], t[s])
    BY <1>1 DEF InOrder, GivenOut
  <2>2. QED
    BY <1>2, <1>3, <2>1
<1>5. Behind(l, queue[i]) = 1
  <2>1. 1 \in 1..(Gap(l[s], t[s]) - 1) /\ 1 \in 1..(InFlight + 1)
    BY <1>2, <1>3, <1>4
  <2>2. PICK j \in From(s, queue) : queue[j].n = After(l[s], 1)
    BY <2>1 DEF InOrder, Complete
  <2>3. Behind(l, queue[j]) = 1 /\ j \in DOMAIN queue /\ queue[j].from = s
    BY <1>3, <2>1, <2>2, AfterType DEF Behind, From
  <2>4. j = i \/ i < j
    BY <1>1, <2>2, FromType
  <2>5. i < j => Behind(l, queue[i]) < 1
    BY <1>1, <2>3 DEF InOrder, Ascending
  <2>6. QED
    BY <1>2, <2>3, <2>4, <2>5
<1>6. queue[i].n = Following(l[s])
  BY <1>2, <1>3, <1>5, FollowingType
<1>7. m[s] = Following(l[s]) /\ m \in [Senders -> Numbers]
      /\ \A v \in Senders : v # s => m[v] = l[v]
  BY <1>2, <1>6
<1>8. /\ r \in Seq(Commands) /\ DOMAIN r = 1..(Len(queue) - 1)
      /\ \A j \in DOMAIN r : r[j] = queue[IF j < i THEN j ELSE j + 1]
  BY <1>1, Removed
<1> HIDE DEF r, m
<1>9. ASSUME NEW j \in DOMAIN r
      PROVE  \E g \in DOMAIN queue : g # i /\ r[j] = queue[g]
                                     /\ g = IF j < i THEN j ELSE j + 1
  BY <1>1, <1>8
<1>10. ASSUME NEW g \in DOMAIN queue, g # i
       PROVE  \E j \in DOMAIN r : r[j] = queue[g]
  <2>1. CASE g < i
    <3>1. g \in DOMAIN r /\ r[g] = queue[g]
      BY <1>1, <1>8, <2>1
    <3>2. QED
      BY <3>1
  <2>2. CASE ~ (g < i)
    <3>1. g - 1 \in DOMAIN r /\ ~ (g - 1 < i) /\ (g - 1) + 1 = g
      BY <1>1, <1>8, <1>10, <2>2
    <3>2. r[g - 1] = queue[g]
      BY <1>8, <3>1
    <3>3. QED
      BY <3>1, <3>2
  <2>3. QED
    BY <2>1, <2>2
<1>11. ASSUME NEW g \in DOMAIN queue, g # i
       PROVE  /\ Behind(l, queue[g]) \in Nat /\ queue[g].from \in Senders
              /\ queue[g].from = s =>
                   Behind(l, queue[g]) > 1 /\ Behind(m, queue[g]) = Behind(l, queue[g]) - 1
              /\ queue[g].from # s => Behind(m, queue[g]) = Behind(l, queue[g])
  <2>1. Behind(l, queue[g]) \in Nat /\ queue[g].from \in Senders /\ queue[g].n \in Numbers
    BY BehindType
  <2>2. CASE queue[g].from = s
    <3>1. i < g
      BY <1>1, <1>11, <2>2, FromType DEF From
    <3>2. Behind(l, queue[g]) > 1
      BY <1>1, <1>5, <2>1, <2>2, <3>1 DEF InOrder, Ascending
    <3>3. Behind(m, queue[g]) = Behind(l, queue[g]) - 1
      BY <1>3, <1>7, <2>1, <2>2, <3>2, GapShrinks DEF Behind
    <3>4. QED
      BY <2>1, <2>2, <3>2, <3>3
  <2>3. CASE queue[g].from # s
    BY <1>7, <2>1, <2>3 DEF Behind
  <2>4. QED
    BY <2>2, <2>3
<1>12. Gap(m[s], t[s]) = Gap(l[s], t[s]) - 1
  BY <1>3, <1>4, <1>7, GapShrinks
<1>13. GivenOut(r, m, t)
  <2>1. ASSUME NEW g \in DOMAIN queue, g # i
        PROVE  Behind(m, queue[g]) < Gap(m[queue[g].from], t[queue[g].from])
    <3>1. Behind(l, queue[g]) < Gap(l[queue[g].from], t[queue[g].from])
      BY DEF InOrder, GivenOut
    <3>2. CASE queue[g].from = s
      <4>1. /\ Behind(m, queue[g]) = Behind(l, queue[g]) - 1 /\ Behind(l, queue[g]) \in Nat
            /\ Behind(l, queue[g]) < Gap(l[s], t[s])
        BY <1>11, <2>1, <3>1, <3>2
      <4>2. QED
        BY <1>3, <1>12, <3>2, <4>1
    <3>3. CASE queue[g].from # s
      BY <1>7, <1>11, <2>1, <3>1, <3>3
    <3>4. QED
      BY <3>2, <3>3
  <2>2. QED
    BY <1>9, <2>1 DEF GivenOut
<1>14. Complete(r, m, t)
  <2>1. ASSUME NEW v \in Senders, NEW k \in 1..(Gap(m[v], t[v]) - 1)
        PROVE  \E g \in From(v, queue) : g # i /\ queue[g].n = After(m[v], k)
    <3>1. CASE v = s
      <4>1. k + 1 \in 1..(Gap(l[s], t[s]) - 1) /\ k \in 1..InFlight
            /\ k + 1 \in 1..(InFlight + 1) /\ k + 1 # 1
        BY <1>2, <1>3, <1>12, <3>1
      <4>2. PICK g \in From(s, queue) : queue[g].n = After(l[s], k + 1)
        BY <4>1 DEF InOrder, Complete
      <4>3. Behind(l, queue[g]) = k + 1
        BY <1>3, <4>1, <4>2, AfterType DEF Behind, From
      <4>4. After(m[s], k) = After(l[s], k + 1)
        BY <1>3, <1>7, <4>1, AfterFollowing
      <4>5. g # i
        BY <1>5, <4>1, <4>3
      <4>6. QED
        BY <3>1, <4>2, <4>4, <4>5
    <3>2. CASE v # s
      <4>1. PICK g \in From(v, queue) : queue[g].n = After(l[v], k)
        BY <1>7, <3>2 DEF InOrder, Complete
      <4>2. g # i
        BY <1>1, <3>2 DEF From
      <4>3. QED
        BY <1>7, <3>2, <4>1, <4>2
    <3>3. QED
      BY <3>1, <3>2
  <2>2. ASSUME NEW v \in Senders, NEW g \in From(v, queue), g # i
        PROVE  \E j \in From(v, r) : r[j] = queue[g]
    <3>1. g \in DOMAIN queue /\ queue[g].from = v
      BY DEF From
    <3>2. PICK j \in DOMAIN r : r[j] = queue[g]
      BY <1>10, <2>2, <3>1
    <3>3. QED
      BY <3>1, <3>2 DEF From
  <2>3. ASSUME NEW v \in Senders, NEW k \in 1..(Gap(m[v], t[v]) - 1)
        PROVE  \E j \in From(v, r) : r[j].n = After(m[v], k)
    <3>1. PICK g \in From(v, queue) : g # i /\ queue[g].n = After(m[v], k)
      BY <2>1
    <3>2. PICK j \in From(v, r) : r[j] = queue[g]
      BY <2>2, <3>1
    <3>3. QED
      BY <3>1, <3>2
  <2>4. QED
    BY <2>3 DEF Complete
<1>15. Ascending(r, m)
  <2>1. ASSUME NEW j \in DOMAIN r, NEW k \in DOMAIN r, j < k, r[j].from = r[k].from
        PROVE  Behind(m, r[j]) < Behind(m, r[k])
    <3>1. PICK g \in DOMAIN queue : g # i /\ r[j] = queue[g]
                                   /\ g = IF j < i THEN j ELSE j + 1
      BY <1>9
    <3>2. PICK h \in DOMAIN queue : h # i /\ r[k] = queue[h]
                                   /\ h = IF k < i THEN k ELSE k + 1
      BY <1>9
    <3>3. g < h
      BY <1>1, <1>8, <2>1, <3>1, <3>2
    <3>4. Behind(l, queue[g]) < Behind(l, queue[h])
      BY <2>1, <3>1, <3>2, <3>3 DEF InOrder, Ascending
    <3>5. Behind(l, queue[g]) \in Nat /\ Behind(l, queue[h]) \in Nat
      BY <1>11, <3>1, <3>2
    <3>6. CASE queue[g].from = s
      <4>1. Behind(m, queue[g]) = Behind(l, queue[g]) - 1
            /\ Behind(m, queue[h]) = Behind(l, queue[h]) - 1
        BY <1>11, <2>1, <3>1, <3>2, <3>6
      <4>2. QED
        BY <3>1, <3>2, <3>4, <3>5, <4>1
    <3>7. CASE queue[g].from # s
      BY <1>11, <2>1, <3>1, <3>2, <3>4, <3>7
    <3>8. QED
      BY <3>6, <3>7
  <2>2. QED
    BY <2>1 DEF Ascending
<1>16. QED
  BY <1>4, <1>6, <1>13, <1>14, <1>15 DEF InOrder, r, m

LEMMA Rearranged ==
  ASSUME NEW queue \in Seq(Commands), NEW r \in Seq(Commands),
         NEW l \in [Senders -> Numbers], NEW t \in [Senders -> Numbers],
         InOrder(queue, l, t), NEW f \in [DOMAIN r -> DOMAIN queue],
         \A i \in DOMAIN r : r[i] = queue[f[i]],
         \A j \in DOMAIN queue : \E i \in DOMAIN r : f[i] = j,
         \A i, j \in DOMAIN r : i < j /\ r[i].from = r[j].from => f[i] < f[j]
  PROVE  InOrder(r, l, t)
<1>1. GivenOut(r, l, t)
  BY DEF InOrder, GivenOut
<1>2. Complete(r, l, t)
  <2>1. ASSUME NEW s, NEW j \in From(s, queue)
        PROVE  \E i \in From(s, r) : r[i] = queue[j]
    <3>1. j \in DOMAIN queue /\ queue[j].from = s
      BY DEF From
    <3>2. PICK i \in DOMAIN r : f[i] = j
      BY <3>1
    <3>3. r[i] = queue[j] /\ i \in From(s, r)
      BY <3>1, <3>2 DEF From
    <3>4. QED
      BY <3>3
  <2>2. ASSUME NEW s \in Senders, NEW k \in 1..(Gap(l[s], t[s]) - 1)
        PROVE  \E i \in From(s, r) : r[i].n = After(l[s], k)
    <3>1. PICK j \in From(s, queue) : queue[j].n = After(l[s], k)
      BY DEF InOrder, Complete
    <3>2. PICK i \in From(s, r) : r[i] = queue[j]
      BY <2>1
    <3>3. QED
      BY <3>1, <3>2
  <2>3. QED
    BY <2>2 DEF Complete
<1>3. Ascending(r, l)
  BY DEF InOrder, Ascending
<1>4. QED
  BY <1>1, <1>2, <1>3 DEF InOrder

-----------------------------------------------------------------------------
(* The sessions of a batch and what is left of it. *)

LEMMA FirstSeenCovers ==
  ASSUME NEW queue \in Seq(Commands)
  PROVE  /\ FirstSeen(queue) \in Seq(Senders)
         /\ \A i \in DOMAIN queue : \E k \in DOMAIN FirstSeen(queue) :
              FirstSeen(queue)[k] = queue[i].from
<1> DEFINE P == Firsts(queue)
<1>1. P \in SUBSET (1..Len(queue)) /\ Len(queue) \in Nat /\ DOMAIN queue = 1..Len(queue)
  BY DEF Firsts
<1>2. Cardinality(P) \in Nat
  BY <1>1, PlacesFinite
<1>3. /\ \A k \in 1..Cardinality(P) : Nth(P, k) \in P
      /\ \A i \in P : \E k \in 1..Cardinality(P) : Nth(P, k) = i
  BY <1>1, NthCounts
<1>4. FirstSeen(queue) = [k \in 1..Cardinality(P) |-> queue[Nth(P, k)].from]
  BY DEF FirstSeen, At
<1>5. ASSUME NEW i \in DOMAIN queue PROVE queue[i].from \in Senders
  <2>1. queue[i] \in Commands
    OBVIOUS
  <2>2. QED
    BY <2>1 DEF Commands
<1>6. ASSUME NEW i \in DOMAIN queue
      PROVE  \E j \in P : queue[j].from = queue[i].from
  <2> DEFINE s == queue[i].from
  <2>1. From(s, queue) \in SUBSET Nat /\ i \in From(s, queue)
    BY FromType DEF From
  <2>2. PICK j \in From(s, queue) : \A k \in From(s, queue) : j <= k
    BY <2>1, Lowest
  <2>3. j \in DOMAIN queue /\ queue[j].from = s /\ j \in Nat
    BY <2>1, <2>2 DEF From
  <2>4. ASSUME NEW k \in 1..(j - 1) PROVE queue[k].from # queue[j].from
    <3>1. k \in DOMAIN queue /\ k \in Nat /\ ~ (j <= k)
      BY <1>1, <2>3
    <3>2. k \notin From(s, queue)
      BY <2>2, <3>1
    <3>3. QED
      BY <2>3, <3>1, <3>2 DEF From
  <2>5. QED
    BY <2>3, <2>4 DEF Firsts
<1> HIDE DEF P
<1>7. FirstSeen(queue) \in Seq(Senders) /\ DOMAIN FirstSeen(queue) = 1..Cardinality(P)
  <2>1. ASSUME NEW k \in 1..Cardinality(P) PROVE queue[Nth(P, k)].from \in Senders
    <3>1. Nth(P, k) \in DOMAIN queue
      BY <1>1, <1>3
    <3>2. QED
      BY <1>5, <3>1
  <2>2. QED
    BY <1>2, <1>4, <2>1
<1>8. ASSUME NEW i \in DOMAIN queue
      PROVE  \E k \in DOMAIN FirstSeen(queue) : FirstSeen(queue)[k] = queue[i].from
  <2>1. PICK j \in P : queue[j].from = queue[i].from
    BY <1>6
  <2>2. PICK k \in 1..Cardinality(P) : Nth(P, k) = j
    BY <1>3
  <2>3. QED
    BY <1>4, <1>7, <2>1, <2>2
<1>9. QED
  BY <1>7, <1>8

(* BySession moves every command of what is left to one place, and leaves  *)
(* each session's commands in their order.                                 *)
LEMMA BySessionRearranges ==
  ASSUME NEW queue \in Seq(Commands), order \in Seq(Senders),
         \A i \in DOMAIN queue : \E k \in DOMAIN order : order[k] = queue[i].from
  PROVE  /\ BySession(queue) \in Seq(Commands) /\ Len(BySession(queue)) = Len(queue)
         /\ \E f \in [DOMAIN queue -> DOMAIN queue] :
              /\ \A i \in DOMAIN queue : BySession(queue)[i] = queue[f[i]]
              /\ \A j \in DOMAIN queue : \E i \in DOMAIN queue : f[i] = j
              /\ \A i, j \in DOMAIN queue :
                   i < j /\ queue[f[i]].from = queue[f[j]].from => f[i] < f[j]
<1> DEFINE D == DOMAIN queue
<1> DEFINE turnOf == [i \in D |-> Turn(queue[i].from)]
<1> DEFINE rank == [i \in D |-> Cardinality(UpTo(queue, i))]
<1> DEFINE f == [k \in D |-> CHOOSE i \in D : Cardinality(UpTo(queue, i)) = k]
<1>1. D = 1..Len(queue) /\ Len(queue) \in Nat /\ IsFiniteSet(D)
      /\ Cardinality(D) = Len(queue)
  BY FS_Interval
<1>2. ASSUME NEW i \in D
      PROVE  turnOf[i] \in Nat /\ order[turnOf[i]] = queue[i].from
  <2>1. \E k \in DOMAIN order : order[k] = queue[i].from
    OBVIOUS
  <2>2. Turn(queue[i].from) \in DOMAIN order /\ order[Turn(queue[i].from)] = queue[i].from
    BY <2>1 DEF Turn
  <2>3. DOMAIN order \subseteq Nat
    OBVIOUS
  <2>4. QED
    BY <2>2, <2>3
<1>3. \A i, j \in D : turnOf[i] = turnOf[j] <=> queue[i].from = queue[j].from
  BY <1>2
<1>4. \A i, j \in D : j \in UpTo(queue, i) <=>
        turnOf[j] < turnOf[i] \/ (queue[j].from = queue[i].from /\ j <= i)
  BY DEF UpTo
<1>5. \A i \in D : UpTo(queue, i) \in SUBSET D
  BY DEF UpTo
<1>6. \A i \in D : rank[i] = Cardinality(UpTo(queue, i))
  OBVIOUS
<1>7. BySession(queue) = [k \in D |-> queue[f[k]]]
  BY DEF BySession
<1> HIDE DEF turnOf, rank, f
<1>8. ASSUME NEW i \in D, NEW j \in D,
             turnOf[i] < turnOf[j] \/ (queue[i].from = queue[j].from /\ i < j)
      PROVE  rank[i] < rank[j]
  <2>1. i \in Nat /\ j \in Nat /\ turnOf[i] \in Nat /\ turnOf[j] \in Nat
    BY <1>1, <1>2
  <2>2. j \in UpTo(queue, j) /\ j \notin UpTo(queue, i)
    BY <1>3, <1>4, <1>8, <2>1
  <2>3. ASSUME NEW k \in UpTo(queue, i) PROVE k \in UpTo(queue, j)
    <3>1. k \in D /\ k \in Nat /\ turnOf[k] \in Nat
      BY <1>1, <1>2, <1>5
    <3>2. turnOf[k] < turnOf[i] \/ (queue[k].from = queue[i].from /\ k <= i)
      BY <1>4, <3>1
    <3>3. QED
      BY <1>3, <1>4, <1>8, <2>1, <3>1, <3>2
  <2>4. UpTo(queue, i) \in SUBSET UpTo(queue, j) /\ UpTo(queue, j) \in SUBSET (1..Len(queue))
    BY <1>1, <1>5, <2>3
  <2>5. UpTo(queue, i) # UpTo(queue, j)
    BY <2>2
  <2>6. QED
    BY <1>1, <1>6, <2>4, <2>5, RankGrows
<1>9. ASSUME NEW i \in D PROVE rank[i] \in 1..Cardinality(D)
  <2>1. IsFiniteSet(UpTo(queue, i)) /\ Cardinality(UpTo(queue, i)) \in Nat
        /\ Cardinality(UpTo(queue, i)) <= Cardinality(D)
    BY <1>1, <1>5, FS_Subset, FS_CardinalityType
  <2>2. i \in UpTo(queue, i)
    BY <1>1, <1>4
  <2>3. Cardinality(UpTo(queue, i)) # 0
    BY <2>1, <2>2, FS_EmptySet
  <2>4. QED
    BY <1>1, <1>6, <2>1, <2>3
<1>10. ASSUME NEW i \in D, NEW j \in D, rank[i] = rank[j] PROVE i = j
  <2>1. i \in Nat /\ j \in Nat /\ turnOf[i] \in Nat /\ turnOf[j] \in Nat /\ rank[i] \in Nat
    BY <1>1, <1>2, <1>9
  <2>2. ~ (turnOf[i] < turnOf[j]) /\ ~ (queue[i].from = queue[j].from /\ i < j)
    <3>1. ~ (rank[i] < rank[j])
      BY <1>10, <2>1
    <3>2. QED
      BY <1>8, <3>1
  <2>3. ~ (turnOf[j] < turnOf[i]) /\ ~ (queue[j].from = queue[i].from /\ j < i)
    <3>1. ~ (rank[j] < rank[i])
      BY <1>10, <2>1
    <3>2. QED
      BY <1>8, <3>1
  <2>4. turnOf[i] = turnOf[j]
    BY <2>1, <2>2, <2>3
  <2>5. queue[i].from = queue[j].from
    BY <1>3, <2>4
  <2>6. QED
    BY <2>1, <2>2, <2>3, <2>5
<1>11. \A k \in 1..Cardinality(D) : \E i \in D : rank[i] = k
  <2>1. rank \in [D -> 1..Cardinality(D)]
    BY <1>9 DEF rank
  <2>2. QED
    BY <1>1, <1>10, <2>1, Onto
<1>12. ASSUME NEW k \in D PROVE f[k] \in D /\ rank[f[k]] = k
  <2>1. \E i \in D : Cardinality(UpTo(queue, i)) = k
    BY <1>1, <1>6, <1>11
  <2>2. f[k] = CHOOSE i \in D : Cardinality(UpTo(queue, i)) = k
    BY DEF f
  <2>3. f[k] \in D /\ Cardinality(UpTo(queue, f[k])) = k
    BY <2>1, <2>2
  <2>4. rank[f[k]] = Cardinality(UpTo(queue, f[k]))
    BY <1>6, <2>3
  <2>5. QED
    BY <2>3, <2>4
<1>13. f \in [D -> D]
  BY <1>12 DEF f
<1>14. BySession(queue) \in Seq(Commands) /\ Len(BySession(queue)) = Len(queue)
  <2>1. \A i \in D : queue[i] \in Commands
    BY <1>1
  <2>2. \A k \in D : f[k] \in D
    BY <1>12
  <2>3. \A k \in D : queue[f[k]] \in Commands
    BY <2>1, <2>2
  <2>4. QED
    BY <1>1, <1>7, <2>3
<1>15. \A j \in D : \E i \in D : f[i] = j
  <2>1. ASSUME NEW j \in D PROVE rank[j] \in D /\ f[rank[j]] = j
    <3>1. rank[j] \in D
      BY <1>1, <1>9
    <3>2. f[rank[j]] \in D /\ rank[f[rank[j]]] = rank[j]
      BY <1>12, <3>1
    <3>3. QED
      BY <1>10, <3>1, <3>2
  <2>2. QED
    BY <2>1
<1>16. ASSUME NEW i \in D, NEW j \in D, i < j, queue[f[i]].from = queue[f[j]].from
       PROVE  f[i] < f[j]
  <2>1. f[i] \in D /\ f[j] \in D /\ rank[f[i]] < rank[f[j]]
    <3>1. f[i] \in D /\ rank[f[i]] = i
      BY <1>12
    <3>2. f[j] \in D /\ rank[f[j]] = j
      BY <1>12
    <3>3. QED
      BY <1>16, <3>1, <3>2
  <2>2. f[i] \in Nat /\ f[j] \in Nat /\ rank[f[i]] \in Nat /\ rank[f[j]] \in Nat
    <3>1. \A k \in D : k \in Nat
      BY <1>1
    <3>2. f[i] \in D /\ f[j] \in D
      BY <2>1
    <3>3. rank[f[i]] \in 1..Cardinality(D) /\ rank[f[j]] \in 1..Cardinality(D)
      BY <1>9, <3>2
    <3>4. QED
      BY <3>1, <3>2, <3>3
  <2>3. f[j] < f[i] => rank[f[j]] < rank[f[i]]
    BY <1>8, <1>16, <2>1
  <2>4. QED
    BY <2>1, <2>2, <2>3
<1>17. QED
  BY <1>7, <1>13, <1>14, <1>15, <1>16

LEMMA FrontRearranged ==
  ASSUME NEW a \in Seq(Commands), NEW b \in Seq(Commands), NEW c \in Seq(Commands),
         NEW l \in [Senders -> Numbers], NEW t \in [Senders -> Numbers],
         InOrder(a \o c, l, t), Len(b) = Len(a), NEW f \in [DOMAIN a -> DOMAIN a],
         \A i \in DOMAIN a : b[i] = a[f[i]],
         \A j \in DOMAIN a : \E i \in DOMAIN a : f[i] = j,
         \A i, j \in DOMAIN a : i < j /\ a[f[i]].from = a[f[j]].from => f[i] < f[j]
  PROVE  InOrder(b \o c, l, t)
<1> DEFINE q == a \o c
<1> DEFINE r == b \o c
<1> DEFINE g == [i \in DOMAIN r |-> IF i \in DOMAIN a THEN f[i] ELSE i]
<1>1. /\ q \in Seq(Commands) /\ r \in Seq(Commands) /\ Len(a) \in Nat
      /\ DOMAIN a = 1..Len(a) /\ DOMAIN q = 1..(Len(a) + Len(c)) /\ DOMAIN r = DOMAIN q
      /\ Len(c) \in Nat
  <2>1. q \in Seq(Commands) /\ Len(q) = Len(a) + Len(c)
    BY ConcatProperties
  <2>2. r \in Seq(Commands) /\ Len(r) = Len(a) + Len(c)
    <3>1. b \o c \in Seq(Commands) /\ Len(b \o c) = Len(b) + Len(c)
      BY ConcatProperties
    <3>2. QED
      BY <3>1
  <2> HIDE DEF q, r
  <2>3. QED
    BY <2>1, <2>2
<1>2. ASSUME NEW i \in DOMAIN a
      PROVE  i \in DOMAIN q /\ q[i] = a[i] /\ r[i] = a[f[i]] /\ g[i] = f[i]
             /\ f[i] \in DOMAIN a /\ q[f[i]] = a[f[i]]
  <2>1. i \in DOMAIN q /\ f[i] \in DOMAIN a
    BY <1>1
  <2>2. r[i] = b[i] /\ q[i] = a[i] /\ q[f[i]] = a[f[i]]
    BY <1>1, <2>1
  <2>3. g[i] = f[i]
    BY <1>1, <2>1
  <2> HIDE DEF q, r, g
  <2>4. QED
    BY <2>1, <2>2, <2>3
<1>3. ASSUME NEW i \in DOMAIN q, i \notin DOMAIN a
      PROVE  q[i] = r[i] /\ g[i] = i /\ i > Len(a)
  <2>1. i > Len(a) /\ i \in Nat /\ i <= Len(a) + Len(c)
    BY <1>1, <1>3
  <2>2. q[i] = c[i - Len(a)] /\ r[i] = c[i - Len(a)]
    BY <1>1, <2>1
  <2>3. QED
    BY <1>1, <1>3, <2>1, <2>2
<1> HIDE DEF q, r, g
<1>4. g \in [DOMAIN r -> DOMAIN q]
  <2>1. \A i \in DOMAIN r : g[i] \in DOMAIN q
    BY <1>1, <1>2, <1>3
  <2>2. QED
    BY <2>1 DEF g
<1>5. \A i \in DOMAIN r : r[i] = q[g[i]]
  BY <1>1, <1>2, <1>3
<1>6. ASSUME NEW j \in DOMAIN q PROVE \E i \in DOMAIN r : g[i] = j
  <2>1. CASE j \in DOMAIN a
    <3>1. PICK i \in DOMAIN a : f[i] = j
      BY <2>1
    <3>2. QED
      BY <1>1, <1>2, <3>1
  <2>2. CASE j \notin DOMAIN a
    BY <1>1, <1>3, <2>2
  <2>3. QED
    BY <2>1, <2>2
<1>7. ASSUME NEW i \in DOMAIN r, NEW j \in DOMAIN r, i < j, r[i].from = r[j].from
      PROVE  g[i] < g[j]
  <2>1. CASE j \in DOMAIN a
    <3>1. i \in DOMAIN a
      BY <1>1, <1>7, <2>1
    <3>2. r[i] = a[f[i]] /\ g[i] = f[i] /\ r[j] = a[f[j]] /\ g[j] = f[j]
      BY <1>2, <2>1, <3>1
    <3>3. f[i] < f[j]
      <4>1. a[f[i]].from = a[f[j]].from
        BY <1>7, <3>2
      <4>2. QED
        BY <1>7, <2>1, <3>1, <4>1
    <3>4. QED
      BY <3>2, <3>3
  <2>2. CASE j \notin DOMAIN a /\ i \in DOMAIN a
    <3>1. g[j] = j
      <4>1. j \in DOMAIN q
        BY <1>1
      <4>2. QED
        BY <1>3, <2>2, <4>1
    <3>2. j > Len(a) /\ j \in Nat
      BY <1>1, <2>2
    <3>3. g[i] \in DOMAIN a
      BY <1>2, <1>3, <2>2
    <3>4. QED
      BY <1>1, <3>1, <3>2, <3>3
  <2>3. CASE j \notin DOMAIN a /\ i \notin DOMAIN a
    BY <1>1, <1>3, <1>7, <2>3
  <2>4. QED
    BY <2>1, <2>2, <2>3
<1>8. InOrder(r, l, t)
  <2>1. InOrder(q, l, t)
    BY DEF q
  <2>2. QED
    BY <1>1, <1>4, <1>5, <1>6, <1>7, <2>1, Rearranged
<1>9. QED
  BY <1>8 DEF r

(* What a batch leaves over goes to the front and nothing is lost.         *)
LEMMA LeavesOver ==
  ASSUME NEW left \in Seq(Commands), pending \in Seq(Commands), channel \in Seq(Commands),
         order \in Seq(Senders), NEW l \in [Senders -> Numbers],
         NEW t \in [Senders -> Numbers], InOrder(left \o pending \o channel, l, t),
         \A i \in DOMAIN left : \E k \in DOMAIN order : order[k] = left[i].from
  PROVE  /\ Requeue(left) \in Seq(Commands)
         /\ Len(Requeue(left)) = Len(left) + Len(pending)
         /\ InOrder(<<>> \o Requeue(left) \o channel, l, t)
<1> DEFINE b == BySession(left)
<1> DEFINE c == pending \o channel
<1>1. b \in Seq(Commands) /\ Len(b) = Len(left)
  BY BySessionRearranges
<1>2. PICK f \in [DOMAIN left -> DOMAIN left] :
        /\ \A i \in DOMAIN left : b[i] = left[f[i]]
        /\ \A j \in DOMAIN left : \E i \in DOMAIN left : f[i] = j
        /\ \A i, j \in DOMAIN left :
             i < j /\ left[f[i]].from = left[f[j]].from => f[i] < f[j]
  BY BySessionRearranges
<1>3. Requeue(left) = b \o pending
  BY DEF Requeue
<1> HIDE DEF b
<1>4. c \in Seq(Commands) /\ left \o pending \o channel = left \o c
      /\ <<>> \o (b \o pending) \o channel = b \o c
  <2>1. pending \o channel \in Seq(Commands) /\ b \o pending \in Seq(Commands)
    BY <1>1, Joined
  <2>2. (left \o pending) \o channel = left \o (pending \o channel)
    BY JoinedTwice
  <2>3. (b \o pending) \o channel = b \o (pending \o channel)
    BY <1>1, JoinedTwice
  <2>4. <<>> \o (b \o pending) = b \o pending
    BY <2>1, ConcatEmptySeq
  <2>5. QED
    BY <2>1, <2>2, <2>3, <2>4
<1> HIDE DEF c
<1>5. InOrder(b \o c, l, t)
  BY <1>1, <1>2, <1>4, FrontRearranged
<1>6. Requeue(left) \in Seq(Commands) /\ Len(Requeue(left)) = Len(left) + Len(pending)
  <2>1. b \o pending \in Seq(Commands) /\ Len(b \o pending) = Len(b) + Len(pending)
    BY <1>1, ConcatProperties
  <2>2. QED
    BY <1>1, <1>3, <2>1
<1>7. QED
  BY <1>3, <1>4, <1>5, <1>6

LEMMA RemovedInFront ==
  ASSUME NEW a \in Seq(Commands), NEW c \in Seq(Commands), NEW i \in DOMAIN a
  PROVE  RemoveAt(a \o c, i) = RemoveAt(a, i) \o c
<1> DEFINE q == a \o c
<1>1. i \in DOMAIN q /\ q \in Seq(Commands) /\ Len(q) = Len(a) + Len(c)
      /\ i \in 1..Len(a) /\ Len(a) \in Nat /\ Len(c) \in Nat
  BY ConcatProperties
<1>2. /\ RemoveAt(a, i) \in Seq(Commands) /\ Len(RemoveAt(a, i)) = Len(a) - 1
      /\ \A j \in 1..(Len(a) - 1) : RemoveAt(a, i)[j] = a[IF j < i THEN j ELSE j + 1]
  BY Removed
<1>3. /\ RemoveAt(q, i) \in Seq(Commands) /\ Len(RemoveAt(q, i)) = Len(q) - 1
      /\ \A j \in 1..(Len(q) - 1) : RemoveAt(q, i)[j] = q[IF j < i THEN j ELSE j + 1]
  BY <1>1, Removed
<1> DEFINE x == RemoveAt(a, i)
<1> DEFINE y == RemoveAt(q, i)
<1> HIDE DEF q, x, y
<1>4. /\ x \o c \in Seq(Commands) /\ Len(x \o c) = Len(y) /\ y \in Seq(Commands)
      /\ Len(y) = Len(a) - 1 + Len(c) /\ Len(x) = Len(a) - 1 /\ x \in Seq(Commands)
  <2>1. x \in Seq(Commands) /\ Len(x) = Len(a) - 1
    BY <1>2 DEF x
  <2>2. y \in Seq(Commands) /\ Len(y) = Len(a) + Len(c) - 1
    BY <1>1, <1>3 DEF y
  <2>3. x \o c \in Seq(Commands) /\ Len(x \o c) = Len(x) + Len(c)
    BY <2>1, Joined
  <2>4. QED
    BY <1>1, <2>1, <2>2, <2>3
<1>5. ASSUME NEW j \in 1..Len(y) PROVE (x \o c)[j] = y[j]
  <2>0. j \in 1..(Len(a) - 1 + Len(c)) /\ j \in 1..(Len(q) - 1)
    BY <1>1, <1>4
  <2>1. y[j] = q[IF j < i THEN j ELSE j + 1]
    BY <1>3, <2>0 DEF y
  <2>2. CASE j <= Len(a) - 1
    <3>1. j \in 1..Len(x) /\ j \in 1..(Len(a) - 1)
      BY <1>1, <1>4, <2>0, <2>2
    <3>2. (x \o c)[j] = x[j]
      BY <1>4, <3>1, Joined
    <3>3. x[j] = a[IF j < i THEN j ELSE j + 1]
      BY <1>2, <3>1 DEF x
    <3>4. (IF j < i THEN j ELSE j + 1) \in 1..Len(a)
      BY <1>1, <3>1
    <3>5. q[IF j < i THEN j ELSE j + 1] = a[IF j < i THEN j ELSE j + 1]
      BY <3>4, Joined DEF q
    <3>6. QED
      BY <2>1, <3>2, <3>3, <3>5
  <2>3. CASE ~ (j <= Len(a) - 1)
    <3>1. j \in 1..(Len(x) + Len(c)) /\ j > Len(x)
      BY <1>1, <1>4, <2>0, <2>3
    <3>2. (x \o c)[j] = c[j - Len(x)]
      BY <1>4, <3>1, Joined
    <3>3. j + 1 \in 1..(Len(a) + Len(c)) /\ j + 1 > Len(a) /\ ~ (j < i)
          /\ j - Len(x) = (j + 1) - Len(a)
      BY <1>1, <1>4, <2>0, <2>3
    <3>4. q[j + 1] = c[(j + 1) - Len(a)]
      BY <3>3, Joined DEF q
    <3>5. QED
      BY <2>1, <3>2, <3>3, <3>4
  <2>4. QED
    BY <2>2, <2>3
<1>6. x \o c = y
  BY <1>4, <1>5, SeqEqual
<1>7. QED
  BY <1>6 DEF q, x, y

-----------------------------------------------------------------------------
(* The steps of the loop. *)

LEMMA AllType ==
  ASSUME TypeOK PROVE All \in Seq(Commands)
BY DEF TypeOK, All

LEMMA MovesHead ==
  ASSUME NEW p \in Seq(Commands), NEW q \in Seq(Commands), q # <<>>
  PROVE  /\ Append(p, Head(q)) \in Seq(Commands) /\ Len(Append(p, Head(q))) = Len(p) + 1
         /\ Tail(q) \in Seq(Commands) /\ Len(Tail(q)) = Len(q) - 1 /\ Len(q) > 0
         /\ Append(p, Head(q)) \o Tail(q) = p \o q
<1>1. Head(q) \in Commands /\ Tail(q) \in Seq(Commands) /\ Len(Tail(q)) = Len(q) - 1
      /\ Len(q) > 0
  OBVIOUS
<1>2. Append(p, Head(q)) \in Seq(Commands) /\ Len(Append(p, Head(q))) = Len(p) + 1
  BY <1>1
<1>3. Append(p, Head(q)) \o Tail(q) = p \o q
  OBVIOUS
<1>4. QED
  BY <1>1, <1>2, <1>3

(* What is taken changes places, it does not change its turn.              *)
LEMMA TakeKeeps ==
  ASSUME TypeOK, BacklogBounded, HasRoom, Take
  PROVE  /\ batch' \in Seq(Commands) /\ pending' \in Seq(Commands)
         /\ channel' \in Seq(Commands) /\ Len(batch') <= BatchLimit
         /\ Len(channel') <= ChannelCap /\ BacklogBounded' /\ All' = All
<1>1. /\ batch \in Seq(Commands) /\ pending \in Seq(Commands) /\ channel \in Seq(Commands)
      /\ Len(batch) + Len(pending) <= BatchLimit /\ Len(batch) < BatchLimit
      /\ Len(channel) <= ChannelCap /\ BatchLimit \in Nat /\ ChannelCap \in Nat
      /\ Len(batch) \in Nat /\ Len(pending) \in Nat /\ Len(channel) \in Nat
  BY LoopAssumption DEF TypeOK, BacklogBounded, HasRoom
<1>2. CASE pending # <<>>
  <2>1. batch' = Append(batch, Head(pending)) /\ pending' = Tail(pending)
        /\ channel' = channel
    BY <1>2 DEF Take, TakeFrom
  <2>2. /\ batch' \in Seq(Commands) /\ Len(batch') = Len(batch) + 1
        /\ pending' \in Seq(Commands) /\ Len(pending') = Len(pending) - 1
        /\ batch' \o pending' = batch \o pending
    BY <1>1, <1>2, <2>1, MovesHead
  <2>3. BacklogBounded'
    BY <1>1, <2>2 DEF BacklogBounded
  <2>4. All' = All
    BY <2>1, <2>2 DEF All
  <2>5. Len(batch') <= BatchLimit
    BY <1>1, <2>2
  <2>6. QED
    BY <1>1, <2>1, <2>2, <2>3, <2>4, <2>5
<1>3. CASE pending = <<>>
  <2>1. /\ batch' = Append(batch, Head(channel)) /\ channel' = Tail(channel)
        /\ pending' = <<>> /\ channel # <<>>
    BY <1>3 DEF Take, TakeFrom
  <2>2. /\ batch' \in Seq(Commands) /\ Len(batch') = Len(batch) + 1
        /\ channel' \in Seq(Commands) /\ Len(channel') = Len(channel) - 1
        /\ batch' \o channel' = batch \o channel
    BY <1>1, <2>1, MovesHead
  <2>3. BacklogBounded' /\ pending' \in Seq(Commands) /\ Len(batch') <= BatchLimit
        /\ Len(channel') <= ChannelCap
    BY <1>1, <2>1, <2>2 DEF BacklogBounded
  <2>4. batch' \o pending' = batch' /\ batch \o pending = batch
    BY <1>1, <1>3, <2>1, <2>2
  <2>5. All' = All
    BY <2>2, <2>4 DEF All
  <2>6. QED
    BY <2>2, <2>3, <2>5
<1>4. QED
  BY <1>2, <1>3

LEMMA InitLoop == Init => LoopInv
<1> SUFFICES ASSUME Init PROVE LoopInv
  OBVIOUS
<1>1. TypeOK
  <2>1. sent \in [Senders -> Numbers] /\ last \in [Senders -> Numbers]
    BY LoopAssumption DEF Init, Numbers
  <2>2. <<>> \in Seq(Commands) /\ <<>> \in Seq(Senders) /\ Len(<<>>) = 0
    OBVIOUS
  <2>3. turn \in 1..(Len(order) + 1)
    BY <2>2 DEF Init
  <2>4. 0 <= ChannelCap /\ 0 <= BatchLimit /\ 0 \in 0..AdminCap
    BY LoopAssumption
  <2>5. QED
    BY <2>1, <2>2, <2>3, <2>4 DEF Init, TypeOK
<1>2. BacklogBounded /\ OrderCovers /\ NothingSeen
  BY LoopAssumption DEF Init, BacklogBounded, OrderCovers, NothingSeen
<1>3. All = <<>>
  BY DEF Init, All
<1>4. \A s \in Senders : Gap(last[s], sent[s]) = 1
  BY LoopAssumption DEF Init, Gap
<1>5. InOrder(<<>>, last, sent)
  BY <1>4 DEF InOrder, GivenOut, Complete, Ascending
<1>6. QED
  BY <1>1, <1>2, <1>3, <1>5 DEF LoopInv

(* Steps that move no command.                                             *)
LEMMA QuietStep ==
  ASSUME LoopInv, UNCHANGED <<channel, pending, batch, sent, last>>,
         TypeOK', OrderCovers', NothingSeen'
  PROVE  LoopInv'
<1>1. BacklogBounded'
  BY DEF LoopInv, BacklogBounded
<1>2. All' = All
  BY DEF All
<1>3. InOrder(All, last, sent)'
  BY <1>2 DEF LoopInv, InOrder, GivenOut, Complete, Ascending, From, Behind
<1>4. QED
  BY <1>1, <1>3 DEF LoopInv

LEMMA OutsideStep ==
  ASSUME LoopInv, Ticker \/ EnqueueAdmin \/ RunJobs \/ RunTick PROVE LoopInv'
<1>1. TypeOK
  BY DEF LoopInv
<1>2. UNCHANGED <<channel, pending, batchVars, sent, last>>
  BY DEF Ticker, EnqueueAdmin, RunJobs, RunTick
<1>3. tickDue' \in BOOLEAN /\ admin' \in 0..AdminCap
  <2>1. tickDue \in BOOLEAN /\ admin \in 0..AdminCap /\ AdminCap \in Nat
    BY <1>1, LoopAssumption DEF TypeOK
  <2>2. tickDue' \in {tickDue, TRUE, FALSE}
    BY DEF Ticker, EnqueueAdmin, RunJobs, RunTick
  <2>3. admin' \in {admin, 0} \/ (admin < AdminCap /\ admin' = admin + 1)
    BY DEF Ticker, EnqueueAdmin, RunJobs, RunTick
  <2>4. admin' \in 0..AdminCap
    BY <2>1, <2>3
  <2>5. QED
    BY <2>1, <2>2, <2>4
<1>4. TypeOK'
  BY <1>1, <1>2, <1>3 DEF TypeOK, batchVars
<1>5. OrderCovers' /\ NothingSeen'
  BY <1>2 DEF batchVars, LoopInv, OrderCovers, NothingSeen, From
<1>6. QED
  BY <1>2, <1>4, <1>5, QuietStep DEF batchVars

LEMMA EnqueueStep ==
  ASSUME LoopInv, NEW s \in Senders, Enqueue(s) PROVE LoopInv'
<1> DEFINE c == [from |-> s, n |-> sent[s]]
<1>1. /\ TypeOK /\ InOrder(All, last, sent) /\ All \in Seq(Commands)
      /\ last \in [Senders -> Numbers] /\ sent \in [Senders -> Numbers]
      /\ last[s] \in Numbers /\ sent[s] \in Numbers
  BY AllType DEF LoopInv, TypeOK
<1>2. /\ Len(Waiting(s)) < InFlight /\ channel' = Append(channel, c)
      /\ sent' = [sent EXCEPT ![s] = Following(sent[s])] /\ Len(channel) < ChannelCap
      /\ UNCHANGED <<pending, batchVars, tickDue, admin, last>>
  BY DEF Enqueue
<1>3. c \in Commands
  BY <1>1 DEF Commands
<1>4. sent[s] # last[s]
  <2>1. Len(Waiting(s)) = Gap(last[s], sent[s]) - 1
    BY <1>1, NumbersWaiting DEF Waiting
  <2>2. sent[s] = last[s] => Gap(last[s], sent[s]) = InFlight + 1
    BY <1>1, LoopAssumption DEF Gap, Numbers
  <2>3. QED
    BY <1>2, <2>1, <2>2, LoopAssumption
<1> HIDE DEF c
<1>5. TypeOK'
  <2>1. channel' \in Seq(Commands) /\ Len(channel') <= ChannelCap
    BY <1>1, <1>2, <1>3, LoopAssumption DEF TypeOK
  <2>2. sent' \in [Senders -> Numbers]
    BY <1>1, <1>2, FollowingType
  <2>3. QED
    BY <1>1, <1>2, <2>1, <2>2 DEF TypeOK, batchVars
<1>6. BacklogBounded' /\ OrderCovers' /\ NothingSeen'
  BY <1>2 DEF batchVars, LoopInv, BacklogBounded, OrderCovers, NothingSeen, From
<1>7. All' = Append(All, c)
  <2>1. channel \in Seq(Commands) /\ batch \o pending \in Seq(Commands)
    BY <1>1 DEF TypeOK
  <2>2. (batch \o pending) \o Append(channel, c) = Append((batch \o pending) \o channel, c)
    BY <1>3, <2>1
  <2>3. QED
    BY <1>2, <2>2 DEF All, batchVars
<1>8. InOrder(Append(All, c), last, sent')
  BY <1>1, <1>2, <1>4, GivesOut DEF c
<1>9. QED
  BY <1>2, <1>5, <1>6, <1>7, <1>8 DEF LoopInv

LEMMA TakeStep ==
  ASSUME LoopInv, Start \/ Collect PROVE LoopInv'
<1>1. TypeOK /\ BacklogBounded /\ Take
      /\ UNCHANGED <<order, turn, progress, tickDue, admin, sent, last>>
  BY DEF LoopInv, Start, Collect
<1>2. HasRoom
  BY <1>1, LoopAssumption DEF Start, Collect, HasRoom, TypeOK
<1>3. /\ batch' \in Seq(Commands) /\ pending' \in Seq(Commands)
      /\ channel' \in Seq(Commands) /\ Len(batch') <= BatchLimit
      /\ Len(channel') <= ChannelCap /\ BacklogBounded' /\ All' = All
  BY <1>1, <1>2, TakeKeeps
<1>4. phase' = "collect"
  BY DEF Start, Collect
<1>5. TypeOK'
  BY <1>1, <1>3, <1>4 DEF TypeOK
<1>6. OrderCovers' /\ NothingSeen'
  BY <1>4 DEF OrderCovers, NothingSeen
<1>7. InOrder(All', last', sent')
  BY <1>1, <1>3 DEF LoopInv
<1>8. QED
  BY <1>3, <1>5, <1>6, <1>7 DEF LoopInv

LEMMA CollectTickStep == ASSUME LoopInv, CollectTick PROVE LoopInv'
<1>1. /\ TypeOK /\ BacklogBounded /\ pending = <<>> /\ pending' = batch
      /\ batch' = <<>> /\ phase' = "idle" /\ tickDue' = FALSE
      /\ UNCHANGED <<channel, order, turn, progress, admin, sent, last>>
  BY DEF LoopInv, CollectTick
<1>2. TypeOK'
  <2>1. <<>> \in Seq(Commands) /\ Len(<<>>) = 0 /\ 0 <= BatchLimit
    BY LoopAssumption
  <2>2. QED
    BY <1>1, <2>1 DEF TypeOK
<1>3. OrderCovers' /\ NothingSeen'
  BY <1>1 DEF OrderCovers, NothingSeen
<1>4. All' = All
  <2>1. batch \o <<>> = batch /\ <<>> \o batch = batch
    BY <1>1, ConcatEmptySeq DEF TypeOK
  <2>2. QED
    BY <1>1, <2>1 DEF All
<1>5. InOrder(All', last', sent')
  BY <1>1, <1>4 DEF LoopInv
<1>6. BacklogBounded'
  <2>1. Len(batch) \in Nat /\ Len(<<>>) = 0 /\ BatchLimit \in Nat
    BY <1>1, LoopAssumption DEF TypeOK
  <2>2. QED
    BY <1>1, <2>1 DEF BacklogBounded
<1>7. QED
  BY <1>2, <1>3, <1>5, <1>6 DEF LoopInv

LEMMA ExecuteStep == ASSUME LoopInv, Execute PROVE LoopInv'
<1>1. /\ TypeOK /\ batch \in Seq(Commands) /\ phase' = "execute"
      /\ order' = FirstSeen(batch) /\ turn' = 1 /\ progress' = FALSE
      /\ UNCHANGED <<channel, pending, batch, tickDue, admin, sent, last>>
  BY DEF LoopInv, Execute, TypeOK
<1>2. /\ FirstSeen(batch) \in Seq(Senders)
      /\ \A i \in DOMAIN batch : \E k \in DOMAIN FirstSeen(batch) :
           FirstSeen(batch)[k] = batch[i].from
  BY <1>1, FirstSeenCovers
<1>3. TypeOK'
  <2>1. turn' \in 1..(Len(order') + 1)
    BY <1>1, <1>2
  <2>2. QED
    BY <1>1, <1>2, <2>1 DEF TypeOK
<1>4. OrderCovers' /\ NothingSeen'
  BY <1>1, <1>2 DEF OrderCovers, NothingSeen
<1>5. QED
  BY <1>1, <1>3, <1>4, QuietStep

LEMMA NoneFrom ==
  ASSUME NEW queue \in Seq(Commands), NEW s
  PROVE  Of(s, queue) = <<>> <=> From(s, queue) = {}
<1>1. IsFiniteSet(From(s, queue)) /\ Cardinality(From(s, queue)) \in Nat
  BY FromType, FS_CardinalityType
<1>2. Len(Of(s, queue)) = Cardinality(From(s, queue))
      /\ (Of(s, queue) = <<>> <=> Len(Of(s, queue)) = 0)
  BY <1>1 DEF Of, At
<1>3. QED
  BY <1>1, <1>2, FS_EmptySet

LEMMA SkipTurnStep == ASSUME LoopInv, SkipTurn PROVE LoopInv'
<1>1. /\ TypeOK /\ turn' = turn + 1 /\ turn <= Len(order) /\ phase = "execute"
      /\ Of(order[turn], batch) = <<>>
      /\ UNCHANGED <<channel, pending, batch, phase, order, progress, tickDue, admin,
                     sent, last>>
  BY DEF LoopInv, SkipTurn, InTurn
<1>2. TypeOK'
  <2>1. turn' \in 1..(Len(order') + 1)
    BY <1>1 DEF TypeOK
  <2>2. QED
    BY <1>1, <2>1 DEF TypeOK
<1>3. From(order[turn], batch) = {}
  BY <1>1, NoneFrom DEF TypeOK
<1>4. OrderCovers'
  BY <1>1 DEF LoopInv, OrderCovers
<1>5. NothingSeen'
  <2>1. ASSUME ~progress, NEW k \in 1..(turn' - 1) PROVE From(order[k], batch) = {}
    <3>1. k \in 1..(turn - 1) \/ k = turn
      BY <1>1 DEF TypeOK
    <3>2. QED
      BY <1>1, <1>3, <2>1, <3>1 DEF LoopInv, NothingSeen
  <2>2. QED
    BY <1>1, <2>1 DEF NothingSeen, From
<1>6. QED
  BY <1>1, <1>2, <1>4, <1>5, QuietStep

LEMMA NextRoundStep == ASSUME LoopInv, NextRound PROVE LoopInv'
<1>1. /\ TypeOK /\ turn' = 1 /\ progress' = FALSE
      /\ UNCHANGED <<channel, pending, batch, phase, order, tickDue, admin, sent, last>>
  BY DEF LoopInv, NextRound
<1>2. TypeOK'
  <2>1. turn' \in 1..(Len(order') + 1)
    BY <1>1 DEF TypeOK
  <2>2. QED
    BY <1>1, <2>1 DEF TypeOK
<1>3. OrderCovers' /\ NothingSeen'
  BY <1>1 DEF LoopInv, OrderCovers, NothingSeen
<1>4. QED
  BY <1>1, <1>2, <1>3, QuietStep

(* The batch that is thrown away is empty.                                 *)
LEMMA BatchDoneStep == ASSUME LoopInv, BatchDone PROVE LoopInv'
<1>1. /\ TypeOK /\ phase = "execute" /\ turn > Len(order) /\ ~progress
      /\ phase' = "idle" /\ batch' = <<>> /\ order' = <<>> /\ turn' = 1
      /\ UNCHANGED <<channel, pending, progress, tickDue, admin, sent, last>>
  BY DEF LoopInv, BatchDone
<1>2. batch = <<>>
  <2>1. ASSUME NEW i \in DOMAIN batch PROVE FALSE
    <3>1. PICK k \in DOMAIN order : order[k] = batch[i].from
      BY <1>1 DEF LoopInv, OrderCovers
    <3>2. k \in 1..(turn - 1)
      BY <1>1 DEF TypeOK
    <3>3. From(order[k], batch) = {}
      BY <1>1, <3>2 DEF LoopInv, NothingSeen
    <3>4. QED
      BY <3>1, <3>3 DEF From
  <2>2. batch \in Seq(Commands)
    BY <1>1 DEF TypeOK
  <2>3. QED
    BY <2>1, <2>2
<1>3. TypeOK'
  BY <1>1, LoopAssumption DEF TypeOK
<1>4. OrderCovers' /\ NothingSeen'
  BY <1>1 DEF OrderCovers, NothingSeen
<1>5. QED
  BY <1>1, <1>2, <1>3, <1>4, QuietStep

LEMMA EndBatchStep ==
  ASSUME TypeOK, NEW left \in Seq(Commands), EndBatch(left),
         Len(left) + Len(pending) <= BatchLimit,
         \A i \in DOMAIN left : \E k \in DOMAIN order : order[k] = left[i].from,
         InOrder(left \o pending \o channel, last', sent'),
         channel' = channel, tickDue' \in BOOLEAN, admin' \in 0..AdminCap,
         sent' \in [Senders -> Numbers], last' \in [Senders -> Numbers]
  PROVE  LoopInv'
<1>1. pending \in Seq(Commands) /\ channel \in Seq(Commands) /\ order \in Seq(Senders)
      /\ Len(channel) <= ChannelCap
  BY DEF TypeOK
<1>2. /\ pending' = Requeue(left) /\ batch' = <<>> /\ phase' = "idle"
      /\ order' = <<>> /\ turn' = 1 /\ progress' = FALSE
  BY DEF EndBatch
<1>3. /\ Requeue(left) \in Seq(Commands) /\ Len(Requeue(left)) = Len(left) + Len(pending)
      /\ InOrder(<<>> \o Requeue(left) \o channel, last', sent')
  BY <1>1, LeavesOver
<1>4. TypeOK'
  <2>1. <<>> \in Seq(Commands) /\ <<>> \in Seq(Senders) /\ Len(<<>>) = 0
        /\ 0 <= BatchLimit /\ 1 \in 1..(0 + 1)
    BY LoopAssumption
  <2>2. QED
    BY <1>1, <1>2, <1>3, <2>1 DEF TypeOK
<1>5. BacklogBounded'
  <2>1. Len(<<>>) = 0 /\ Len(left) \in Nat /\ Len(pending) \in Nat
    BY <1>1
  <2>2. QED
    BY <1>2, <1>3, <2>1 DEF BacklogBounded
<1>6. OrderCovers' /\ NothingSeen'
  BY <1>2 DEF OrderCovers, NothingSeen
<1>7. InOrder(All', last', sent')
  BY <1>2, <1>3 DEF All
<1>8. QED
  BY <1>4, <1>5, <1>6, <1>7 DEF LoopInv

LEMMA ExecuteTickStep == ASSUME LoopInv, ExecuteTick PROVE LoopInv'
<1>1. /\ TypeOK /\ BacklogBounded /\ EndBatch(batch) /\ phase = "execute"
      /\ tickDue' = FALSE /\ UNCHANGED <<channel, admin, sent, last>>
  BY DEF LoopInv, ExecuteTick, InTurn
<1>2. batch \in Seq(Commands) /\ Len(batch) + Len(pending) <= BatchLimit
  BY <1>1 DEF TypeOK, BacklogBounded
<1>3. \A i \in DOMAIN batch : \E k \in DOMAIN order : order[k] = batch[i].from
  BY <1>1 DEF LoopInv, OrderCovers
<1>4. InOrder(batch \o pending \o channel, last', sent')
  BY <1>1 DEF LoopInv, All
<1>5. tickDue' \in BOOLEAN /\ admin' \in 0..AdminCap
      /\ sent' \in [Senders -> Numbers] /\ last' \in [Senders -> Numbers]
  BY <1>1 DEF TypeOK
<1>6. QED
  BY <1>1, <1>2, <1>3, <1>4, <1>5, EndBatchStep

(* The command that is handled: the oldest of its session, not only in the *)
(* batch.                                                                  *)
LEMMA Handled ==
  ASSUME LoopInv, HandleNext
  PROVE  LET s == order[turn]
             i == OldestOf(s)
         IN  /\ s \in Senders /\ i \in DOMAIN batch /\ batch[i].from = s
             /\ last' = [last EXCEPT ![s] = batch[i].n]
             /\ batch[i].n = Following(last[s]) /\ Gap(last[s], sent[s]) > 1
             /\ RemoveAt(batch, i) \in Seq(Commands)
             /\ Len(RemoveAt(batch, i)) = Len(batch) - 1
             /\ \A j \in DOMAIN RemoveAt(batch, i) : \E g \in DOMAIN batch :
                  RemoveAt(batch, i)[j] = batch[g]
             /\ InOrder(RemoveAt(batch, i) \o pending \o channel, last', sent)
<1> DEFINE s == order[turn]
<1> DEFINE i == OldestOf(s)
<1> DEFINE left == RemoveAt(batch, i)
<1>1. /\ TypeOK /\ turn <= Len(order) /\ Of(s, batch) # <<>>
      /\ last' = [last EXCEPT ![s] = batch[i].n] /\ InOrder(All, last, sent)
  BY DEF LoopInv, HandleNext, InTurn
<1>2. /\ batch \in Seq(Commands) /\ pending \in Seq(Commands) /\ channel \in Seq(Commands)
      /\ last \in [Senders -> Numbers] /\ sent \in [Senders -> Numbers]
  BY <1>1 DEF TypeOK
<1>3. s \in Senders
  BY <1>1 DEF TypeOK
<1>4. i \in From(s, batch) /\ \A j \in From(s, batch) : i <= j
  <2>1. From(s, batch) # {} /\ From(s, batch) \in SUBSET Nat
    BY <1>1, <1>2, NoneFrom, FromType
  <2>2. PICK k \in From(s, batch) : \A j \in From(s, batch) : k <= j
    BY <2>1, Lowest
  <2>3. \E m \in DOMAIN batch :
          batch[m].from = s /\ \A j \in DOMAIN batch : batch[j].from = s => m <= j
    BY <2>2 DEF From
  <2>4. QED
    BY <2>3 DEF OldestOf, From
<1> HIDE DEF i
<1>5. i \in DOMAIN batch /\ batch[i].from = s
  BY <1>4 DEF From
<1>6. /\ left \in Seq(Commands) /\ Len(left) = Len(batch) - 1
      /\ \A j \in 1..(Len(batch) - 1) : left[j] = batch[IF j < i THEN j ELSE j + 1]
  BY <1>2, <1>5, Removed
<1>7. ASSUME NEW j \in DOMAIN left PROVE \E g \in DOMAIN batch : left[j] = batch[g]
  <2>1. j \in 1..(Len(batch) - 1) /\ Len(batch) \in Nat /\ DOMAIN batch = 1..Len(batch)
    BY <1>2, <1>6
  <2>2. left[j] = batch[IF j < i THEN j ELSE j + 1]
    BY <1>6, <2>1
  <2>3. (IF j < i THEN j ELSE j + 1) \in DOMAIN batch
    BY <1>2, <1>5, <2>1
  <2>4. QED
    BY <2>2, <2>3
<1> DEFINE rest == pending \o channel
<1>8. rest \in Seq(Commands)
  BY <1>2, Joined
<1>9. All = batch \o rest /\ left \o pending \o channel = left \o rest
  <2> HIDE DEF left
  <2>1. (batch \o pending) \o channel = batch \o (pending \o channel)
    BY <1>2, JoinedTwice
  <2>2. (left \o pending) \o channel = left \o (pending \o channel)
    BY <1>2, <1>6, JoinedTwice
  <2>3. QED
    BY <2>1, <2>2 DEF All
<1> HIDE DEF rest
<1>10. /\ i \in From(s, All) /\ All[i] = batch[i] /\ \A j \in From(s, All) : i <= j
       /\ All \in Seq(Commands)
  <2>1. /\ DOMAIN batch = 1..Len(batch) /\ Len(batch) \in Nat /\ All \in Seq(Commands)
        /\ DOMAIN All = 1..(Len(batch) + Len(rest)) /\ Len(rest) \in Nat
        /\ \A j \in DOMAIN batch : All[j] = batch[j]
    BY <1>2, <1>8, <1>9, ConcatProperties
  <2>2. i \in From(s, All) /\ All[i] = batch[i]
    BY <1>5, <2>1 DEF From
  <2>3. ASSUME NEW j \in From(s, All) PROVE i <= j
    <3>1. j \in DOMAIN All /\ All[j].from = s
      BY DEF From
    <3>2. CASE j \in DOMAIN batch
      BY <1>4, <2>1, <3>1, <3>2 DEF From
    <3>3. CASE j \notin DOMAIN batch
      BY <1>5, <2>1, <3>1, <3>3
    <3>4. QED
      BY <3>2, <3>3
  <2>4. QED
    BY <2>1, <2>2, <2>3
<1>11. /\ All[i].n = Following(last[s]) /\ Gap(last[s], sent[s]) > 1
       /\ InOrder(RemoveAt(All, i), [last EXCEPT ![s] = All[i].n], sent)
  BY <1>1, <1>2, <1>3, <1>10, HandsOver
<1>12. RemoveAt(All, i) = left \o rest
  BY <1>2, <1>5, <1>8, <1>9, RemovedInFront
<1>13. InOrder(left \o pending \o channel, last', sent)
  BY <1>1, <1>9, <1>10, <1>11, <1>12
<1>14. batch[i].n = Following(last[s]) /\ Gap(last[s], sent[s]) > 1
  BY <1>10, <1>11
<1>15. QED
  BY <1>1, <1>3, <1>5, <1>6, <1>7, <1>13, <1>14 DEF i

LEMMA HandleNextStep == ASSUME LoopInv, HandleNext PROVE LoopInv'
<1> DEFINE s == order[turn]
<1> DEFINE i == OldestOf(s)
<1> DEFINE left == RemoveAt(batch, i)
<1>1. /\ s \in Senders /\ i \in DOMAIN batch /\ batch[i].from = s
      /\ last' = [last EXCEPT ![s] = batch[i].n] /\ batch[i].n = Following(last[s])
      /\ left \in Seq(Commands) /\ Len(left) = Len(batch) - 1
      /\ \A j \in DOMAIN left : \E g \in DOMAIN batch : left[j] = batch[g]
      /\ InOrder(left \o pending \o channel, last', sent)
  BY Handled
<1>2. /\ TypeOK /\ BacklogBounded /\ phase = "execute" /\ turn <= Len(order)
      /\ UNCHANGED <<channel, tickDue, admin, sent>>
      /\ \/ batch' = left /\ turn' = turn + 1 /\ progress' = TRUE
            /\ UNCHANGED <<pending, phase, order>>
         \/ EndBatch(left)
  BY DEF LoopInv, HandleNext, InTurn
<1> HIDE DEF s, i, left
<1>3. /\ last' \in [Senders -> Numbers] /\ sent' \in [Senders -> Numbers]
      /\ tickDue' \in BOOLEAN /\ admin' \in 0..AdminCap
  <2>1. last \in [Senders -> Numbers] /\ last[s] \in Numbers
    BY <1>1, <1>2 DEF TypeOK
  <2>2. last' \in [Senders -> Numbers]
    BY <1>1, <2>1, FollowingType
  <2>3. QED
    BY <1>2, <2>2 DEF TypeOK
<1>4. /\ Len(left) + Len(pending) <= BatchLimit /\ Len(left) <= BatchLimit
      /\ Len(batch) \in Nat /\ Len(pending) \in Nat
  <2>1. Len(batch) \in Nat /\ Len(pending) \in Nat /\ Len(batch) <= BatchLimit
        /\ Len(batch) + Len(pending) <= BatchLimit /\ BatchLimit \in Nat
    BY <1>2, LoopAssumption DEF TypeOK, BacklogBounded
  <2>2. QED
    BY <1>1, <2>1
<1>5. \A j \in DOMAIN left : \E k \in DOMAIN order : order[k] = left[j].from
  BY <1>1, <1>2 DEF LoopInv, OrderCovers
<1>6. CASE EndBatch(left)
  BY <1>1, <1>2, <1>3, <1>4, <1>5, <1>6, EndBatchStep
<1>7. CASE /\ batch' = left /\ turn' = turn + 1 /\ progress' = TRUE
           /\ UNCHANGED <<pending, phase, order>>
  <2>1. TypeOK'
    <3>1. turn' \in 1..(Len(order') + 1)
      BY <1>2, <1>7 DEF TypeOK
    <3>2. QED
      BY <1>1, <1>2, <1>3, <1>4, <1>7, <3>1 DEF TypeOK
  <2>2. BacklogBounded'
    BY <1>4, <1>7 DEF BacklogBounded
  <2>3. OrderCovers' /\ NothingSeen'
    BY <1>5, <1>7 DEF OrderCovers, NothingSeen
  <2>4. InOrder(All', last', sent')
    BY <1>1, <1>2, <1>7 DEF All
  <2>5. QED
    BY <2>1, <2>2, <2>3, <2>4 DEF LoopInv
<1>8. QED
  BY <1>2, <1>6, <1>7

LEMMA NextLoop == LoopInv /\ [Next]_vars => LoopInv'
<1>1. ASSUME LoopInv, UNCHANGED vars PROVE LoopInv'
  <2>1. TypeOK'
    BY <1>1 DEF vars, batchVars, LoopInv, TypeOK
  <2>2. OrderCovers' /\ NothingSeen'
    BY <1>1 DEF vars, batchVars, LoopInv, OrderCovers, NothingSeen, From
  <2>3. QED
    BY <1>1, <2>1, <2>2, QuietStep DEF vars, batchVars
<1>2. ASSUME LoopInv, Next PROVE LoopInv'
  BY <1>2, OutsideStep, EnqueueStep, TakeStep, CollectTickStep, ExecuteStep,
     SkipTurnStep, NextRoundStep, BatchDoneStep, ExecuteTickStep, HandleNextStep
     DEF Next, Run
<1>3. QED
  BY <1>1, <1>2

(* The inductive invariant of the command loop: over the batch, the        *)
(* left-overs and the channel together each sender's commands stand in the *)
(* order they were sent, without a gap and without a double.               *)
THEOREM SpecLoopInv == Spec => []LoopInv
BY InitLoop, NextLoop, PTL DEF Spec

(* The types of the queues, of the batch and of its rounds.                *)
THEOREM LoopTypeCorrect == Spec => []TypeOK
<1>1. LoopInv => TypeOK
  BY DEF LoopInv
<1>2. QED
  BY <1>1, SpecLoopInv, PTL

(* However often ticks and the budget cut batches short, what a batch took *)
(* and left over never outgrows one batch.                                 *)
THEOREM BacklogStaysBounded == Spec => []BacklogBounded
<1>1. LoopInv => BacklogBounded
  BY DEF LoopInv
<1>2. QED
  BY <1>1, SpecLoopInv, PTL

-----------------------------------------------------------------------------
(* The refinement of SessionMailboxes. *)

mailboxes == [s \in Senders |-> [i \in DOMAIN Waiting(s) |-> Waiting(s)[i].n]]

(* The numbers between the last one handled and the next one given out.    *)
Between == [s \in Senders |-> [k \in 1..(Gap(last[s], sent[s]) - 1) |-> After(last[s], k)]]

Named == mailboxes = Between

LEMMA MailboxesAreBetween == LoopInv => Named
<1> SUFFICES ASSUME LoopInv PROVE mailboxes = Between
  BY DEF Named
<1>1. All \in Seq(Commands) /\ InOrder(All, last, sent)
      /\ last \in [Senders -> Numbers] /\ sent \in [Senders -> Numbers]
  BY AllType DEF LoopInv, TypeOK
<1>2. ASSUME NEW s \in Senders
      PROVE  [i \in DOMAIN Waiting(s) |-> Waiting(s)[i].n]
               = [k \in 1..(Gap(last[s], sent[s]) - 1) |-> After(last[s], k)]
  BY <1>1, NumbersWaiting DEF NumbersOf, Waiting
<1>3. QED
  BY <1>2 DEF mailboxes, Between

LEMMA SendsOne ==
  ASSUME LoopInv, NEW s \in Senders, Enqueue(s)
  PROVE  Between' = [Between EXCEPT ![s] = Append(@, sent[s])] /\ last' = last
<1>1. /\ last \in [Senders -> Numbers] /\ sent \in [Senders -> Numbers]
      /\ last[s] \in Numbers /\ sent[s] \in Numbers /\ last' = last
      /\ sent' = [sent EXCEPT ![s] = Following(sent[s])] /\ Len(Waiting(s)) < InFlight
      /\ InOrder(All, last, sent)
  BY DEF LoopInv, TypeOK, Enqueue
<1>2. Gap(last[s], sent[s]) \in 1..(InFlight + 1)
      /\ sent[s] = After(last[s], Gap(last[s], sent[s]))
  BY <1>1, GapType
<1>3. sent[s] # last[s]
  <2>1. Len(Waiting(s)) = Gap(last[s], sent[s]) - 1
    BY <1>1, AllType, NumbersWaiting DEF Waiting, LoopInv
  <2>2. sent[s] = last[s] => Gap(last[s], sent[s]) = InFlight + 1
    BY <1>1, LoopAssumption DEF Gap, Numbers
  <2>3. QED
    BY <1>1, <2>1, <2>2, LoopAssumption
<1>4. Gap(last[s], sent'[s]) = Gap(last[s], sent[s]) + 1
  BY <1>1, <1>3, GapGrows
<1> DEFINE n == Gap(last[s], sent[s]) - 1
<1> DEFINE box == [k \in 1..n |-> After(last[s], k)]
<1>5. n \in Nat /\ Gap(last[s], sent'[s]) - 1 = n + 1 /\ sent[s] = After(last[s], n + 1)
  BY <1>2, <1>4
<1>6. [k \in 1..(n + 1) |-> After(last[s], k)] = Append(box, sent[s])
  <2> HIDE DEF n
  <2>1. \A k \in 1..n : After(last[s], k) \in {After(last[s], j) : j \in 1..(n + 1)}
    BY <1>5
  <2>2. box \in Seq({After(last[s], j) : j \in 1..(n + 1)}) /\ Len(box) = n
    BY <1>5, <2>1
  <2>3. DOMAIN Append(box, sent[s]) = 1..(n + 1)
    BY <1>5, <2>2
  <2>4. ASSUME NEW k \in 1..(n + 1) PROVE Append(box, sent[s])[k] = After(last[s], k)
    <3>1. CASE k = n + 1
      BY <1>5, <2>2, <3>1
    <3>2. CASE k \in 1..n
      BY <1>5, <2>2, <3>2
    <3>3. QED
      BY <1>5, <3>1, <3>2
  <2>5. Append(box, sent[s]) = [k \in 1..(n + 1) |-> Append(box, sent[s])[k]]
    BY <1>5, <2>2, <2>3
  <2>6. QED
    BY <2>4, <2>5
<1>7. Between'[s] = Append(Between[s], sent[s])
  BY <1>1, <1>5, <1>6 DEF Between
<1>8. \A v \in Senders : v # s => Between'[v] = Between[v]
  BY <1>1 DEF Between
<1>9. QED
  BY <1>1, <1>7, <1>8 DEF Between

LEMMA DeliversOne ==
  ASSUME LoopInv, HandleNext
  PROVE  \E s \in Senders :
           /\ Between[s] # <<>> /\ last' = [last EXCEPT ![s] = Head(Between[s])]
           /\ Between' = [Between EXCEPT ![s] = Tail(@)]
<1> DEFINE s == order[turn]
<1>1. /\ s \in Senders /\ last' = [last EXCEPT ![s] = Following(last[s])]
      /\ Gap(last[s], sent[s]) > 1 /\ sent' = sent
      /\ last \in [Senders -> Numbers] /\ sent \in [Senders -> Numbers]
  BY Handled DEF HandleNext, LoopInv, TypeOK
<1> HIDE DEF s
<1>2. Gap(last[s], sent[s]) \in 1..(InFlight + 1) /\ last[s] \in Numbers
      /\ InFlight \in Nat
  BY <1>1, GapType, LoopAssumption
<1>3. Gap(Following(last[s]), sent[s]) = Gap(last[s], sent[s]) - 1
  BY <1>1, <1>2, GapShrinks
<1> DEFINE n == Gap(last[s], sent[s]) - 1
<1> DEFINE box == [k \in 1..n |-> After(last[s], k)]
<1>4. n \in Nat /\ n >= 1 /\ n <= InFlight
  BY <1>1, <1>2
<1>5. box[1] = Following(last[s])
  BY <1>2, <1>4, FollowingType
<1>6. box # <<>> /\ Head(box) = Following(last[s])
      /\ Tail(box) = [k \in 1..(n - 1) |-> After(Following(last[s]), k)]
  <2>1. \A k \in 1..n : box[k] \in Numbers
    BY <1>2, <1>4, AfterType
  <2>2. ASSUME NEW k \in 1..(n - 1) PROVE box[k + 1] = After(Following(last[s]), k)
    BY <1>2, <1>4, AfterFollowing
  <2>3. box \in Seq(Numbers) /\ Len(box) = n
    BY <1>4, <2>1
  <2> HIDE DEF n, box
  <2>4. box # <<>> /\ Head(box) = box[1] /\ Len(Tail(box)) = n - 1
        /\ Tail(box) \in Seq(Numbers) /\ \A k \in 1..(n - 1) : Tail(box)[k] = box[k + 1]
    BY <1>4, <2>3
  <2> DEFINE others == [k \in 1..(n - 1) |-> After(Following(last[s]), k)]
  <2>5. \A k \in 1..(n - 1) : After(Following(last[s]), k) \in Numbers
    BY <1>2, <1>4, FollowingType, AfterType
  <2>6. others \in Seq(Numbers) /\ Len(others) = n - 1
    BY <1>4, <2>5
  <2>7. \A k \in 1..(n - 1) : others[k] = Tail(box)[k]
    BY <2>2, <2>4
  <2> HIDE DEF others
  <2>8. others = Tail(box)
    BY <2>4, <2>6, <2>7, SeqEqual
  <2>9. QED
    BY <1>5, <2>4, <2>8 DEF others
<1>7. Between[s] = box
  BY <1>1 DEF Between
<1>8. Between'[s] = [k \in 1..(n - 1) |-> After(Following(last[s]), k)]
  BY <1>1, <1>3 DEF Between
<1>9. \A v \in Senders : v # s => Between'[v] = Between[v]
  BY <1>1 DEF Between
<1> HIDE DEF n, box
<1>10. Between' = [Between EXCEPT ![s] = Tail(box)]
  BY <1>1, <1>6, <1>8, <1>9 DEF Between
<1>11. QED
  BY <1>1, <1>6, <1>7, <1>10

LEMMA NextDelivers ==
  ASSUME LoopInv, Named, Named', [Next]_vars
  PROVE  [Mailboxes!Next]_<<mailboxes, last>>
<1>1. mailboxes = Between /\ mailboxes' = Between'
  BY DEF Named
<1>2. ASSUME UNCHANGED <<last, sent>> PROVE UNCHANGED <<mailboxes, last>>
  BY <1>1, <1>2 DEF Between
<1>3. ASSUME NEW s \in Senders, Enqueue(s) PROVE Mailboxes!Send(s)
  <2>1. sent[s] \in Numbers
    BY DEF LoopInv, TypeOK
  <2>2. QED
    BY <1>1, <1>3, <2>1, SendsOne DEF Mailboxes!Send, mailboxes
<1>4. ASSUME HandleNext PROVE \E s \in Senders : Mailboxes!Deliver(s)
  BY <1>1, <1>4, DeliversOne DEF Mailboxes!Deliver, mailboxes
<1>5. ASSUME Next, ~HandleNext, \A s \in Senders : ~Enqueue(s)
      PROVE  UNCHANGED <<last, sent>>
  BY <1>5 DEF Next, Run, Start, RunJobs, RunTick, Collect, CollectTick, Execute,
     ExecuteTick, SkipTurn, NextRound, BatchDone, Ticker, EnqueueAdmin
<1>6. CASE UNCHANGED vars
  BY <1>2, <1>6 DEF vars
<1>7. QED
  BY <1>2, <1>3, <1>4, <1>5, <1>6 DEF Mailboxes!Next

(* Through batches, left-overs, rounds and ticks every sender sees a       *)
(* mailbox of its own: its commands are handled once, all, and in order,   *)
(* whatever the number of senders and the sizes of the queues.             *)
THEOREM LoopImplementsMailboxes == Spec => ImplementsMailboxes
<1>1. Init => Mailboxes!Init
  <2> SUFFICES ASSUME Init PROVE Mailboxes!Init
    OBVIOUS
  <2>1. \A s \in Senders : Gap(last[s], sent[s]) - 1 = 0
    BY LoopAssumption DEF Init, Gap
  <2>2. Between = [s \in Senders |-> <<>>]
    BY <2>1 DEF Between
  <2>3. mailboxes = [s \in Senders |-> <<>>]
    BY <2>2, InitLoop, MailboxesAreBetween DEF Named
  <2>4. last \in [Senders -> Numbers]
    BY InitLoop DEF LoopInv, TypeOK
  <2>5. QED
    BY <2>3, <2>4 DEF Mailboxes!Init, mailboxes
<1>2. LoopInv /\ Named /\ Named' /\ [Next]_vars => [Mailboxes!Next]_<<mailboxes, last>>
  BY NextDelivers
<1>3. QED
  BY <1>1, <1>2, SpecLoopInv, MailboxesAreBetween, PTL
     DEF Spec, Mailboxes!Spec, Mailboxes!mailboxVars, ImplementsMailboxes, mailboxes

=============================================================================
