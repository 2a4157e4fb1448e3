------------------------- MODULE ClientSocketProofs -------------------------
(***************************************************************************)
(* Proofs about ClientSocket, for any buffer sizes, any frames and any     *)
(* number of connections, clicks, packets and units.                       *)
(***************************************************************************)
EXTENDS ClientSocket, SequenceTheorems, TLAPS

-----------------------------------------------------------------------------
\* The elements of a concatenation.
LEMMA Appended ==
  ASSUME NEW S, NEW q \in Seq(S), NEW p \in Seq(S)
  PROVE  /\ q \o p \in Seq(S) /\ Len(q \o p) = Len(q) + Len(p)
         /\ \A i \in 1 .. Len(q) : (q \o p)[i] = q[i]
         /\ \A i \in 1 .. Len(p) : (q \o p)[Len(q) + i] = p[i]
<1> DEFINE c == q \o p
<1>1. /\ c \in Seq(S) /\ Len(c) = Len(q) + Len(p)
      /\ \A i \in 1 .. Len(q) + Len(p) :
           c[i] = IF i <= Len(q) THEN q[i] ELSE p[i - Len(q)]
  BY ConcatProperties
<1>2. Len(q) \in Nat /\ Len(p) \in Nat
  BY LenProperties
<1> HIDE DEF c
<1>3. ASSUME NEW i \in 1 .. Len(q) PROVE c[i] = q[i]
  BY <1>1, <1>2
<1>4. ASSUME NEW i \in 1 .. Len(p) PROVE c[Len(q) + i] = p[i]
  <2>1. /\ Len(q) + i \in 1 .. Len(q) + Len(p) /\ ~(Len(q) + i <= Len(q))
        /\ (Len(q) + i) - Len(q) = i
    BY <1>2
  <2>2. QED
    BY <1>1, <2>1
<1>5. QED
  BY <1>1, <1>3, <1>4 DEF c

\* What is left of a sequence after its first k elements.
LEMMA Suffix ==
  ASSUME NEW S, NEW q \in Seq(S), NEW k \in 0 .. Len(q)
  PROVE  /\ SubSeq(q, k + 1, Len(q)) \in Seq(S)
         /\ Len(SubSeq(q, k + 1, Len(q))) = Len(q) - k
         /\ \A i \in 1 .. Len(q) - k : SubSeq(q, k + 1, Len(q))[i] = q[k + i]
<1> DEFINE m == k + 1
           n == Len(q)
<1>1. m \in Int /\ n \in Int /\ n - m + 1 = Len(q) - k /\ k <= Len(q)
  OBVIOUS
<1>2. \A i \in m .. n : q[i] \in S
  BY ElementOfSeq
<1>3. \A i \in Int : m + i - 1 = k + i
  OBVIOUS
<1> HIDE DEF m
<1>4. /\ SubSeq(q, m, n) \in Seq(S)
      /\ Len(SubSeq(q, m, n)) = IF m <= n THEN n - m + 1 ELSE 0
      /\ \A i \in 1 .. n - m + 1 : SubSeq(q, m, n)[i] = q[m + i - 1]
  BY <1>1, <1>2, SubSeqProperties
<1>5. \A i \in 1 .. Len(q) - k : SubSeq(q, m, n)[i] = q[k + i]
  BY <1>1, <1>3, <1>4
<1>6. Len(SubSeq(q, m, n)) = Len(q) - k
  BY <1>1, <1>4
<1>7. QED
  BY <1>4, <1>5, <1>6 DEF m

\* Elements added at the end are added to what is left.
LEMMA ConcatSuffix ==
  ASSUME NEW S, NEW q \in Seq(S), NEW p \in Seq(S), NEW k \in 0 .. Len(q)
  PROVE  SubSeq(q \o p, k + 1, Len(q \o p)) = SubSeq(q, k + 1, Len(q)) \o p
<1> DEFINE c == q \o p
           x == SubSeq(c, k + 1, Len(c))
           y == SubSeq(q, k + 1, Len(q))
<1>1. /\ c \in Seq(S) /\ Len(c) = Len(q) + Len(p)
      /\ \A i \in 1 .. Len(q) + Len(p) :
           c[i] = IF i <= Len(q) THEN q[i] ELSE p[i - Len(q)]
  BY ConcatProperties
<1> HIDE DEF c
<1>2. k \in 0 .. Len(c) /\ Len(q) \in Nat /\ Len(p) \in Nat
  BY <1>1
<1>3. /\ x \in Seq(S) /\ Len(x) = Len(c) - k
      /\ \A i \in 1 .. Len(c) - k : x[i] = c[k + i]
  BY <1>1, <1>2, Suffix
<1>4. /\ y \in Seq(S) /\ Len(y) = Len(q) - k
      /\ \A i \in 1 .. Len(q) - k : y[i] = q[k + i]
  BY Suffix
<1> HIDE DEF x, y
<1>5. /\ y \o p \in Seq(S) /\ Len(y \o p) = Len(y) + Len(p)
      /\ \A i \in 1 .. Len(y) + Len(p) :
           (y \o p)[i] = IF i <= Len(y) THEN y[i] ELSE p[i - Len(y)]
  BY <1>4, ConcatProperties
<1>6. Len(x) = Len(y \o p) /\ Len(x) = (Len(q) - k) + Len(p)
  BY <1>1, <1>2, <1>3, <1>4, <1>5
<1>7. ASSUME NEW i \in 1 .. Len(x)
      PROVE  x[i] = (y \o p)[i]
  <2>1. x[i] = c[k + i] /\ k + i \in 1 .. Len(q) + Len(p)
    BY <1>1, <1>2, <1>3, <1>6
  <2>2. CASE i <= Len(q) - k
    <3>1. x[i] = q[k + i]
      BY <1>1, <1>2, <2>1, <2>2
    <3>2. (y \o p)[i] = y[i]
      BY <1>2, <1>4, <1>5, <1>6, <2>2
    <3>3. QED
      BY <1>2, <1>4, <2>2, <3>1, <3>2
  <2>3. CASE i > Len(q) - k
    <3>1. x[i] = p[k + i - Len(q)]
      BY <1>1, <1>2, <2>1, <2>3
    <3>2. (y \o p)[i] = p[i - Len(y)]
      BY <1>2, <1>4, <1>5, <1>6, <2>3
    <3>3. i - Len(y) = k + i - Len(q)
      BY <1>2, <1>4, <1>6
    <3>4. QED
      BY <3>1, <3>2, <3>3
  <2>4. i <= Len(q) - k \/ i > Len(q) - k
    BY <1>2, <1>6
  <2>5. QED
    BY <2>2, <2>3, <2>4
<1>8. x = y \o p
  BY <1>3, <1>5, <1>6, <1>7, SeqEqual
<1>9. QED
  BY <1>8 DEF x, y, c

-----------------------------------------------------------------------------
(* Senders: what SendMessageA and AddMessage do to a buffer and the wire.  *)

Senders == {s \in [buf : Seq(PacketUnit), pos : Nat, out : Seq(PacketUnit)] :
              s.pos <= Len(s.buf) /\ Len(s.buf) <= SendCap}

Left(s)   == SubSeq(s.buf, s.pos + 1, Len(s.buf))
Stream(s) == s.out \o Left(s)

LEMMA IsSender ==
  ASSUME NEW b \in Seq(PacketUnit), NEW p \in Nat, NEW o \in Seq(PacketUnit),
         p <= Len(b), Len(b) <= SendCap
  PROVE  [buf |-> b, pos |-> p, out |-> o] \in Senders
  BY DEF Senders

LEMMA EmptySender ==
  ASSUME NEW o \in Seq(PacketUnit)
  PROVE  [buf |-> <<>>, pos |-> 0, out |-> o] \in Senders
<1> DEFINE e == <<>>
<1>1. e \in Seq(PacketUnit) /\ Len(e) = 0
  BY EmptySeq
<1> HIDE DEF e
<1>2. 0 \in Nat /\ 0 <= Len(e) /\ Len(e) <= SendCap
  BY <1>1, SocketAssumption
<1>3. [buf |-> e, pos |-> 0, out |-> o] \in Senders
  BY <1>1, <1>2, IsSender
<1>4. QED
  BY <1>3 DEF e

LEMMA LeftProperties ==
  ASSUME NEW s \in Senders
  PROVE  /\ Left(s) \in Seq(PacketUnit)
         /\ Len(Left(s)) = Len(s.buf) - s.pos
         /\ s.pos = 0 => Left(s) = s.buf
<1>1. s.buf \in Seq(PacketUnit) /\ s.pos \in 0 .. Len(s.buf)
  BY DEF Senders
<1>2. \A i \in s.pos + 1 .. Len(s.buf) : s.buf[i] \in PacketUnit
  BY <1>1, ElementOfSeq
<1>3. /\ Left(s) \in Seq(PacketUnit)
      /\ Len(Left(s)) = Len(s.buf) - s.pos
  BY <1>1, <1>2, SubSeqProperties DEF Left
<1>4. s.pos = 0 => Left(s) = s.buf
  BY <1>1, SubSeqFull DEF Left
<1>5. QED
  BY <1>3, <1>4

\* A sequence is its first j elements and the others.
LEMMA Cut ==
  ASSUME NEW t \in Seq(PacketUnit), NEW j \in 0 .. Len(t)
  PROVE  /\ SubSeq(t, 1, j) \in Seq(PacketUnit)
         /\ SubSeq(t, j + 1, Len(t)) \in Seq(PacketUnit)
         /\ SubSeq(t, 1, j) \o SubSeq(t, j + 1, Len(t)) = t
         /\ j = Len(t) => SubSeq(t, 1, j) = t
<1>1. \A i \in 1 .. Len(t) : t[i] \in PacketUnit
  BY ElementOfSeq
<1>2. SubSeq(t, 1, j) \in Seq(PacketUnit)
  <2>1. \A i \in 1 .. j : t[i] \in PacketUnit
    BY <1>1
  <2>2. QED
    BY <2>1, SubSeqProperties
<1>3. SubSeq(t, j + 1, Len(t)) \in Seq(PacketUnit)
  <2>1. \A i \in j + 1 .. Len(t) : t[i] \in PacketUnit
    BY <1>1
  <2>2. QED
    BY <2>1, SubSeqProperties
<1>4. SubSeq(t, 1, Len(t)) = t
  BY SubSeqFull
<1>5. SubSeq(t, 1, j) \o SubSeq(t, j + 1, Len(t)) = t
  <2>1. /\ 1 \in 1 .. Len(t) + 1 /\ j \in 1 - 1 .. Len(t)
        /\ Len(t) \in j .. Len(t)
    OBVIOUS
  <2>2. QED
    BY <1>4, <2>1, ConcatAdjacentSubSeq
<1>6. QED
  BY <1>2, <1>3, <1>4, <1>5

LEMMA ConcatThree ==
  ASSUME NEW x \in Seq(PacketUnit), NEW y \in Seq(PacketUnit),
         NEW z \in Seq(PacketUnit)
  PROVE  (x \o y) \o z = x \o (y \o z)
  BY ConcatAssociative

LEMMA SendKeepsStream ==
  ASSUME NEW s \in Senders, NEW j \in 0 .. Unsent(s)
  PROVE  /\ SendMessageA(s, j) \in Senders
         /\ Stream(SendMessageA(s, j)) = Stream(s)
<1> DEFINE t == IF s.pos > 0 THEN Compact(s) ELSE s
           l == Left(s)
<1>1. /\ s.buf \in Seq(PacketUnit) /\ s.pos \in Nat /\ s.out \in Seq(PacketUnit)
      /\ s.pos <= Len(s.buf) /\ Len(s.buf) <= SendCap /\ Len(s.buf) \in Nat
  BY DEF Senders
<1>2. l \in Seq(PacketUnit) /\ Len(l) = Len(s.buf) - s.pos
  BY LeftProperties
<1>3. t.buf = l /\ t.pos = 0 /\ t.out = s.out
  <2>1. CASE s.pos > 0
    BY <2>1 DEF Compact, Left, Senders
  <2>2. CASE s.pos = 0
    BY <2>2, LeftProperties
  <2>3. QED
    BY <1>1, <2>1, <2>2
<1>4. j \in 0 .. Len(l)
  BY <1>1, <1>2 DEF Unsent
<1> DEFINE a == SubSeq(l, 1, j)
           b == SubSeq(l, j + 1, Len(l))
<1>5. /\ a \in Seq(PacketUnit) /\ b \in Seq(PacketUnit) /\ a \o b = l
      /\ j = Len(l) => a = l
  BY <1>2, <1>4, Cut
<1>6. SendMessageA(s, j) =
        IF j = Len(l) THEN [buf |-> <<>>, pos |-> 0, out |-> s.out \o a]
        ELSE [buf |-> l, pos |-> j, out |-> s.out \o a]
  <2>1. t.pos + 1 = 1 /\ t.pos + j = j
    BY <1>3, <1>4
  <2> HIDE DEF t, l
  <2>2. SendMessageA(s, j) =
          LET o == t.out \o SubSeq(t.buf, t.pos + 1, t.pos + j)
          IN  IF t.pos + j = Len(t.buf)
              THEN [buf |-> <<>>, pos |-> 0, out |-> o]
              ELSE [buf |-> t.buf, pos |-> t.pos + j, out |-> o]
    BY DEF SendMessageA, t
  <2>3. QED
    BY <1>3, <2>1, <2>2
<1> HIDE DEF t, l, a, b
<1>7. s.out \o a \in Seq(PacketUnit)
  BY <1>1, <1>5, ConcatProperties
<1>8. CASE j = Len(l)
  <2>1. SendMessageA(s, j) = [buf |-> <<>>, pos |-> 0, out |-> s.out \o l]
    BY <1>5, <1>6, <1>8
  <2>2. SendMessageA(s, j) \in Senders
    <3>1. s.out \o l \in Seq(PacketUnit)
      BY <1>5, <1>7, <1>8
    <3>2. QED
      BY <2>1, <3>1, EmptySender
  <2>3. Left(SendMessageA(s, j)) = <<>>
    BY <2>1, SubSeqEmpty DEF Left
  <2>4. s.out \o l \in Seq(PacketUnit)
    BY <1>1, <1>2, ConcatProperties
  <2>5. QED
    BY <2>1, <2>2, <2>3, <2>4, ConcatEmptySeq DEF Stream, l
<1>9. CASE j # Len(l)
  <2>1. SendMessageA(s, j) = [buf |-> l, pos |-> j, out |-> s.out \o a]
    BY <1>6, <1>9
  <2>2. SendMessageA(s, j) \in Senders
    <3>1. j \in Nat /\ j <= Len(l) /\ Len(l) <= SendCap
      BY <1>1, <1>2, <1>4, SocketAssumption
    <3>2. QED
      BY <1>2, <1>7, <2>1, <3>1, IsSender
  <2>3. Left(SendMessageA(s, j)) = b
    BY <2>1 DEF Left, b
  <2>4. (s.out \o a) \o b = s.out \o l
    <3>1. (s.out \o a) \o b = s.out \o (a \o b)
      BY <1>1, <1>5, ConcatThree
    <3>2. QED
      BY <1>5, <3>1
  <2>5. QED
    <3>1. SendMessageA(s, j).out = s.out \o a
      BY <2>1
    <3>2. Stream(SendMessageA(s, j)) = (s.out \o a) \o b
      BY <2>3, <3>1 DEF Stream
    <3>3. QED
      BY <2>2, <2>4, <3>2 DEF Stream, l
<1>10. QED
  BY <1>8, <1>9

LEMMA AddKeepsStream ==
  ASSUME NEW s \in Senders, NEW p \in Seq(PacketUnit),
         CanAppendPacket(Len(p), s)
  PROVE  /\ AddUnits(s, p) \in Senders
         /\ Stream(AddUnits(s, p)) = Stream(s) \o p
<1> DEFINE t == AddUnits(s, p)
<1>1. /\ s.buf \in Seq(PacketUnit) /\ s.pos \in Nat /\ s.out \in Seq(PacketUnit)
      /\ s.pos <= Len(s.buf) /\ Len(s.buf) \in Nat /\ Len(p) \in Nat
  BY DEF Senders
<1>2. /\ s.buf \o p \in Seq(PacketUnit)
      /\ Len(s.buf \o p) = Len(s.buf) + Len(p)
  BY <1>1, ConcatProperties
<1>3. t.buf = s.buf \o p /\ t.pos = s.pos /\ t.out = s.out
  BY DEF AddUnits, Senders
<1>4. t \in Senders
  <2>1. t \in [buf : Seq(PacketUnit), pos : Nat, out : Seq(PacketUnit)]
    BY <1>2 DEF AddUnits, Senders
  <2>2. s.pos <= Len(s.buf \o p) /\ Len(s.buf \o p) <= SendCap
    BY <1>1, <1>2, SocketAssumption DEF CanAppendPacket
  <2> HIDE DEF t
  <2>3. QED
    BY <1>3, <2>1, <2>2 DEF Senders
<1> HIDE DEF t
<1>5. Left(t) = Left(s) \o p
  <2>1. s.pos \in 0 .. Len(s.buf)
    BY <1>1
  <2>2. QED
    BY <1>1, <1>3, <2>1, ConcatSuffix DEF Left
<1>6. Stream(t) = s.out \o (Left(s) \o p)
  BY <1>3, <1>5 DEF Stream
<1>7. QED
  BY <1>1, <1>4, <1>6, LeftProperties, ConcatThree DEF Stream, t

Framed(s, p) == IF CanAppendPacket(Len(p), s) THEN Stream(s) \o p ELSE Stream(s)

LEMMA AddMessageStream ==
  ASSUME NEW s \in Senders, NEW p \in Seq(PacketUnit), NEW t \in AddMessage(s, p)
  PROVE  t \in Senders /\ Stream(t) = Framed(s, p)
<1>1. CASE CanAppendPacket(Len(p), s)
  <2> DEFINE a == AddUnits(s, p)
  <2>1. a \in Senders /\ Stream(a) = Stream(s) \o p
    BY <1>1, AddKeepsStream
  <2>2. PICK j \in 0 .. Unsent(a) : t = SendMessageA(a, j)
    BY <1>1 DEF AddMessage
  <2> HIDE DEF a
  <2>3. QED
    BY <1>1, <2>1, <2>2, SendKeepsStream DEF Framed
<1>2. CASE ~CanAppendPacket(Len(p), s)
  BY <1>2 DEF AddMessage, Framed
<1>3. QED
  BY <1>1, <1>2

\* A call of SendOneMessage on a stream that is intact leaves one that is.
LEMMA SendOneMessageStep ==
  ASSUME NEW s \in Senders, NEW p \in Seq(PacketUnit),
         NEW before \in Seq(PacketUnit), NEW given \in Seq(PacketUnit),
         before \o Stream(s) = given,
         SendOneMessage(s, p, before, given)
  PROVE  /\ sendBuf' \in Seq(PacketUnit) /\ Len(sendBuf') <= SendCap
         /\ sentPos' \in 0 .. Len(sendBuf')
         /\ wire' \in Seq(PacketUnit) /\ accepted' \in Seq(PacketUnit)
         /\ SendStreamIntact'
<1>1. PICK t \in AddMessage(s, p) : \E j \in 0 .. Unsent(t) :
        LET u == SendMessageA(t, j)
        IN  sendBuf' = u.buf /\ sentPos' = u.pos /\ wire' = before \o u.out
  BY DEF SendOneMessage
<1>2. PICK j \in 0 .. Unsent(t) :
        LET u == SendMessageA(t, j)
        IN  sendBuf' = u.buf /\ sentPos' = u.pos /\ wire' = before \o u.out
  BY <1>1
<1> DEFINE u == SendMessageA(t, j)
<1>3. t \in Senders /\ Stream(t) = Framed(s, p)
  BY AddMessageStream
<1>4. u \in Senders /\ Stream(u) = Framed(s, p)
  BY <1>2, <1>3, SendKeepsStream
<1>5. sendBuf' = u.buf /\ sentPos' = u.pos /\ wire' = before \o u.out
  BY <1>2
<1> HIDE DEF u
<1>6. /\ u.buf \in Seq(PacketUnit) /\ Len(u.buf) <= SendCap
      /\ u.pos \in 0 .. Len(u.buf) /\ u.out \in Seq(PacketUnit)
  BY <1>4 DEF Senders
<1>7. /\ Stream(s) \in Seq(PacketUnit)
      /\ Left(u) \in Seq(PacketUnit)
  <2>1. Left(s) \in Seq(PacketUnit) /\ s.out \in Seq(PacketUnit)
    BY LeftProperties DEF Senders
  <2>2. Left(u) \in Seq(PacketUnit)
    BY <1>4, LeftProperties
  <2>3. QED
    BY <2>1, <2>2, ConcatProperties DEF Stream
<1>8. accepted' = before \o Framed(s, p) /\ accepted' \in Seq(PacketUnit)
  <2>1. CASE CanAppendPacket(Len(p), s)
    <3>1. accepted' = given \o p
      BY <2>1 DEF SendOneMessage
    <3>2. given \o p = before \o (Stream(s) \o p)
      BY <1>7, ConcatThree, ZenonT(60)
    <3>3. given \o p \in Seq(PacketUnit)
      BY ConcatProperties
    <3>4. QED
      BY <2>1, <3>1, <3>2, <3>3 DEF Framed
  <2>2. CASE ~CanAppendPacket(Len(p), s)
    BY <2>2 DEF SendOneMessage, Framed
  <2>3. QED
    BY <2>1, <2>2
<1>9. SendStreamIntact'
  <2>1. Backlog' = Left(u)
    BY <1>5 DEF Backlog, Left
  <2>2. (before \o u.out) \o Left(u) = before \o (u.out \o Left(u))
    <3>1. u.out \in Seq(PacketUnit) /\ Left(u) \in Seq(PacketUnit)
      BY <1>6, <1>7
    <3>2. QED
      BY <3>1, ConcatThree, ZenonT(60)
  <2>3. u.out \o Left(u) = Framed(s, p)
    BY <1>4 DEF Stream
  <2>4. QED
    BY <1>5, <1>8, <2>1, <2>2, <2>3 DEF SendStreamIntact
<1>10. wire' \in Seq(PacketUnit)
  BY <1>5, <1>6, ConcatProperties
<1>11. QED
  BY <1>5, <1>6, <1>8, <1>9, <1>10

-----------------------------------------------------------------------------
(* The invariant.                                                          *)

(* Every unit of s stands in its place in a frame that is there as a whole. *)
InFrame(s, i) ==
  LET b == i - s[i].part
  IN  /\ b \in Nat /\ s[i].part \in 1 .. s[i].size /\ b + s[i].size <= Len(s)
      /\ \A j \in 1 .. s[i].size :
           /\ s[b + j].conn = s[i].conn /\ s[b + j].size = s[i].size
           /\ s[b + j].part = j /\ s[b + j].serial = b + j

Whole(s) == \A i \in 1 .. Len(s) : InFrame(s, i)

(* What waits in the receive buffer is what the server sent after the      *)
(* frames the scenes were given.                                           *)
Aligned ==
  ~lost =>
    /\ Len(got) + (Len(recvBuf) - proc) = taken
    /\ \A i \in 1 .. Len(got) : got[i] = sent[i]
    /\ \A i \in 1 .. Len(recvBuf) - proc : recvBuf[proc + i] = sent[Len(got) + i]

WholeFrames == got # <<>> => got[Len(got)].part = got[Len(got)].size

Received == Whole(sent) /\ Aligned /\ WholeFrames

IInv == TypeOK /\ Received /\ SendStreamIntact

received == <<sent, taken, got, recvBuf, proc, lost>>
stream   == <<sendBuf, sentPos, wire, accepted>>

LEMMA ReceivedUnchanged ==
  ASSUME Received, UNCHANGED received
  PROVE  Received'
  BY DEF Received, Whole, InFrame, Aligned, WholeFrames, received

LEMMA StreamUnchanged ==
  ASSUME SendStreamIntact, UNCHANGED stream
  PROVE  SendStreamIntact'
  BY DEF SendStreamIntact, Backlog, stream

LEMMA NoPackets == <<>> \in Seq(PacketUnit) /\ Len(<<>>) = 0
  BY EmptySeq

LEMMA NoUnits == <<>> \in Seq(Unit) /\ Len(<<>>) = 0
  BY EmptySeq

LEMMA NothingReceived ==
  ASSUME sent' = <<>>, got' = <<>>, recvBuf' = <<>>, proc' = 0, taken' = 0
  PROVE  Received'
<1>1. Len(sent') = 0 /\ Len(got') = 0 /\ Len(recvBuf') = 0
  BY NoUnits
<1>2. Whole(sent')
  BY <1>1 DEF Whole
<1>3. Aligned'
  BY <1>1 DEF Aligned
<1>4. QED
  BY <1>2, <1>3 DEF Received, WholeFrames

LEMMA Closed ==
  ASSUME TypeOK, CloseSocket, UNCHANGED made
  PROVE  /\ Received' /\ SendStreamIntact'
         /\ sock' \in {0, made'} /\ pending' \in BOOLEAN
         /\ recvBuf' \in Seq(Unit) /\ Len(recvBuf') < RecvCap
         /\ proc' \in 0 .. Len(recvBuf')
         /\ sendBuf' \in Seq(PacketUnit) /\ Len(sendBuf') <= SendCap
         /\ sentPos' \in 0 .. Len(sendBuf')
         /\ sent' \in Seq(Unit) /\ taken' \in 0 .. Len(sent')
         /\ closed' \in BOOLEAN /\ got' \in Seq(Unit) /\ tries' \in Nat
         /\ wire' \in Seq(PacketUnit) /\ accepted' \in Seq(PacketUnit)
         /\ lost' \in BOOLEAN /\ stale' \in BOOLEAN
<1>1. Received'
  BY NothingReceived DEF CloseSocket, ClearPositions
<1>2. SendStreamIntact'
  <2>1. Backlog' = <<>>
    BY NoPackets, SubSeqEmpty DEF CloseSocket, Backlog
  <2>2. <<>> \o <<>> = <<>>
    BY NoPackets, ConcatEmptySeq
  <2>3. QED
    BY <2>1, <2>2 DEF CloseSocket, SendStreamIntact
<1>3. /\ sent' \in Seq(Unit) /\ Len(sent') = 0 /\ taken' = 0
      /\ got' \in Seq(Unit)
      /\ recvBuf' \in Seq(Unit) /\ Len(recvBuf') = 0 /\ proc' = 0
  BY NoUnits DEF CloseSocket, ClearPositions
<1>4. /\ sendBuf' \in Seq(PacketUnit) /\ Len(sendBuf') = 0 /\ sentPos' = 0
      /\ wire' \in Seq(PacketUnit) /\ accepted' \in Seq(PacketUnit)
  BY NoPackets DEF CloseSocket
<1>5. /\ sock' \in {0, made'} /\ pending' \in BOOLEAN /\ closed' \in BOOLEAN
      /\ tries' \in Nat /\ lost' \in BOOLEAN /\ stale' \in BOOLEAN
  BY DEF CloseSocket
<1>6. /\ Len(recvBuf') < RecvCap /\ proc' \in 0 .. Len(recvBuf')
      /\ Len(sendBuf') <= SendCap /\ sentPos' \in 0 .. Len(sendBuf')
      /\ taken' \in 0 .. Len(sent')
  BY <1>3, <1>4, SocketAssumption
<1>7. QED
  BY <1>1, <1>2, <1>3, <1>4, <1>5, <1>6

-----------------------------------------------------------------------------
(* The server, the player and the senders.                                 *)

LEMMA UnitsOfProperties ==
  ASSUME NEW f \in Frames
  PROVE  /\ f.size \in Nat \ {0}
         /\ \A c, n \in Nat : /\ UnitsOf(c, n, f) \in Seq(Unit)
                             /\ Len(UnitsOf(c, n, f)) = f.size
<1>1. f.size \in Nat \ {0} /\ f.kind \in Kinds
  BY SocketAssumption
<1>2. ASSUME NEW c \in Nat, NEW n \in Nat
      PROVE  /\ UnitsOf(c, n, f) \in Seq(Unit)
             /\ Len(UnitsOf(c, n, f)) = f.size
  <2>1. UnitsOf(c, n, f) \in [1 .. f.size -> Unit]
    BY <1>1 DEF UnitsOf, Unit
  <2>2. UnitsOf(c, n, f) \in Seq(Unit)
    BY <1>1, <2>1, SeqDef
  <2>3. Len(UnitsOf(c, n, f)) = f.size
    BY <1>1, <2>1, <2>2, LenProperties
  <2>4. QED
    BY <2>2, <2>3
<1>3. QED
  BY <1>1, <1>2

LEMMA PacketOfProperties ==
  ASSUME NEW id \in Nat, NEW n \in PacketSizes
  PROVE  PacketOf(id, n) \in Seq(PacketUnit)
<1>1. n \in Nat
  BY SocketAssumption
<1>2. PacketOf(id, n) \in [1 .. n -> PacketUnit]
  BY <1>1 DEF PacketOf, PacketUnit
<1>3. QED
  BY <1>1, <1>2, SeqDef

LEMMA UnitsAppended ==
  \A q, p \in Seq(Unit) :
    /\ q \o p \in Seq(Unit) /\ Len(q \o p) = Len(q) + Len(p)
    /\ \A i \in 1 .. Len(q) : (q \o p)[i] = q[i]
    /\ \A i \in 1 .. Len(p) : (q \o p)[Len(q) + i] = p[i]
  BY Appended

LEMMA FrameAppended ==
  ASSUME NEW s \in Seq(Unit), Whole(s), NEW c \in Nat, NEW f \in Frames
  PROVE  Whole(s \o UnitsOf(c, Len(s), f))
<1> DEFINE n  == Len(s)
           z  == f.size
           us == UnitsOf(c, n, f)
           t  == s \o us
<1>1. n \in Nat /\ z \in Nat \ {0}
  BY LenProperties, SocketAssumption
<1>2. \A i \in 1 .. z : /\ us[i].conn = c /\ us[i].size = z
                         /\ us[i].part = i /\ us[i].serial = n + i
  BY <1>1 DEF UnitsOf
<1>3. /\ Len(t) = n + z
      /\ \A i \in 1 .. n : t[i] = s[i]
      /\ \A i \in 1 .. z : t[n + i] = us[i]
  <2>1. us \in Seq(Unit) /\ Len(us) = z
    BY <1>1, UnitsOfProperties
  <2>2. us \in Seq(Unit)
    BY <2>1
  <2> HIDE DEF us
  <2>3. /\ Len(s \o us) = Len(s) + Len(us)
        /\ \A i \in 1 .. Len(s) : (s \o us)[i] = s[i]
        /\ \A i \in 1 .. Len(us) : (s \o us)[Len(s) + i] = us[i]
    BY <2>2, UnitsAppended
  <2>4. QED
    BY <2>1, <2>3
<1> HIDE DEF us, z, t, n
<1>4. ASSUME NEW i \in 1 .. n PROVE InFrame(t, i)
  <2> DEFINE b == i - s[i].part
  <2>1. /\ b \in Nat /\ s[i].part \in 1 .. s[i].size /\ b + s[i].size <= n
        /\ \A j \in 1 .. s[i].size :
             /\ s[b + j].conn = s[i].conn /\ s[b + j].size = s[i].size
             /\ s[b + j].part = j /\ s[b + j].serial = b + j
    BY DEF Whole, InFrame, n
  <2>2. s[i] \in Unit
    BY ElementOfSeq DEF n
  <2>3. s[i].size \in Nat
    BY <2>2 DEF Unit
  <2>4. t[i] = s[i]
    BY <1>3
  <2> HIDE DEF b
  <2>5. ASSUME NEW j \in 1 .. s[i].size PROVE t[b + j] = s[b + j]
    <3>1. b + j \in 1 .. n
      BY <1>1, <2>1, <2>3
    <3>2. QED
      BY <1>3, <3>1
  <2>6. b + s[i].size <= Len(t)
    BY <1>1, <1>3, <2>1, <2>3
  <2>7. QED
    BY <2>1, <2>4, <2>5, <2>6, ZenonT(60) DEF InFrame, b
<1>5. ASSUME NEW k \in 1 .. z PROVE InFrame(t, n + k)
  <2>1. /\ t[n + k].part = k /\ t[n + k].size = z /\ t[n + k].conn = c
    BY <1>2, <1>3
  <2>2. (n + k) - k = n /\ n + z <= Len(t) /\ k \in 1 .. z
    BY <1>1, <1>3
  <2>3. \A j \in 1 .. z :
          /\ t[n + j].conn = c /\ t[n + j].size = z
          /\ t[n + j].part = j /\ t[n + j].serial = n + j
    BY <1>2, <1>3
  <2>4. QED
    BY <1>1, <2>1, <2>2, <2>3 DEF InFrame
<1>6. ASSUME NEW i \in 1 .. Len(t) PROVE InFrame(t, i)
  <2>1. CASE i <= n
    BY <1>1, <1>4, <2>1
  <2>2. CASE i > n
    <3>1. i - n \in 1 .. z /\ n + (i - n) = i
      BY <1>1, <1>3, <2>2
    <3>2. QED
      BY <1>5, <3>1
  <2>3. QED
    BY <1>1, <2>1, <2>2
<1>7. QED
  BY <1>6 DEF Whole, t, us, n

LEMMA ServerSendsStep ==
  ASSUME IInv, NEW f \in Frames, ServerSends(f)
  PROVE  IInv'
<1>1. /\ sent \in Seq(Unit) /\ Len(sent) \in Nat /\ sock \in Nat
      /\ taken \in 0 .. Len(sent)
  BY SocketAssumption DEF IInv, TypeOK
<1> DEFINE us == UnitsOf(sock, Len(sent), f)
<1>2. us \in Seq(Unit) /\ Len(us) = f.size /\ f.size \in Nat \ {0}
  BY <1>1, UnitsOfProperties
<1>3. sent' = sent \o us
  BY DEF ServerSends
<1>4. Whole(sent')
  BY <1>1, <1>3, FrameAppended DEF IInv, Received
<1> HIDE DEF us
<1>5. /\ sent' \in Seq(Unit) /\ Len(sent') = Len(sent) + f.size
      /\ \A i \in 1 .. Len(sent) : sent'[i] = sent[i]
  BY <1>1, <1>2, <1>3, Appended
<1>6. Aligned'
  <2> SUFFICES ASSUME ~lost PROVE Aligned'
    BY DEF Aligned, ServerSends
  <2>1. /\ got' = got /\ recvBuf' = recvBuf /\ proc' = proc /\ taken' = taken
        /\ got \in Seq(Unit) /\ recvBuf \in Seq(Unit)
        /\ proc \in 0 .. Len(recvBuf)
    BY DEF ServerSends, recvVars, IInv, TypeOK
  <2>2. /\ Len(got) + (Len(recvBuf) - proc) = taken
        /\ \A i \in 1 .. Len(got) : got[i] = sent[i]
        /\ \A i \in 1 .. Len(recvBuf) - proc :
             recvBuf[proc + i] = sent[Len(got) + i]
    BY DEF IInv, Received, Aligned
  <2>3. Len(got) \in Nat /\ Len(recvBuf) \in Nat
    BY <2>1, LenProperties
  <2>4. ASSUME NEW i \in 1 .. Len(got) PROVE got[i] = sent'[i]
    <3>1. i \in 1 .. Len(sent)
      BY <1>1, <2>1, <2>2, <2>3
    <3>2. QED
      BY <1>5, <2>2, <3>1
  <2>5. ASSUME NEW i \in 1 .. Len(recvBuf) - proc
        PROVE  recvBuf[proc + i] = sent'[Len(got) + i]
    <3>1. Len(got) + i \in 1 .. Len(sent)
      BY <1>1, <2>1, <2>2, <2>3
    <3>2. QED
      BY <1>5, <2>2, <3>1
  <2>6. QED
    BY <2>1, <2>2, <2>4, <2>5 DEF Aligned
<1>7. WholeFrames' /\ SendStreamIntact'
  <2>1. UNCHANGED stream
    BY DEF ServerSends, sendVars, stream
  <2>2. SendStreamIntact'
    BY <2>1, StreamUnchanged DEF IInv
  <2>3. QED
    BY <2>2 DEF IInv, Received, WholeFrames, ServerSends
<1>8. taken' \in 0 .. Len(sent')
  BY <1>1, <1>2, <1>5 DEF ServerSends
<1>9. TypeOK'
  BY <1>5, <1>8 DEF IInv, TypeOK, ServerSends, recvVars, sendVars
<1>10. QED
  BY <1>4, <1>6, <1>7, <1>9 DEF IInv, Received

LEMMA ServerClosesStep ==
  ASSUME IInv, ServerCloses
  PROVE  IInv'
<1>1. UNCHANGED received /\ UNCHANGED stream
  BY DEF ServerCloses, recvVars, sendVars, received, stream
<1>2. Received' /\ SendStreamIntact'
  BY <1>1, ReceivedUnchanged, StreamUnchanged DEF IInv
<1>3. TypeOK'
  BY DEF IInv, TypeOK, ServerCloses, recvVars, sendVars
<1>4. QED
  BY <1>2, <1>3 DEF IInv

LEMMA Queued ==
  ASSUME TypeOK, NEW m \in {"read", "login", "leave"}
  PROVE  /\ Append(queue, m) \in Seq({"read", "login", "leave"})
         /\ queue # <<>> => Tail(queue) \in Seq({"read", "login", "leave"})
  BY AppendProperties, HeadTailProperties DEF TypeOK

LEMMA ClickStep ==
  ASSUME IInv, NEW what \in {"login", "leave"}, Click(what)
  PROVE  IInv'
<1>1. UNCHANGED received /\ UNCHANGED stream
  BY DEF Click, recvVars, sendVars, peerVars, received, stream
<1>2. Received' /\ SendStreamIntact'
  BY <1>1, ReceivedUnchanged, StreamUnchanged DEF IInv
<1>3. queue' \in Seq({"read", "login", "leave"})
  BY Queued DEF IInv, Click
<1>4. TypeOK'
  BY <1>3 DEF IInv, TypeOK, Click, recvVars, sendVars, peerVars
<1>5. QED
  BY <1>2, <1>4 DEF IInv

LEMMA PollStep ==
  ASSUME IInv, Poll
  PROVE  IInv'
<1>1. UNCHANGED received /\ UNCHANGED stream
  BY DEF Poll, recvVars, sendVars, peerVars, received, stream
<1>2. Received' /\ SendStreamIntact'
  BY <1>1, ReceivedUnchanged, StreamUnchanged DEF IInv
<1>3. queue' \in Seq({"read", "login", "leave"})
  BY Queued DEF IInv, Poll
<1>4. TypeOK'
  BY <1>3 DEF IInv, TypeOK, Poll, recvVars, sendVars, peerVars
<1>5. QED
  BY <1>2, <1>4 DEF IInv

LEMMA SendStep ==
  ASSUME IInv, NEW n \in PacketSizes, Send(n)
  PROVE  IInv'
<1> DEFINE s == [buf |-> sendBuf, pos |-> sentPos, out |-> <<>>]
           p == PacketOf(tries + 1, n)
<1>1. /\ sendBuf \in Seq(PacketUnit) /\ Len(sendBuf) <= SendCap
      /\ sentPos \in Nat /\ sentPos <= Len(sendBuf)
      /\ wire \in Seq(PacketUnit) /\ accepted \in Seq(PacketUnit)
      /\ tries + 1 \in Nat
  BY DEF IInv, TypeOK
<1>2. s \in Senders
  BY <1>1, NoPackets, IsSender
<1>3. p \in Seq(PacketUnit)
  <2>1. \A id \in Nat : PacketOf(id, n) \in Seq(PacketUnit)
    BY PacketOfProperties
  <2>2. QED
    BY <1>1, <2>1
<1>4. SendOneMessage(s, p, wire, accepted)
  BY DEF Send
<1>5. wire \o Stream(s) = accepted
  <2>1. Left(s) = Backlog
    BY DEF Left, Backlog
  <2>2. Backlog \in Seq(PacketUnit)
    BY <1>2, <2>1, LeftProperties
  <2>3. Stream(s) = <<>> \o Backlog
    BY <2>1 DEF Stream
  <2>4. Stream(s) = Backlog
    BY <2>2, <2>3, ConcatEmptySeq
  <2>5. QED
    BY <2>4 DEF IInv, SendStreamIntact
<1> HIDE DEF s, p
<1>6. /\ sendBuf' \in Seq(PacketUnit) /\ Len(sendBuf') <= SendCap
      /\ sentPos' \in 0 .. Len(sendBuf')
      /\ wire' \in Seq(PacketUnit) /\ accepted' \in Seq(PacketUnit)
      /\ SendStreamIntact'
  BY <1>1, <1>2, <1>3, <1>4, <1>5, SendOneMessageStep
<1>7. UNCHANGED received
  BY DEF Send, recvVars, peerVars, received
<1>8. Received'
  BY <1>7, ReceivedUnchanged DEF IInv
<1>9. TypeOK'
  BY <1>1, <1>6 DEF IInv, TypeOK, Send, recvVars, peerVars
<1>10. QED
  BY <1>6, <1>8, <1>9 DEF IInv

-----------------------------------------------------------------------------
(* Opening and closing.                                                    *)

LEMMA ConnectStep ==
  ASSUME IInv, NEW n \in PacketSizes, NEW rest, ConnectServer(n, rest),
         UNCHANGED <<scene, reading, clicks>>,
         queue' \in Seq({"read", "login", "leave"})
  PROVE  IInv'
<1> DEFINE s == [buf |-> <<>>, pos |-> 0, out |-> <<>>]
           p == PacketOf(1, n)
<1>1. InitCode \in Seq(PacketUnit)
  <2>1. [packet |-> 0, part |-> 0] \in PacketUnit
    BY DEF PacketUnit
  <2>2. QED
    BY <2>1 DEF InitCode
<1>2. s \in Senders
  BY NoPackets, EmptySender
<1>3. p \in Seq(PacketUnit)
  BY PacketOfProperties
<1>4. SendOneMessage(s, p, InitCode, InitCode)
  BY DEF ConnectServer
<1>5. InitCode \o Stream(s) = InitCode
  <2>1. Left(s) = <<>>
    BY NoPackets, SubSeqEmpty DEF Left
  <2>2. Stream(s) = <<>> \o <<>>
    BY <2>1 DEF Stream
  <2>3. Stream(s) = <<>>
    BY <2>2, NoPackets, ConcatEmptySeq
  <2>4. QED
    BY <1>1, <2>3, ConcatEmptySeq
<1> HIDE DEF s, p
<1>6. /\ sendBuf' \in Seq(PacketUnit) /\ Len(sendBuf') <= SendCap
      /\ sentPos' \in 0 .. Len(sendBuf')
      /\ wire' \in Seq(PacketUnit) /\ accepted' \in Seq(PacketUnit)
      /\ SendStreamIntact'
  BY <1>1, <1>2, <1>3, <1>4, <1>5, SendOneMessageStep
<1>7. Received'
  BY NothingReceived DEF ConnectServer, ClearPositions
<1>8. /\ sent' \in Seq(Unit) /\ Len(sent') = 0 /\ taken' = 0
      /\ got' \in Seq(Unit)
      /\ recvBuf' \in Seq(Unit) /\ Len(recvBuf') = 0 /\ proc' = 0
  BY NoUnits DEF ConnectServer, ClearPositions
<1>9. /\ Len(recvBuf') < RecvCap /\ proc' \in 0 .. Len(recvBuf')
      /\ taken' \in 0 .. Len(sent')
  BY <1>8, SocketAssumption
<1>10. made' \in 0 .. MaxConn /\ sock' = made'
  BY SocketAssumption DEF IInv, TypeOK, ConnectServer
<1>11. /\ pending' \in BOOLEAN /\ closed' \in BOOLEAN /\ tries' \in Nat
       /\ lost' \in BOOLEAN /\ stale' \in BOOLEAN
  BY DEF ConnectServer, HasRead
<1>12. TypeOK'
  BY <1>6, <1>8, <1>9, <1>10, <1>11 DEF IInv, TypeOK
<1>13. QED
  BY <1>6, <1>7, <1>12 DEF IInv

LEMMA CloseStep ==
  ASSUME IInv, CloseSocket, UNCHANGED <<made, clicks>>,
         scene' \in {"select", "game"}, reading' \in BOOLEAN,
         queue' \in Seq({"read", "login", "leave"})
  PROVE  IInv'
<1>1. TypeOK /\ UNCHANGED made
  BY DEF IInv
<1>2. TypeOK'
  BY <1>1, Closed DEF TypeOK
<1>3. QED
  BY <1>1, <1>2, Closed DEF IInv

LEMMA HandleLoginStep ==
  ASSUME IInv, HandleLogin
  PROVE  IInv'
<1>1. queue' \in Seq({"read", "login", "leave"})
  BY Queued DEF IInv, HandleLogin
<1>2. UNCHANGED <<scene, reading, clicks>>
  BY DEF HandleLogin
<1>3. CASE \E n \in PacketSizes : ConnectServer(n, Tail(queue))
  BY <1>1, <1>2, <1>3, ConnectStep
<1>4. CASE CloseSocket /\ UNCHANGED made
  BY <1>1, <1>2, <1>4, CloseStep DEF IInv, TypeOK
<1>5. CASE UNCHANGED <<sock, made, pending, recvVars, sendVars, peerVars,
                       taken, got, lost, stale>>
  <2>1. UNCHANGED received /\ UNCHANGED stream
    BY <1>5 DEF recvVars, sendVars, peerVars, received, stream
  <2>2. Received' /\ SendStreamIntact'
    BY <2>1, ReceivedUnchanged, StreamUnchanged DEF IInv
  <2>3. TypeOK'
    BY <1>1, <1>2, <1>5 DEF IInv, TypeOK, recvVars, sendVars, peerVars
  <2>4. QED
    BY <2>2, <2>3 DEF IInv
<1>6. QED
  BY <1>3, <1>4, <1>5 DEF HandleLogin

LEMMA HandleLeaveStep ==
  ASSUME IInv, HandleLeave
  PROVE  IInv'
<1>1. queue' \in Seq({"read", "login", "leave"})
  BY Queued DEF IInv, HandleLeave
<1>2. UNCHANGED <<made, reading, clicks>>
  BY DEF HandleLeave
<1>3. CASE scene' = "select" /\ CloseSocket
  BY <1>1, <1>2, <1>3, CloseStep DEF IInv, TypeOK
<1>4. CASE UNCHANGED <<scene, sock, pending, recvVars, sendVars, peerVars,
                       taken, got, lost, stale>>
  <2>1. UNCHANGED received /\ UNCHANGED stream
    BY <1>4 DEF recvVars, sendVars, peerVars, received, stream
  <2>2. Received' /\ SendStreamIntact'
    BY <2>1, ReceivedUnchanged, StreamUnchanged DEF IInv
  <2>3. TypeOK'
    BY <1>1, <1>2, <1>4 DEF IInv, TypeOK, recvVars, sendVars, peerVars
  <2>4. QED
    BY <2>2, <2>3 DEF IInv
<1>5. QED
  BY <1>3, <1>4 DEF HandleLeave

-----------------------------------------------------------------------------
(* The WM_USER+100 handler.                                                *)

LEMMA WindowProperties ==
  ASSUME TypeOK
  PROVE  /\ Window \in Seq(Unit) /\ Len(Window) = Len(recvBuf) - proc
         /\ \A i \in 1 .. Len(recvBuf) - proc : Window[i] = recvBuf[proc + i]
         /\ Len(recvBuf) \in Nat /\ proc \in 0 .. Len(recvBuf)
<1>1. recvBuf \in Seq(Unit) /\ proc \in 0 .. Len(recvBuf)
  BY DEF TypeOK
<1>2. QED
  BY <1>1, Suffix, LenProperties DEF Window

LEMMA ReceiveNothingStep ==
  ASSUME IInv, ReceiveNothing
  PROVE  IInv'
<1>1. queue' \in Seq({"read", "login", "leave"})
  BY Queued DEF IInv, ReceiveNothing
<1>2. QED
  BY <1>1, CloseStep DEF IInv, TypeOK, ReceiveNothing

\* The units from position k on, n of them.
LEMMA Chunk ==
  ASSUME NEW s \in Seq(Unit), NEW k \in Nat, NEW n \in Nat, k + n <= Len(s)
  PROVE  /\ SubSeq(s, k + 1, k + n) \in Seq(Unit)
         /\ Len(SubSeq(s, k + 1, k + n)) = n
         /\ \A i \in 1 .. n : SubSeq(s, k + 1, k + n)[i] = s[k + i]
<1> DEFINE a == k + 1
           b == k + n
<1>1. /\ a \in Int /\ b \in Int /\ b - a + 1 = n /\ (a <= b <=> n # 0)
      /\ \A i \in Int : a + i - 1 = k + i
  OBVIOUS
<1>2. \A i \in a .. b : s[i] \in Unit
  <2>1. \A i \in a .. b : i \in 1 .. Len(s)
    OBVIOUS
  <2>2. QED
    BY <2>1, ElementOfSeq
<1> HIDE DEF a, b
<1>3. /\ SubSeq(s, a, b) \in Seq(Unit)
      /\ Len(SubSeq(s, a, b)) = IF a <= b THEN b - a + 1 ELSE 0
      /\ \A i \in 1 .. b - a + 1 : SubSeq(s, a, b)[i] = s[a + i - 1]
  BY <1>1, <1>2, SubSeqProperties
<1>4. Len(SubSeq(s, a, b)) = n
  BY <1>1, <1>3
<1>5. \A i \in 1 .. n : SubSeq(s, a, b)[i] = s[k + i]
  BY <1>1, <1>3
<1>6. QED
  BY <1>3, <1>4, <1>5 DEF a, b

\* A read of n units of s, the first k of which have been read before.
LEMMA ReadAppended ==
  ASSUME NEW s \in Seq(Unit), NEW k \in Nat, NEW n \in Nat, k + n <= Len(s),
         NEW r \in Seq(Unit)
  PROVE  LET t == r \o SubSeq(s, k + 1, k + n)
         IN  /\ t \in Seq(Unit) /\ Len(t) = Len(r) + n
             /\ \A i \in 1 .. Len(r) : t[i] = r[i]
             /\ \A i \in 1 .. n : t[Len(r) + i] = s[k + i]
<1> DEFINE c == SubSeq(s, k + 1, k + n)
           t == r \o c
<1>1. /\ c \in Seq(Unit) /\ Len(c) = n
      /\ \A i \in 1 .. n : c[i] = s[k + i]
  BY Chunk
<1> HIDE DEF c
<1>2. c \in Seq(Unit)
  BY <1>1
<1>3. /\ t \in Seq(Unit) /\ Len(t) = Len(r) + Len(c)
      /\ \A i \in 1 .. Len(r) : t[i] = r[i]
      /\ \A i \in 1 .. Len(c) : t[Len(r) + i] = c[i]
  BY <1>2, Appended
<1> HIDE DEF t
<1>4. QED
  BY <1>1, <1>3 DEF t, c

LEMMA ReceiveStep ==
  ASSUME IInv, Receive
  PROVE  IInv'
<1>1. /\ sent \in Seq(Unit) /\ recvBuf \in Seq(Unit) /\ got \in Seq(Unit)
      /\ Len(sent) \in Nat /\ Len(recvBuf) \in Nat /\ Len(got) \in Nat
      /\ taken \in 0 .. Len(sent) /\ proc \in 0 .. Len(recvBuf)
      /\ Len(recvBuf) < RecvCap
  BY DEF IInv, TypeOK
<1>2. UNCHANGED <<sent, got, proc>> /\ UNCHANGED stream
  BY DEF Receive, sendVars, peerVars, stream
<1>3. SendStreamIntact'
  BY <1>2, StreamUnchanged DEF IInv
<1>4. PICK n \in 1 .. (Len(sent) - taken) :
        IF n < Rest
        THEN /\ recvBuf' = recvBuf \o SubSeq(sent, taken + 1, taken + n)
             /\ taken' = taken + n /\ UNCHANGED lost
        ELSE taken' = taken + Rest /\ lost' = TRUE /\ UNCHANGED recvBuf
  BY DEF Receive
<1>5. queue' \in Seq({"read", "login", "leave"})
  BY Queued DEF IInv, Receive
<1>6. ASSUME /\ recvBuf' \in Seq(Unit) /\ Len(recvBuf') < RecvCap
             /\ Len(recvBuf') >= Len(recvBuf)
             /\ taken' \in 0 .. Len(sent) /\ lost' \in BOOLEAN
      PROVE  TypeOK'
  <2>1. proc' \in 0 .. Len(recvBuf')
    BY <1>1, <1>2, <1>6
  <2>2. QED
    BY <1>2, <1>5, <1>6, <2>1 DEF IInv, TypeOK, Receive, sendVars, peerVars
<1>7. CASE n < Rest
  <2> DEFINE t == recvBuf \o SubSeq(sent, taken + 1, taken + n)
  <2>1. /\ taken \in Nat /\ n \in Nat /\ taken + n <= Len(sent)
        /\ proc \in Nat /\ proc <= Len(recvBuf)
    BY <1>1
  <2>2. /\ t \in Seq(Unit) /\ Len(t) = Len(recvBuf) + n
        /\ \A i \in 1 .. Len(recvBuf) : t[i] = recvBuf[i]
        /\ \A i \in 1 .. n : t[Len(recvBuf) + i] = sent[taken + i]
    BY <1>1, <2>1, ReadAppended, SMTT(40)
  <2>3. recvBuf' = t /\ taken' = taken + n /\ lost' = lost
    BY <1>4, <1>7
  <2> HIDE DEF t
  <2>4. TypeOK'
    <3>1. Len(t) < RecvCap /\ Len(t) >= Len(recvBuf)
      BY <1>1, <1>7, <2>2, SocketAssumption DEF Rest
    <3>2. taken + n \in 0 .. Len(sent)
      BY <2>1
    <3>3. lost \in BOOLEAN
      BY DEF IInv, TypeOK
    <3>4. QED
      BY <1>6, <2>2, <2>3, <3>1, <3>2, <3>3
  <2>5. Aligned'
    <3> SUFFICES ASSUME ~lost PROVE Aligned'
      BY <2>3 DEF Aligned
    <3> DEFINE g == Len(got)
    <3>1. g + (Len(recvBuf) - proc) = taken /\ g \in Nat
      BY <1>1 DEF IInv, Received, Aligned
    <3>2. \A i \in 1 .. g : got[i] = sent[i]
      BY DEF IInv, Received, Aligned
    <3>3. \A i \in 1 .. Len(recvBuf) - proc : recvBuf[proc + i] = sent[g + i]
      BY DEF IInv, Received, Aligned
    <3> HIDE DEF g
    <3>4. Len(t) = Len(recvBuf) + n
      BY <2>2
    <3>5. g + (Len(t) - proc) = taken + n
      <4> DEFINE m == Len(recvBuf)
      <4>1. /\ m \in Nat /\ g + (m - proc) = taken /\ Len(t) = m + n
        BY <1>1, <3>1, <3>4
      <4> HIDE DEF m
      <4>2. g + ((m + n) - proc) = taken + n
        BY <2>1, <3>1, <4>1
      <4>3. QED
        BY <4>1, <4>2
    <3>6. ASSUME NEW i \in 1 .. Len(t) - proc PROVE t[proc + i] = sent[g + i]
      <4>1. i \in Nat \ {0} /\ i <= Len(recvBuf) + n - proc
        BY <1>1, <2>1, <3>4
      <4>2. CASE i <= Len(recvBuf) - proc
        <5>1. i \in 1 .. Len(recvBuf) - proc /\ proc + i \in 1 .. Len(recvBuf)
          BY <1>1, <2>1, <4>1, <4>2
        <5>2. t[proc + i] = recvBuf[proc + i]
          BY <2>2, <5>1
        <5>3. QED
          BY <3>3, <5>1, <5>2
      <4>3. CASE i > Len(recvBuf) - proc
        <5> DEFINE k == proc + i - Len(recvBuf)
        <5>1. /\ k \in 1 .. n /\ Len(recvBuf) + k = proc + i
              /\ taken + k = g + i
          <6> DEFINE m == Len(recvBuf)
          <6>1. /\ m \in Nat /\ g + (m - proc) = taken /\ i > m - proc
                /\ i <= m + n - proc
            BY <1>1, <3>1, <4>1, <4>3
          <6> HIDE DEF m
          <6>2. /\ proc + i - m \in 1 .. n /\ m + (proc + i - m) = proc + i
                /\ taken + (proc + i - m) = g + i
            BY <2>1, <3>1, <4>1, <6>1
          <6>3. QED
            BY <6>2 DEF m
        <5> HIDE DEF k
        <5>2. t[Len(recvBuf) + k] = sent[taken + k]
          BY <2>2, <5>1
        <5>3. QED
          BY <5>1, <5>2
      <4>4. i <= Len(recvBuf) - proc \/ i > Len(recvBuf) - proc
        BY <1>1, <2>1, <4>1
      <4>5. QED
        BY <4>2, <4>3, <4>4
    <3>7. QED
      BY <1>2, <2>3, <3>2, <3>5, <3>6 DEF Aligned, g
  <2>6. QED
    BY <1>2, <1>3, <2>4, <2>5 DEF IInv, Received, WholeFrames
<1>8. CASE ~(n < Rest)
  <2>1. taken' = taken + Rest /\ lost' = TRUE /\ UNCHANGED recvBuf
    BY <1>4, <1>8
  <2>2. taken' \in 0 .. Len(sent)
    BY <1>1, <1>8, <2>1, SocketAssumption DEF Rest
  <2>3. TypeOK'
    BY <1>1, <1>6, <2>1, <2>2
  <2>4. Aligned'
    BY <2>1 DEF Aligned
  <2>5. QED
    BY <1>2, <1>3, <2>3, <2>4 DEF IInv, Received, WholeFrames
<1>9. QED
  BY <1>7, <1>8

\* As long as nothing was dropped, the window begins with a frame, and what
\* is complete is sound.
LEMMA NextFrame ==
  ASSUME IInv, ~lost, Window # <<>>
  PROVE  Window[1].part = 1 /\ (Complete(Window) => Sound(Window))
<1> DEFINE g == Len(got)
           k == g + 1
           u == sent[k]
           b == k - u.part
<1>1. /\ Window \in Seq(Unit) /\ Len(Window) = Len(recvBuf) - proc
      /\ \A i \in 1 .. Len(recvBuf) - proc : Window[i] = recvBuf[proc + i]
  BY WindowProperties DEF IInv
<1>2. Len(Window) \in Nat \ {0}
  BY <1>1, EmptySeq
<1>3. /\ g \in Nat /\ Len(sent) \in Nat /\ taken <= Len(sent)
      /\ got \in Seq(Unit) /\ sent \in Seq(Unit)
  BY DEF IInv, TypeOK
<1>4. /\ g + Len(Window) = taken
      /\ \A i \in 1 .. g : got[i] = sent[i]
      /\ \A i \in 1 .. Len(Window) : Window[i] = sent[g + i]
  BY <1>1 DEF IInv, Received, Aligned
<1>5. Window[1] = u /\ k \in 1 .. Len(sent) /\ k = g + 1 /\ k \in Nat
  BY <1>2, <1>3, <1>4
<1> HIDE DEF k
<1>6. u \in Unit
  BY <1>3, <1>5, ElementOfSeq
<1>7. u.size \in Nat /\ u.part \in Nat
  BY <1>6 DEF Unit
<1>8. /\ b \in Nat /\ u.part \in 1 .. u.size
      /\ \A j \in 1 .. u.size :
           /\ sent[b + j].conn = u.conn /\ sent[b + j].size = u.size
           /\ sent[b + j].part = j /\ sent[b + j].serial = b + j
  BY <1>5 DEF IInv, Received, Whole, InFrame
<1> HIDE DEF g, u
<1>9. u.part = 1
  <2>1. SUFFICES ASSUME u.part > 1 PROVE FALSE
    BY <1>7, <1>8
  <2>2. g \in 1 .. g /\ b + (u.part - 1) = g /\ u.part - 1 \in 1 .. u.size
    <3>1. k = g + 1 /\ g \in Nat
      BY <1>3, <1>5
    <3>2. b \in Nat /\ u.part <= u.size /\ b = k - u.part
      BY <1>8
    <3> HIDE DEF b
    <3>3. QED
      BY <1>7, <2>1, <3>1, <3>2
  <2>3. sent[g].part = u.part - 1 /\ sent[g].size = u.size
    <3>1. sent[b + (u.part - 1)].part = u.part - 1
          /\ sent[b + (u.part - 1)].size = u.size
      BY <1>8, <2>2
    <3>2. QED
      BY <2>2, <3>1
  <2>4. got[g] = sent[g]
    BY <1>4, <2>2
  <2>5. got # <<>>
    BY <1>3, <2>2, EmptySeq DEF g
  <2>6. got[g].part = got[g].size
    BY <2>5 DEF IInv, Received, WholeFrames, g
  <2>7. QED
    BY <1>7, <1>8, <2>3, <2>4, <2>6
<1>10. b = g
  BY <1>3, <1>5, <1>9
<1>11. ASSUME Complete(Window) PROVE Sound(Window)
  <2>1. u.size <= Len(Window)
    BY <1>5, <1>11 DEF Complete
  <2> HIDE DEF b
  <2>2. ASSUME NEW i \in 1 .. u.size
        PROVE  /\ Window[i].conn = u.conn /\ Window[i].part = i
               /\ Window[i].size = u.size /\ Window[i].serial = g + i
    <3>1. i \in 1 .. Len(Window)
      BY <1>2, <1>7, <2>1
    <3>2. Window[i] = sent[g + i]
      BY <1>4, <3>1
    <3>3. QED
      BY <1>8, <1>10, <3>2
  <2>3. u.serial = g + 1
    <3>1. 1 \in 1 .. u.size
      BY <1>7, <1>8
    <3>2. QED
      BY <1>5, <2>2, <3>1
  <2>4. \A i \in 1 .. u.size : g + i = u.serial + i - 1
    BY <1>3, <2>3
  <2>5. QED
    BY <1>5, <2>2, <2>4 DEF Sound
<1>12. QED
  BY <1>5, <1>9, <1>11

LEMMA Front ==
  ASSUME NEW s \in Seq(Unit), NEW n \in Nat, n <= Len(s)
  PROVE  /\ SubSeq(s, 1, n) \in Seq(Unit) /\ Len(SubSeq(s, 1, n)) = n
         /\ \A i \in 1 .. n : SubSeq(s, 1, n)[i] = s[i]
<1>1. \A i \in 1 .. n : s[i] \in Unit
  BY ElementOfSeq
<1>2. QED
  BY <1>1, SubSeqProperties

LEMMA AdvanceTypes ==
  ASSUME TypeOK, NEW n \in Nat,
         Advance(n) \/ ClearPositions \/ UNCHANGED recvVars
  PROVE  /\ recvBuf' \in Seq(Unit) /\ Len(recvBuf') < RecvCap
         /\ proc' \in 0 .. Len(recvBuf')
<1>1. /\ recvBuf \in Seq(Unit) /\ Len(recvBuf) < RecvCap
      /\ proc \in 0 .. Len(recvBuf) /\ Len(recvBuf) \in Nat
  BY DEF TypeOK
<1>2. CASE ClearPositions
  <2>1. recvBuf' \in Seq(Unit) /\ Len(recvBuf') = 0 /\ proc' = 0
    BY <1>2, NoUnits DEF ClearPositions
  <2>2. QED
    BY <2>1, SocketAssumption
<1>3. CASE proc + n < Len(recvBuf) /\ proc' = proc + n /\ UNCHANGED recvBuf
  BY <1>1, <1>3
<1>4. CASE UNCHANGED recvVars
  BY <1>1, <1>4 DEF recvVars
<1>5. QED
  BY <1>1, <1>2, <1>3, <1>4 DEF Advance

LEMMA ReadFrameStep ==
  ASSUME IInv, ReadFrame
  PROVE  IInv'
<1> DEFINE n == Window[1].size
           g == Len(got)
           c == SubSeq(Window, 1, n)
<1>1. CASE Window[1].kind = "leave" /\ scene = "game"
  <2>1. CloseSocket /\ scene' = "select" /\ UNCHANGED <<made, queue, reading, clicks>>
    BY <1>1 DEF ReadFrame
  <2>2. QED
    BY <2>1, CloseStep DEF IInv, TypeOK
<1>2. CASE ~(Window[1].kind = "leave" /\ scene = "game")
  <2>1. /\ Advance(n) /\ got' = got \o c
        /\ scene' = IF Window[1].kind = "confirm" THEN "game" ELSE scene
        /\ UNCHANGED <<sock, pending, sendVars, peerVars, taken, lost, stale,
                       made, queue, reading, clicks>>
    BY <1>2 DEF ReadFrame
  <2>2. /\ Window \in Seq(Unit) /\ Len(Window) = Len(recvBuf) - proc
        /\ Len(recvBuf) \in Nat /\ proc \in 0 .. Len(recvBuf)
    BY WindowProperties DEF IInv
  <2>3. \A i \in 1 .. Len(recvBuf) - proc : Window[i] = recvBuf[proc + i]
    BY WindowProperties DEF IInv
  <2>4. n \in Nat \ {0} /\ n <= Len(Window)
    <3>1. Window # <<>> /\ n <= Len(Window)
      BY DEF ReadFrame, Complete
    <3>2. 1 \in 1 .. Len(Window)
      BY <2>2, <3>1, EmptySeq
    <3>3. Window[1] \in Unit
      BY <2>2, <3>2, ElementOfSeq
    <3>4. QED
      BY <3>1, <3>3 DEF Unit
  <2>5. \A i \in 1 .. n : Window[i].part = i /\ Window[i].size = n
    BY DEF ReadFrame, Sound
  <2>6. Window[n].part = n /\ Window[n].size = n
    BY <2>4, <2>5
  <2>7. /\ c \in Seq(Unit) /\ Len(c) = n
        /\ \A i \in 1 .. n : c[i] = Window[i]
    BY <2>2, <2>4, Front
  <2> HIDE DEF n, c
  <2>8. got \in Seq(Unit) /\ g \in Nat /\ c \in Seq(Unit)
    BY <2>7 DEF IInv, TypeOK
  <2> DEFINE h == got \o c
  <2>9. /\ h \in Seq(Unit) /\ Len(h) = g + Len(c)
        /\ \A i \in 1 .. g : h[i] = got[i]
        /\ \A i \in 1 .. Len(c) : h[g + i] = c[i]
    BY <2>8, Appended
  <2> HIDE DEF h, g
  <2>10. /\ h \in Seq(Unit) /\ Len(h) = g + n
         /\ \A i \in 1 .. g : h[i] = got[i]
         /\ \A i \in 1 .. n : h[g + i] = Window[i]
    BY <2>7, <2>9
  <2>11. got' = h
    BY <2>1 DEF h
  <2>12. WholeFrames'
    <3>1. h[g + n] = Window[n]
      BY <2>4, <2>10
    <3>2. h[Len(h)].part = n /\ h[Len(h)].size = n
      BY <2>6, <2>10, <3>1
    <3>3. QED
      BY <2>11, <3>2 DEF WholeFrames
  <2>13. /\ recvBuf' \in Seq(Unit) /\ Len(recvBuf') < RecvCap
         /\ proc' \in 0 .. Len(recvBuf')
    BY <2>1, <2>4, AdvanceTypes DEF IInv
  <2>14. Aligned'
    <3> SUFFICES ASSUME ~lost PROVE Aligned'
      BY <2>1 DEF Aligned
    <3>1. g + (Len(recvBuf) - proc) = taken
      BY DEF IInv, Received, Aligned, g
    <3>2. \A i \in 1 .. g : got[i] = sent[i]
      BY DEF IInv, Received, Aligned, g
    <3>3. \A i \in 1 .. Len(recvBuf) - proc : recvBuf[proc + i] = sent[g + i]
      BY DEF IInv, Received, Aligned, g
    <3>4. sent' = sent /\ taken' = taken
      BY <2>1 DEF peerVars
    <3>5. ASSUME NEW i \in 1 .. g + n PROVE h[i] = sent[i]
      <4>1. CASE i <= g
        <5>1. i \in 1 .. g
          BY <2>8, <4>1
        <5>2. QED
          BY <2>10, <3>2, <5>1
      <4>2. CASE i > g
        <5> DEFINE j == i - g
        <5>1. j \in 1 .. n /\ g + j = i /\ j \in 1 .. Len(recvBuf) - proc
          BY <2>2, <2>4, <2>8, <4>2
        <5> HIDE DEF j
        <5>2. h[g + j] = Window[j]
          BY <2>10, <5>1
        <5>3. Window[j] = recvBuf[proc + j]
          BY <2>3, <5>1
        <5>4. recvBuf[proc + j] = sent[g + j]
          BY <3>3, <5>1
        <5>5. QED
          BY <5>1, <5>2, <5>3, <5>4
      <4>3. i <= g \/ i > g
        BY <2>4, <2>8
      <4>4. QED
        BY <4>1, <4>2, <4>3
    <3>6. CASE ClearPositions /\ proc + n >= Len(recvBuf)
      <4>1. n = Len(recvBuf) - proc
        BY <2>2, <2>4, <3>6
      <4>2. Len(recvBuf') = 0 /\ proc' = 0
        BY <3>6, NoUnits DEF ClearPositions
      <4>3. Len(h) + (Len(recvBuf') - proc') = taken
        BY <2>2, <2>8, <2>10, <3>1, <4>1, <4>2
      <4>4. QED
        BY <2>10, <2>11, <3>4, <3>5, <4>2, <4>3 DEF Aligned
    <3>7. CASE proc' = proc + n /\ UNCHANGED recvBuf
      <4>1. g + n + (Len(recvBuf) - (proc + n)) = taken
        BY <2>2, <2>4, <2>8, <3>1
      <4>2. ASSUME NEW i \in 1 .. Len(recvBuf) - (proc + n)
            PROVE  recvBuf[(proc + n) + i] = sent[(g + n) + i]
        <5> DEFINE j == n + i
        <5>1. /\ j \in 1 .. Len(recvBuf) - proc /\ proc + j = (proc + n) + i
              /\ g + j = (g + n) + i
          BY <2>2, <2>4, <2>8
        <5> HIDE DEF j
        <5>2. recvBuf[proc + j] = sent[g + j]
          BY <3>3, <5>1
        <5>3. QED
          BY <5>1, <5>2
      <4>3. Len(h) = g + n
        BY <2>10
      <4>4. QED
        BY <2>11, <3>4, <3>5, <3>7, <4>1, <4>2, <4>3 DEF Aligned
    <3>8. QED
      BY <2>1, <3>6, <3>7 DEF Advance
  <2>15. UNCHANGED stream /\ UNCHANGED sent
    BY <2>1 DEF sendVars, peerVars, stream
  <2>16. SendStreamIntact'
    BY <2>15, StreamUnchanged DEF IInv
  <2>17. scene' \in {"select", "game"}
    BY <2>1 DEF IInv, TypeOK
  <2>18. TypeOK'
    BY <2>1, <2>10, <2>11, <2>13, <2>17 DEF IInv, TypeOK, sendVars, peerVars
  <2>19. QED
    BY <2>12, <2>14, <2>15, <2>16, <2>18 DEF IInv, Received
<1>3. QED
  BY <1>1, <1>2

LEMMA ReadEndsStep ==
  ASSUME IInv, ReadEnds
  PROVE  IInv'
<1>1. /\ UNCHANGED <<sock, made, scene, queue, sendVars, clicks, peerVars,
                      taken, got, lost, stale>>
      /\ reading' = FALSE /\ pending' = FALSE
  BY DEF ReadEnds, SocketAckRead
<1>2. /\ Window \in Seq(Unit) /\ Len(Window) = Len(recvBuf) - proc
      /\ Len(recvBuf) \in Nat /\ proc \in 0 .. Len(recvBuf)
  BY WindowProperties DEF IInv
<1>3. /\ recvBuf' \in Seq(Unit) /\ Len(recvBuf') < RecvCap
      /\ proc' \in 0 .. Len(recvBuf')
  <2>1. CASE ClearPositions \/ UNCHANGED recvVars
    <3>1. 0 \in Nat
      OBVIOUS
    <3>2. QED
      BY <2>1, <3>1, AdvanceTypes DEF IInv
  <2>2. CASE \E n \in 1 .. Len(Window) : Advance(n)
    <3>1. PICK n \in Nat : Advance(n)
      BY <2>2
    <3>2. QED
      BY <3>1, AdvanceTypes DEF IInv
  <2>3. CASE Complete(Window) /\ Advance(Window[1].size)
    <3>1. 1 \in 1 .. Len(Window)
      BY <1>2, <2>3, EmptySeq DEF Complete
    <3>2. Window[1] \in Unit
      BY <1>2, <3>1, ElementOfSeq
    <3>3. Window[1].size \in Nat
      BY <3>2 DEF Unit
    <3>4. QED
      BY <2>3, <3>3, AdvanceTypes DEF IInv
  <2>4. QED
    BY <2>1, <2>2, <2>3 DEF ReadEnds, NothingLeft, Incomplete, BadChecksum, NoHeader
<1>4. Aligned'
  <2> SUFFICES ASSUME ~lost PROVE Aligned'
    BY <1>1 DEF Aligned
  <2>1. CASE Incomplete
    BY <1>1, <2>1 DEF IInv, Received, Aligned, Incomplete, recvVars, peerVars
  <2>2. CASE NothingLeft
    <3>1. Len(recvBuf) - proc = 0
      BY <1>2, <2>2, NoUnits DEF NothingLeft
    <3>2. Len(recvBuf') = 0 /\ proc' = 0
      BY <2>2, NoUnits DEF NothingLeft, ClearPositions
    <3>3. QED
      BY <1>1, <3>1, <3>2 DEF IInv, Received, Aligned, peerVars
  <2>3. CASE BadChecksum \/ NoHeader
    BY <2>3, NextFrame DEF BadChecksum, NoHeader, Complete
  <2>4. QED
    BY <2>1, <2>2, <2>3 DEF ReadEnds
<1>5. UNCHANGED stream /\ UNCHANGED <<sent, got>>
  BY <1>1 DEF sendVars, peerVars, stream
<1>6. SendStreamIntact'
  BY <1>5, StreamUnchanged DEF IInv
<1>7. TypeOK'
  BY <1>1, <1>3 DEF IInv, TypeOK, sendVars, peerVars
<1>8. QED
  BY <1>4, <1>5, <1>6, <1>7 DEF IInv, Received, WholeFrames

-----------------------------------------------------------------------------
(* The theorems.                                                           *)

LEMMA InitIInv == Init => IInv
<1> SUFFICES ASSUME Init PROVE IInv
  OBVIOUS
<1>1. /\ recvBuf = <<>> /\ sent = <<>> /\ got = <<>> /\ sendBuf = <<>>
      /\ wire = <<>> /\ accepted = <<>> /\ taken = 0 /\ proc = 0 /\ sentPos = 0
  BY DEF Init
<1>2. /\ recvBuf \in Seq(Unit) /\ sent \in Seq(Unit) /\ got \in Seq(Unit)
      /\ Len(recvBuf) = 0 /\ Len(sent) = 0 /\ Len(got) = 0
  BY <1>1, NoUnits
<1>3. /\ sendBuf \in Seq(PacketUnit) /\ wire \in Seq(PacketUnit)
      /\ accepted \in Seq(PacketUnit) /\ Len(sendBuf) = 0
  BY <1>1, NoPackets
<1>4. queue \in Seq({"read", "login", "leave"})
  BY EmptySeq DEF Init
<1>5. TypeOK
  <2>1. /\ taken \in 0 .. Len(sent) /\ proc \in 0 .. Len(recvBuf)
        /\ sentPos \in 0 .. Len(sendBuf) /\ Len(recvBuf) < RecvCap
        /\ Len(sendBuf) <= SendCap
    BY <1>1, <1>2, <1>3, SocketAssumption
  <2>2. /\ made \in 0 .. MaxConn /\ sock \in {0, made}
        /\ clicks \in Nat /\ tries \in Nat
    BY SocketAssumption DEF Init
  <2>3. /\ scene \in {"select", "game"} /\ pending \in BOOLEAN
        /\ reading \in BOOLEAN /\ closed \in BOOLEAN
        /\ lost \in BOOLEAN /\ stale \in BOOLEAN
    BY Zenon DEF Init
  <2>4. QED
    BY <1>2, <1>3, <1>4, <2>1, <2>2, <2>3 DEF TypeOK
<1>6. Received
  BY <1>1, <1>2 DEF Received, Whole, Aligned, WholeFrames
<1>7. SendStreamIntact
  <2>1. Backlog = <<>>
    BY <1>1, <1>3, SubSeqEmpty DEF Backlog
  <2>2. <<>> \o <<>> = <<>>
    BY NoPackets, ConcatEmptySeq
  <2>3. QED
    BY <1>1, <2>1, <2>2 DEF SendStreamIntact
<1>8. QED
  BY <1>5, <1>6, <1>7 DEF IInv

LEMMA NextIInv == IInv /\ [Next]_vars => IInv'
<1> SUFFICES ASSUME IInv, [Next]_vars PROVE IInv'
  OBVIOUS
<1>1. CASE \E f \in Frames : ServerSends(f)
  BY <1>1, ServerSendsStep
<1>2. CASE ServerCloses
  BY <1>2, ServerClosesStep
<1>3. CASE \E what \in {"login", "leave"} : Click(what)
  BY <1>3, ClickStep
<1>4. CASE Poll
  BY <1>4, PollStep
<1>5. CASE \E n \in PacketSizes : Send(n)
  BY <1>5, SendStep
<1>6. CASE MainLoop
  BY <1>6, HandleLoginStep, HandleLeaveStep, ReceiveNothingStep, ReceiveStep,
     ReadFrameStep, ReadEndsStep DEF MainLoop
<1>7. CASE UNCHANGED vars
  <2>1. UNCHANGED received /\ UNCHANGED stream
    BY <1>7 DEF vars, received, stream
  <2>2. Received' /\ SendStreamIntact'
    BY <2>1, ReceivedUnchanged, StreamUnchanged DEF IInv
  <2>3. TypeOK'
    BY <1>7 DEF IInv, TypeOK, vars
  <2>4. QED
    BY <2>2, <2>3 DEF IInv
<1>8. QED
  BY <1>1, <1>2, <1>3, <1>4, <1>5, <1>6, <1>7 DEF Next

\* The inductive invariant: the receive buffer continues what the scenes were
\* given, in the stream of whole frames that the server sent.
THEOREM SpecIInv == Spec => []IInv
<1>1. Init => IInv
  BY InitIInv
<1>2. IInv /\ [Next]_vars => IInv'
  BY NextIInv
<1>3. QED
  BY <1>1, <1>2, PTL DEF Spec

\* The types of the variables; neither buffer ever overflows.
THEOREM TypeCorrect == Spec => []TypeOK
<1>1. IInv => TypeOK
  BY DEF IInv
<1>2. QED
  BY <1>1, SpecIInv, PTL

\* The scenes are given, in order and frame by frame, what the server sent on
\* the connection that is open, until a read fills the buffer.
THEOREM FramesAreInOrder == Spec => []FramesInOrder
<1>1. ASSUME IInv PROVE FramesInOrder
  <2>1. ASSUME ~lost PROVE Prefix(got, sent)
    <3>1. /\ Len(got) + (Len(recvBuf) - proc) = taken
          /\ \A i \in 1 .. Len(got) : got[i] = sent[i]
      BY <1>1, <2>1 DEF IInv, Received, Aligned
    <3>2. /\ got \in Seq(Unit) /\ sent \in Seq(Unit) /\ recvBuf \in Seq(Unit)
          /\ taken \in 0 .. Len(sent) /\ proc \in 0 .. Len(recvBuf)
      BY <1>1 DEF IInv, TypeOK
    <3>3. Len(got) <= Len(sent)
      BY <3>1, <3>2, LenProperties
    <3>4. QED
      BY <3>1, <3>3 DEF Prefix
  <2>2. QED
    BY <1>1, <2>1 DEF IInv, Received, WholeFrames, FramesInOrder
<1>2. QED
  BY <1>1, SpecIInv, PTL

\* Whatever send() takes at each call, every accepted packet is on the wire or
\* in the send buffer, in order and once.
THEOREM SendStreamStaysIntact == Spec => []SendStreamIntact
<1>1. IInv => SendStreamIntact
  BY DEF IInv
<1>2. QED
  BY <1>1, SpecIInv, PTL

-----------------------------------------------------------------------------
(* Which notifications find nothing to read.                               *)

OneRead(q) ==
  \A i, j \in 1 .. Len(q) : q[i] = "read" /\ q[j] = "read" => i = j

\* On a connection that was made with no notification in the queue, there is
\* at most one; there is something to read for it, and until it is handled
\* no other one is posted and nothing is read.
Notified ==
  sock # 0 /\ ~stale =>
    /\ OneRead(queue)
    /\ HasRead(queue) => pending /\ ~reading /\ Readable

Message == {"read", "login", "leave"}

LEMMA HandledMessage ==
  ASSUME NEW q \in Seq(Message), q # <<>>, OneRead(q)
  PROVE  /\ OneRead(Tail(q))
         /\ HasRead(Tail(q)) => HasRead(q) /\ Head(q) # "read"
<1>1. /\ Len(q) \in Nat /\ Len(q) > 0 /\ Head(q) = q[1]
      /\ Len(Tail(q)) = Len(q) - 1
      /\ \A i \in 1 .. Len(Tail(q)) : Tail(q)[i] = q[i + 1]
  OBVIOUS
<1>2. OneRead(Tail(q))
  <2> SUFFICES ASSUME NEW i \in 1 .. Len(Tail(q)), NEW j \in 1 .. Len(Tail(q)),
                      Tail(q)[i] = "read", Tail(q)[j] = "read"
               PROVE  i = j
    BY DEF OneRead
  <2>1. i + 1 \in 1 .. Len(q) /\ j + 1 \in 1 .. Len(q)
    BY <1>1
  <2>2. q[i + 1] = "read" /\ q[j + 1] = "read"
    BY <1>1
  <2>3. i + 1 = j + 1
    BY <2>1, <2>2 DEF OneRead
  <2>4. QED
    BY <2>3
<1>3. ASSUME HasRead(Tail(q)) PROVE HasRead(q) /\ Head(q) # "read"
  <2>1. PICK i \in 1 .. Len(Tail(q)) : Tail(q)[i] = "read"
    BY <1>3 DEF HasRead
  <2>2. i + 1 \in 1 .. Len(q) /\ q[i + 1] = "read" /\ 1 \in 1 .. Len(q) /\ i + 1 # 1
    BY <1>1, <2>1
  <2>3. QED
    BY <1>1, <2>2 DEF HasRead, OneRead
<1>4. QED
  BY <1>2, <1>3

LEMMA PostedMessage ==
  ASSUME NEW q \in Seq(Message), NEW m \in Message, OneRead(q)
  PROVE  /\ m # "read" \/ ~HasRead(q) => OneRead(Append(q, m))
         /\ HasRead(Append(q, m)) => HasRead(q) \/ m = "read"
<1>1. /\ Len(q) \in Nat /\ Len(Append(q, m)) = Len(q) + 1
      /\ \A i \in 1 .. Len(q) : Append(q, m)[i] = q[i]
      /\ Append(q, m)[Len(q) + 1] = m
  OBVIOUS
<1>2. \A i \in 1 .. Len(Append(q, m)) : i \in 1 .. Len(q) \/ i = Len(q) + 1
  BY <1>1
<1>3. ASSUME m # "read" \/ ~HasRead(q) PROVE OneRead(Append(q, m))
  <2> SUFFICES ASSUME NEW i \in 1 .. Len(Append(q, m)), NEW j \in 1 .. Len(Append(q, m)),
                      Append(q, m)[i] = "read", Append(q, m)[j] = "read"
               PROVE  i = j
    BY DEF OneRead
  <2>1. CASE m # "read"
    BY <1>1, <1>2, <2>1 DEF OneRead
  <2>2. CASE ~HasRead(q)
    BY <1>1, <1>2, <2>2 DEF HasRead
  <2>3. QED
    BY <1>3, <2>1, <2>2
<1>4. HasRead(Append(q, m)) => HasRead(q) \/ m = "read"
  BY <1>1, <1>2 DEF HasRead
<1>5. QED
  BY <1>3, <1>4

LEMMA NotifiedStep ==
  ASSUME IInv, Notified, [Next]_vars
  PROVE  Notified'
<1> USE DEF Message
<1>1. /\ queue \in Seq(Message) /\ Len(sent) \in Nat /\ taken \in 0 .. Len(sent)
      /\ sent \in Seq(Unit)
  BY LenProperties DEF IInv, TypeOK
\* The queue loses its first message, which is none to read unless nothing
\* else of what the invariant speaks of has changed.
<1>2. ASSUME queue # <<>>, Head(queue) # "read" \/ ~HasRead(queue'),
             queue' = Tail(queue), UNCHANGED <<sock, stale, pending, reading, taken, sent, closed>>
      PROVE  Notified'
  BY <1>1, <1>2, HandledMessage DEF Notified, Readable
<1>3. ASSUME NEW f \in Frames, ServerSends(f) PROVE Notified'
  <2>1. UnitsOf(sock, Len(sent), f) \in Seq(Unit)
    BY <1>1, <1>3, UnitsOfProperties DEF ServerSends, IInv, TypeOK
  <2>2. Len(sent') >= Len(sent)
    BY <1>1, <1>3, <2>1, Appended, LenProperties DEF ServerSends
  <2>3. QED
    BY <1>1, <1>3, <2>2 DEF ServerSends, Notified, Readable
<1>4. CASE ServerCloses
  BY <1>4 DEF ServerCloses, Notified, Readable
<1>5. ASSUME NEW what \in {"login", "leave"}, Click(what) PROVE Notified'
  <2>1. queue' = Append(queue, what) /\ UNCHANGED <<sock, stale, pending, reading, taken, sent, closed>>
    BY <1>5 DEF Click, peerVars
  <2>2. QED
    BY <1>1, <2>1, PostedMessage DEF Notified, Readable
<1>6. CASE Poll
  <2>1. /\ queue' = Append(queue, "read") /\ pending' = TRUE /\ Readable /\ ~reading /\ ~pending
        /\ UNCHANGED <<sock, stale, reading, taken, sent, closed>>
    BY <1>6 DEF Poll, peerVars
  <2>2. sock # 0 /\ ~stale => OneRead(queue) /\ ~HasRead(queue)
    BY <2>1 DEF Notified
  <2>3. QED
    BY <1>1, <2>1, <2>2, PostedMessage DEF Notified, Readable
<1>7. ASSUME NEW n \in PacketSizes, Send(n) PROVE Notified'
  BY <1>7 DEF Send, Notified, Readable, peerVars
<1>8. CASE HandleLogin
  <2>1. ASSUME NEW n \in PacketSizes, ConnectServer(n, Tail(queue)) PROVE Notified'
    <3>1. queue' = Tail(queue) /\ stale' = HasRead(queue')
      BY <1>8, <2>1 DEF HandleLogin, ConnectServer
    <3>2. QED
      BY <3>1 DEF Notified, OneRead, HasRead
  <2>2. CASE CloseSocket
    BY <2>2 DEF CloseSocket, Notified
  <2>3. CASE UNCHANGED <<sock, pending, peerVars, taken, stale>>
    BY <1>2, <1>8, <2>3 DEF HandleLogin, peerVars
  <2>4. QED
    BY <1>8, <2>1, <2>2, <2>3 DEF HandleLogin
<1>9. CASE HandleLeave
  <2>1. CASE CloseSocket
    BY <2>1 DEF CloseSocket, Notified
  <2>2. CASE UNCHANGED <<sock, pending, peerVars, taken, stale>>
    BY <1>2, <1>9, <2>2 DEF HandleLeave, peerVars
  <2>3. QED
    BY <1>9, <2>1, <2>2 DEF HandleLeave
<1>10. CASE ReceiveNothing
  BY <1>10 DEF ReceiveNothing, CloseSocket, Notified
<1>11. CASE Receive
  <2>1. /\ queue # <<>> /\ Head(queue) = "read" /\ queue' = Tail(queue)
        /\ UNCHANGED <<sock, stale>>
    BY <1>11 DEF Receive
  <2>2. sock # 0 /\ ~stale => OneRead(queue') /\ ~HasRead(queue')
    BY <1>1, <2>1, HandledMessage DEF Notified
  <2>3. QED
    BY <2>1, <2>2 DEF Notified
<1>12. CASE ReadFrame
  <2>1. CASE CloseSocket
    BY <2>1 DEF CloseSocket, Notified
  <2>2. CASE UNCHANGED <<sock, pending, peerVars, taken, stale>>
    BY <1>12, <2>2 DEF ReadFrame, Notified, Readable, peerVars
  <2>3. QED
    BY <1>12, <2>1, <2>2 DEF ReadFrame
<1>13. CASE ReadEnds
  BY <1>13 DEF ReadEnds, Notified
<1>14. CASE UNCHANGED vars
  BY <1>14 DEF vars, Notified, Readable
<1>15. QED
  BY <1>3, <1>4, <1>5, <1>6, <1>7, <1>8, <1>9, <1>10, <1>11, <1>12, <1>13, <1>14
     DEF Next, MainLoop

\* A notification that finds nothing to read, and closes a connection that the
\* server keeps open, was posted for an earlier connection.
THEOREM OnlyStaleNotificationsClose == Spec => OnlyStaleCloses
<1>1. Init => Notified
  BY DEF Init, Notified
<1>2. IInv /\ Notified /\ [Next]_vars => Notified'
  BY NotifiedStep
<1>3. IInv /\ Notified =>
        [ReceiveNothing /\ sock # 0 /\ ~closed => stale]_vars
  <2> SUFFICES ASSUME IInv, Notified, ReceiveNothing, sock # 0, ~closed, ~stale
               PROVE  FALSE
    OBVIOUS
  <2>1. queue \in Seq(Message) /\ queue # <<>> /\ Head(queue) = "read" /\ taken = Len(sent)
    BY DEF ReceiveNothing, IInv, TypeOK, Message
  <2>2. 1 \in 1 .. Len(queue) /\ queue[1] = "read"
    BY <2>1
  <2>3. HasRead(queue)
    BY <2>2 DEF HasRead
  <2>4. taken < Len(sent) /\ Len(sent) \in Nat
    BY <2>3, LenProperties DEF Notified, Readable, IInv, TypeOK
  <2>5. QED
    BY <2>1, <2>4
<1>4. QED
  BY <1>1, <1>2, <1>3, SpecIInv, PTL DEF Spec, OnlyStaleCloses

=============================================================================
