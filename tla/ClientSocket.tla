---------------------------- MODULE ClientSocket ----------------------------
(***************************************************************************)
(* The connection of the game client (CPSock) under the message loop of    *)
(* the Linux and Switch ports: NewApp::Run polls the socket, which posts   *)
(* WM_USER+100 to the queue of window messages, and handles one message    *)
(* per turn.  The handler reads the socket once and then hands every       *)
(* complete frame in the receive buffer to the current scene.              *)
(*                                                                         *)
(* A unit stands for a run of bytes; a frame or packet is one or more      *)
(* units, the first of which holds the header with the size.  The          *)
(* checksum of a frame is abstracted to "its units are the ones the server *)
(* put in it".  Encryption and the keyword queues, which are inert because *)
(* the server sends an all-zero SecretCode, are left out.                  *)
(***************************************************************************)
EXTENDS Integers, Sequences

CONSTANTS
  MaxConn,      \* connections the player makes (bound)
  RecvCap,      \* RECV_BUFFER_SIZE, in units
  SendCap,      \* SEND_BUFFER_SIZE, in units
  Frames,       \* what the server may send: records [size, kind]
  MaxSent,      \* units the server sends per connection (bound)
  PacketSizes,  \* sizes of the packets the client sends
  MaxPackets,   \* packets the client tries to send per connection (bound)
  MaxClicks     \* clicks of the player (bound)

Kinds == {"plain", "confirm", "leave"}

ASSUME SocketAssumption ==
  /\ MaxConn \in Nat /\ RecvCap \in Nat \ {0} /\ SendCap \in Nat \ {0}
  /\ MaxSent \in Nat /\ MaxPackets \in Nat /\ MaxClicks \in Nat
  /\ PacketSizes \subseteq Nat \ {0}
  /\ Frames \subseteq [size : Nat \ {0}, kind : Kinds]

VARIABLES
  sock,      \* CPSock::Sock: the number of the open connection, 0 for none
  made,      \* connections made so far
  scene,     \* the current scene: server selection, or one behind the login
  queue,     \* g_queue: the window messages that wait
  pending,   \* read_pending of the watch of sock
  reading,   \* the WM_USER+100 handler is in its ReadPacketView loop
  recvBuf,   \* pRecvBuffer up to nRecvPosition
  proc,      \* nProcPosition
  sendBuf,   \* pSendBuffer up to nSendPosition
  sentPos,   \* nSentPosition
  clicks,    \* clicks so far
  \* Of the open connection; empty while there is none:
  sent,      \* the units the server has sent
  taken,     \* how many of them recv has returned
  closed,    \* the server has closed it
  wire,      \* the units the kernel took from the client
  got,       \* history: the units of the frames given to the scene
  accepted,  \* history: the units ConnectServer and AddMessage put on it
  tries,     \* packets tried (bound)
  lost,      \* history: a read filled the buffer and its bytes were dropped
  stale      \* history: it was made while a notification was in the queue

recvVars == <<recvBuf, proc>>
sendVars == <<sendBuf, sentPos, wire, accepted, tries>>
peerVars == <<sent, closed>>
vars == <<sock, made, scene, queue, pending, reading, recvBuf, proc, sendBuf,
          sentPos, clicks, sent, taken, closed, wire, got, accepted, tries,
          lost, stale>>

-----------------------------------------------------------------------------
(* Units and the two buffers.                                              *)

Unit == [conn : Nat, serial : Nat, part : Nat, size : Nat \ {0}, kind : Kinds]

\* The units of the frame f on connection c, after n others.
UnitsOf(c, n, f) ==
  [i \in 1 .. f.size |-> [conn |-> c, serial |-> n + i, part |-> i,
                          size |-> f.size, kind |-> f.kind]]

PacketUnit == [packet : Nat, part : Nat]
PacketOf(id, n) == [i \in 1 .. n |-> [packet |-> id, part |-> i]]

\* What ConnectServer sends before any packet.
InitCode == <<[packet |-> 0, part |-> 0]>>

Window  == SubSeq(recvBuf, proc + 1, Len(recvBuf))
Backlog == SubSeq(sendBuf, sentPos + 1, Len(sendBuf))

\* The header is here and so is everything it announces.
Complete(w) == w # <<>> /\ w[1].size <= Len(w)

\* The checksum holds: the first w[1].size units are those of one frame.
Sound(w) ==
  \A i \in 1 .. w[1].size :
     /\ w[i].conn = w[1].conn /\ w[i].part = i /\ w[i].size = w[1].size
     /\ w[i].serial = w[1].serial + i - 1

-----------------------------------------------------------------------------
Init ==
  /\ sock = 0 /\ made = 0 /\ scene = "select"
  /\ queue = <<>> /\ pending = FALSE /\ reading = FALSE
  /\ recvBuf = <<>> /\ proc = 0 /\ sendBuf = <<>> /\ sentPos = 0
  /\ clicks = 0 /\ sent = <<>> /\ taken = 0 /\ closed = FALSE
  /\ wire = <<>> /\ got = <<>> /\ accepted = <<>> /\ tries = 0
  /\ lost = FALSE /\ stale = FALSE

-----------------------------------------------------------------------------
(* The server and the player.                                              *)

ServerSends(f) ==
  /\ sock # 0 /\ ~closed /\ Len(sent) + f.size <= MaxSent
  /\ sent' = sent \o UnitsOf(sock, Len(sent), f)
  /\ UNCHANGED <<sock, made, scene, queue, pending, reading, recvVars,
                 sendVars, clicks, taken, closed, got, lost, stale>>

ServerCloses ==
  /\ sock # 0 /\ ~closed
  /\ closed' = TRUE
  /\ UNCHANGED <<sock, made, scene, queue, pending, reading, recvVars,
                 sendVars, clicks, sent, taken, got, lost, stale>>

\* PumpSdl: a click on the login button, or on one that leads back to it.
Click(what) ==
  /\ clicks < MaxClicks
  /\ clicks' = clicks + 1
  /\ queue' = Append(queue, what)
  /\ UNCHANGED <<sock, made, scene, pending, reading, recvVars, sendVars,
                 peerVars, taken, got, lost, stale>>

-----------------------------------------------------------------------------
(* WYD_Linux_PollSockets.  TCP has no exceptional condition here, and the  *)
(* end of the stream is reported as readable: lParam is 1 in every         *)
(* message.  A message does not say which socket it is about.              *)

Readable == taken < Len(sent) \/ closed

\* Fault: read_pending is not looked at.
PollAgain ==
  /\ ~reading /\ sock # 0 /\ Readable
  /\ pending' = TRUE
  /\ queue' = Append(queue, "read")
  /\ UNCHANGED <<sock, made, scene, reading, recvVars, sendVars, clicks,
                 peerVars, taken, got, lost, stale>>

Poll ==
  /\ ~reading /\ sock # 0 /\ Readable /\ ~pending
  /\ pending' = TRUE
  /\ queue' = Append(queue, "read")
  /\ UNCHANGED <<sock, made, scene, reading, recvVars, sendVars, clicks,
                 peerVars, taken, got, lost, stale>>

\* Fault: the notification is never acknowledged.
SocketAckNothing == UNCHANGED pending

SocketAckRead == pending' = FALSE

-----------------------------------------------------------------------------
(* The send side.  A sender is a record of the queued units and of how     *)
(* many of them are sent; out collects what the kernel took.               *)

CanAppendPacket(n, s) == Len(s.buf) < SendCap /\ n < SendCap - Len(s.buf)

AddUnits(s, p) == [s EXCEPT !.buf = s.buf \o p]

\* Fault: the offset goes back to 0 and the bytes stay where they are.
CompactWithoutMove(s) ==
  [s EXCEPT !.buf = SubSeq(s.buf, 1, Len(s.buf) - s.pos), !.pos = 0]

Compact(s) ==
  [s EXCEPT !.buf = SubSeq(s.buf, s.pos + 1, Len(s.buf)), !.pos = 0]

Unsent(s) == Len(s.buf) - s.pos

\* SendMessageA, of which send() takes j units (0 when it would block).
SendMessageA(s, j) ==
  LET t == IF s.pos > 0 THEN Compact(s) ELSE s
      o == t.out \o SubSeq(t.buf, t.pos + 1, t.pos + j)
  IN  IF t.pos + j = Len(t.buf)
      THEN [buf |-> <<>>, pos |-> 0, out |-> o]
      ELSE [buf |-> t.buf, pos |-> t.pos + j, out |-> o]

\* AddMessage: the packet p is framed at the end of the queue if it fits, and
\* a flush is tried at once.
AddMessage(s, p) ==
  IF CanAppendPacket(Len(p), s)
  THEN LET t == AddUnits(s, p) IN {SendMessageA(t, j) : j \in 0 .. Unsent(t)}
  ELSE {s}

\* SendOneMessage: AddMessage and another flush in any case, on a connection
\* of which the kernel has taken before and AddMessage has accepted given.
SendOneMessage(s, p, before, given) ==
  /\ \E t \in AddMessage(s, p) : \E j \in 0 .. Unsent(t) :
       LET u == SendMessageA(t, j)
       IN  /\ sendBuf' = u.buf /\ sentPos' = u.pos
           /\ wire' = before \o u.out
  /\ accepted' = IF CanAppendPacket(Len(p), s) THEN given \o p ELSE given

\* Any of the calls a scene makes, from a handler or from its FrameMove.
Send(n) ==
  /\ sock # 0 /\ tries < MaxPackets
  /\ tries' = tries + 1
  /\ SendOneMessage([buf |-> sendBuf, pos |-> sentPos, out |-> <<>>],
                    PacketOf(tries + 1, n), wire, accepted)
  /\ UNCHANGED <<sock, made, scene, queue, pending, reading, recvVars, clicks,
                 peerVars, taken, got, lost, stale>>

-----------------------------------------------------------------------------
(* Opening and closing.  closesocket also removes the watch.               *)

ClearPositions == recvBuf' = <<>> /\ proc' = 0

CloseSocket ==
  /\ ClearPositions
  /\ sendBuf' = <<>> /\ sentPos' = 0
  /\ sock' = 0 /\ pending' = FALSE
  /\ sent' = <<>> /\ taken' = 0 /\ closed' = FALSE /\ got' = <<>>
  /\ wire' = <<>> /\ accepted' = <<>> /\ tries' = 0
  /\ lost' = FALSE /\ stale' = FALSE

HasRead(q) == \E i \in 1 .. Len(q) : q[i] = "read"

\* ConnectServer, which closes the old socket first, and the login packet of
\* n units; rest is what waits in the queue of messages.
ConnectServer(n, rest) ==
  /\ made < MaxConn
  /\ ClearPositions
  /\ made' = made + 1 /\ sock' = made + 1 /\ pending' = FALSE
  /\ sent' = <<>> /\ taken' = 0 /\ closed' = FALSE /\ got' = <<>>
  /\ SendOneMessage([buf |-> <<>>, pos |-> 0, out |-> <<>>],
                    PacketOf(1, n), InitCode, InitCode)
  /\ tries' = 1
  /\ lost' = FALSE /\ stale' = HasRead(rest)

\* The login button.  When the connection fails the client stays without one.
HandleLogin ==
  /\ ~reading /\ queue # <<>> /\ Head(queue) = "login"
  /\ queue' = Tail(queue)
  /\ \/ /\ scene = "select"
        /\ \E n \in PacketSizes : ConnectServer(n, Tail(queue))
     \/ scene = "select" /\ CloseSocket /\ UNCHANGED made
     \/ /\ scene # "select"
        /\ UNCHANGED <<sock, made, pending, recvVars, sendVars, peerVars,
                       taken, got, lost, stale>>
  /\ UNCHANGED <<scene, reading, clicks>>

\* SetCurrentState(TM_SELECTSERVER_STATE), whose scene closes the socket.
HandleLeave ==
  /\ ~reading /\ queue # <<>> /\ Head(queue) = "leave"
  /\ queue' = Tail(queue)
  /\ \/ scene = "game" /\ scene' = "select" /\ CloseSocket
     \/ /\ scene # "game"
        /\ UNCHANGED <<scene, sock, pending, recvVars, sendVars, peerVars,
                       taken, got, lost, stale>>
  /\ UNCHANGED <<made, reading, clicks>>

-----------------------------------------------------------------------------
(* The WM_USER+100 handler.                                                *)

Rest == RecvCap - Len(recvBuf)

\* Receive returns 0: no socket, the end of the stream, or nothing to read.
\* The handler closes the socket and tells no scene.
ReceiveNothing ==
  /\ ~reading /\ queue # <<>> /\ Head(queue) = "read"
  /\ taken = Len(sent)
  /\ queue' = Tail(queue)
  /\ CloseSocket
  /\ UNCHANGED <<made, scene, reading, clicks>>

\* Receive returns 1, or -1 when recv filled the buffer: nRecvPosition then
\* stays where it was, and the loop goes on with the bytes from before.  Of
\* what the server sent, n units have arrived.
Receive ==
  /\ ~reading /\ queue # <<>> /\ Head(queue) = "read"
  /\ queue' = Tail(queue)
  /\ reading' = TRUE
  /\ \E n \in 1 .. (Len(sent) - taken) :
       IF n < Rest
       THEN /\ recvBuf' = recvBuf \o SubSeq(sent, taken + 1, taken + n)
            /\ taken' = taken + n
            /\ UNCHANGED lost
       ELSE /\ taken' = taken + Rest
            /\ lost' = TRUE
            /\ UNCHANGED recvBuf
  /\ UNCHANGED <<sock, made, scene, pending, proc, sendVars, clicks, peerVars,
                 got, stale>>

\* nProcPosition moves past n units; both positions go back to 0 at the end.
Advance(n) ==
  IF proc + n >= Len(recvBuf) THEN ClearPositions
  ELSE proc' = proc + n /\ UNCHANGED recvBuf

\* ReadMessage finds a frame and the scene handles it.  A confirmed login
\* changes the scene; some frames lead back to the server selection, which
\* closes the socket under the loop.
ReadFrame ==
  /\ reading /\ Complete(Window) /\ Sound(Window)
  /\ LET n    == Window[1].size
         kind == Window[1].kind
     IN  IF kind = "leave" /\ scene = "game"
         THEN scene' = "select" /\ CloseSocket
         ELSE /\ Advance(n)
              /\ got' = got \o SubSeq(Window, 1, n)
              /\ scene' = IF kind = "confirm" THEN "game" ELSE scene
              /\ UNCHANGED <<sock, pending, sendVars, peerVars, taken, lost,
                             stale>>
  /\ UNCHANGED <<made, queue, reading, clicks>>

\* ReadMessage returns no frame, or an error: the loop ends.
NothingLeft == Window = <<>> /\ ClearPositions
\* Fault: the part of a frame that has arrived is thrown away.
IncompleteDropped ==
  Window # <<>> /\ Window[1].part = 1 /\ ~Complete(Window) /\ ClearPositions

Incomplete ==
  Window # <<>> /\ Window[1].part = 1 /\ ~Complete(Window) /\ UNCHANGED recvVars
BadChecksum ==
  Complete(Window) /\ Window[1].part = 1 /\ ~Sound(Window)
    /\ Advance(Window[1].size)
\* The header is read out of the middle of a frame: any size.
NoHeader ==
  /\ Window # <<>> /\ Window[1].part # 1
  /\ \/ ClearPositions
     \/ UNCHANGED recvVars
     \/ \E n \in 1 .. Len(Window) : Advance(n)

ReadEnds ==
  /\ reading
  /\ NothingLeft \/ Incomplete \/ BadChecksum \/ NoHeader
  /\ reading' = FALSE
  /\ SocketAckRead
  /\ UNCHANGED <<sock, made, scene, queue, sendVars, clicks, peerVars, taken,
                 got, lost, stale>>

-----------------------------------------------------------------------------
MainLoop ==
  \/ HandleLogin \/ HandleLeave
  \/ ReceiveNothing \/ Receive \/ ReadFrame \/ ReadEnds

Next ==
  \/ \E f \in Frames : ServerSends(f)
  \/ ServerCloses
  \/ \E what \in {"login", "leave"} : Click(what)
  \/ Poll
  \/ \E n \in PacketSizes : Send(n)
  \/ MainLoop

\* NewApp::Run never stops polling and handling messages.
Fairness == WF_vars(Poll) /\ WF_vars(MainLoop)

Spec == Init /\ [][Next]_vars /\ Fairness

-----------------------------------------------------------------------------
\* The types of the variables; the receive buffer is never full, so that
\* Receive never refuses a socket that has data, and neither is the send
\* buffer.
TypeOK ==
  /\ made \in 0 .. MaxConn /\ sock \in {0, made}
  /\ scene \in {"select", "game"} /\ queue \in Seq({"read", "login", "leave"})
  /\ pending \in BOOLEAN /\ reading \in BOOLEAN
  /\ recvBuf \in Seq(Unit) /\ Len(recvBuf) < RecvCap
  /\ proc \in 0 .. Len(recvBuf)
  /\ sendBuf \in Seq(PacketUnit) /\ Len(sendBuf) <= SendCap
  /\ sentPos \in 0 .. Len(sendBuf)
  /\ clicks \in Nat /\ sent \in Seq(Unit) /\ taken \in 0 .. Len(sent)
  /\ closed \in BOOLEAN /\ got \in Seq(Unit) /\ tries \in Nat
  /\ wire \in Seq(PacketUnit) /\ accepted \in Seq(PacketUnit)
  /\ lost \in BOOLEAN /\ stale \in BOOLEAN

Prefix(s, t) == Len(s) <= Len(t) /\ \A i \in 1 .. Len(s) : s[i] = t[i]

\* What the scenes are given on a connection is what the server sent on that
\* connection, in its order, from the beginning and frame by frame, for as
\* long as no read has filled the buffer: nothing of an earlier connection is
\* left in it, nothing is skipped, given twice or cut in the middle.
FramesInOrder ==
  /\ ~lost => Prefix(got, sent)
  /\ got # <<>> => got[Len(got)].part = got[Len(got)].size

\* The packets that AddMessage accepted are on the wire in order and once
\* each, but for a rest that is still in the send buffer, whatever send()
\* takes at each call.
SendStreamIntact == wire \o Backlog = accepted

\* The handler closes a connection that the server keeps open only if the
\* connection was made while a notification of an earlier one was waiting.
OnlyStaleCloses ==
  [][ReceiveNothing /\ sock # 0 /\ ~closed => stale]_vars

\* Every frame the server sent reaches a scene, unless the connection ends or
\* a read fills the buffer: the loop catches up with the server again and
\* again, however the stream is cut into reads and notifications.
FramesArrive == []<>(sock = 0 \/ lost \/ Len(got) = Len(sent))

=============================================================================
