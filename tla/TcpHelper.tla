------------------------------ MODULE TcpHelper ------------------------------
(***************************************************************************)
(* The messaging core of the device: tcp_helper_task (main/tcp_helper.c),  *)
(* the two FreeRTOS queues app_main creates for it, the tasks that put     *)
(* messages into the send queue, and the far end of the TCP connection.    *)
(*                                                                         *)
(* Outbound, a message is the index at which xQueueSend accepted it; the   *)
(* 64 bytes of a message always travel together (the code sends 64 bytes   *)
(* or treats the call as failed).  Inbound, the stream is a sequence of    *)
(* units <<message, part>>, FrameLen units to a 64-byte message, because   *)
(* recv() may return any number of bytes while the code forwards exactly   *)
(* one 64-byte item per recv().                                            *)
(***************************************************************************)
EXTENDS Integers, Sequences

CONSTANTS
  Producers,      \* tasks that call xQueueSend(*xSendQueue): gui, user input, button
  QueueLen,       \* app_main.c: msg_queue_len (20)
  SockBuf,        \* messages the socket takes until send() blocks
  FrameLen,       \* units of a 64-byte message in the inbound stream
  ChunkSizes,     \* numbers of units one recv() may return
  MaxAccepted,    \* bound: messages accepted by the send queue
  MaxSessions,    \* bound: successful connect() calls
  MaxServerMsgs   \* bound: messages the server sends to the device

ASSUME TcpConstants ==
  /\ QueueLen \in Nat \ {0}
  /\ SockBuf \in Nat \ {0}
  /\ FrameLen \in Nat \ {0}
  /\ ChunkSizes \subseteq Nat \ {0}
  /\ MaxAccepted \in Nat
  /\ MaxSessions \in Nat
  /\ MaxServerMsgs \in Nat

VARIABLES
  pc,         \* where tcp_helper_task is
  sendQ,      \* *xSendQueue
  held,       \* send_buf between xQueueReceive and send, 0 otherwise
  waiting,    \* producers blocked inside xQueueSend
  accepted,   \* how many xQueueSend calls returned pdTRUE so far
  recvQ,      \* *xRecvQueue
  rxbuf,      \* the first 64 bytes of the static rx_buffer
  session,    \* how many connect() calls succeeded so far
  link,       \* the connection of the current session, see LinkStates
  listening,  \* the server runs and can be reached
  up,         \* per session: messages written to the socket, not yet read by the server
  down,       \* units sent by the server on the current session, not yet returned by recv
  sent,       \* messages the server has sent, all sessions together
  log,        \* what the server has read, in the order it read it
  shown       \* history: items the GUI task has taken from recvQ

device == <<pc, held, rxbuf>>
queues == <<sendQ, waiting, accepted, recvQ>>
network == <<session, link, up, down>>
server == <<listening, sent, log>>
vars == <<device, queues, network, server, shown>>

(* "up": works in both directions.  "broken": the device is told, recv and send
   on the socket fail (also: no socket).  "silent": the peer is unreachable and
   nothing tells the device.  "unacked": the same with data of the device waiting
   for an acknowledgement, so that TCP gives up in the end. *)
LinkStates == {"up", "broken", "silent", "unacked"}

Sessions == 1..MaxSessions
Steps == {"connect", "backoff", "recv", "beep", "drain", "send", "close"}
Blank == <<0, 0>>                          \* a unit of zeroed memory
Unit == {Blank} \cup ((1..MaxServerMsgs) \X (1..FrameLen))
Frame(m) == [k \in 1..FrameLen |-> <<m, k>>]
NoMsg == 0

TypeOK ==
  /\ pc \in Steps
  /\ sendQ \in Seq(1..accepted) /\ Len(sendQ) <= QueueLen
  /\ held \in 0..accepted /\ (held # NoMsg <=> pc = "send")
  /\ waiting \subseteq Producers
  /\ accepted \in 0..MaxAccepted
  /\ recvQ \in Seq([1..FrameLen -> Unit]) /\ Len(recvQ) <= QueueLen
  /\ rxbuf \in [1..FrameLen -> Unit]
  /\ session \in 0..MaxSessions
  /\ link \in LinkStates /\ (link # "broken" => session # 0)
  /\ listening \in BOOLEAN
  /\ up \in [Sessions -> Seq(1..accepted)]
  /\ down \in Seq(Unit)
  /\ sent \in 0..MaxServerMsgs
  /\ log \in Seq([s : Sessions, m : 1..accepted])
  /\ shown \in Seq([1..FrameLen -> Unit])

Init ==
  /\ pc = "connect"
  /\ sendQ = <<>> /\ recvQ = <<>>
  /\ held = NoMsg
  /\ waiting = {}
  /\ accepted = 0
  /\ rxbuf = [k \in 1..FrameLen |-> Blank]
  /\ session = 0
  /\ link = "broken"
  /\ listening \in BOOLEAN
  /\ up = [s \in Sessions |-> <<>>]
  /\ down = <<>>
  /\ sent = 0
  /\ log = <<>>
  /\ shown = <<>>

-----------------------------------------------------------------------------
(* Producers: xQueueSend with a finite timeout on the shared send queue.    *)

SendQFull == Len(sendQ) = QueueLen

(* A task enters xQueueSend with a message. *)
OfferMsg(p) ==
  /\ p \notin waiting
  /\ accepted < MaxAccepted
  /\ waiting' = waiting \cup {p}
  /\ UNCHANGED <<device, network, server, sendQ, accepted, recvQ, shown>>

(* Mutant: the capacity of the queue is not checked. *)
MsgAcceptedUnbounded(p) ==
  /\ p \in waiting
  /\ accepted < MaxAccepted
  /\ waiting' = waiting \ {p}
  /\ accepted' = accepted + 1
  /\ sendQ' = Append(sendQ, accepted + 1)
  /\ UNCHANGED <<device, network, server, recvQ, shown>>

(* xQueueSend returns pdTRUE: the message is in the queue. *)
MsgAccepted(p) ==
  /\ p \in waiting
  /\ accepted < MaxAccepted
  /\ ~SendQFull
  /\ waiting' = waiting \ {p}
  /\ accepted' = accepted + 1
  /\ sendQ' = Append(sendQ, accepted + 1)
  /\ UNCHANGED <<device, network, server, recvQ, shown>>

(* The timeout expires on a full queue: the producer drops the message. *)
MsgTimedOut(p) ==
  /\ p \in waiting
  /\ SendQFull
  /\ waiting' = waiting \ {p}
  /\ UNCHANGED <<device, network, server, sendQ, accepted, recvQ, shown>>

-----------------------------------------------------------------------------
(* tcp_helper_task.                                                         *)

Goto(step) == pc' = step

(* Mutant: xQueueReset on a new connection. *)
ConnectResetsQueue ==
  /\ pc = "connect"
  /\ listening /\ session < MaxSessions
  /\ session' = session + 1
  /\ link' = "up"
  /\ down' = <<>>
  /\ sendQ' = <<>>
  /\ Goto("recv")
  /\ UNCHANGED <<held, rxbuf, waiting, accepted, recvQ, up, server, shown>>

(* tcp_client_connect succeeds: only if somebody listens on the port dialled (3333
   in tcp_helper.h, while server.py listens on 8000; both are configuration). *)
Connect ==
  /\ pc = "connect"
  /\ listening /\ session < MaxSessions
  /\ session' = session + 1
  /\ link' = "up"
  /\ down' = <<>>
  /\ Goto("recv")
  /\ UNCHANGED <<held, rxbuf, queues, up, server, shown>>

ConnectFails ==
  /\ pc = "connect"
  /\ Goto("backoff")
  /\ UNCHANGED <<held, rxbuf, queues, network, server, shown>>

(* vTaskDelay(5000) before the next attempt. *)
BackoffOver ==
  /\ pc = "backoff"
  /\ Goto("connect")
  /\ UNCHANGED <<held, rxbuf, queues, network, server, shown>>

(* Mutant: what recv returns goes behind the first unit of the buffer. *)
RecvDataBehind ==
  /\ pc = "recv"
  /\ \E n \in ChunkSizes :
       /\ n <= Len(down)
       /\ rxbuf' = [k \in 1..FrameLen |-> IF k \in 2..n + 1 THEN down[k - 1] ELSE rxbuf[k]]
       /\ down' = SubSeq(down, n + 1, Len(down))
  /\ Goto("beep")
  /\ UNCHANGED <<held, queues, session, link, up, server, shown>>

(* recv returns n bytes: they overwrite the start of rx_buffer, the rest of
   the buffer keeps what an earlier recv left there. *)
RecvData ==
  /\ pc = "recv"
  /\ \E n \in ChunkSizes :
       /\ n <= Len(down)
       /\ rxbuf' = [k \in 1..FrameLen |-> IF k <= n THEN down[k] ELSE rxbuf[k]]
       /\ down' = SubSeq(down, n + 1, Len(down))
  /\ Goto("beep")
  /\ UNCHANGED <<held, queues, session, link, up, server, shown>>

(* Mutant: the buffer is forwarded even when recv returned nothing. *)
RecvNothingForwards ==
  /\ pc = "recv"
  /\ Goto("beep")
  /\ UNCHANGED <<held, rxbuf, queues, network, server, shown>>

(* Mutant: `continue` when nothing was received. *)
RecvNothingSkipsDrain ==
  /\ pc = "recv"
  /\ Goto("recv")
  /\ UNCHANGED <<held, rxbuf, queues, network, server, shown>>

(* recv times out, or reports end of stream: both come back as 0. *)
RecvNothing ==
  /\ pc = "recv"
  /\ Goto("drain")
  /\ UNCHANGED <<held, rxbuf, queues, network, server, shown>>

(* Mutant: no break after a receive error. *)
RecvErrorStays ==
  /\ pc = "recv"
  /\ link = "broken"
  /\ Goto("drain")
  /\ UNCHANGED <<held, rxbuf, queues, network, server, shown>>

(* recv fails on a broken connection: leave the inner loop. *)
RecvError ==
  /\ pc = "recv"
  /\ link = "broken"
  /\ Goto("close")
  /\ UNCHANGED <<held, rxbuf, queues, network, server, shown>>

(* Mutant: the item goes into a full queue too. *)
BeepAndForwardUnbounded ==
  /\ pc = "beep"
  /\ recvQ' = Append(recvQ, rxbuf)
  /\ Goto("drain")
  /\ UNCHANGED <<held, rxbuf, sendQ, waiting, accepted, network, server, shown>>

(* Two blocking beeps, then one item of 64 bytes, dropped if the queue is full. *)
BeepAndForward ==
  /\ pc = "beep"
  /\ recvQ' = IF Len(recvQ) < QueueLen THEN Append(recvQ, rxbuf) ELSE recvQ
  /\ Goto("drain")
  /\ UNCHANGED <<held, rxbuf, sendQ, waiting, accepted, network, server, shown>>

(* Mutant: xQueuePeek instead of xQueueReceive. *)
PeekAtQueue ==
  /\ pc = "drain"
  /\ sendQ # <<>>
  /\ held' = Head(sendQ)
  /\ Goto("send")
  /\ UNCHANGED <<rxbuf, queues, network, server, shown>>

(* xQueueReceive takes the oldest message into send_buf. *)
TakeFromQueue ==
  /\ pc = "drain"
  /\ sendQ # <<>>
  /\ held' = Head(sendQ)
  /\ sendQ' = Tail(sendQ)
  /\ Goto("send")
  /\ UNCHANGED <<rxbuf, waiting, accepted, recvQ, network, server, shown>>

(* Queue empty: vTaskDelay(10) and back to recv. *)
QueueDrained ==
  /\ pc = "drain"
  /\ sendQ = <<>>
  /\ Goto("recv")
  /\ UNCHANGED <<held, rxbuf, queues, network, server, shown>>

(* send returns 64 on a working connection.  The socket has no send timeout: as long
   as the peer's thread leaves no room in the buffers between them, send blocks. *)
SendOk ==
  /\ pc = "send"
  /\ link = "up" /\ Len(up[session]) < SockBuf
  /\ up' = [up EXCEPT ![session] = Append(@, held)]
  /\ held' = NoMsg
  /\ Goto("drain")
  /\ UNCHANGED <<rxbuf, queues, session, link, down, server, shown>>

(* send returns 64 although the peer is gone: the bytes never arrive. *)
SendIntoVoid ==
  /\ pc = "send"
  /\ link # "up"
  /\ link' = IF link = "silent" THEN "unacked" ELSE link
  /\ held' = NoMsg
  /\ Goto("drain")
  /\ UNCHANGED <<rxbuf, queues, session, up, down, server, shown>>

(* Mutant: a message that could not be sent goes back into the queue. *)
SendFailsRequeues ==
  /\ pc = "send"
  /\ link = "broken"
  /\ held' = NoMsg
  /\ sendQ' = IF SendQFull THEN sendQ ELSE Append(sendQ, held)
  /\ Goto("recv")
  /\ UNCHANGED <<rxbuf, waiting, accepted, recvQ, network, server, shown>>

(* send fails: the break leaves only the drain loop, the message is gone and
   the task goes on with the same socket. *)
SendFails ==
  /\ pc = "send"
  /\ link = "broken"
  /\ held' = NoMsg
  /\ Goto("recv")
  /\ UNCHANGED <<rxbuf, queues, network, server, shown>>

(* close(sock), then vTaskDelay(5000). *)
CloseSocket ==
  /\ pc = "close"
  /\ down' = <<>>
  /\ Goto("backoff")
  /\ UNCHANGED <<held, rxbuf, queues, session, link, up, server, shown>>

-----------------------------------------------------------------------------
(* The GUI task takes inbound items; the rest of its loop is module Gui.    *)

GuiTakes ==
  /\ recvQ # <<>>
  /\ shown' = Append(shown, Head(recvQ))
  /\ recvQ' = Tail(recvQ)
  /\ UNCHANGED <<device, sendQ, waiting, accepted, network, server>>

-----------------------------------------------------------------------------
(* The network and the server.                                              *)

(* The connection is lost (peer closes, reset, Wi-Fi gone): of the data in
   flight each side still gets a prefix.  Without data in flight the device may
   never be told: the code sets no keepalive.  Full buffers are data in flight. *)
LinkLost ==
  /\ link = "up"
  /\ link' \in LinkStates \ {"up"}
  /\ link' = "silent" => Len(up[session]) < SockBuf
  /\ \E n \in 0..Len(up[session]) : up' = [up EXCEPT ![session] = SubSeq(@, 1, n)]
  /\ \E n \in 0..Len(down) : down' = SubSeq(down, 1, n)
  /\ UNCHANGED <<device, queues, session, server, shown>>

(* TCP gives up retransmitting: from now on the socket reports an error. *)
RetransmitGivesUp ==
  /\ link = "unacked"
  /\ link' = "broken"
  /\ UNCHANGED <<device, queues, session, up, down, server, shown>>

(* The server is started or stopped, or comes into or leaves Wi-Fi range. *)
ServerToggles ==
  /\ link # "up"
  /\ listening' = ~listening
  /\ UNCHANGED <<device, queues, network, sent, log, shown>>

(* handle_client of session s: recvn returns one message, it is logged.  The
   thread of an old session goes on until it has read everything. *)
ServerReads(s) ==
  /\ up[s] # <<>>
  /\ log' = Append(log, [s |-> s, m |-> Head(up[s])])
  /\ up' = [up EXCEPT ![s] = Tail(@)]
  /\ UNCHANGED <<device, queues, session, link, down, listening, sent, shown>>

(* send_text: sendall of one padded message to the connected client. *)
ServerSends ==
  /\ link = "up"
  /\ sent < MaxServerMsgs
  /\ sent' = sent + 1
  /\ down' = down \o Frame(sent + 1)
  /\ UNCHANGED <<device, queues, session, link, up, listening, log, shown>>

-----------------------------------------------------------------------------

TcpTask ==
  \/ Connect \/ ConnectFails \/ BackoffOver
  \/ RecvData \/ RecvNothing \/ RecvError \/ BeepAndForward
  \/ TakeFromQueue \/ QueueDrained
  \/ SendOk \/ SendIntoVoid \/ SendFails \/ CloseSocket

Producing == \E p \in Producers : OfferMsg(p) \/ MsgAccepted(p) \/ MsgTimedOut(p)

World ==
  \/ LinkLost \/ RetransmitGivesUp \/ ServerToggles \/ ServerSends
  \/ \E s \in Sessions : ServerReads(s)

Next == TcpTask \/ Producing \/ GuiTakes \/ World

Spec == Init /\ [][Next]_vars

(* send() to a peer that acknowledges nothing blocks when the buffers are full. *)
MayBlock == pc = "send" /\ link = "unacked"

(* Fairness.  The scheduler runs tcp_helper_task, and each of its calls returns: recv
   by its timeout, connect when TCP stops repeating an unanswered SYN, the others at
   once.  Only send may block, until a
   server thread, which keeps reading, has made room, or until TCP gives up after
   finitely many retransmissions.  A connect() to a server that stays reachable succeeds in
   the end (Connect); on a broken socket lwIP reports at most one end of stream
   before the error (RecvError).  Nothing is assumed about producers, losses or the
   server. *)
Fairness ==
  /\ WF_vars(TcpTask /\ ~MayBlock)
  /\ \A s \in Sessions : WF_vars(ServerReads(s))
  /\ WF_vars(RetransmitGivesUp)
  /\ SF_vars(Connect)
  /\ SF_vars(RecvError)

FairSpec == Spec /\ Fairness

-----------------------------------------------------------------------------
(* Properties.                                                              *)

Elements(q) == {q[i] : i \in 1..Len(q)}
Increasing(q) == \A i, j \in 1..Len(q) : i < j => q[i] < q[j]
Before(A, B) == \A a \in A, b \in B : a < b

(* Where a message can be: queued, in send_buf, in a socket, read. *)
Queued == Elements(sendQ)
InHand == {held} \ {NoMsg}
InSocket(s) == Elements(up[s])
Arrived == {e.m : e \in Elements(log)}
InTransit == Queued \cup InHand \cup UNION {InSocket(s) : s \in Sessions}

(* The server reads the messages of one connection in the order in which
   xQueueSend accepted them: a FIFO queue, one sender task, one TCP stream. *)
SessionOrder ==
  \A i, j \in 1..Len(log) : i < j /\ log[i].s = log[j].s => log[i].m < log[j].m

(* No message reaches the server twice, over one connection or over two: the
   code never re-sends, whatever happens around a reconnection. *)
DeliveredOnce == \A i, j \in 1..Len(log) : i # j => log[i].m # log[j].m

(* A message that the queue accepted disappears only in a step after which the
   connection is not working: the drain loop dequeues before it sends, and only
   a dead socket makes that matter. *)
LostMsgs == (1..accepted) \ (InTransit \cup Arrived)
LossNeedsDeadLink == [][LostMsgs' \subseteq LostMsgs \/ link' # "up"]_vars

(* What makes the order hold across the parts: every message further down the
   path is older than every message behind it, and a later connection carries
   later messages even while the thread of an older one still reads. *)
QueueOrder ==
  Increasing(sendQ) /\ Before(InHand, Queued)
SocketOrder ==
  \A s \in Sessions :
    /\ s > session => up[s] = <<>>
    /\ Increasing(up[s])
    /\ Before(InSocket(s), InHand \cup Queued)
    /\ \A t \in Sessions : s < t => Before(InSocket(s), InSocket(t))
LogBehind ==
  \A e \in Elements(log) :
    /\ e.s <= session
    /\ Before({e.m}, InHand \cup Queued)
    /\ \A s \in Sessions :
         IF e.s <= s THEN Before({e.m}, InSocket(s)) ELSE Before(InSocket(s), {e.m})
LogOrder ==
  \A k, l \in 1..Len(log) :
    (k < l /\ log[k].s = log[l].s) \/ log[k].s < log[l].s => log[k].m < log[l].m

OrderInv == QueueOrder /\ SocketOrder /\ LogBehind /\ LogOrder

(* The outbound path implements the abstract channel: a message is in transit
   from xQueueSend until the server reads it or a dead socket swallows it. *)
Channel == INSTANCE MessageChannel WITH transit <- InTransit, arrived <- log
ImplementsChannel == Channel!Spec

(* The items the GUI gets start with stream positions that strictly increase:
   recv() never hands out the same bytes twice and xRecvQueue is FIFO, so
   nothing inbound is duplicated or reordered, however the stream is cut up. *)
Inbound == shown \o recvQ
StreamPos(u) == u[1] * FrameLen + u[2]
InboundOrder ==
  \A i, j \in 1..Len(Inbound) : i < j => StreamPos(Inbound[i][1]) < StreamPos(Inbound[j][1])

(* However recv() cuts the stream up, an item is a run of consecutive bytes of the
   stream, and behind it only bytes from before: the remains of older messages in
   rx_buffer (tcp_helper.c:255), never bytes that are forwarded again later. *)
ItemShape ==
  \A i \in 1..Len(Inbound) :
    LET pos(k) == StreamPos(Inbound[i][k])
    IN \E n \in 1..FrameLen :
         \A k \in 2..FrameLen : IF k <= n THEN pos(k) = pos(k - 1) + 1 ELSE pos(k) < pos(1)

(* While the server stays reachable, a connection the device can know to be
   dead is replaced.  A silently lost one is noticed only by sending: then any
   queued message does it. *)
Reconnects ==
  <>[]listening =>
    (link \in {"broken", "unacked"} \/ (link = "silent" /\ sendQ # <<>>))
      ~> (link = "up" \/ session = MaxSessions)

(* While the server stays reachable, no message stays in the send queue, and so
   no producer meets a full queue for ever. *)
QueueMoves ==
  <>[]listening =>
    \A n \in 1..MaxAccepted :
      n \in Queued ~> (n \notin Queued \/ session = MaxSessions)

(* README.md:122: "TCP ensures all messages arrive and in correct order."  Taken
   mildly: once the connection is stable, every message accepted before arrives. *)
AllMessagesArrive ==
  <>[](link = "up") => \A n \in 1..MaxAccepted : accepted >= n ~> n \in Arrived
=============================================================================
