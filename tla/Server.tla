------------------------------- MODULE Server -------------------------------
(***************************************************************************)
(* The text half of the laptop server (server/server.py): the accept       *)
(* thread, one handler thread per connection, the main thread that         *)
(* broadcasts what the operator types, the list of clients they share, and *)
(* the log widget they all write to.                                       *)
(*                                                                         *)
(* Tk runs in the main thread.  A widget call made by another thread is    *)
(* queued and executed by mainloop, one call at a time, so the calls of    *)
(* log() mix with those of other threads but not with a callback of the    *)
(* main thread itself.  The list needs no Tk: handlers change it at any    *)
(* time, in the middle of a broadcast too.                                 *)
(***************************************************************************)
EXTENDS Integers, Sequences, FiniteSets

CONSTANTS
  Conns,          \* the connections that may be made
  RcvBuf,         \* messages of a device that fit between its send and recvn
  MaxMsgs,        \* bound: messages sent by the devices, all together
  MaxBroadcasts   \* bound: messages the operator sends

Main == "main"
Accept == "accept"
NoConn == "nobody"

ASSUME ServerConstants ==
  /\ IsFiniteSet(Conns) /\ Conns \cap {Main, Accept, NoConn} = {}
  /\ RcvBuf \in Nat \ {0} /\ MaxMsgs \in Nat /\ MaxBroadcasts \in Nat

Threads == Conns \cup {Accept}     \* a handler is named by its connection

VARIABLES
  clients,    \* self.clients
  pc,         \* what each thread does outside log(): see ThreadSteps
  logStep,    \* the call of log() each thread is at, "no" outside
  line,       \* the line each thread logs: a message, or NoLine for a notice
  widget,     \* text_area's state option
  area,       \* the messages text_area shows
  fresh,      \* the connection accepted last, while it has no handler
  inbox,      \* per connection: messages that recvn has yet to return
  peer,       \* per connection: "none", "up", "closed" (EOF), "reset"
  received,   \* per connection: how many messages recvn returned
  index,      \* position of send_text's iterator, counted from 0
  broadcast,  \* number of the message send_text sends, or sent last
  delivered,  \* history: per connection, the broadcasts sendall took
  removed,    \* history: a client left the list during this broadcast
  atStart     \* history: the clients when this broadcast began

sending == <<index, broadcast, delivered, removed, atStart>>
logging == <<logStep, line, widget, area>>
vars == <<clients, pc, logging, fresh, inbox, peer, received, sending>>

NoLine == <<>>
Line == Conns \X (1..MaxMsgs)
ThreadSteps == {"none", "recv", "handle", "close", "remove", "goodbye", "ended",
                "accept", "announce", "spawn", "idle", "send"}
LogSteps == {"no", "normal", "insert", "disabled"}
Elements(q) == {q[i] : i \in 1..Len(q)}

TypeOK ==
  /\ clients \in Seq(Conns)
  /\ \A i, j \in 1..Len(clients) : i # j => clients[i] # clients[j]
  /\ pc \in [Threads \cup {Main} -> ThreadSteps]
  /\ logStep \in [Threads -> LogSteps]
  /\ line \in [Threads -> {NoLine} \cup Line]
  /\ widget \in {"normal", "disabled"}
  /\ area \in Seq(Line)
  /\ fresh \in Conns \cup {NoConn}
  /\ inbox \in [Conns -> Seq(1..MaxMsgs)]
  /\ peer \in [Conns -> {"none", "up", "closed", "reset"}]
  /\ received \in [Conns -> 0..MaxMsgs]
  /\ index \in 0..Cardinality(Conns)
  /\ broadcast \in 0..MaxBroadcasts
  /\ delivered \in [Conns -> Seq(1..MaxBroadcasts)]
  /\ removed \in BOOLEAN
  /\ atStart \subseteq Conns

Init ==
  /\ clients = <<>>
  /\ pc = [t \in Threads \cup {Main} |->
             IF t = Main THEN "idle" ELSE IF t = Accept THEN "accept" ELSE "none"]
  /\ logStep = [t \in Threads |-> IF t = Accept THEN "normal" ELSE "no"]  \* "[SYSTEM] ..."
  /\ line = [t \in Threads |-> NoLine]
  /\ widget = "disabled"
  /\ area = <<>>
  /\ fresh = NoConn
  /\ inbox = [c \in Conns |-> <<>>]
  /\ peer = [c \in Conns |-> "none"]
  /\ received = [c \in Conns |-> 0]
  /\ index = 0
  /\ broadcast = 0
  /\ delivered = [c \in Conns |-> <<>>]
  /\ removed = FALSE
  /\ atStart = {}

At(t, step) == pc[t] = step /\ (t # Main => logStep[t] = "no")
Goto(t, step) == pc' = [pc EXCEPT ![t] = step]

-----------------------------------------------------------------------------
(* log(), called by a thread other than the main thread.  Each call waits   *)
(* for mainloop, which runs only between the main thread's callbacks.       *)

MainloopRuns == pc[Main] = "idle"

StartLog(t, l) ==
  /\ logStep' = [logStep EXCEPT ![t] = "normal"]
  /\ line' = [line EXCEPT ![t] = l]

LogNormal(t) ==
  /\ logStep[t] = "normal" /\ MainloopRuns
  /\ widget' = "normal"
  /\ logStep' = [logStep EXCEPT ![t] = "insert"]
  /\ UNCHANGED <<clients, pc, line, area, fresh, inbox, peer, received, sending>>

(* Mutant: the line goes to the top of the log. *)
LogInsertAtTop(t) ==
  /\ logStep[t] = "insert" /\ MainloopRuns
  /\ area' = IF widget = "normal" /\ line[t] # NoLine THEN <<line[t]>> \o area ELSE area
  /\ logStep' = [logStep EXCEPT ![t] = "disabled"]
  /\ UNCHANGED <<clients, pc, line, widget, fresh, inbox, peer, received, sending>>

(* insert does nothing on a disabled widget, and says nothing. *)
LogInsert(t) ==
  /\ logStep[t] = "insert" /\ MainloopRuns
  /\ area' = IF widget = "normal" /\ line[t] # NoLine THEN Append(area, line[t]) ELSE area
  /\ logStep' = [logStep EXCEPT ![t] = "disabled"]
  /\ UNCHANGED <<clients, pc, line, widget, fresh, inbox, peer, received, sending>>

(* Mutant: the state is not set back. *)
LogDisabledForgets(t) ==
  /\ logStep[t] = "disabled" /\ MainloopRuns
  /\ logStep' = [logStep EXCEPT ![t] = "no"]
  /\ line' = [line EXCEPT ![t] = NoLine]
  /\ UNCHANGED <<clients, pc, widget, area, fresh, inbox, peer, received, sending>>

(* yview changes nothing modelled; configure(state='disabled') ends log(). *)
LogDisabled(t) ==
  /\ logStep[t] = "disabled" /\ MainloopRuns
  /\ widget' = "disabled"
  /\ logStep' = [logStep EXCEPT ![t] = "no"]
  /\ line' = [line EXCEPT ![t] = NoLine]
  /\ UNCHANGED <<clients, pc, area, fresh, inbox, peer, received, sending>>

-----------------------------------------------------------------------------
(* tcp_server_thread.                                                       *)

(* Mutant: the newest client first. *)
AcceptConnInFront(c) ==
  /\ At(Accept, "accept") /\ peer[c] = "none"
  /\ peer' = [peer EXCEPT ![c] = "up"]
  /\ fresh' = c
  /\ clients' = <<c>> \o clients
  /\ Goto(Accept, "announce")
  /\ UNCHANGED <<logging, inbox, received, sending>>

(* accept returns a connection, which joins the list. *)
AcceptConn(c) ==
  /\ At(Accept, "accept") /\ peer[c] = "none"
  /\ peer' = [peer EXCEPT ![c] = "up"]
  /\ fresh' = c
  /\ clients' = Append(clients, c)
  /\ Goto(Accept, "announce")
  /\ UNCHANGED <<logging, inbox, received, sending>>

(* log("[NEW CONNECTION] ..."). *)
Announce ==
  /\ At(Accept, "announce")
  /\ StartLog(Accept, NoLine)
  /\ Goto(Accept, "spawn")
  /\ UNCHANGED <<clients, widget, area, fresh, inbox, peer, received, sending>>

(* The handler thread of the connection starts. *)
Spawn ==
  /\ At(Accept, "spawn")
  /\ pc' = [pc EXCEPT ![Accept] = "accept", ![fresh] = "recv"]
  /\ fresh' = NoConn
  /\ UNCHANGED <<clients, logging, inbox, peer, received, sending>>

-----------------------------------------------------------------------------
(* handle_client of connection c.                                           *)

(* recvn returns 64 bytes: the message is logged. *)
RecvMsg(c) ==
  /\ At(c, "recv") /\ inbox[c] # <<>>
  /\ inbox' = [inbox EXCEPT ![c] = Tail(@)]
  /\ received' = [received EXCEPT ![c] = @ + 1]
  /\ StartLog(c, <<c, Head(inbox[c])>>)
  /\ UNCHANGED <<clients, pc, widget, area, fresh, peer, sending>>

(* recvn returns None at the end of the stream. *)
RecvEof(c) ==
  /\ At(c, "recv") /\ inbox[c] = <<>> /\ peer[c] = "closed"
  /\ Goto(c, "close")
  /\ UNCHANGED <<clients, logging, fresh, inbox, peer, received, sending>>

(* Mutant: the handler returns on an error without the finally block. *)
RecvErrorReturns(c) ==
  /\ At(c, "recv") /\ peer[c] = "reset"
  /\ StartLog(c, NoLine)
  /\ Goto(c, "ended")
  /\ UNCHANGED <<clients, widget, area, fresh, inbox, peer, received, sending>>

(* recv raises on a reset connection: log("[CONN ERROR] ..."). *)
RecvError(c) ==
  /\ At(c, "recv") /\ peer[c] = "reset"
  /\ StartLog(c, NoLine)
  /\ Goto(c, "close")
  /\ UNCHANGED <<clients, widget, area, fresh, inbox, peer, received, sending>>

(* finally: client_socket.close(). *)
CloseSocket(c) ==
  /\ At(c, "close")
  /\ Goto(c, "remove")
  /\ UNCHANGED <<clients, logging, fresh, inbox, peer, received, sending>>

(* The connection, which is always in the list here, leaves it: those behind it
   move up by one. *)
RemoveClient(c) ==
  /\ At(c, "remove")
  /\ \E i \in 1..Len(clients) :
       /\ clients[i] = c
       /\ clients' = SubSeq(clients, 1, i - 1) \o SubSeq(clients, i + 1, Len(clients))
  /\ removed' = (pc[Main] = "send")
  /\ Goto(c, "goodbye")
  /\ UNCHANGED <<logging, fresh, inbox, peer, received, index, broadcast, delivered, atStart>>

(* log("[DISCONNECTED] ..."), and the thread ends. *)
Goodbye(c) ==
  /\ At(c, "goodbye")
  /\ StartLog(c, NoLine)
  /\ Goto(c, "ended")
  /\ UNCHANGED <<clients, widget, area, fresh, inbox, peer, received, sending>>

-----------------------------------------------------------------------------
(* send_text, in the main thread: a callback, during which mainloop waits.  *)

SendText ==
  /\ At(Main, "idle")
  /\ broadcast < MaxBroadcasts
  /\ broadcast' = broadcast + 1
  /\ atStart' = Elements(clients)
  /\ Goto(Main, "send")
  /\ UNCHANGED <<clients, logging, fresh, inbox, peer, received, index, delivered, removed>>

Target == clients[index + 1]
HasTarget == At(Main, "send") /\ index < Len(clients)
SocketOpen(c) == pc[c] \notin {"remove", "goodbye", "ended"}

(* sendall takes the message; it does so too when the peer has just gone.  It may
   block for as long as a device does not read. *)
SendToClient ==
  /\ HasTarget /\ SocketOpen(Target)
  /\ delivered' = [delivered EXCEPT ![Target] = Append(@, broadcast)]
  /\ index' = index + 1
  /\ UNCHANGED <<clients, pc, logging, fresh, inbox, peer, received, broadcast, removed, atStart>>

(* Mutant: the same client is tried again. *)
SendRaisesRetries ==
  /\ HasTarget
  /\ peer[Target] # "up" \/ ~SocketOpen(Target)
  /\ widget' = "disabled"
  /\ UNCHANGED <<clients, pc, logStep, line, area, fresh, inbox, peer, received, sending>>

(* Mutant: the first failure ends the broadcast. *)
SendRaisesBreaks ==
  /\ HasTarget
  /\ peer[Target] # "up" \/ ~SocketOpen(Target)
  /\ index' = Len(clients)
  /\ widget' = "disabled"
  /\ UNCHANGED <<clients, pc, logStep, line, area, fresh, inbox, peer, received,
                 broadcast, delivered, removed, atStart>>

(* sendall raises: "[ERROR] Failed to send", and on to the next client.  The
   four widget calls of this log() run in one piece. *)
SendRaises ==
  /\ HasTarget
  /\ peer[Target] # "up" \/ ~SocketOpen(Target)
  /\ index' = index + 1
  /\ widget' = "disabled"
  /\ UNCHANGED <<clients, pc, logStep, line, area, fresh, inbox, peer, received,
                 broadcast, delivered, removed, atStart>>

(* The iterator is at the end of the list: "[SENT] ..." is logged. *)
SendDone ==
  /\ At(Main, "send") /\ index >= Len(clients)
  /\ widget' = "disabled"
  /\ index' = 0 /\ removed' = FALSE /\ atStart' = {}
  /\ Goto(Main, "idle")
  /\ UNCHANGED <<clients, logStep, line, area, fresh, inbox, peer, received,
                 broadcast, delivered>>

-----------------------------------------------------------------------------
(* The devices.                                                             *)

(* The device's send blocks, and so its task stops reading, while the buffers
   towards the server are full. *)
Blocked(c) == Len(inbox[c]) = RcvBuf

PeerSends(c) ==
  /\ peer[c] = "up" /\ ~Blocked(c)
  /\ Cardinality({l \in Line : l[2] <= received[l[1]] + Len(inbox[l[1]])}) < MaxMsgs
  /\ inbox' = [inbox EXCEPT ![c] = Append(@, received[c] + Len(@) + 1)]
  /\ UNCHANGED <<clients, pc, logging, fresh, peer, received, sending>>

(* The device closes the connection, or it is reset and unread data is lost. *)
PeerLeaves(c) ==
  /\ peer[c] = "up"
  /\ \/ peer' = [peer EXCEPT ![c] = "closed"] /\ UNCHANGED inbox
     \/ peer' = [peer EXCEPT ![c] = "reset"] /\ inbox' = [inbox EXCEPT ![c] = <<>>]
  /\ UNCHANGED <<clients, pc, logging, fresh, received, sending>>

-----------------------------------------------------------------------------

Logs(t) == LogNormal(t) \/ LogInsert(t) \/ LogDisabled(t)
Handler(c) ==
  RecvMsg(c) \/ RecvEof(c) \/ RecvError(c) \/ CloseSocket(c) \/ RemoveClient(c) \/ Goodbye(c)
Broadcasting == SendToClient \/ SendRaises \/ SendDone

Next ==
  \/ \E t \in Threads : Logs(t)
  \/ \E c \in Conns : Handler(c) \/ AcceptConn(c) \/ PeerSends(c) \/ PeerLeaves(c)
  \/ Announce \/ Spawn
  \/ SendText \/ Broadcasting

Spec == Init /\ [][Next]_vars

(* Every thread is scheduled again and again, and mainloop serves the queued
   widget calls in the order in which they come, so none waits for ever while
   the operator keeps the main thread busy.  sendall ends, unless the device has
   stopped reading. *)
FairSpec ==
  /\ Spec
  /\ \A t \in Threads : SF_vars(Logs(t))
  /\ \A c \in Conns : WF_vars(Handler(c))
  /\ WF_vars(Announce \/ Spawn)
  /\ WF_vars((HasTarget /\ ~Blocked(Target) /\ SendToClient) \/ SendRaises \/ SendDone)

-----------------------------------------------------------------------------
(* Properties.                                                              *)

(* No client gets a broadcast twice, and each gets them in the order they were
   typed: removals move clients towards the front and arrivals join at the end,
   so the iterator never meets one again, whatever the handlers do meanwhile. *)
NoEcho ==
  \A c \in Conns : \A i, j \in 1..Len(delivered[c]) : i < j => delivered[c][i] < delivered[c][j]

(* At the end of a broadcast every client that was in the list when it began was
   offered it, unless a removal moved the list under the iterator or the client
   was gone. *)
Tried(c) == \E i \in 1..Len(delivered[c]) : delivered[c][i] = broadcast
NobodySkipped ==
  At(Main, "send") /\ index >= Len(clients) /\ ~removed =>
    \A c \in atStart : Tried(c) \/ peer[c] # "up"

(* The log shows a connection's messages in the order they came in, each at most
   once, and none that was not received. *)
ShownInOrder ==
  \A i \in 1..Len(area) :
    /\ area[i][2] <= received[area[i][1]]
    /\ \A j \in 1..Len(area) : i < j /\ area[i][1] = area[j][1] => area[i][2] < area[j][2]

(* When no thread is inside log() the operator cannot type into the log, however
   the configure calls of the threads were mixed. *)
LockedWhenQuiet == (\A t \in Threads : logStep[t] = "no") => widget = "disabled"

(* The main thread waits in sendall for a device that waits for the server to read,
   and the thread that should read waits in log() for the main thread, or is not
   there yet because the accept thread does. *)
CyclicWait ==
  /\ HasTarget /\ peer[Target] = "up" /\ Blocked(Target)
  /\ LET reader == IF Target = fresh THEN Accept ELSE Target
     IN logStep[reader] # "no"

(* send_text comes back to mainloop, whatever becomes of the clients meanwhile; the
   only thing that holds it for ever is that cycle of three waits. *)
BroadcastEnds == []<>(pc[Main] = "idle") \/ <>[]CyclicWait

(* Every connection that ends is removed from the list in the end, by the thread
   that serves it, even though the accept thread has to log before it starts it;
   again, unless the main thread is caught in the cycle. *)
Forgotten ==
  \A c \in Conns :
    peer[c] \in {"closed", "reset"} ~> (c \notin Elements(clients) \/ []CyclicWait)

(* README.md:111: "Server receives -> processes and stores message": a message
   whose log() has returned is in the log. *)
AllStored ==
  \A c \in Conns : logStep[c] = "no" =>
    \A m \in 1..received[c] : <<c, m>> \in Elements(area)
=============================================================================
