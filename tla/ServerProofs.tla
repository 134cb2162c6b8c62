---------------------------- MODULE ServerProofs ----------------------------
(***************************************************************************)
(* Theorems about module Server, for any number of connections, messages   *)
(* and broadcasts and any size of the socket buffers.                      *)
(***************************************************************************)
EXTENDS Server, SequenceTheorems, TLAPS

Ending == {"close", "remove", "goodbye", "ended"}

Types ==
  /\ clients \in Seq(Conns)
  /\ pc \in [Threads \cup {Main} -> ThreadSteps] /\ pc[Main] \in {"idle", "send"}
  /\ logStep \in [Threads -> LogSteps]
  /\ line \in [Threads -> {NoLine} \cup (Conns \X Nat)]
  /\ widget \in {"normal", "disabled"}
  /\ area \in Seq(Conns \X Nat)
  /\ fresh \in Conns \cup {NoConn}
  /\ inbox \in [Conns -> Seq(Nat)]
  /\ peer \in [Conns -> {"none", "up", "closed", "reset"}]
  /\ received \in [Conns -> Nat]
  /\ index \in Nat /\ broadcast \in Nat
  /\ delivered \in [Conns -> Seq(Nat)]
  /\ removed \in BOOLEAN /\ atStart \subseteq Conns

(* A connection that was never made is nowhere; one whose handler is past the loop
   has ended; none is in the list twice. *)
Life ==
  /\ \A c \in Conns :
       /\ peer[c] = "none" => /\ c \notin Elements(clients) /\ c \notin atStart /\ c # fresh
                              /\ delivered[c] = <<>> /\ pc[c] = "none"
       /\ pc[c] \in Ending => peer[c] \in {"closed", "reset"}
  /\ \A i, j \in 1..Len(clients) : i # j => clients[i] # clients[j]

(* Whoever is still ahead of the iterator has not been sent this broadcast. *)
Ahead ==
  /\ pc[Main] = "idle" => index = 0
  /\ \A c \in Conns : \A k \in 1..Len(delivered[c]) : delivered[c][k] <= broadcast
  /\ pc[Main] = "send" =>
       \A p \in 1..Len(clients) : p > index =>
         \A k \in 1..Len(delivered[clients[p]]) : delivered[clients[p]][k] < broadcast
  /\ NoEcho

(* Whoever was in the list is ahead of the iterator, was offered the broadcast or
   is gone, as long as nobody left the list. *)
Offered ==
  pc[Main] = "send" /\ ~removed =>
    \A c \in atStart :
      (\E p \in 1..Len(clients) : p > index /\ clients[p] = c) \/ Tried(c) \/ peer[c] # "up"

(* The messages of a connection are numbered as they come in, and a handler logs the
   one it received last. *)
Writing(t) == logStep[t] \in {"normal", "insert"} /\ line[t] # NoLine
Lines ==
  /\ \A c \in Conns : \A i \in 1..Len(inbox[c]) : inbox[c][i] = received[c] + i
  /\ \A t \in Threads :
       /\ line[t] # NoLine => t \in Conns /\ line[t] = <<t, received[t]>>
       /\ logStep[t] = "no" => line[t] = NoLine
  /\ \A i \in 1..Len(area) : Writing(area[i][1]) => area[i][2] < received[area[i][1]]
  /\ ShownInOrder

IInv == Types /\ Life /\ Ahead /\ Offered /\ Lines /\ LockedWhenQuiet

-----------------------------------------------------------------------------
(* The actions, grouped by what they change.                                *)

(* The threads have names of their own. *)
LEMMA Names ==
  /\ Main \notin Threads /\ Accept \in Threads /\ Accept \notin Conns /\ NoConn \notin Conns
  /\ \A c \in Conns : c \in Threads /\ c # Main /\ c # Accept /\ c # NoConn
  /\ NoConn \notin Threads \cup {Main}
  BY ServerConstants DEF Threads, Main, Accept, NoConn

(* Steps of a thread outside the list, the sockets and log(). *)
Quiet == Announce \/ Spawn \/ \E c \in Conns : RecvEof(c) \/ RecvError(c) \/ CloseSocket(c) \/ Goodbye(c)

LEMMA NextCases ==
  ASSUME Next
  PROVE  \/ \E t \in Threads : LogNormal(t) \/ LogInsert(t) \/ LogDisabled(t)
         \/ Quiet \/ SendText \/ SendToClient \/ SendRaises \/ SendDone
         \/ \E c \in Conns : RecvMsg(c) \/ RemoveClient(c) \/ AcceptConn(c)
                             \/ PeerSends(c) \/ PeerLeaves(c)
  BY DEF Next, Logs, Handler, Broadcasting, Quiet

(* What remove does to a list. *)
LEMMA RemovedFacts ==
  ASSUME NEW S, NEW q \in Seq(S), NEW i \in 1..Len(q),
         NEW r, r = SubSeq(q, 1, i - 1) \o SubSeq(q, i + 1, Len(q))
  PROVE  /\ r \in Seq(S) /\ Len(r) = Len(q) - 1
         /\ \A p \in 1..Len(q) - 1 : r[p] = IF p < i THEN q[p] ELSE q[p + 1]
  <1> DEFINE front == SubSeq(q, 1, i - 1)
             back == SubSeq(q, i + 1, Len(q))
  <1>1. Len(q) \in Nat /\ i \in Nat /\ i >= 1 /\ i <= Len(q) /\ \A p \in 1..Len(q) : q[p] \in S
    BY ElementOfSeq, LenProperties
  <1>2. /\ front \in Seq(S) /\ Len(front) = i - 1
        /\ \A p \in 1..i - 1 : front[p] = q[p]
    <2>1. /\ front \in Seq(S)
          /\ Len(front) = IF 1 <= i - 1 THEN i - 1 - 1 + 1 ELSE 0
          /\ \A p \in 1..i - 1 - 1 + 1 : front[p] = q[1 + p - 1]
      BY <1>1, SubSeqProperties
    <2> HIDE DEF front
    <2> QED
      BY <1>1, <2>1
  <1>3. /\ back \in Seq(S) /\ Len(back) = Len(q) - i
        /\ \A p \in 1..Len(q) - i : back[p] = q[i + p]
    <2>1. /\ back \in Seq(S)
          /\ Len(back) = IF i + 1 <= Len(q) THEN Len(q) - (i + 1) + 1 ELSE 0
          /\ \A p \in 1..Len(q) - (i + 1) + 1 : back[p] = q[i + 1 + p - 1]
      BY <1>1, SubSeqProperties
    <2> HIDE DEF back
    <2> QED
      BY <1>1, <2>1
  <1>0. r = front \o back
    OBVIOUS
  <1> HIDE DEF front, back
  <1>4. /\ front \o back \in Seq(S) /\ Len(front \o back) = Len(q) - 1
        /\ \A p \in 1..Len(q) - 1 :
             (front \o back)[p] = IF p <= i - 1 THEN front[p] ELSE back[p - (i - 1)]
    <2>1. /\ front \o back \in Seq(S) /\ Len(front \o back) = Len(front) + Len(back)
          /\ \A p \in 1..Len(front) + Len(back) :
               (front \o back)[p] = IF p <= Len(front) THEN front[p] ELSE back[p - Len(front)]
      BY <1>2, <1>3, ConcatProperties
    <2>2. Len(front) + Len(back) = Len(q) - 1
      BY <1>1, <1>2, <1>3
    <2> QED
      BY <1>2, <2>1, <2>2
  <1>5. ASSUME NEW p \in 1..Len(q) - 1
        PROVE  (front \o back)[p] = IF p < i THEN q[p] ELSE q[p + 1]
    <2>1. CASE p < i
      BY <1>1, <1>2, <1>4, <2>1
    <2>2. CASE ~(p < i)
      <3>1. p - (i - 1) \in 1..Len(q) - i /\ i + (p - (i - 1)) = p + 1
        BY <1>1, <2>2
      <3> QED
        BY <1>1, <1>3, <1>4, <2>2, <3>1
    <2> QED
      BY <2>1, <2>2
  <1> QED
    BY <1>0, <1>4, <1>5

-----------------------------------------------------------------------------
(* Types.                                                                   *)

LEMMA TypesStep ==
  ASSUME Types, Lines, Next
  PROVE  Types'
  <1> USE Names DEF At, Goto, StartLog, logging, sending, ThreadSteps, LogSteps
  <1>1. ASSUME NEW t \in Threads, LogNormal(t) \/ LogDisabled(t)
        PROVE  Types'
    BY <1>1 DEF LogNormal, LogDisabled, Types
  <1>2. ASSUME NEW t \in Threads, LogInsert(t)
        PROVE  Types'
    <2>1. line[t] # NoLine => line[t] \in Conns \X Nat
      BY DEF Types
    <2>2. area' \in Seq(Conns \X Nat)
      BY <1>2, <2>1, AppendProperties DEF LogInsert, Types
    <2> QED
      BY <1>2, <2>2 DEF LogInsert, Types
  <1>3. CASE Quiet
    <2>1. CASE Announce \/ Spawn
      BY <2>1 DEF Announce, Spawn, Types
    <2>2. ASSUME NEW c \in Conns, RecvEof(c) \/ RecvError(c) \/ CloseSocket(c) \/ Goodbye(c)
          PROVE  Types'
      <3>1. pc' \in [Threads \cup {Main} -> ThreadSteps] /\ pc'[Main] = pc[Main]
        BY <2>2 DEF RecvEof, RecvError, CloseSocket, Goodbye, Types
      <3>2. logStep' \in [Threads -> LogSteps] /\ line' \in [Threads -> {NoLine} \cup (Conns \X Nat)]
        BY <2>2 DEF RecvEof, RecvError, CloseSocket, Goodbye, Types
      <3>3. UNCHANGED <<clients, widget, area, fresh, inbox, peer, received, sending>>
        BY <2>2 DEF RecvEof, RecvError, CloseSocket, Goodbye
      <3> QED
        BY <3>1, <3>2, <3>3 DEF Types
    <2> QED
      BY <1>3, <2>1, <2>2 DEF Quiet
  <1>4. CASE SendText
    <2>1. Elements(clients) \subseteq Conns
      BY ElementOfSeq DEF Elements, Types
    <2> QED
      BY <1>4, <2>1 DEF SendText, Types
  <1>5. CASE SendToClient
    <2>1. Target \in Conns
      BY <1>5, ElementOfSeq, LenProperties DEF SendToClient, HasTarget, Target, Types
    <2>2. Append(delivered[Target], broadcast) \in Seq(Nat)
      BY <2>1, AppendProperties DEF Types
    <2> QED
      BY <1>5, <2>1, <2>2 DEF SendToClient, Types
  <1>6. CASE SendRaises \/ SendDone
    <2>1. CASE SendRaises
      BY <2>1 DEF SendRaises, Types
    <2>2. CASE SendDone
      BY <2>2 DEF SendDone, Types
    <2> QED
      BY <1>6, <2>1, <2>2
  <1>7. ASSUME NEW c \in Conns, RecvMsg(c)
        PROVE  Types'
    <2>1. Head(inbox[c]) \in Nat /\ Tail(inbox[c]) \in Seq(Nat)
      BY <1>7, HeadTailProperties DEF RecvMsg, Types
    <2>2. /\ inbox' = [inbox EXCEPT ![c] = Tail(inbox[c])]
          /\ received' = [received EXCEPT ![c] = received[c] + 1]
          /\ logStep' = [logStep EXCEPT ![c] = "normal"]
          /\ line' = [line EXCEPT ![c] = <<c, Head(inbox[c])>>]
          /\ UNCHANGED <<clients, pc, widget, area, fresh, peer, sending>>
      BY <1>7 DEF RecvMsg
    <2>3. inbox' \in [Conns -> Seq(Nat)] /\ received' \in [Conns -> Nat]
      BY <2>1, <2>2 DEF Types
    <2>4. logStep' \in [Threads -> LogSteps] /\ line' \in [Threads -> {NoLine} \cup (Conns \X Nat)]
      BY <2>1, <2>2 DEF Types
    <2> QED
      BY <2>2, <2>3, <2>4 DEF Types
  <1>8. ASSUME NEW c \in Conns, RemoveClient(c)
        PROVE  Types'
    <2>1. clients' \in Seq(Conns)
      <3>1. PICK i \in 1..Len(clients) :
              clients' = SubSeq(clients, 1, i - 1) \o SubSeq(clients, i + 1, Len(clients))
        BY <1>8 DEF RemoveClient
      <3> QED
        BY <3>1, RemovedFacts DEF Types
    <2> QED
      BY <1>8, <2>1 DEF RemoveClient, Types
  <1>9. ASSUME NEW c \in Conns, AcceptConn(c)
        PROVE  Types'
    <2>1. clients' \in Seq(Conns)
      BY <1>9, AppendProperties DEF AcceptConn, Types
    <2> QED
      BY <1>9, <2>1 DEF AcceptConn, Types
  <1>10. ASSUME NEW c \in Conns, PeerSends(c)
         PROVE  Types'
    <2>1. Append(inbox[c], received[c] + Len(inbox[c]) + 1) \in Seq(Nat)
      BY AppendProperties, LenProperties DEF Types
    <2> QED
      BY <1>10, <2>1 DEF PeerSends, Types
  <1>11. ASSUME NEW c \in Conns, PeerLeaves(c)
         PROVE  Types'
    <2>1. peer' \in [Conns -> {"none", "up", "closed", "reset"}]
      BY <1>11 DEF PeerLeaves, Types
    <2>2. inbox' \in [Conns -> Seq(Nat)]
      <3>1. <<>> \in Seq(Nat) /\ inbox \in [Conns -> Seq(Nat)]
        BY EmptySeq DEF Types
      <3>2. inbox' = inbox \/ inbox' = [inbox EXCEPT ![c] = <<>>]
        BY <1>11 DEF PeerLeaves
      <3> QED
        BY <3>1, <3>2
    <2> QED
      BY <1>11, <2>1, <2>2 DEF PeerLeaves, Types
  <1> QED
    BY NextCases, <1>1, <1>2, <1>3, <1>4, <1>5, <1>6, <1>7, <1>8, <1>9, <1>10, <1>11

-----------------------------------------------------------------------------
(* The list of clients and the connections.                                 *)

LEMMA LifeStep ==
  ASSUME Types, Life, Next
  PROVE  Life'
  <1> USE Names DEF At, Goto, logging, sending, Ending
  <1>1. CASE UNCHANGED <<clients, pc, fresh, peer>> /\ atStart' \subseteq atStart
             /\ (\A c \in Conns : peer[c] = "none" => delivered'[c] = delivered[c])
    BY <1>1 DEF Life, Elements
  <1>2. ASSUME NEW t \in Threads, LogNormal(t) \/ LogInsert(t) \/ LogDisabled(t)
        PROVE  Life'
    BY <1>1, <1>2 DEF LogNormal, LogInsert, LogDisabled
  <1>3. CASE Quiet
    <2>1. CASE Announce
      BY <2>1 DEF Announce, Life, Types, Elements
    <2>2. CASE Spawn
      <3>1. \A c \in Conns : c # fresh => pc'[c] = pc[c]
        BY <2>2 DEF Spawn, Types
      <3>2. \A c \in Conns : c = fresh => pc'[c] = "recv"
        BY <2>2 DEF Spawn, Types
      <3> QED
        BY <2>2, <3>1, <3>2 DEF Spawn, Life, Types, Elements
    <2>3. ASSUME NEW c \in Conns, RecvEof(c) \/ RecvError(c) \/ CloseSocket(c) \/ Goodbye(c)
          PROVE  Life'
      <3>1. UNCHANGED <<clients, fresh, peer, sending>>
        BY <2>3 DEF RecvEof, RecvError, CloseSocket, Goodbye
      <3>2. \A d \in Conns : d # c => pc'[d] = pc[d]
        BY <2>3 DEF RecvEof, RecvError, CloseSocket, Goodbye, Types
      <3>3. pc[c] # "none" /\ peer[c] \in {"closed", "reset"}
        BY <2>3 DEF RecvEof, RecvError, CloseSocket, Goodbye, Life
      <3> QED
        BY <3>1, <3>2, <3>3 DEF Life, Elements
    <2> QED
      BY <1>3, <2>1, <2>2, <2>3 DEF Quiet
  <1>4. CASE SendText
    BY <1>4 DEF SendText, Life, Types, Elements
  <1>5. CASE SendToClient
    <2>1. Target \in Elements(clients) /\ Target \in Conns
      BY <1>5, ElementOfSeq, LenProperties DEF SendToClient, HasTarget, Target, Types, Elements
    <2>2. \A c \in Conns : peer[c] = "none" => delivered'[c] = delivered[c]
      BY <1>5, <2>1 DEF SendToClient, Life, Types
    <2> QED
      BY <1>1, <1>5, <2>2 DEF SendToClient
  <1>6. CASE SendRaises
    BY <1>1, <1>6 DEF SendRaises
  <1>7. CASE SendDone
    BY <1>7 DEF SendDone, Life, Types, Elements
  <1>8. ASSUME NEW c \in Conns, RecvMsg(c)
        PROVE  Life'
    BY <1>1, <1>8 DEF RecvMsg
  <1>9. ASSUME NEW c \in Conns, RemoveClient(c)
        PROVE  Life'
    <2>1. PICK i \in 1..Len(clients) :
            clients' = SubSeq(clients, 1, i - 1) \o SubSeq(clients, i + 1, Len(clients))
      BY <1>9 DEF RemoveClient
    <2>2. /\ Len(clients') = Len(clients) - 1 /\ Len(clients) \in Nat /\ i \in Nat
          /\ \A p \in 1..Len(clients) - 1 :
               clients'[p] = IF p < i THEN clients[p] ELSE clients[p + 1]
      <3>1. clients \in Seq(Conns) /\ Len(clients) \in Nat
        BY LenProperties DEF Types
      <3>2. /\ Len(clients') = Len(clients) - 1
            /\ \A p \in 1..Len(clients) - 1 :
                 clients'[p] = IF p < i THEN clients[p] ELSE clients[p + 1]
        BY ONLY <2>1, <3>1, RemovedFacts
      <3> QED
        BY <3>1, <3>2
    <2>3. Elements(clients') \subseteq Elements(clients)
      BY <2>2 DEF Elements
    <2>4. \A k, l \in 1..Len(clients') : k # l => clients'[k] # clients'[l]
      <3> SUFFICES ASSUME NEW k \in 1..Len(clients'), NEW l \in 1..Len(clients'), k # l
                   PROVE  clients'[k] # clients'[l]
        OBVIOUS
      <3> DEFINE old(p) == IF p < i THEN p ELSE p + 1
      <3>1. /\ old(k) \in 1..Len(clients) /\ old(l) \in 1..Len(clients) /\ old(k) # old(l)
            /\ clients'[k] = clients[old(k)] /\ clients'[l] = clients[old(l)]
        BY <2>2
      <3> HIDE DEF old
      <3> QED
        BY <3>1 DEF Life
    <2> QED
      BY <1>9, <2>3, <2>4 DEF RemoveClient, Life, Types
  <1>10. ASSUME NEW c \in Conns, AcceptConn(c)
         PROVE  Life'
    <2>1. /\ Len(clients') = Len(clients) + 1 /\ Len(clients) \in Nat
          /\ \A p \in 1..Len(clients) : clients'[p] = clients[p]
          /\ clients'[Len(clients) + 1] = c
      BY <1>10, AppendProperties, LenProperties DEF AcceptConn, Types
    <2>2. Elements(clients') \subseteq Elements(clients) \cup {c}
      BY <2>1 DEF Elements
    <2>3. peer[c] = "none" /\ \A p \in 1..Len(clients) : clients[p] # c
      BY <1>10 DEF AcceptConn, Life, Elements
    <2>4. \A k, l \in 1..Len(clients') : k # l => clients'[k] # clients'[l]
      BY <2>1, <2>3 DEF Life
    <2>5. peer' = [peer EXCEPT ![c] = "up"] /\ fresh' = c /\ pc' = [pc EXCEPT ![Accept] = "announce"]
          /\ UNCHANGED <<atStart, delivered>>
      BY <1>10 DEF AcceptConn
    <2>6. \A d \in Conns : pc'[d] = pc[d] /\ peer'[d] = IF d = c THEN "up" ELSE peer[d]
      BY <2>5 DEF Types
    <2>7. pc[c] \notin Ending
      BY <2>3 DEF Life
    <2> QED
      BY <2>2, <2>3, <2>4, <2>5, <2>6, <2>7 DEF Life
  <1>11. ASSUME NEW c \in Conns, PeerSends(c)
         PROVE  Life'
    BY <1>1, <1>11 DEF PeerSends
  <1>12. ASSUME NEW c \in Conns, PeerLeaves(c)
         PROVE  Life'
    <2>1. /\ peer[c] = "up" /\ peer'[c] \in {"closed", "reset"}
          /\ \A d \in Conns : d # c => peer'[d] = peer[d]
          /\ UNCHANGED <<clients, pc, fresh, sending>>
      BY <1>12 DEF PeerLeaves, Types
    <2> QED
      BY <2>1 DEF Life, Elements
  <1> QED
    BY NextCases, <1>2, <1>3, <1>4, <1>5, <1>6, <1>7, <1>8, <1>9, <1>10, <1>11, <1>12

-----------------------------------------------------------------------------
(* The broadcast.                                                           *)

(* Steps that the iterator does not notice. *)
LEMMA AheadStutter ==
  ASSUME Types, Ahead, UNCHANGED <<clients, index, broadcast, delivered>>, pc'[Main] = pc[Main]
  PROVE  Ahead'
  BY DEF Ahead, NoEcho

(* What a thread does in log() or at the end of its loop is no step of the main thread,
   nor is what the devices do. *)
LEMMA NotMain ==
  ASSUME Types,
         \/ Quiet \/ \E t \in Threads : LogNormal(t) \/ LogInsert(t) \/ LogDisabled(t)
         \/ \E c \in Conns : RecvMsg(c) \/ PeerSends(c) \/ PeerLeaves(c)
  PROVE  pc'[Main] = pc[Main] /\ UNCHANGED <<clients, sending>>
  <1> USE Names DEF Goto
  <1>1. CASE Quiet
    <2>1. CASE Announce
      BY <2>1 DEF Announce, Types
    <2>2. CASE Spawn
      <3>1. fresh # Main /\ Accept # Main
        BY DEF Types
      <3> QED
        BY <2>2, <3>1 DEF Spawn, Types
    <2>3. ASSUME NEW c \in Conns, RecvEof(c) \/ RecvError(c) \/ CloseSocket(c) \/ Goodbye(c)
          PROVE  pc'[Main] = pc[Main] /\ UNCHANGED <<clients, sending>>
      BY <2>3 DEF RecvEof, RecvError, CloseSocket, Goodbye, Types
    <2> QED
      BY <1>1, <2>1, <2>2, <2>3 DEF Quiet
  <1>2. CASE \E t \in Threads : LogNormal(t) \/ LogInsert(t) \/ LogDisabled(t)
    BY <1>2 DEF LogNormal, LogInsert, LogDisabled
  <1>3. CASE \E c \in Conns : RecvMsg(c) \/ PeerSends(c) \/ PeerLeaves(c)
    BY <1>3 DEF RecvMsg, PeerSends, PeerLeaves
  <1> QED
    BY <1>1, <1>2, <1>3

(* The next client is offered the broadcast. *)
LEMMA OfferFacts ==
  ASSUME Types, SendToClient
  PROVE  /\ index + 1 \in 1..Len(clients) /\ Target = clients[index + 1] /\ Target \in Conns
         /\ pc[Main] = "send" /\ index' = index + 1 /\ UNCHANGED <<clients, pc, broadcast, peer>>
         /\ \A c \in Conns : c # Target => delivered'[c] = delivered[c]
         /\ delivered[Target] \in Seq(Nat) /\ Len(delivered[Target]) \in Nat
         /\ Len(delivered'[Target]) = Len(delivered[Target]) + 1
         /\ \A k \in 1..Len(delivered[Target]) : delivered'[Target][k] = delivered[Target][k]
         /\ delivered'[Target][Len(delivered[Target]) + 1] = broadcast
         /\ UNCHANGED <<removed, atStart>>
  <1>1. /\ index + 1 \in 1..Len(clients) /\ Target = clients[index + 1] /\ Target \in Conns
        /\ pc[Main] = "send"
    BY ElementOfSeq, LenProperties DEF SendToClient, HasTarget, Target, At, Types
  <1>2. /\ delivered' = [delivered EXCEPT ![Target] = Append(delivered[Target], broadcast)]
        /\ index' = index + 1 /\ UNCHANGED <<clients, pc, broadcast, peer, removed, atStart>>
    BY DEF SendToClient
  <1>3. delivered[Target] \in Seq(Nat) /\ broadcast \in Nat /\ delivered \in [Conns -> Seq(Nat)]
    BY <1>1 DEF Types
  <1>4. /\ delivered'[Target] = Append(delivered[Target], broadcast)
        /\ \A c \in Conns : c # Target => delivered'[c] = delivered[c]
    BY <1>1, <1>2, <1>3
  <1>5. /\ Len(delivered[Target]) \in Nat
        /\ Len(delivered'[Target]) = Len(delivered[Target]) + 1
        /\ \A k \in 1..Len(delivered[Target]) : delivered'[Target][k] = delivered[Target][k]
        /\ delivered'[Target][Len(delivered[Target]) + 1] = broadcast
    BY <1>3, <1>4, AppendProperties, LenProperties
  <1> QED
    BY <1>1, <1>2, <1>3, <1>4, <1>5

LEMMA AheadStep ==
  ASSUME Types, Life, Ahead, Next
  PROVE  Ahead'
  <1> USE Names DEF At, Goto, sending
  <1>1. ASSUME \/ Quiet \/ \E t \in Threads : LogNormal(t) \/ LogInsert(t) \/ LogDisabled(t)
               \/ \E c \in Conns : RecvMsg(c) \/ PeerSends(c) \/ PeerLeaves(c)
        PROVE  Ahead'
    BY <1>1, NotMain, AheadStutter
  <1>2. Len(clients) \in Nat /\ index \in Nat /\ broadcast \in Nat
        /\ \A c \in Conns : Len(delivered[c]) \in Nat
                            /\ \A k \in 1..Len(delivered[c]) : delivered[c][k] \in Nat
    BY ElementOfSeq, LenProperties DEF Types
  <1>3. \A p \in 1..Len(clients) : clients[p] \in Conns
    BY ElementOfSeq DEF Types
  <1>4. CASE SendText
    <2>1. /\ pc[Main] = "idle" /\ pc'[Main] = "send" /\ broadcast' = broadcast + 1
          /\ UNCHANGED <<clients, index, delivered>>
      BY <1>4 DEF SendText, Types
    <2>2. \A c \in Conns : \A k \in 1..Len(delivered[c]) : delivered[c][k] < broadcast'
      BY <1>2, <2>1 DEF Ahead
    <2> QED
      BY <1>2, <1>3, <2>1, <2>2 DEF Ahead, NoEcho
  <1>5. CASE SendToClient
    <2> DEFINE c == Target
    <2>1. /\ index + 1 \in 1..Len(clients) /\ c = clients[index + 1] /\ c \in Conns
          /\ pc[Main] = "send" /\ index' = index + 1 /\ UNCHANGED <<clients, pc, broadcast>>
          /\ \A d \in Conns : d # c => delivered'[d] = delivered[d]
          /\ Len(delivered'[c]) = Len(delivered[c]) + 1
          /\ \A k \in 1..Len(delivered[c]) : delivered'[c][k] = delivered[c][k]
          /\ delivered'[c][Len(delivered[c]) + 1] = broadcast
      BY <1>5, OfferFacts
    <2> HIDE DEF c
    <2>2. \A k \in 1..Len(delivered[c]) : delivered[c][k] < broadcast
      BY <1>2, <2>1 DEF Ahead
    <2>3. \A d \in Conns : \A k \in 1..Len(delivered'[d]) : delivered'[d][k] <= broadcast
      <3> SUFFICES ASSUME NEW d \in Conns, NEW k \in 1..Len(delivered'[d])
                   PROVE  delivered'[d][k] <= broadcast
        OBVIOUS
      <3>1. CASE d # c
        BY <2>1, <3>1 DEF Ahead
      <3>2. CASE d = c
        <4>1. k \in 1..Len(delivered[c]) \/ k = Len(delivered[c]) + 1
          BY <1>2, <2>1, <3>2
        <4> QED
          BY <1>2, <2>1, <3>2, <4>1 DEF Ahead
      <3> QED
        BY <3>1, <3>2
    <2>4. NoEcho'
      <3> SUFFICES ASSUME NEW d \in Conns, NEW k \in 1..Len(delivered'[d]),
                          NEW l \in 1..Len(delivered'[d]), k < l
                   PROVE  delivered'[d][k] < delivered'[d][l]
        BY DEF NoEcho
      <3>1. CASE d # c
        BY <2>1, <3>1 DEF Ahead, NoEcho
      <3>2. CASE d = c
        <4>1. /\ k \in 1..Len(delivered[c])
              /\ l \in 1..Len(delivered[c]) \/ l = Len(delivered[c]) + 1
          BY <1>2, <2>1, <3>2
        <4> QED
          BY <1>2, <2>1, <2>2, <3>2, <4>1 DEF Ahead, NoEcho
      <3> QED
        BY <3>1, <3>2
    <2>5. ASSUME NEW p \in 1..Len(clients'), p > index'
          PROVE  \A k \in 1..Len(delivered'[clients'[p]]) : delivered'[clients'[p]][k] < broadcast
      <3>1. p \in 1..Len(clients) /\ p > index /\ p # index + 1 /\ clients'[p] = clients[p]
        BY <1>2, <2>1, <2>5
      <3>2. clients[p] # c /\ clients[p] \in Conns
        BY <1>3, <2>1, <3>1 DEF Life
      <3> QED
        BY <2>1, <3>1, <3>2 DEF Ahead
    <2> QED
      BY <2>1, <2>3, <2>4, <2>5 DEF Ahead
  <1>6. CASE SendRaises
    <2>1. /\ pc[Main] = "send" /\ index' = index + 1
          /\ UNCHANGED <<clients, pc, broadcast, delivered>>
      BY <1>6 DEF SendRaises, HasTarget
    <2>2. \A p \in 1..Len(clients) : p > index' => p > index
      BY <1>2, <2>1
    <2>3. \A p \in 1..Len(clients') : p > index' =>
            \A k \in 1..Len(delivered'[clients'[p]]) : delivered'[clients'[p]][k] < broadcast'
      BY <2>1, <2>2 DEF Ahead
    <2> QED
      BY <2>1, <2>3 DEF Ahead, NoEcho
  <1>7. CASE SendDone
    <2>1. /\ pc'[Main] = "idle" /\ index' = 0
          /\ UNCHANGED <<clients, broadcast, delivered>>
      BY <1>7 DEF SendDone, Types
    <2> QED
      BY <2>1 DEF Ahead, NoEcho
  <1>8. ASSUME NEW c \in Conns, RemoveClient(c)
        PROVE  Ahead'
    <2>1. PICK i \in 1..Len(clients) :
            clients' = SubSeq(clients, 1, i - 1) \o SubSeq(clients, i + 1, Len(clients))
      BY <1>8 DEF RemoveClient
    <2>2. /\ Len(clients') = Len(clients) - 1
          /\ \A p \in 1..Len(clients) - 1 :
               clients'[p] = IF p < i THEN clients[p] ELSE clients[p + 1]
      <3>1. clients \in Seq(Conns)
        BY DEF Types
      <3> QED
        BY ONLY <2>1, <3>1, RemovedFacts
    <2>3. pc'[Main] = pc[Main] /\ UNCHANGED <<index, broadcast, delivered>>
      BY <1>8 DEF RemoveClient, Types
    <2>4. ASSUME NEW p \in 1..Len(clients'), p > index
          PROVE  \E o \in 1..Len(clients) : o > index /\ clients'[p] = clients[o]
      <3>1. CASE p < i
        BY <1>2, <2>2, <2>4, <3>1
      <3>2. CASE ~(p < i)
        <4>1. p + 1 \in 1..Len(clients) /\ p + 1 > index /\ clients'[p] = clients[p + 1]
          BY <1>2, <2>2, <2>4, <3>2
        <4> QED
          BY <4>1
      <3> QED
        BY <3>1, <3>2
    <2>5. ASSUME pc[Main] = "send", NEW p \in 1..Len(clients'), p > index
          PROVE  \A k \in 1..Len(delivered[clients'[p]]) : delivered[clients'[p]][k] < broadcast
      <3>1. PICK o \in 1..Len(clients) : o > index /\ clients'[p] = clients[o]
        BY <2>4, <2>5
      <3> QED
        BY <2>5, <3>1 DEF Ahead
    <2> QED
      BY <2>3, <2>5 DEF Ahead, NoEcho
  <1>9. ASSUME NEW c \in Conns, AcceptConn(c)
        PROVE  Ahead'
    <2>1. /\ Len(clients') = Len(clients) + 1
          /\ \A p \in 1..Len(clients) : clients'[p] = clients[p]
          /\ clients'[Len(clients) + 1] = c
      BY <1>9, AppendProperties DEF AcceptConn, Types
    <2>2. delivered[c] = <<>> /\ Len(delivered[c]) = 0
      BY <1>9, EmptySeq DEF AcceptConn, Life
    <2>3. pc'[Main] = pc[Main] /\ UNCHANGED <<index, broadcast, delivered>>
      BY <1>9 DEF AcceptConn, Types
    <2>4. ASSUME pc[Main] = "send", NEW p \in 1..Len(clients'), p > index
          PROVE  \A k \in 1..Len(delivered[clients'[p]]) : delivered[clients'[p]][k] < broadcast
      <3>1. CASE p = Len(clients) + 1
        BY <2>1, <2>2, <3>1
      <3>2. CASE p \in 1..Len(clients)
        BY <2>1, <2>4, <3>2 DEF Ahead
      <3> QED
        BY <1>2, <2>1, <3>1, <3>2
    <2> QED
      BY <2>3, <2>4 DEF Ahead, NoEcho
  <1> QED
    BY NextCases, <1>1, <1>4, <1>5, <1>6, <1>7, <1>8, <1>9

LEMMA OfferedStep ==
  ASSUME Types, Life, Ahead, Offered, Next
  PROVE  Offered'
  <1> USE Names DEF At, Goto, sending, Tried
  <1>1. Len(clients) \in Nat /\ index \in Nat
    BY LenProperties DEF Types
  <1>2. ASSUME pc'[Main] = pc[Main], UNCHANGED <<clients, sending>>,
               \A c \in Conns : peer[c] # "up" /\ peer[c] # "none" => peer'[c] # "up"
        PROVE  Offered'
    <2>1. \A c \in atStart : peer[c] # "none" /\ c \in Conns
      BY DEF Life, Types
    <2> QED
      BY <1>2, <2>1 DEF Offered
  <1>3. ASSUME \/ Quiet \/ \E t \in Threads : LogNormal(t) \/ LogInsert(t) \/ LogDisabled(t)
               \/ \E c \in Conns : RecvMsg(c) \/ PeerSends(c) \/ PeerLeaves(c)
        PROVE  Offered'
    <2>1. \A c \in Conns : peer[c] # "up" /\ peer[c] # "none" => peer'[c] # "up"
      <3>1. ASSUME NEW c \in Conns, PeerLeaves(c)
            PROVE  \A d \in Conns : peer[d] # "up" => peer'[d] # "up"
        BY <3>1 DEF PeerLeaves, Types
      <3>2. ASSUME \/ Quiet \/ \E t \in Threads : LogNormal(t) \/ LogInsert(t) \/ LogDisabled(t)
                   \/ \E c \in Conns : RecvMsg(c) \/ PeerSends(c)
            PROVE  peer' = peer
        BY <3>2 DEF Quiet, Announce, Spawn, RecvEof, RecvError, CloseSocket, Goodbye,
                    LogNormal, LogInsert, LogDisabled, RecvMsg, PeerSends
      <3> QED
        BY <1>3, <3>1, <3>2
    <2> QED
      BY <1>2, <1>3, <2>1, NotMain
  <1>4. CASE SendText
    <2>1. /\ pc[Main] = "idle" /\ atStart' = Elements(clients) /\ UNCHANGED <<clients, index>>
      BY <1>4 DEF SendText
    <2>2. index' = 0
      BY <2>1 DEF Ahead
    <2> QED
      BY <1>1, <2>1, <2>2 DEF Offered, Elements
  <1>5. CASE SendToClient
    <2> DEFINE c == Target
    <2>1. /\ index + 1 \in 1..Len(clients) /\ c = clients[index + 1] /\ c \in Conns
          /\ pc[Main] = "send" /\ index' = index + 1 /\ UNCHANGED <<clients, pc, broadcast, peer>>
          /\ \A d \in Conns : d # c => delivered'[d] = delivered[d]
          /\ Len(delivered[c]) \in Nat
          /\ Len(delivered'[c]) = Len(delivered[c]) + 1
          /\ delivered'[c][Len(delivered[c]) + 1] = broadcast
          /\ UNCHANGED <<removed, atStart>>
      BY <1>5, OfferFacts
    <2> HIDE DEF c
    <2>2. \E i \in 1..Len(delivered'[c]) : delivered'[c][i] = broadcast'
      <3>1. Len(delivered[c]) + 1 \in 1..Len(delivered'[c])
        BY <2>1
      <3> QED
        BY <2>1, <3>1
    <2>3. ASSUME NEW d \in atStart, d # c, ~removed
          PROVE  (\E p \in 1..Len(clients) : p > index + 1 /\ clients[p] = d)
                 \/ Tried(d)' \/ peer[d] # "up"
      <3>1. d \in Conns /\ delivered'[d] = delivered[d]
        BY <2>1, <2>3 DEF Types
      <3>2. CASE \E p \in 1..Len(clients) : p > index /\ clients[p] = d
        <4>1. PICK p \in 1..Len(clients) : p > index /\ clients[p] = d
          BY <3>2
        <4>2. p # index + 1
          BY <2>1, <2>3, <4>1
        <4> QED
          BY <1>1, <4>1, <4>2
      <3>3. CASE Tried(d)
        BY <2>1, <3>1, <3>3
      <3> QED
        BY <2>1, <2>3, <3>2, <3>3 DEF Offered
    <2> QED
      BY <2>1, <2>2, <2>3 DEF Offered
  <1>6. CASE SendRaises
    <2>1. /\ pc[Main] = "send" /\ index < Len(clients) /\ index' = index + 1
          /\ peer[Target] # "up" \/ ~SocketOpen(Target)
          /\ UNCHANGED <<clients, pc, broadcast, delivered, peer, removed, atStart>>
      BY <1>6 DEF SendRaises, HasTarget
    <2>2. Target = clients[index + 1] /\ Target \in Conns
      BY <1>1, <2>1, ElementOfSeq DEF Target, Types
    <2>3. peer[Target] # "up"
      BY <2>1, <2>2 DEF SocketOpen, Life, Ending
    <2>4. ASSUME NEW d \in atStart, ~removed
          PROVE  (\E p \in 1..Len(clients) : p > index + 1 /\ clients[p] = d)
                 \/ Tried(d) \/ peer[d] # "up"
      <3>1. CASE \E p \in 1..Len(clients) : p > index /\ clients[p] = d
        <4>1. PICK p \in 1..Len(clients) : p > index /\ clients[p] = d
          BY <3>1
        <4>2. p = index + 1 \/ p > index + 1
          BY <1>1, <4>1
        <4> QED
          BY <2>2, <2>3, <4>1, <4>2
      <3> QED
        BY <2>1, <2>4, <3>1 DEF Offered
    <2> QED
      BY <2>1, <2>4 DEF Offered
  <1>7. CASE SendDone
    BY <1>7 DEF SendDone, Offered, Types
  <1>8. ASSUME NEW c \in Conns, RemoveClient(c)
        PROVE  Offered'
    <2>1. pc'[Main] = pc[Main] /\ removed' = (pc[Main] = "send")
      BY <1>8 DEF RemoveClient, Types
    <2> QED
      BY <2>1 DEF Offered
  <1>9. ASSUME NEW c \in Conns, AcceptConn(c)
        PROVE  Offered'
    <2>1. /\ Len(clients') = Len(clients) + 1
          /\ \A p \in 1..Len(clients) : clients'[p] = clients[p]
      BY <1>9, AppendProperties DEF AcceptConn, Types
    <2>2. /\ peer[c] = "none" /\ pc'[Main] = pc[Main] /\ UNCHANGED sending
          /\ \A d \in Conns : d # c => peer'[d] = peer[d]
      BY <1>9 DEF AcceptConn, Types
    <2>3. \A d \in atStart : d \in Conns /\ d # c
      BY <2>2 DEF Life, Types
    <2>4. ASSUME NEW d \in atStart, \E p \in 1..Len(clients) : p > index /\ clients[p] = d
          PROVE  \E p \in 1..Len(clients') : p > index /\ clients'[p] = d
      BY <1>1, <2>1, <2>4
    <2> QED
      BY <2>2, <2>3, <2>4 DEF Offered
  <1> QED
    BY NextCases, <1>3, <1>4, <1>5, <1>6, <1>7, <1>8, <1>9

-----------------------------------------------------------------------------
(* The log.                                                                 *)

(* Steps that neither receive nor log, and only append to what was sent. *)
LEMMA LinesStutter ==
  ASSUME Lines, UNCHANGED <<inbox, received, logStep, line, area>>
  PROVE  Lines'
  BY DEF Lines, Writing, ShownInOrder

LEMMA LinesStep ==
  ASSUME Types, Lines, Next
  PROVE  Lines'
  <1> USE Names DEF At, StartLog, logging
  <1>1. CASE SendText \/ SendToClient \/ SendRaises \/ SendDone
             \/ \E c \in Conns : RemoveClient(c) \/ AcceptConn(c)
    <2>1. UNCHANGED <<inbox, received, logStep, line, area>>
      BY <1>1 DEF SendText, SendToClient, SendRaises, SendDone, RemoveClient, AcceptConn
    <2> QED
      BY <2>1, LinesStutter
  <1>2. \A i \in 1..Len(area) : area[i] \in Conns \X Nat /\ area[i][1] \in Conns /\ area[i][2] \in Nat
    BY ElementOfSeq DEF Types
  <1>3. Len(area) \in Nat /\ \A c \in Conns : received[c] \in Nat /\ Len(inbox[c]) \in Nat
    BY LenProperties DEF Types
  (* A thread begins to log a notice, or nothing. *)
  <1>4. ASSUME NEW t \in Threads, logStep[t] = "no" \/ UNCHANGED logStep,
               logStep' = logStep \/ logStep' = [logStep EXCEPT ![t] = "normal"],
               line' = line \/ line' = [line EXCEPT ![t] = NoLine],
               UNCHANGED <<inbox, received, area>>
        PROVE  Lines'
    <2>1. \A u \in Threads : line'[u] = line[u] \/ line'[u] = NoLine
      BY <1>4 DEF Types
    <2>2. \A u \in Threads : logStep'[u] = "no" => line'[u] = NoLine
      BY <1>4 DEF Types, Lines
    <2>3. \A u \in Threads : Writing(u)' => Writing(u)
      BY <1>4, <2>1 DEF Types, Lines, Writing
    <2> QED
      BY <1>2, <1>4, <2>1, <2>2, <2>3 DEF Lines, ShownInOrder
  <1>5. CASE Quiet
    <2>1. CASE Announce
      BY <1>4, <2>1 DEF Announce
    <2>2. CASE Spawn
      BY <1>4, <2>2 DEF Spawn
    <2>3. ASSUME NEW c \in Conns, RecvEof(c) \/ RecvError(c) \/ CloseSocket(c) \/ Goodbye(c)
          PROVE  Lines'
      <3>1. CASE RecvEof(c) \/ CloseSocket(c)
        BY <1>4, <3>1 DEF RecvEof, CloseSocket
      <3>2. CASE RecvError(c) \/ Goodbye(c)
        BY <1>4, <3>2 DEF RecvError, Goodbye
      <3> QED
        BY <2>3, <3>1, <3>2
    <2> QED
      BY <1>5, <2>1, <2>2, <2>3 DEF Quiet
  <1>6. ASSUME NEW t \in Threads, LogNormal(t) \/ LogDisabled(t)
        PROVE  Lines'
    <2>1. /\ UNCHANGED <<inbox, received, area>>
          /\ \A u \in Threads : u # t => logStep'[u] = logStep[u] /\ line'[u] = line[u]
      BY <1>6 DEF LogNormal, LogDisabled, Types
    <2>2. \/ logStep[t] = "normal" /\ logStep'[t] = "insert" /\ line'[t] = line[t]
          \/ logStep'[t] = "no" /\ line'[t] = NoLine
      BY <1>6 DEF LogNormal, LogDisabled, Types
    <2>3. \A u \in Threads : Writing(u)' => Writing(u)
      BY <2>1, <2>2 DEF Writing
    <2> QED
      BY <1>2, <2>1, <2>2, <2>3 DEF Lines, ShownInOrder
  <1>7. ASSUME NEW t \in Threads, LogInsert(t)
        PROVE  Lines'
    <2>1. /\ logStep[t] = "insert" /\ logStep'[t] = "disabled" /\ UNCHANGED <<inbox, received, line>>
          /\ \A u \in Threads : u # t => logStep'[u] = logStep[u]
          /\ area' = area \/ (line[t] # NoLine /\ area' = Append(area, line[t]))
      BY <1>7 DEF LogInsert, Types
    <2> DEFINE WritingNext(u) == logStep'[u] \in {"normal", "insert"} /\ line'[u] # NoLine
    <2>2. \A u \in Threads : (WritingNext(u) => Writing(u)) /\ ~WritingNext(t)
      BY <2>1 DEF Writing
    <2>3. CASE area' = area
      BY <1>2, <2>1, <2>2, <2>3 DEF Lines, ShownInOrder, Writing
    <2>4. CASE line[t] # NoLine /\ area' = Append(area, line[t])
      <3>1. t \in Conns /\ line[t] = <<t, received[t]>> /\ Writing(t)
        BY <2>1, <2>4 DEF Lines, Writing
      <3>2. line[t] \in Conns \X Nat /\ line[t][1] = t /\ line[t][2] = received[t]
        BY <1>3, <3>1
      <3>3. /\ Len(area') = Len(area) + 1
            /\ \A i \in 1..Len(area) : area'[i] = area[i]
            /\ area'[Len(area) + 1] = line[t]
        BY <2>4, <3>2, AppendProperties DEF Types
      <3>4. \A i \in 1..Len(area') : WritingNext(area'[i][1]) => area'[i][2] < received[area'[i][1]]
        <4> HIDE DEF WritingNext
        <4> SUFFICES ASSUME NEW i \in 1..Len(area'), WritingNext(area'[i][1])
                     PROVE  area'[i][2] < received[area'[i][1]]
          OBVIOUS
        <4>1. i # Len(area) + 1
          BY <2>2, <3>2, <3>3
        <4>2. i \in 1..Len(area) /\ area'[i] = area[i]
          BY <1>3, <3>3, <4>1
        <4>3. area[i][1] \in Threads /\ Writing(area[i][1])
          BY <1>2, <2>2, <4>2
        <4> QED
          BY <4>2, <4>3 DEF Lines
      <3>5. ShownInOrder'
        <4>1. \A i \in 1..Len(area') : area'[i][2] <= received[area'[i][1]]
          <5> SUFFICES ASSUME NEW i \in 1..Len(area')
                       PROVE  area'[i][2] <= received[area'[i][1]]
            OBVIOUS
          <5>1. CASE i = Len(area) + 1
            BY <1>3, <3>1, <3>2, <3>3, <5>1
          <5>2. CASE i \in 1..Len(area)
            BY <3>3, <5>2 DEF Lines, ShownInOrder
          <5> QED
            BY <1>3, <3>3, <5>1, <5>2
        <4>2. ASSUME NEW i \in 1..Len(area'), NEW j \in 1..Len(area'),
                     i < j, area'[i][1] = area'[j][1]
              PROVE  area'[i][2] < area'[j][2]
          <5>1. i \in 1..Len(area) /\ area'[i] = area[i]
            BY <1>3, <3>3, <4>2
          <5>2. CASE j = Len(area) + 1
            BY <3>1, <3>2, <3>3, <4>2, <5>1, <5>2 DEF Lines
          <5>3. CASE j \in 1..Len(area)
            BY <3>3, <4>2, <5>1, <5>3 DEF Lines, ShownInOrder
          <5> QED
            BY <1>3, <3>3, <5>2, <5>3
        <4> QED
          BY <2>1, <4>1, <4>2 DEF ShownInOrder
      <3> QED
        BY <2>1, <3>4, <3>5 DEF Lines, Writing
    <2> QED
      BY <2>1, <2>3, <2>4
  <1>8. ASSUME NEW c \in Conns, RecvMsg(c)
        PROVE  Lines'
    <2>1. /\ logStep[c] = "no" /\ inbox[c] # <<>> /\ inbox[c] \in Seq(Nat)
          /\ inbox' = [inbox EXCEPT ![c] = Tail(inbox[c])]
          /\ received' = [received EXCEPT ![c] = received[c] + 1]
          /\ logStep' = [logStep EXCEPT ![c] = "normal"]
          /\ line' = [line EXCEPT ![c] = <<c, Head(inbox[c])>>]
          /\ area' = area
      BY <1>8 DEF RecvMsg, Types
    <2>2. /\ inbox'[c] = Tail(inbox[c]) /\ received'[c] = received[c] + 1
          /\ logStep'[c] = "normal" /\ line'[c] = <<c, Head(inbox[c])>>
          /\ \A d \in Conns : d # c => inbox'[d] = inbox[d] /\ received'[d] = received[d]
          /\ \A u \in Threads : u # c => logStep'[u] = logStep[u] /\ line'[u] = line[u]
      BY <2>1 DEF Types
    <2>3. /\ Head(inbox[c]) = inbox[c][1] /\ 1 \in 1..Len(inbox[c])
          /\ Len(Tail(inbox[c])) = Len(inbox[c]) - 1
          /\ \A i \in 1..Len(inbox[c]) - 1 : Tail(inbox[c])[i] = inbox[c][i + 1]
      BY <2>1, EmptySeq, HeadTailProperties
    <2>4. line'[c] = <<c, received'[c]>>
      BY <2>2, <2>3 DEF Lines
    <2>5. \A d \in Conns : \A i \in 1..Len(inbox'[d]) : inbox'[d][i] = received'[d] + i
      <3> SUFFICES ASSUME NEW d \in Conns, NEW i \in 1..Len(inbox'[d])
                   PROVE  inbox'[d][i] = received'[d] + i
        OBVIOUS
      <3>1. CASE d # c
        BY <2>2, <3>1 DEF Lines
      <3>2. CASE d = c
        <4>1. i \in 1..Len(Tail(inbox[c])) /\ Len(inbox[c]) \in Nat /\ received[c] \in Nat
          BY <1>3, <2>2, <3>2
        <4>2. i \in 1..Len(inbox[c]) - 1 /\ i + 1 \in 1..Len(inbox[c]) /\ i \in Nat
          BY <2>3, <4>1
        <4>3. inbox[c][i + 1] = received[c] + (i + 1)
          BY <4>2 DEF Lines
        <4>4. inbox'[d][i] = inbox[c][i + 1]
          BY <2>2, <2>3, <3>2, <4>2
        <4>5. received'[d] = received[c] + 1
          BY <2>2, <3>2
        <4> QED
          BY <4>1, <4>2, <4>3, <4>4, <4>5
      <3> QED
        BY <3>1, <3>2
    <2>6. \A u \in Threads : u # c =>
            /\ line'[u] # NoLine => u \in Conns /\ line'[u] = <<u, received'[u]>>
            /\ logStep'[u] = "no" => line'[u] = NoLine
      BY <2>2 DEF Lines
    <2> DEFINE WritingNext(u) == logStep'[u] \in {"normal", "insert"} /\ line'[u] # NoLine
    <2>7. ASSUME NEW i \in 1..Len(area)
          PROVE  /\ area[i][2] <= received'[area[i][1]]
                 /\ WritingNext(area[i][1]) => area[i][2] < received'[area[i][1]]
      <3>1. area[i][2] <= received[area[i][1]]
        BY DEF Lines, ShownInOrder
      <3>2. CASE area[i][1] = c
        BY <1>2, <1>3, <2>2, <3>1, <3>2
      <3>3. CASE area[i][1] # c
        <4>1. area[i][1] \in Threads
          BY <1>2
        <4>2. WritingNext(area[i][1]) => Writing(area[i][1])
          BY <2>2, <3>3, <4>1 DEF Writing
        <4> QED
          BY <1>2, <2>2, <3>1, <3>3, <4>2 DEF Lines
      <3> QED
        BY <3>2, <3>3
    <2>8. ShownInOrder'
      BY <2>1, <2>7 DEF Lines, ShownInOrder
    <2> QED
      BY <2>1, <2>2, <2>4, <2>5, <2>6, <2>7, <2>8 DEF Lines, Writing
  <1>9. ASSUME NEW c \in Conns, PeerSends(c) \/ PeerLeaves(c)
        PROVE  Lines'
    <2>1. UNCHANGED <<received, logStep, line, area>>
      BY <1>9 DEF PeerSends, PeerLeaves
    <2>2. \A i \in 1..Len(inbox'[c]) : inbox'[c][i] = received[c] + i
      <3>1. CASE inbox' = [inbox EXCEPT ![c] = Append(inbox[c], received[c] + Len(inbox[c]) + 1)]
        <4>1. inbox'[c] = Append(inbox[c], received[c] + Len(inbox[c]) + 1)
              /\ inbox[c] \in Seq(Nat) /\ received[c] + Len(inbox[c]) + 1 \in Nat
          BY <1>3, <3>1 DEF Types
        <4>2. /\ Len(inbox'[c]) = Len(inbox[c]) + 1
              /\ \A i \in 1..Len(inbox[c]) : inbox'[c][i] = inbox[c][i]
              /\ inbox'[c][Len(inbox[c]) + 1] = received[c] + Len(inbox[c]) + 1
          BY <4>1, AppendProperties
        <4>3. \A i \in 1..Len(inbox'[c]) : i \in 1..Len(inbox[c]) \/ i = Len(inbox[c]) + 1
          BY <1>3, <4>2
        <4>4. ASSUME NEW i \in 1..Len(inbox[c])
              PROVE  inbox'[c][i] = received[c] + i
          BY <4>2 DEF Lines
        <4>5. inbox'[c][Len(inbox[c]) + 1] = received[c] + (Len(inbox[c]) + 1)
          <5>1. received[c] \in Nat /\ Len(inbox[c]) \in Nat
            BY <1>3
          <5>2. received[c] + Len(inbox[c]) + 1 = received[c] + (Len(inbox[c]) + 1)
            BY <5>1
          <5> QED
            BY <4>2, <5>2
        <4> QED
          BY <4>3, <4>4, <4>5
      <3>2. CASE inbox' = inbox
        BY <3>2 DEF Lines
      <3>3. CASE inbox' = [inbox EXCEPT ![c] = <<>>]
        <4>1. inbox'[c] = <<>> /\ Len(<<>>) = 0
          BY <3>3, EmptySeq DEF Types
        <4> QED
          BY <4>1
      <3> QED
        BY <1>9, <3>1, <3>2, <3>3 DEF PeerSends, PeerLeaves
    <2>3. \A d \in Conns : d # c => inbox'[d] = inbox[d]
      BY <1>9 DEF PeerSends, PeerLeaves, Types
    <2> QED
      BY <2>1, <2>2, <2>3 DEF Lines, Writing, ShownInOrder
  <1> QED
    BY NextCases, <1>1, <1>5, <1>6, <1>7, <1>8, <1>9

-----------------------------------------------------------------------------

(* The state of the log is left as a thread that is inside log() will set it back. *)
LEMMA LockedStep ==
  ASSUME Types, LockedWhenQuiet, Next
  PROVE  LockedWhenQuiet'
  <1> USE Names DEF StartLog, logging
  <1>1. ASSUME UNCHANGED <<widget, logStep>> \/ widget' = "disabled"
        PROVE  LockedWhenQuiet'
    BY <1>1 DEF LockedWhenQuiet
  <1>2. ASSUME NEW t \in Threads, logStep'[t] # "no"
        PROVE  LockedWhenQuiet'
    BY <1>2 DEF LockedWhenQuiet
  <1>3. ASSUME NEW t \in Threads, LogNormal(t) \/ LogInsert(t) \/ LogDisabled(t)
        PROVE  LockedWhenQuiet'
    BY <1>1, <1>2, <1>3 DEF LogNormal, LogInsert, LogDisabled, Types
  <1>4. CASE Quiet
    <2>1. CASE Announce
      BY <1>2, <2>1 DEF Announce, Types
    <2>2. CASE Spawn
      BY <1>1, <2>2 DEF Spawn
    <2>3. ASSUME NEW c \in Conns, RecvEof(c) \/ CloseSocket(c)
          PROVE  LockedWhenQuiet'
      BY <1>1, <2>3 DEF RecvEof, CloseSocket
    <2>4. ASSUME NEW c \in Conns, RecvError(c) \/ Goodbye(c)
          PROVE  LockedWhenQuiet'
      BY <1>2, <2>4 DEF RecvError, Goodbye, Types
    <2> QED
      BY <1>4, <2>1, <2>2, <2>3, <2>4 DEF Quiet
  <1>5. CASE SendText \/ SendToClient \/ SendRaises \/ SendDone
    BY <1>1, <1>5 DEF SendText, SendToClient, SendRaises, SendDone
  <1>6. ASSUME NEW c \in Conns, RecvMsg(c)
        PROVE  LockedWhenQuiet'
    BY <1>2, <1>6 DEF RecvMsg, Types
  <1>7. ASSUME NEW c \in Conns,
               RemoveClient(c) \/ AcceptConn(c) \/ PeerSends(c) \/ PeerLeaves(c)
        PROVE  LockedWhenQuiet'
    BY <1>1, <1>7 DEF RemoveClient, AcceptConn, PeerSends, PeerLeaves
  <1> QED
    BY NextCases, <1>3, <1>4, <1>5, <1>6, <1>7

(* The invariant holds in every reachable state. *)
THEOREM ServerInvCorrect == Spec => []IInv
  <1>1. Init => IInv
    <2> SUFFICES ASSUME Init PROVE IInv
      OBVIOUS
    <2> USE Names DEF Init
    <2>1. Len(clients) = 0 /\ Len(area) = 0 /\ \A c \in Conns : Len(inbox[c]) = 0 /\ Len(delivered[c]) = 0
      BY EmptySeq
    <2>2. Types
      <3>1. inbox \in [Conns -> Seq(Nat)] /\ delivered \in [Conns -> Seq(Nat)]
        BY EmptySeq
      <3>2. clients \in Seq(Conns) /\ area \in Seq(Conns \X Nat)
        BY EmptySeq
      <3>3. pc \in [Threads \cup {Main} -> ThreadSteps] /\ pc[Main] = "idle"
        BY DEF ThreadSteps
      <3>4. logStep \in [Threads -> LogSteps] /\ line \in [Threads -> {NoLine} \cup (Conns \X Nat)]
        BY DEF LogSteps
      <3> QED
        BY <3>1, <3>2, <3>3, <3>4 DEF Types
    <2>3. Life
      <3>1. \A c \in Conns : pc[c] = "none" /\ c # Main /\ c # Accept
        OBVIOUS
      <3>2. Elements(clients) = {}
        BY <2>1 DEF Elements
      <3> QED
        BY <2>1, <3>1, <3>2 DEF Life, Ending
    <2>4. Ahead /\ Offered
      BY <2>1 DEF Ahead, Offered, NoEcho
    <2>5. Lines
      BY <2>1 DEF Lines, ShownInOrder
    <2>6. LockedWhenQuiet
      BY DEF LockedWhenQuiet
    <2> QED
      BY <2>2, <2>3, <2>4, <2>5, <2>6 DEF IInv
  <1>2. IInv /\ [Next]_vars => IInv'
    <2> SUFFICES ASSUME IInv, [Next]_vars PROVE IInv'
      OBVIOUS
    <2> USE DEF IInv
    <2>1. CASE Next
      BY <2>1, TypesStep, LifeStep, AheadStep, OfferedStep, LinesStep, LockedStep
    <2>2. CASE UNCHANGED vars
      <3> USE <2>2 DEF vars, logging, sending
      <3>1. Types' /\ Life'
        BY DEF Types, Life, Elements
      <3>2. Ahead' /\ Offered'
        BY DEF Ahead, NoEcho, Offered, Tried
      <3>3. Lines' /\ LockedWhenQuiet'
        BY DEF Lines, Writing, ShownInOrder, LockedWhenQuiet
      <3> QED
        BY <3>1, <3>2, <3>3
    <2> QED
      BY <2>1, <2>2
  <1> QED
    BY <1>1, <1>2, PTL DEF Spec

(* No client gets a broadcast twice or out of order, whatever the handler threads do
   to the list under the iterator (server.py:77, 138, 150). *)
THEOREM NoEchoCorrect == Spec => []NoEcho
  <1>1. IInv => NoEcho
    BY DEF IInv, Ahead
  <1> QED
    BY <1>1, ServerInvCorrect, PTL

(* Only a removal during the broadcast can hide a client from it (server.py:77). *)
THEOREM NobodySkippedCorrect == Spec => []NobodySkipped
  <1>1. IInv => NobodySkipped
    <2> SUFFICES ASSUME IInv, At(Main, "send"), index >= Len(clients), ~removed, NEW c \in atStart
                 PROVE  Tried(c) \/ peer[c] # "up"
      BY DEF NobodySkipped
    <2>1. pc[Main] = "send" /\ index \in Nat /\ Len(clients) \in Nat
      BY LenProperties DEF At, IInv, Types
    <2>2. ~\E p \in 1..Len(clients) : p > index /\ clients[p] = c
      BY <2>1
    <2> QED
      BY <2>1, <2>2 DEF IInv, Offered
  <1> QED
    BY <1>1, ServerInvCorrect, PTL

(* The log never shows a connection's messages twice or out of order, however the
   threads' widget calls are mixed (server.py:62). *)
THEOREM ShownInOrderCorrect == Spec => []ShownInOrder
  <1>1. IInv => ShownInOrder
    BY DEF IInv, Lines
  <1> QED
    BY <1>1, ServerInvCorrect, PTL

(* When no thread is inside log() the log is read-only (server.py:65). *)
THEOREM LockedWhenQuietCorrect == Spec => []LockedWhenQuiet
  <1>1. IInv => LockedWhenQuiet
    BY DEF IInv
  <1> QED
    BY <1>1, ServerInvCorrect, PTL
=============================================================================
