--------------------------- MODULE TcpHelperProofs ---------------------------
(***************************************************************************)
(* Proofs about TcpHelper, for every number of producers, queue length,    *)
(* frame length, set of chunk sizes and bound.                             *)
(***************************************************************************)
EXTENDS TcpHelper, SequenceTheorems, TLAPS

(* TypeOK is preserved by the steps of the producers. *)
LEMMA ProducersTypeOK ==
  ASSUME TypeOK, NEW p \in Producers, OfferMsg(p) \/ MsgAccepted(p) \/ MsgTimedOut(p)
  PROVE  TypeOK'
<1> USE TcpConstants
<1>1. CASE OfferMsg(p)
  BY <1>1 DEF TypeOK, OfferMsg, device, network, server
<1>2. CASE MsgTimedOut(p)
  BY <1>2 DEF TypeOK, MsgTimedOut, device, network, server
<1>3. CASE MsgAccepted(p)
  <2>1. /\ accepted' = accepted + 1 /\ accepted' \in 0..MaxAccepted
        /\ 1..accepted \subseteq 1..accepted'
        /\ 0..accepted \subseteq 0..accepted'
    BY <1>3 DEF TypeOK, MsgAccepted
  <2>2. sendQ' \in Seq(1..accepted') /\ Len(sendQ') <= QueueLen
    <3>1. sendQ \in Seq(1..accepted')
      BY <2>1, SeqMonotonic DEF TypeOK
    <3>2. accepted + 1 \in 1..accepted'
      BY <2>1 DEF TypeOK
    <3> QED
      BY <1>3, <3>1, <3>2, AppendProperties, LenProperties
      DEF TypeOK, MsgAccepted, SendQFull
  <2>3. up' \in [Sessions -> Seq(1..accepted')]
    <3>1. \A s \in Sessions : up[s] \in Seq(1..accepted')
      BY <2>1, SeqMonotonic DEF TypeOK
    <3> QED
      BY <1>3, <3>1 DEF TypeOK, MsgAccepted, network
  <2>4. log' \in Seq([s : Sessions, m : 1..accepted'])
    <3>1. [s : Sessions, m : 1..accepted] \subseteq [s : Sessions, m : 1..accepted']
      BY <2>1
    <3>2. log \in Seq([s : Sessions, m : 1..accepted]) /\ log' = log
      BY <1>3 DEF TypeOK, MsgAccepted, server
    <3>3. log \in Seq([s : Sessions, m : 1..accepted'])
      BY <3>1, <3>2, SeqMonotonic
    <3> QED
      BY <3>2, <3>3
  <2> QED
    BY <1>3, <2>1, <2>2, <2>3, <2>4 DEF TypeOK, MsgAccepted, device, network, server
<1> QED
  BY <1>1, <1>2, <1>3

(* TypeOK is preserved by the steps of tcp_helper_task. *)
LEMMA TaskTypeOK ==
  ASSUME TypeOK, TcpTask
  PROVE  TypeOK'
<1> USE TcpConstants DEF Goto, Steps, LinkStates
<1>1. CASE Connect
  <2>1. down' \in Seq(Unit)
    BY <1>1, EmptySeq DEF Connect
  <2> QED
    BY <1>1, <2>1 DEF TypeOK, Connect, queues, server, NoMsg
<1>2. CASE ConnectFails \/ BackoffOver \/ RecvNothing \/ RecvError \/ QueueDrained
  BY <1>2
  DEF TypeOK, ConnectFails, BackoffOver, RecvNothing, RecvError, QueueDrained,
      queues, network, server, NoMsg
<1>3. CASE RecvData
  <2>1. PICK n \in ChunkSizes :
          /\ n <= Len(down)
          /\ rxbuf' = [k \in 1..FrameLen |-> IF k <= n THEN down[k] ELSE rxbuf[k]]
          /\ down' = SubSeq(down, n + 1, Len(down))
    BY <1>3 DEF RecvData
  <2>2. n \in Nat /\ Len(down) \in Nat /\ \A k \in 1..Len(down) : down[k] \in Unit
    BY ElementOfSeq, LenProperties DEF TypeOK
  <2>3. rxbuf' \in [1..FrameLen -> Unit]
    BY <2>1, <2>2 DEF TypeOK
  <2>4. down' \in Seq(Unit)
    <3>1. \A k \in n + 1 .. Len(down) : down[k] \in Unit
      BY <2>2
    <3> QED
      BY <2>1, <2>2, <3>1, SubSeqProperties
  <2> QED
    BY <1>3, <2>3, <2>4 DEF TypeOK, RecvData, queues, server, NoMsg
<1>4. CASE BeepAndForward
  <2>1. recvQ' \in Seq([1..FrameLen -> Unit]) /\ Len(recvQ') <= QueueLen
    BY <1>4, AppendProperties, LenProperties DEF TypeOK, BeepAndForward
  <2> QED
    BY <1>4, <2>1 DEF TypeOK, BeepAndForward, network, server, NoMsg
<1>5. CASE TakeFromQueue
  <2>1. /\ Head(sendQ) \in 1..accepted
        /\ Tail(sendQ) \in Seq(1..accepted)
        /\ Len(Tail(sendQ)) <= QueueLen
    <3>1. sendQ \in Seq(1..accepted) /\ sendQ # <<>> /\ Len(sendQ) <= QueueLen
      BY <1>5 DEF TypeOK, TakeFromQueue
    <3>2. Len(Tail(sendQ)) = Len(sendQ) - 1 /\ Len(sendQ) \in Nat
      BY ONLY <3>1, HeadTailProperties, LenProperties
    <3>3. Head(sendQ) \in 1..accepted /\ Tail(sendQ) \in Seq(1..accepted)
      BY ONLY <3>1, HeadTailProperties
    <3>4. QueueLen \in Nat
      OBVIOUS
    <3> QED
      BY ONLY <3>1, <3>2, <3>3, <3>4
  <2>2. held' \in 0..accepted' /\ (held' # NoMsg <=> pc' = "send")
    BY <1>5, <2>1 DEF TypeOK, TakeFromQueue, NoMsg
  <2>3. sendQ' \in Seq(1..accepted') /\ Len(sendQ') <= QueueLen
    BY <1>5, <2>1 DEF TakeFromQueue
  <2> QED
    BY <1>5, <2>2, <2>3 DEF TypeOK, TakeFromQueue, network, server
<1>6. CASE SendOk
  <2>1. session \in Sessions /\ held \in 1..accepted
    BY <1>6 DEF TypeOK, SendOk, Sessions, NoMsg
  <2>2. Append(up[session], held) \in Seq(1..accepted)
    BY <2>1, AppendProperties DEF TypeOK
  <2> QED
    BY <1>6, <2>1, <2>2 DEF TypeOK, SendOk, queues, server, NoMsg
<1>7. CASE SendIntoVoid
  <2>1. /\ pc' = "drain" /\ held' = NoMsg
        /\ link' \in LinkStates /\ (link' # "broken" => session # 0)
        /\ UNCHANGED <<rxbuf, queues, session, up, down, server, shown>>
    BY <1>7 DEF TypeOK, SendIntoVoid
  <2> QED
    BY <2>1 DEF TypeOK, queues, server, NoMsg
<1>8. CASE SendFails
  BY <1>8 DEF TypeOK, SendFails, queues, network, server, NoMsg
<1>9. CASE CloseSocket
  <2>1. down' \in Seq(Unit)
    BY <1>9, EmptySeq DEF CloseSocket
  <2> QED
    BY <1>9, <2>1 DEF TypeOK, CloseSocket, queues, server, NoMsg
<1> QED
  BY <1>1, <1>2, <1>3, <1>4, <1>5, <1>6, <1>7, <1>8, <1>9 DEF TcpTask

(* The units of a message are units of the stream. *)
LEMMA FrameType ==
  ASSUME NEW m \in 1..MaxServerMsgs
  PROVE  Frame(m) \in Seq(Unit)
<1>1. FrameLen \in Nat /\ \A k \in 1..FrameLen : <<m, k>> \in Unit
  BY TcpConstants DEF Unit
<1>2. Frame(m) \in [1..FrameLen -> Unit]
  BY <1>1 DEF Frame
<1> QED
  BY <1>1, <1>2

(* A prefix of a sequence. *)
LEMMA PrefixFacts ==
  ASSUME NEW S, NEW q \in Seq(S), NEW n \in 0..Len(q)
  PROVE  /\ SubSeq(q, 1, n) \in Seq(S)
         /\ Len(SubSeq(q, 1, n)) = n
         /\ \A i \in 1..n : SubSeq(q, 1, n)[i] = q[i]
<1>1. Len(q) \in Nat /\ n \in Int /\ 1 \in Int /\ \A i \in 1..n : q[i] \in S
  BY ElementOfSeq, LenProperties
<1> DEFINE r == SubSeq(q, 1, n)
<1>2. /\ r \in Seq(S)
      /\ Len(r) = IF 1 <= n THEN n - 1 + 1 ELSE 0
      /\ \A i \in 1 .. n - 1 + 1 : r[i] = q[1 + i - 1]
  BY ONLY <1>1, SubSeqProperties
<1> HIDE DEF r
<1>3. Len(r) = n /\ \A i \in 1..n : r[i] = q[i]
  BY <1>1, <1>2
<1> QED
  BY <1>2, <1>3 DEF r

(* TypeOK is preserved by the network, the server and the GUI task. *)
LEMMA WorldTypeOK ==
  ASSUME TypeOK, World \/ GuiTakes
  PROVE  TypeOK'
<1> USE TcpConstants DEF LinkStates
<1>1. CASE LinkLost
  <2>1. down' \in Seq(Unit)
    BY <1>1, PrefixFacts DEF LinkLost, TypeOK
  <2>2. up' \in [Sessions -> Seq(1..accepted)]
    <3>1. PICK n \in 0..Len(up[session]) :
            up' = [up EXCEPT ![session] = SubSeq(@, 1, n)]
      BY <1>1 DEF LinkLost
    <3>2. session \in Sessions => SubSeq(up[session], 1, n) \in Seq(1..accepted)
      BY PrefixFacts DEF TypeOK
    <3> QED
      BY <3>1, <3>2 DEF TypeOK
  <2> QED
    BY <1>1, <2>1, <2>2 DEF TypeOK, LinkLost, device, queues, server
<1>2. CASE RetransmitGivesUp \/ ServerToggles
  BY <1>2 DEF TypeOK, RetransmitGivesUp, ServerToggles, device, queues, network, server
<1>3. CASE ServerSends
  <2>1. sent + 1 \in 1..MaxServerMsgs
    BY <1>3 DEF TypeOK, ServerSends
  <2>2. down' \in Seq(Unit)
    BY <1>3, <2>1, FrameType, ConcatProperties DEF TypeOK, ServerSends
  <2> QED
    BY <1>3, <2>1, <2>2 DEF TypeOK, ServerSends, device, queues
<1>4. ASSUME NEW s \in Sessions, ServerReads(s)
      PROVE  TypeOK'
  <2>1. Head(up[s]) \in 1..accepted /\ Tail(up[s]) \in Seq(1..accepted)
    BY <1>4, HeadTailProperties DEF TypeOK, ServerReads
  <2>2. up' \in [Sessions -> Seq(1..accepted)]
    BY <1>4, <2>1 DEF TypeOK, ServerReads
  <2>3. log' \in Seq([s : Sessions, m : 1..accepted])
    <3>1. [s |-> s, m |-> Head(up[s])] \in [s : Sessions, m : 1..accepted]
      BY <2>1
    <3> QED
      BY <1>4, <3>1, AppendProperties DEF TypeOK, ServerReads
  <2> QED
    BY <1>4, <2>2, <2>3 DEF TypeOK, ServerReads, device, queues
<1>5. CASE GuiTakes
  <2>1. /\ Head(recvQ) \in [1..FrameLen -> Unit]
        /\ Tail(recvQ) \in Seq([1..FrameLen -> Unit])
        /\ Len(Tail(recvQ)) <= QueueLen
    BY <1>5, HeadTailProperties, LenProperties DEF TypeOK, GuiTakes
  <2>2. shown' \in Seq([1..FrameLen -> Unit])
    BY <1>5, <2>1, AppendProperties DEF TypeOK, GuiTakes
  <2> QED
    BY <1>5, <2>1, <2>2 DEF TypeOK, GuiTakes, device, network, server
<1> QED
  BY <1>1, <1>2, <1>3, <1>4, <1>5 DEF World

(* Every variable keeps its type: in particular neither queue ever exceeds its
   length, and send_buf holds a message exactly between xQueueReceive and send. *)
THEOREM TypeCorrect == Spec => []TypeOK
<1>1. Init => TypeOK
  BY TcpConstants, EmptySeq
  DEF Init, TypeOK, Steps, LinkStates, NoMsg, Unit, Blank
<1>2. TypeOK /\ [Next]_vars => TypeOK'
  <2> SUFFICES ASSUME TypeOK, [Next]_vars PROVE TypeOK'
    OBVIOUS
  <2>1. CASE Next
    BY <2>1, TaskTypeOK, ProducersTypeOK, WorldTypeOK DEF Next, Producing
  <2>2. CASE UNCHANGED vars
    BY <2>2 DEF TypeOK, vars, device, queues, network, server
  <2> QED
    BY <2>1, <2>2
<1> QED
  BY <1>1, <1>2, PTL DEF Spec

-----------------------------------------------------------------------------
(* Queues of messages: what Append, Tail and a prefix do to the set of elements
   and to the order. *)

LEMMA PushFacts ==
  ASSUME NEW S, NEW q \in Seq(S), NEW x \in S
  PROVE  Elements(Append(q, x)) = Elements(q) \cup {x}
<1>1. /\ Len(q) \in Nat /\ Len(Append(q, x)) = Len(q) + 1
      /\ \A i \in 1..Len(q) : Append(q, x)[i] = q[i]
      /\ Append(q, x)[Len(q) + 1] = x
  BY AppendProperties, LenProperties
<1>2. 1..(Len(q) + 1) = (1..Len(q)) \cup {Len(q) + 1}
  BY <1>1
<1> QED
  BY <1>1, <1>2 DEF Elements

LEMMA PushIncreasing ==
  ASSUME NEW q \in Seq(Nat), NEW x \in Nat, Increasing(q), Before(Elements(q), {x})
  PROVE  Increasing(Append(q, x))
<1>1. /\ Len(q) \in Nat /\ Len(Append(q, x)) = Len(q) + 1
      /\ \A i \in 1..Len(q) : Append(q, x)[i] = q[i]
      /\ Append(q, x)[Len(q) + 1] = x
  BY AppendProperties, LenProperties
<1>2. \A i \in 1..Len(q) : q[i] < x
  BY DEF Before, Elements
<1> QED
  BY <1>1, <1>2 DEF Increasing

LEMMA PopFacts ==
  ASSUME NEW S, NEW q \in Seq(S), q # <<>>
  PROVE  /\ Head(q) = q[1] /\ Len(q) \in Nat /\ 1 \in 1..Len(q)
         /\ Elements(q) = {Head(q)} \cup Elements(Tail(q))
<1>1. /\ Len(q) \in Nat \ {0} /\ Head(q) = q[1]
      /\ Len(Tail(q)) = Len(q) - 1
      /\ \A i \in 1..Len(Tail(q)) : Tail(q)[i] = q[i + 1]
  BY EmptySeq, HeadTailProperties
<1>2. Elements(Tail(q)) \subseteq Elements(q)
  BY <1>1 DEF Elements
<1>3. \A i \in 1..Len(q) : i # 1 => q[i] = Tail(q)[i - 1] /\ i - 1 \in 1..Len(Tail(q))
  BY <1>1
<1>4. Elements(q) \subseteq {Head(q)} \cup Elements(Tail(q))
  BY <1>1, <1>3 DEF Elements
<1>5. Head(q) \in Elements(q)
  BY <1>1 DEF Elements
<1> QED
  BY <1>1, <1>2, <1>4, <1>5

LEMMA PopIncreasing ==
  ASSUME NEW q \in Seq(Nat), q # <<>>, Increasing(q)
  PROVE  Increasing(Tail(q)) /\ Before({Head(q)}, Elements(Tail(q)))
<1>1. /\ Len(q) \in Nat \ {0} /\ Head(q) = q[1]
      /\ Len(Tail(q)) = Len(q) - 1
      /\ \A i \in 1..Len(Tail(q)) : Tail(q)[i] = q[i + 1]
  BY EmptySeq, HeadTailProperties
<1>2. Increasing(Tail(q))
  BY <1>1 DEF Increasing
<1>3. \A i \in 1..Len(Tail(q)) : q[1] < Tail(q)[i]
  BY <1>1 DEF Increasing
<1> QED
  BY <1>1, <1>2, <1>3 DEF Before, Elements

LEMMA PrefixOrder ==
  ASSUME NEW S, NEW q \in Seq(S), NEW n \in 0..Len(q)
  PROVE  /\ Elements(SubSeq(q, 1, n)) \subseteq Elements(q)
         /\ Increasing(q) => Increasing(SubSeq(q, 1, n))
<1>1. /\ Len(q) \in Nat /\ Len(SubSeq(q, 1, n)) = n
      /\ \A i \in 1..n : SubSeq(q, 1, n)[i] = q[i] /\ i \in 1..Len(q)
  BY PrefixFacts, LenProperties
<1> QED
  BY <1>1 DEF Elements, Increasing

-----------------------------------------------------------------------------
(* The order invariant.  Types in the form the arithmetic needs. *)

LEMMA OrderTypes ==
  ASSUME TypeOK
  PROVE  /\ sendQ \in Seq(Nat) /\ Queued \subseteq 1..accepted
         /\ \A s \in Sessions : up[s] \in Seq(Nat) /\ InSocket(s) \subseteq 1..accepted
         /\ \A e \in Elements(log) : e.s \in Sessions /\ e.m \in 1..accepted
         /\ accepted \in Nat /\ session \in Nat /\ held \in 0..accepted
         /\ InHand \subseteq 1..accepted /\ Sessions \subseteq Nat
<1>1. accepted \in Nat /\ 1..accepted \subseteq Nat
  BY TcpConstants DEF TypeOK
<1>2. sendQ \in Seq(Nat) /\ \A s \in Sessions : up[s] \in Seq(Nat)
  <2>1. Seq(1..accepted) \subseteq Seq(Nat)
    BY <1>1, SeqMonotonic
  <2> QED
    BY <2>1 DEF TypeOK
<1>3. Queued \subseteq 1..accepted /\ \A s \in Sessions : InSocket(s) \subseteq 1..accepted
  <2>1. \A q \in Seq(1..accepted) : Elements(q) \subseteq 1..accepted
    BY ElementOfSeq DEF Elements
  <2>2. sendQ \in Seq(1..accepted) /\ \A s \in Sessions : up[s] \in Seq(1..accepted)
    BY DEF TypeOK
  <2> QED
    BY ONLY <2>1, <2>2 DEF Queued, InSocket
<1>4. \A e \in Elements(log) : e.s \in Sessions /\ e.m \in 1..accepted
  <2> DEFINE Entry == [s : Sessions, m : 1..accepted]
  <2>1. log \in Seq(Entry)
    BY DEF TypeOK
  <2>2. \A e \in Entry : e.s \in Sessions /\ e.m \in 1..accepted
    OBVIOUS
  <2> HIDE DEF Entry
  <2>3. \A e \in Elements(log) : e \in Entry
    BY <2>1, ElementOfSeq DEF Elements
  <2> QED
    BY <2>2, <2>3
<1>5. held \in 0..accepted /\ InHand \subseteq 1..accepted
  BY <1>1 DEF TypeOK, InHand, NoMsg
<1>6. session \in Nat /\ Sessions \subseteq Nat
  BY TcpConstants DEF TypeOK, Sessions
<1> QED
  BY <1>1, <1>2, <1>3, <1>4, <1>5, <1>6

(* The variables OrderInv speaks about. *)
orderVars == <<sendQ, held, session, up, log>>

LEMMA OrderStutter ==
  ASSUME OrderInv, UNCHANGED orderVars
  PROVE  OrderInv'
BY DEF OrderInv, orderVars, QueueOrder, SocketOrder, LogBehind, LogOrder,
       Queued, InHand, InSocket

(* An accepted message is younger than everything in the system. *)
LEMMA OrderMsgAccepted ==
  ASSUME TypeOK, OrderInv, NEW p \in Producers, MsgAccepted(p)
  PROVE  OrderInv'
<1>1. /\ sendQ' = Append(sendQ, accepted + 1)
      /\ UNCHANGED <<held, session, up, log>>
  BY DEF MsgAccepted, device, network, server
<1>2. Queued' = Queued \cup {accepted + 1}
  BY <1>1, OrderTypes, PushFacts DEF Queued
<1>3. /\ Before(Queued, {accepted + 1}) /\ Before(InHand, {accepted + 1})
      /\ \A s \in Sessions : Before(InSocket(s), {accepted + 1})
      /\ \A e \in Elements(log) : Before({e.m}, {accepted + 1})
  BY OrderTypes DEF Before
<1>4. InHand' = InHand /\ \A s \in Sessions : InSocket(s)' = InSocket(s)
  BY <1>1 DEF InHand, InSocket
<1>5. QueueOrder'
  <2>1. Increasing(sendQ')
    BY <1>1, <1>3, OrderTypes, PushIncreasing DEF OrderInv, QueueOrder, Queued
  <2> QED
    BY <2>1, <1>2, <1>3, <1>4 DEF OrderInv, QueueOrder, Before
<1>6. SocketOrder'
  BY <1>1, <1>2, <1>3, <1>4 DEF OrderInv, SocketOrder, Before
<1>7. LogBehind'
  BY <1>1, <1>2, <1>3, <1>4 DEF OrderInv, LogBehind, Before
<1>8. LogOrder'
  BY <1>1 DEF OrderInv, LogOrder
<1> QED
  BY <1>5, <1>6, <1>7, <1>8 DEF OrderInv

(* A new connection has an empty socket, and a larger number than the log. *)
LEMMA OrderConnect ==
  ASSUME TypeOK, OrderInv, Connect
  PROVE  OrderInv'
<1>1. UNCHANGED <<sendQ, held, up, log>> /\ session' = session + 1 /\ session \in Nat
  BY OrderTypes DEF Connect, queues, server
<1>2. Queued' = Queued /\ InHand' = InHand /\ \A s \in Sessions : InSocket(s)' = InSocket(s)
  BY <1>1 DEF Queued, InHand, InSocket
<1>3. QueueOrder' /\ LogOrder'
  BY <1>1, <1>2 DEF OrderInv, QueueOrder, LogOrder
<1>4. SocketOrder'
  <2>1. \A s \in Sessions : s > session' => s > session
    BY <1>1, OrderTypes
  <2> QED
    BY <1>1, <1>2, <2>1 DEF OrderInv, SocketOrder
<1>5. LogBehind'
  <2>1. \A e \in Elements(log) : e.s <= session => e.s <= session'
    BY <1>1, OrderTypes
  <2> QED
    BY <1>1, <1>2, <2>1 DEF OrderInv, LogBehind
<1> QED
  BY <1>3, <1>4, <1>5 DEF OrderInv

(* The oldest queued message is younger than all that was sent. *)
LEMMA OrderTakeFromQueue ==
  ASSUME TypeOK, OrderInv, TakeFromQueue
  PROVE  OrderInv'
<1>1. /\ sendQ # <<>> /\ sendQ' = Tail(sendQ) /\ held' = Head(sendQ)
      /\ UNCHANGED <<session, up, log>> /\ InHand = {}
  BY DEF TakeFromQueue, network, server, TypeOK, InHand
<1>2. Queued = {held'} \cup Queued' /\ InHand' \subseteq {held'}
  BY <1>1, OrderTypes, PopFacts DEF Queued, InHand
<1>3. Increasing(sendQ') /\ Before({held'}, Queued')
  BY <1>1, OrderTypes, PopIncreasing DEF OrderInv, QueueOrder, Queued
<1>4. \A s \in Sessions : InSocket(s)' = InSocket(s)
  BY <1>1 DEF InSocket
<1>5. QueueOrder'
  BY <1>2, <1>3 DEF QueueOrder, Before
<1>6. SocketOrder'
  BY <1>1, <1>2, <1>4 DEF OrderInv, SocketOrder, Before
<1>7. LogBehind'
  BY <1>1, <1>2, <1>4 DEF OrderInv, LogBehind, Before
<1>8. LogOrder'
  BY <1>1 DEF OrderInv, LogOrder
<1> QED
  BY <1>5, <1>6, <1>7, <1>8 DEF OrderInv

(* A message whose send fails leaves no trace in the order. *)
LEMMA OrderDrop ==
  ASSUME TypeOK, OrderInv, SendIntoVoid \/ SendFails
  PROVE  OrderInv'
<1>1. UNCHANGED <<sendQ, session, up, log>> /\ InHand' = {}
  BY DEF SendIntoVoid, SendFails, queues, network, server, InHand
<1>2. Queued' = Queued /\ \A s \in Sessions : InSocket(s)' = InSocket(s)
  BY <1>1 DEF Queued, InSocket
<1> QED
  BY <1>1, <1>2 DEF OrderInv, QueueOrder, SocketOrder, LogBehind, LogOrder, Before

(* What a send that succeeds and a lost connection do to the sockets. *)
LEMMA SendOkFacts ==
  ASSUME TypeOK, SendOk, NEW c \in Sessions, c = session
  PROVE  /\ up'[c] = Append(up[c], held)
         /\ \A s \in Sessions : s # c => up'[s] = up[s] /\ InSocket(s)' = InSocket(s)
         /\ UNCHANGED <<sendQ, session, log, accepted>> /\ Queued' = Queued
         /\ InHand = {held} /\ InHand' = {} /\ held \in Nat
         /\ InSocket(c)' = InSocket(c) \cup {held}
<1>1. /\ up'[c] = Append(up[c], held)
      /\ \A s \in Sessions : s # c => up'[s] = up[s]
      /\ UNCHANGED <<sendQ, session, log, accepted>>
  BY DEF SendOk, queues, server, TypeOK
<1>2. InHand = {held} /\ InHand' = {} /\ held \in Nat
  BY OrderTypes DEF SendOk, TypeOK, InHand
<1>3. Elements(Append(up[c], held)) = Elements(up[c]) \cup {held}
  BY <1>2, OrderTypes, PushFacts
<1>4. InSocket(c)' = InSocket(c) \cup {held}
  BY <1>1, <1>3 DEF InSocket
<1>5. Queued' = Queued /\ \A s \in Sessions : s # c => InSocket(s)' = InSocket(s)
  BY <1>1 DEF InSocket, Queued
<1> QED
  BY <1>1, <1>2, <1>4, <1>5

LEMMA LinkLostFacts ==
  ASSUME TypeOK, LinkLost, NEW c \in Sessions, c = session
  PROVE  /\ UNCHANGED <<sendQ, held, session, log, accepted>> /\ link' # "up"
         /\ Queued' = Queued /\ InHand' = InHand
         /\ \A s \in Sessions :
              /\ s # c => up'[s] = up[s]
              /\ Increasing(up[s]) => Increasing(up'[s])
              /\ InSocket(s)' \subseteq InSocket(s)
<1>1. PICK n \in 0..Len(up[c]) : up' = [up EXCEPT ![c] = SubSeq(@, 1, n)]
  BY DEF LinkLost
<1>2. /\ up'[c] = SubSeq(up[c], 1, n)
      /\ \A s \in Sessions : s # c => up'[s] = up[s]
      /\ UNCHANGED <<sendQ, held, session, log, accepted>> /\ link' # "up"
  BY <1>1 DEF TypeOK, LinkLost, device, queues, server
<1>3. InSocket(c)' \subseteq InSocket(c) /\ (Increasing(up[c]) => Increasing(up'[c]))
  BY <1>2, OrderTypes, PrefixOrder DEF InSocket
<1> QED
  BY <1>2, <1>3 DEF Queued, InHand, InSocket

(* The message in hand is younger than all that was sent before it. *)
LEMMA OrderSendOk ==
  ASSUME TypeOK, OrderInv, SendOk
  PROVE  OrderInv'
<1>1. PICK c \in Sessions : c = session
  BY DEF SendOk, TypeOK, Sessions
<1>2. /\ up'[c] = Append(up[c], held)
      /\ \A s \in Sessions : s # c => up'[s] = up[s]
      /\ UNCHANGED <<sendQ, session, log>>
  BY <1>1, SendOkFacts
<1>3. InHand = {held} /\ InHand' = {} /\ held \in Nat
  BY <1>1, SendOkFacts
<1>4. InSocket(c)' = InSocket(c) \cup {held}
  BY <1>1, SendOkFacts
<1>5. Queued' = Queued /\ \A s \in Sessions : s # c => InSocket(s)' = InSocket(s)
  BY <1>1, SendOkFacts
<1>6. \A s \in Sessions : s > c => InSocket(s) = {} /\ up'[s] = <<>>
  <2>1. \A s \in Sessions : s > c => up[s] = <<>> /\ s # c
    BY <1>1, OrderTypes DEF OrderInv, SocketOrder
  <2>2. Elements(<<>>) = {}
    BY DEF Elements
  <2> QED
    BY <1>2, <2>1, <2>2 DEF InSocket
<1>7. Before({held}, Queued) /\ \A s \in Sessions : Before(InSocket(s), {held})
  BY <1>3 DEF OrderInv, QueueOrder, SocketOrder, Before
<1>8. QueueOrder'
  BY <1>2, <1>3, <1>5 DEF OrderInv, QueueOrder, Before
<1>9. SocketOrder'
  <2>1. \A s \in Sessions : Increasing(up'[s])
    BY <1>2, <1>3, <1>7, OrderTypes, PushIncreasing DEF OrderInv, SocketOrder, InSocket
  <2>2. \A s \in Sessions : Before(InSocket(s)', InHand' \cup Queued')
    BY <1>3, <1>4, <1>5, <1>7 DEF OrderInv, SocketOrder, Before
  <2>3. ASSUME NEW s \in Sessions, NEW t \in Sessions, s < t
        PROVE  Before(InSocket(s)', InSocket(t)')
    <3>1. Before(InSocket(s), InSocket(t))
      BY <2>3 DEF OrderInv, SocketOrder
    <3>2. CASE s = c
      BY <2>3, <3>2, <1>5, <1>6, OrderTypes DEF Before
    <3>3. CASE t = c
      BY <2>3, <3>1, <3>3, <1>4, <1>5, <1>7, OrderTypes DEF Before
    <3>4. CASE s # c /\ t # c
      BY <3>1, <3>4, <1>5
    <3> QED
      BY <3>2, <3>3, <3>4
  <2> QED
    BY <1>1, <1>2, <1>6, <2>1, <2>2, <2>3 DEF SocketOrder
<1>10. LogBehind'
  BY <1>1, <1>2, <1>3, <1>4, <1>5 DEF OrderInv, LogBehind, Before
<1>11. LogOrder'
  BY <1>2 DEF OrderInv, LogOrder
<1> QED
  BY <1>8, <1>9, <1>10, <1>11 DEF OrderInv

(* A lost connection cuts its socket short. *)
LEMMA OrderLinkLost ==
  ASSUME TypeOK, OrderInv, LinkLost
  PROVE  OrderInv'
<1>1. PICK c \in Sessions : c = session
  BY DEF LinkLost, TypeOK, Sessions
<1>2. /\ UNCHANGED <<sendQ, held, session, log>>
      /\ Queued' = Queued /\ InHand' = InHand
      /\ \A s \in Sessions :
           /\ s # c => up'[s] = up[s]
           /\ Increasing(up[s]) => Increasing(up'[s])
           /\ InSocket(s)' \subseteq InSocket(s)
  BY <1>1, LinkLostFacts
<1>3. QueueOrder' /\ LogOrder'
  BY <1>2 DEF OrderInv, QueueOrder, LogOrder
<1>4. SocketOrder'
  <2>1. \A s \in Sessions : s > session => s # c /\ up[s] = <<>>
    BY <1>1, OrderTypes DEF OrderInv, SocketOrder
  <2> QED
    BY <1>2, <2>1 DEF OrderInv, SocketOrder, Before
<1>5. LogBehind'
  BY <1>2 DEF OrderInv, LogBehind, Before
<1> QED
  BY <1>3, <1>4, <1>5 DEF OrderInv

(* The entries of the log after one more read. *)
LEMMA LogAfterRead ==
  ASSUME TypeOK, NEW s \in Sessions, ServerReads(s)
  PROVE  /\ Elements(log') = Elements(log) \cup {[s |-> s, m |-> Head(up[s])]}
         /\ Len(log) \in Nat /\ Len(log') = Len(log) + 1
         /\ \A k \in 1..Len(log) : log'[k] = log[k] /\ log[k] \in Elements(log)
         /\ log'[Len(log) + 1] = [s |-> s, m |-> Head(up[s])]
<1> DEFINE Entry == [s : Sessions, m : 1..accepted]
<1>1. Head(up[s]) \in 1..accepted
  BY HeadTailProperties DEF TypeOK, ServerReads
<1>2. log \in Seq(Entry) /\ [s |-> s, m |-> Head(up[s])] \in Entry
  BY <1>1 DEF TypeOK
<1>3. log' = Append(log, [s |-> s, m |-> Head(up[s])])
  BY DEF ServerReads
<1> HIDE DEF Entry
<1> QED
  BY <1>2, <1>3, PushFacts, AppendProperties, LenProperties DEF Elements

(* What the server reads next on a connection is younger than what it read
   before on this or an earlier one, older than everything else. *)
LEMMA OrderServerReads ==
  ASSUME TypeOK, OrderInv, NEW r \in Sessions, ServerReads(r)
  PROVE  OrderInv'
<1> DEFINE h == Head(up[r])
<1>1. /\ UNCHANGED <<sendQ, held, session>> /\ up[r] # <<>>
      /\ up' = [up EXCEPT ![r] = Tail(@)]
      /\ up'[r] = Tail(up[r])
      /\ \A s \in Sessions : s # r => up'[s] = up[s]
  BY DEF ServerReads, device, queues, TypeOK
<1>2. /\ InSocket(r) = {h} \cup InSocket(r)'
      /\ Increasing(up'[r]) /\ Before({h}, InSocket(r)')
  BY <1>1, OrderTypes, PopFacts, PopIncreasing DEF OrderInv, SocketOrder, InSocket
<1>3. \A s \in Sessions : InSocket(s)' \subseteq InSocket(s)
  BY <1>1, <1>2 DEF InSocket
<1>4. r <= session
  BY <1>1, OrderTypes DEF OrderInv, SocketOrder
<1>5. Queued' = Queued /\ InHand' = InHand
  BY <1>1 DEF Queued, InHand
<1> HIDE DEF h
<1>6. QueueOrder'
  BY <1>1, <1>5 DEF OrderInv, QueueOrder
<1>7. SocketOrder'
  <2>1. \A s \in Sessions : Increasing(up'[s]) /\ (s > session => up'[s] = <<>>)
    BY <1>1, <1>2, <1>4, OrderTypes DEF OrderInv, SocketOrder
  <2> QED
    BY <1>1, <1>3, <1>5, <2>1 DEF OrderInv, SocketOrder, Before
<1>8. LogBehind'
  <2>1. /\ Before({h}, InHand \cup Queued)
        /\ \A t \in Sessions : r < t => Before({h}, InSocket(t))
        /\ \A t \in Sessions : t < r => Before(InSocket(t), {h})
    BY <1>2 DEF OrderInv, SocketOrder, Before
  <2>2. ASSUME NEW t \in Sessions
        PROVE  IF r <= t THEN Before({h}, InSocket(t)') ELSE Before(InSocket(t)', {h})
    <3>1. CASE t = r
      BY <3>1, <1>2, OrderTypes
    <3>2. CASE r < t
      BY <3>2, <2>1, <1>3, OrderTypes DEF Before
    <3>3. CASE t < r
      BY <3>3, <2>1, <1>3, OrderTypes DEF Before
    <3> QED
      BY <3>1, <3>2, <3>3, OrderTypes
  <2>3. \A e \in Elements(log) :
          /\ e.s <= session'
          /\ Before({e.m}, InHand' \cup Queued')
          /\ \A t \in Sessions :
               IF e.s <= t THEN Before({e.m}, InSocket(t)') ELSE Before(InSocket(t)', {e.m})
    BY <1>1, <1>3, <1>5 DEF OrderInv, LogBehind, Before
  <2>4. Elements(log') = Elements(log) \cup {[s |-> r, m |-> h]}
    BY LogAfterRead DEF h
  <2>5. [s |-> r, m |-> h].s = r /\ [s |-> r, m |-> h].m = h
    OBVIOUS
  <2> QED
    BY <1>1, <1>4, <1>5, <2>1, <2>2, <2>3, <2>4, <2>5 DEF LogBehind
<1>9. LogOrder'
  <2>1. /\ Len(log) \in Nat /\ Len(log') = Len(log) + 1
        /\ \A k \in 1..Len(log) : log'[k] = log[k] /\ log[k] \in Elements(log)
        /\ log'[Len(log) + 1] = [s |-> r, m |-> h]
    BY LogAfterRead DEF h
  <2>2. h \in InSocket(r)
    BY <1>2
  <2>3. \A e \in Elements(log) :
          /\ e.s \in Nat /\ r \in Nat
          /\ IF e.s <= r THEN e.m < h ELSE h < e.m
    BY <2>2, OrderTypes DEF OrderInv, LogBehind, Before
  <2>4. ASSUME NEW k \in 1..Len(log'), NEW l \in 1..Len(log'),
               (k < l /\ log'[k].s = log'[l].s) \/ log'[k].s < log'[l].s
        PROVE  log'[k].m < log'[l].m
    <3>1. CASE k \in 1..Len(log) /\ l \in 1..Len(log)
      BY <3>1, <2>1, <2>4 DEF OrderInv, LogOrder
    <3>2. CASE k \in 1..Len(log) /\ l = Len(log) + 1
      BY <3>2, <2>1, <2>3, <2>4
    <3>3. CASE k = Len(log) + 1 /\ l \in 1..Len(log)
      BY <3>3, <2>1, <2>3, <2>4
    <3>4. CASE k = Len(log) + 1 /\ l = Len(log) + 1
      BY <3>4, <2>1, <2>4, OrderTypes
    <3> QED
      BY <2>1, <3>1, <3>2, <3>3, <3>4
  <2> QED
    BY <2>4 DEF LogOrder
<1> QED
  BY <1>6, <1>7, <1>8, <1>9 DEF OrderInv

(* Steps that do not touch the outbound path. *)
Aside ==
  \/ ConnectFails \/ BackoffOver \/ RecvData \/ RecvNothing \/ RecvError
  \/ BeepAndForward \/ QueueDrained \/ CloseSocket
  \/ GuiTakes \/ RetransmitGivesUp \/ ServerToggles \/ ServerSends
  \/ \E p \in Producers : OfferMsg(p) \/ MsgTimedOut(p)

LEMMA AsideStutters ==
  ASSUME Aside
  PROVE  UNCHANGED <<orderVars, accepted>>
<1> USE DEF orderVars, device, queues, network, server
<1>1. CASE ConnectFails \/ BackoffOver \/ RecvData \/ RecvNothing \/ RecvError
  BY <1>1 DEF ConnectFails, BackoffOver, RecvData, RecvNothing, RecvError
<1>2. CASE BeepAndForward \/ QueueDrained \/ CloseSocket \/ GuiTakes
  BY <1>2 DEF BeepAndForward, QueueDrained, CloseSocket, GuiTakes
<1>3. CASE RetransmitGivesUp \/ ServerToggles \/ ServerSends
  BY <1>3 DEF RetransmitGivesUp, ServerToggles, ServerSends
<1>4. CASE \E p \in Producers : OfferMsg(p) \/ MsgTimedOut(p)
  BY <1>4 DEF OfferMsg, MsgTimedOut
<1> QED
  BY <1>1, <1>2, <1>3, <1>4 DEF Aside

LEMMA NextCases ==
  ASSUME Next
  PROVE  \/ Aside \/ Connect \/ TakeFromQueue \/ SendOk \/ SendIntoVoid \/ SendFails
         \/ LinkLost \/ (\E p \in Producers : MsgAccepted(p))
         \/ (\E r \in Sessions : ServerReads(r))
BY DEF Next, TcpTask, Producing, World, Aside

(* The outbound path keeps the order of acceptance everywhere at once. *)
THEOREM OrderCorrect == Spec => []OrderInv
<1>1. Init => OrderInv
  <2> SUFFICES ASSUME Init PROVE OrderInv
    OBVIOUS
  <2>1. /\ Queued = {} /\ InHand = {} /\ Elements(log) = {} /\ Len(log) = 0
        /\ \A s \in Sessions : InSocket(s) = {} /\ up[s] = <<>>
    BY DEF Init, Queued, InHand, InSocket, Elements
  <2>2. Increasing(sendQ) /\ \A s \in Sessions : Increasing(up[s])
    BY DEF Init, Increasing
  <2> QED
    BY <2>1, <2>2 DEF OrderInv, QueueOrder, SocketOrder, LogBehind, LogOrder, Before
<1>2. TypeOK /\ OrderInv /\ [Next]_vars => OrderInv'
  <2> SUFFICES ASSUME TypeOK, OrderInv, [Next]_vars PROVE OrderInv'
    OBVIOUS
  <2>1. CASE Next
    BY <2>1, NextCases, AsideStutters, OrderStutter, OrderMsgAccepted, OrderConnect,
       OrderTakeFromQueue, OrderSendOk, OrderDrop, OrderLinkLost, OrderServerReads
  <2>2. CASE UNCHANGED vars
    BY <2>2, OrderStutter DEF vars, device, queues, network, server, orderVars
  <2> QED
    BY <2>1, <2>2
<1> QED
  BY <1>1, <1>2, TypeCorrect, PTL DEF Spec

(* The server reads the messages of one connection in the order of acceptance. *)
THEOREM SessionOrderCorrect == Spec => []SessionOrder
<1>1. TypeOK /\ OrderInv => SessionOrder
  BY DEF OrderInv, LogOrder, SessionOrder
<1> QED
  BY <1>1, TypeCorrect, OrderCorrect, PTL

(* No message is read twice, over whatever number of reconnections. *)
THEOREM DeliveredOnceCorrect == Spec => []DeliveredOnce
<1>1. TypeOK /\ OrderInv => DeliveredOnce
  <2> SUFFICES ASSUME TypeOK, OrderInv, NEW i \in 1..Len(log), NEW j \in 1..Len(log), i # j
               PROVE  log[i].m # log[j].m
    BY DEF DeliveredOnce
  <2>1. \A k \in {i, j} : log[k].s \in Nat /\ log[k].m \in Nat
    BY OrderTypes DEF Elements
  <2>2. log[i].m < log[j].m \/ log[j].m < log[i].m
    BY <2>1 DEF OrderInv, LogOrder
  <2> QED
    BY <2>1, <2>2
<1> QED
  BY <1>1, TypeCorrect, OrderCorrect, PTL

-----------------------------------------------------------------------------
(* Where messages go: InTransit and Arrived, action by action. *)

LEMMA PathStutter ==
  ASSUME UNCHANGED orderVars
  PROVE  InTransit' = InTransit /\ Arrived' = Arrived
BY DEF orderVars, InTransit, Arrived, Queued, InHand, InSocket

LEMMA PathConnect ==
  ASSUME Connect
  PROVE  InTransit' = InTransit /\ UNCHANGED <<accepted, log>>
BY DEF Connect, queues, server, InTransit, Queued, InHand, InSocket

LEMMA PathMsgAccepted ==
  ASSUME TypeOK, NEW p \in Producers, MsgAccepted(p)
  PROVE  /\ InTransit' = InTransit \cup {accepted + 1}
         /\ accepted < MaxAccepted /\ accepted' = accepted + 1 /\ UNCHANGED log
<1>1. /\ sendQ' = Append(sendQ, accepted + 1) /\ UNCHANGED <<held, up, log>>
      /\ accepted < MaxAccepted /\ accepted' = accepted + 1
  BY DEF MsgAccepted, device, network, server
<1>2. Queued' = Queued \cup {accepted + 1}
  BY <1>1, OrderTypes, PushFacts DEF Queued
<1>3. InHand' = InHand /\ \A s \in Sessions : InSocket(s)' = InSocket(s)
  BY <1>1 DEF InHand, InSocket
<1> QED
  BY <1>1, <1>2, <1>3 DEF InTransit

LEMMA PathTakeFromQueue ==
  ASSUME TypeOK, TakeFromQueue
  PROVE  InTransit' = InTransit /\ UNCHANGED <<accepted, log>>
<1>1. /\ sendQ # <<>> /\ sendQ' = Tail(sendQ) /\ held' = Head(sendQ)
      /\ UNCHANGED <<up, log, accepted>> /\ InHand = {}
  BY DEF TakeFromQueue, network, server, TypeOK, InHand
<1>2. Queued = {held'} \cup Queued'
  BY <1>1, OrderTypes, PopFacts DEF Queued
<1>3. held' \in Queued /\ held' # NoMsg
  BY <1>2, OrderTypes DEF NoMsg
<1>4. InHand' = {held'} /\ \A s \in Sessions : InSocket(s)' = InSocket(s)
  BY <1>1, <1>3 DEF InHand, InSocket
<1> QED
  BY <1>1, <1>2, <1>4 DEF InTransit

LEMMA PathSendOk ==
  ASSUME TypeOK, SendOk
  PROVE  InTransit' = InTransit /\ UNCHANGED <<accepted, log>>
<1>1. PICK c \in Sessions : c = session
  BY DEF SendOk, TypeOK, Sessions
<1>2. /\ InHand = {held} /\ InHand' = {} /\ Queued' = Queued
      /\ InSocket(c)' = InSocket(c) \cup {held}
      /\ \A s \in Sessions : s # c => InSocket(s)' = InSocket(s)
      /\ UNCHANGED <<accepted, log>>
  BY <1>1, SendOkFacts
<1> QED
  BY <1>2 DEF InTransit

(* The three steps that can lose a message, all on a dead connection. *)
LEMMA PathLoss ==
  ASSUME TypeOK, SendIntoVoid \/ SendFails \/ LinkLost
  PROVE  /\ InTransit' \subseteq InTransit /\ link' # "up"
         /\ UNCHANGED <<accepted, log>>
<1>1. CASE SendIntoVoid \/ SendFails
  <2>1. /\ UNCHANGED <<sendQ, up, log, accepted>> /\ InHand' = {} /\ link' # "up"
    BY <1>1 DEF SendIntoVoid, SendFails, queues, network, server, InHand
  <2> QED
    BY <2>1 DEF InTransit, Queued, InSocket
<1>2. CASE LinkLost
  <2>1. PICK c \in Sessions : c = session
    BY <1>2 DEF LinkLost, TypeOK, Sessions
  <2>2. /\ UNCHANGED <<log, accepted>> /\ link' # "up"
        /\ Queued' = Queued /\ InHand' = InHand
        /\ \A s \in Sessions : InSocket(s)' \subseteq InSocket(s)
    BY <1>2, <2>1, LinkLostFacts
  <2> QED
    BY <2>2 DEF InTransit
<1> QED
  BY <1>1, <1>2

LEMMA PathServerReads ==
  ASSUME TypeOK, OrderInv, NEW r \in Sessions, ServerReads(r)
  PROVE  /\ Head(up[r]) \in InTransit
         /\ InTransit' = InTransit \ {Head(up[r])}
         /\ Arrived' = Arrived \cup {Head(up[r])}
         /\ log' = Append(log, [s |-> r, m |-> Head(up[r])])
         /\ \A k \in 1..Len(log) : log[k].s = r => log[k].m < Head(up[r])
         /\ UNCHANGED accepted
<1> DEFINE h == Head(up[r])
<1>1. /\ UNCHANGED <<sendQ, held, accepted>> /\ up[r] # <<>>
      /\ up'[r] = Tail(up[r])
      /\ \A s \in Sessions : s # r => up'[s] = up[s]
      /\ log' = Append(log, [s |-> r, m |-> h])
  BY DEF ServerReads, device, queues, TypeOK
<1>2. InSocket(r) = {h} \cup InSocket(r)' /\ Before({h}, InSocket(r)')
  BY <1>1, OrderTypes, PopFacts, PopIncreasing DEF OrderInv, SocketOrder, InSocket
<1>3. Queued' = Queued /\ InHand' = InHand /\ \A s \in Sessions : s # r => InSocket(s)' = InSocket(s)
  BY <1>1 DEF Queued, InHand, InSocket
<1>4. Elements(log') = Elements(log) \cup {[s |-> r, m |-> h]}
  BY LogAfterRead
<1> HIDE DEF h
<1>5. h \in InSocket(r) /\ h \in Nat
  BY <1>2, OrderTypes
<1>6. h \notin Queued /\ h \notin InHand
  BY <1>5, OrderTypes DEF OrderInv, SocketOrder, Before
<1>7. h \notin InSocket(r)'
  BY <1>2, <1>5 DEF Before
<1>8. \A s \in Sessions : s # r => h \notin InSocket(s)
  <2> SUFFICES ASSUME NEW s \in Sessions, s # r, h \in InSocket(s) PROVE FALSE
    OBVIOUS
  <2>1. s < r \/ r < s
    BY OrderTypes
  <2> QED
    BY <2>1, <1>5 DEF OrderInv, SocketOrder, Before
<1>9. h \in InTransit
  BY <1>5 DEF InTransit
<1>10. InTransit' = InTransit \ {h}
  BY <1>2, <1>3, <1>6, <1>7, <1>8 DEF InTransit
<1>11. Arrived' = Arrived \cup {h}
  <2>1. [s |-> r, m |-> h].m = h
    OBVIOUS
  <2> QED
    BY <1>4, <2>1 DEF Arrived
<1>12. \A k \in 1..Len(log) : log[k].s = r => log[k].m < h
  <2>1. \A e \in Elements(log) : e.s = r => e.m < h
    BY <1>5, OrderTypes DEF OrderInv, LogBehind, Before
  <2> QED
    BY <2>1 DEF Elements
<1> QED
  BY <1>1, <1>9, <1>10, <1>11, <1>12 DEF h

(* A message leaves the system unread only in a step after which the connection
   does not work. *)
THEOREM LossNeedsDeadLinkCorrect == Spec => LossNeedsDeadLink
<1> DEFINE L == LostMsgs' \subseteq LostMsgs \/ link' # "up"
<1>1. TypeOK /\ OrderInv /\ [Next]_vars => L
  <2> SUFFICES ASSUME TypeOK, OrderInv, [Next]_vars PROVE L
    OBVIOUS
  <2>1. CASE UNCHANGED <<orderVars, accepted>>
    BY <2>1, PathStutter DEF LostMsgs, orderVars
  <2>2. CASE Connect \/ TakeFromQueue \/ SendOk
    BY <2>2, PathConnect, PathTakeFromQueue, PathSendOk DEF LostMsgs, Arrived
  <2>3. CASE SendIntoVoid \/ SendFails \/ LinkLost
    BY <2>3, PathLoss
  <2>4. ASSUME NEW p \in Producers, MsgAccepted(p) PROVE L
    <3>1. /\ InTransit' = InTransit \cup {accepted + 1} /\ Arrived' = Arrived
          /\ accepted' = accepted + 1 /\ accepted \in Nat
      BY <2>4, PathMsgAccepted, OrderTypes DEF Arrived
    <3>2. 1..accepted' = (1..accepted) \cup {accepted + 1}
      BY <3>1
    <3> QED
      BY <3>1, <3>2 DEF LostMsgs
  <2>5. ASSUME NEW r \in Sessions, ServerReads(r) PROVE L
    BY <2>5, PathServerReads DEF LostMsgs
  <2>6. CASE UNCHANGED vars
    BY <2>1, <2>6 DEF vars, device, queues, network, server, orderVars
  <2> QED
    BY <2>1, <2>2, <2>3, <2>4, <2>5, <2>6, NextCases, AsideStutters
<1>2. TypeOK /\ OrderInv /\ [Next]_vars => [L]_vars
  BY <1>1
<1> QED
  BY <1>2, TypeCorrect, OrderCorrect, PTL DEF Spec, LossNeedsDeadLink

(* Every step of the device, the network and the server is a step of the
   abstract channel or leaves it as it is. *)
LEMMA StepImplementsChannel ==
  ASSUME TypeOK, OrderInv, [Next]_vars
  PROVE  [Channel!Next]_Channel!chanVars
<1> USE DEF Channel!chanVars
<1>1. CASE UNCHANGED <<orderVars, accepted>>
  BY <1>1, PathStutter DEF orderVars
<1>2. CASE Connect \/ TakeFromQueue \/ SendOk
  BY <1>2, PathConnect, PathTakeFromQueue, PathSendOk
<1>3. CASE SendIntoVoid \/ SendFails \/ LinkLost
  <2>1. InTransit' \in SUBSET InTransit /\ UNCHANGED <<accepted, log>>
    BY <1>3, PathLoss
  <2> QED
    BY <2>1 DEF Channel!Next, Channel!Lose
<1>4. ASSUME NEW p \in Producers, MsgAccepted(p)
      PROVE  Channel!Next
  BY <1>4, PathMsgAccepted DEF Channel!Next, Channel!Accept
<1>5. ASSUME NEW r \in Sessions, ServerReads(r)
      PROVE  Channel!Next
  <2>1. Channel!Arrive(r, Head(up[r]))
    BY <1>5, PathServerReads DEF Channel!Arrive
  <2>2. Head(up[r]) \in InTransit
    BY <1>5, PathServerReads
  <2> QED
    BY <2>1, <2>2 DEF Channel!Next
<1>6. CASE UNCHANGED vars
  BY <1>1, <1>6 DEF vars, device, queues, network, server, orderVars
<1> QED
  BY <1>1, <1>2, <1>3, <1>4, <1>5, <1>6, NextCases, AsideStutters

(* The outbound path implements the abstract channel. *)
THEOREM ChannelImplemented == Spec => ImplementsChannel
<1>1. Init => Channel!Init
  <2> SUFFICES ASSUME Init PROVE Channel!Init
    OBVIOUS
  <2>1. Queued = {} /\ InHand = {} /\ \A s \in Sessions : InSocket(s) = {}
    BY DEF Init, Queued, InHand, InSocket, Elements
  <2>2. InTransit = {}
    BY <2>1 DEF InTransit
  <2> QED
    BY <2>2 DEF Init, Channel!Init
<1>2. TypeOK /\ OrderInv /\ [Next]_vars => [Channel!Next]_Channel!chanVars
  BY StepImplementsChannel
<1> QED
  BY <1>1, <1>2, TypeCorrect, OrderCorrect, PTL DEF Spec, ImplementsChannel, Channel!Spec

-----------------------------------------------------------------------------
(* The inbound path: what recv returns, rx_buffer, and the items of the receive
   queue, for any length of a message and any sizes of the pieces.          *)

Received(s) == {Blank} \cup ((1..s) \X (1..FrameLen))

(* What is under way is a run of the stream, and on a working connection it ends
   with the last byte the server has sent. *)
DownInv ==
  /\ \A i \in 1..Len(down) :
       /\ down[i] \in (1..sent) \X (1..FrameLen)
       /\ StreamPos(down[i]) = StreamPos(down[1]) + i - 1
  /\ link = "up" /\ down # <<>> => down[Len(down)] = <<sent, FrameLen>>

Shaped(item) ==
  \E n \in 1..FrameLen :
    \A k \in 2..FrameLen :
      IF k <= n THEN StreamPos(item[k]) = StreamPos(item[k - 1]) + 1
                ELSE StreamPos(item[k]) < StreamPos(item[1])

(* Whatever rx_buffer holds is older than what is under way; between a recv and
   the forwarding it starts with something no item has started with yet. *)
BufferInv ==
  /\ \A k \in 1..FrameLen :
       /\ rxbuf[k] \in Received(sent)
       /\ \A i \in 1..Len(down) : StreamPos(rxbuf[k]) < StreamPos(down[i])
  /\ pc = "beep" => Shaped(rxbuf)

ItemsInv ==
  \A i \in 1..Len(Inbound) :
    /\ StreamPos(Inbound[i][1]) <= StreamPos(rxbuf[1])
    /\ pc = "beep" => StreamPos(Inbound[i][1]) < StreamPos(rxbuf[1])
    /\ Shaped(Inbound[i])

InboundInv == DownInv /\ BufferInv /\ ItemsInv /\ InboundOrder

-----------------------------------------------------------------------------
(* Positions in the stream.                                                 *)

(* The messages follow each other in the stream without a gap. *)
LEMMA NextMessage ==
  ASSUME NEW s \in Nat, NEW k \in 1..FrameLen
  PROVE  StreamPos(<<s + 1, k>>) = StreamPos(<<s, FrameLen>>) + k
  <1>1. FrameLen \in Nat /\ k \in Nat
    BY TcpConstants
  <1>2. (s + 1) * FrameLen = s * FrameLen + FrameLen
    BY <1>1
  <1>3. s * FrameLen \in Nat
    BY <1>1
  <1> QED
    BY <1>1, <1>2, <1>3 DEF StreamPos

(* What was sent before has smaller positions than what comes next. *)
LEMMA EarlierPositions ==
  ASSUME NEW s \in Nat, NEW u \in Received(s)
  PROVE  /\ StreamPos(u) \in Nat
         /\ \A k \in 1..FrameLen : StreamPos(u) < StreamPos(<<s + 1, k>>)
  <1>0. 1 \in 1..FrameLen
    BY TcpConstants
  <1> SUFFICES ASSUME NEW k \in 1..FrameLen
               PROVE  StreamPos(u) \in Nat /\ StreamPos(u) < StreamPos(<<s + 1, k>>)
    BY <1>0
  <1>1. FrameLen \in Nat \ {0} /\ k \in Nat /\ k >= 1
    BY TcpConstants
  <1>2. StreamPos(<<s + 1, k>>) = s * FrameLen + FrameLen + k /\ s * FrameLen \in Nat
    BY <1>1, NextMessage DEF StreamPos
  <1>3. CASE u = Blank
    BY <1>1, <1>2, <1>3 DEF StreamPos, Blank
  <1>4. CASE u \in (1..s) \X (1..FrameLen)
    <2>1. PICK m \in 1..s, j \in 1..FrameLen : u = <<m, j>>
      BY <1>4
    <2>2. /\ StreamPos(u) = m * FrameLen + j /\ m * FrameLen \in Nat
          /\ s * FrameLen = m * FrameLen + (s - m) * FrameLen
          /\ (s - m) * FrameLen \in Nat
      BY <1>1, <2>1 DEF StreamPos
    <2> QED
      BY <1>1, <1>2, <2>1, <2>2
  <1> QED
    BY <1>3, <1>4 DEF Received

(* The rest of a sequence. *)
LEMMA SuffixFacts ==
  ASSUME NEW S, NEW q \in Seq(S), NEW n \in 0..Len(q)
  PROVE  /\ Len(SubSeq(q, n + 1, Len(q))) = Len(q) - n
         /\ \A i \in 1..Len(q) - n : SubSeq(q, n + 1, Len(q))[i] = q[n + i]
  <1>1. Len(q) \in Nat /\ n \in Nat /\ \A i \in n + 1..Len(q) : q[i] \in S
    BY ElementOfSeq, LenProperties
  <1> DEFINE r == SubSeq(q, n + 1, Len(q))
  <1>2. /\ Len(r) = IF n + 1 <= Len(q) THEN Len(q) - (n + 1) + 1 ELSE 0
        /\ \A i \in 1..Len(q) - (n + 1) + 1 : r[i] = q[n + 1 + i - 1]
    BY <1>1, SubSeqProperties
  <1> HIDE DEF r
  <1>3. Len(r) = Len(q) - n /\ \A i \in 1..Len(q) - n : r[i] = q[n + i]
    BY <1>1, <1>2
  <1> QED
    BY <1>3 DEF r

-----------------------------------------------------------------------------
(* The inbound path, step by step.                                          *)

inbound == <<down, sent, rxbuf, recvQ, shown>>

(* Nothing under way: the device has connected, closed the socket or received all. *)
LEMMA NothingUnderWay ==
  ASSUME InboundInv, down' = <<>>, UNCHANGED <<sent, rxbuf, recvQ, shown>>, pc' # "beep"
  PROVE  InboundInv'
  <1>1. Len(down') = 0
    OBVIOUS
  <1>2. DownInv' /\ BufferInv'
    BY <1>1 DEF InboundInv, DownInv, BufferInv
  <1>3. ItemsInv' /\ InboundOrder'
    BY DEF InboundInv, ItemsInv, InboundOrder, Inbound
  <1> QED
    BY <1>2, <1>3 DEF InboundInv

LEMMA InboundStutter ==
  ASSUME InboundInv, UNCHANGED inbound, pc' = pc \/ pc' # "beep", link' = link \/ link' # "up"
  PROVE  InboundInv'
  <1>1. DownInv' /\ BufferInv'
    BY DEF InboundInv, DownInv, BufferInv, inbound
  <1>2. ItemsInv' /\ InboundOrder'
    BY DEF InboundInv, ItemsInv, InboundOrder, Inbound, inbound
  <1> QED
    BY <1>1, <1>2 DEF InboundInv

LEMMA InboundLinkLost ==
  ASSUME TypeOK, InboundInv, LinkLost
  PROVE  InboundInv'
  <1> USE DEF LinkLost, device, queues, server
  <1>1. PICK n \in 0..Len(down) : down' = SubSeq(down, 1, n)
    OBVIOUS
  <1>2. Len(down') = n /\ \A i \in 1..n : i \in 1..Len(down) /\ down'[i] = down[i]
    <2>1. down \in Seq(Unit)
      BY DEF TypeOK
    <2> QED
      BY ONLY <1>1, <2>1, PrefixFacts, LenProperties
  <1>3. DownInv' /\ BufferInv'
    BY <1>2 DEF InboundInv, DownInv, BufferInv, TypeOK
  <1>4. ItemsInv' /\ InboundOrder'
    BY DEF InboundInv, ItemsInv, InboundOrder, Inbound
  <1> QED
    BY <1>3, <1>4 DEF InboundInv

(* The device's units and positions as numbers. *)
LEMMA InboundTypes ==
  ASSUME TypeOK, DownInv
  PROVE  /\ Len(down) \in Nat /\ sent \in Nat
         /\ \A i \in 1..Len(down) : StreamPos(down[i]) \in Nat
         /\ \A k \in 1..FrameLen : StreamPos(rxbuf[k]) \in Nat
         /\ Inbound \in Seq([1..FrameLen -> Unit]) /\ Len(Inbound) \in Nat
         /\ 1 \in 1..FrameLen
         /\ \A i \in 1..Len(Inbound) : StreamPos(Inbound[i][1]) \in Nat
  <1>1. \A u \in Unit : StreamPos(u) \in Nat
    <2> SUFFICES ASSUME NEW u \in Unit PROVE StreamPos(u) \in Nat
      OBVIOUS
    <2>1. u[1] \in Nat /\ u[2] \in Nat /\ FrameLen \in Nat
      BY TcpConstants DEF Unit, Blank
    <2> QED
      BY <2>1 DEF StreamPos
  <1>2. Len(down) \in Nat /\ sent \in Nat /\ \A i \in 1..Len(down) : down[i] \in Unit
    BY ElementOfSeq, LenProperties DEF TypeOK
  <1>3. \A k \in 1..FrameLen : rxbuf[k] \in Unit
    BY DEF TypeOK
  <1>4. Inbound \in Seq([1..FrameLen -> Unit]) /\ Len(Inbound) \in Nat
    BY ConcatProperties, LenProperties DEF TypeOK, Inbound
  <1>5. 1 \in 1..FrameLen
    BY TcpConstants
  <1>6. \A i \in 1..Len(Inbound) : Inbound[i][1] \in Unit
    <2> DEFINE Item == [1..FrameLen -> Unit]
    <2>1. Inbound \in Seq(Item) /\ \A item \in Item : item[1] \in Unit
      BY <1>4, <1>5
    <2> HIDE DEF Item
    <2>2. \A i \in 1..Len(Inbound) : Inbound[i] \in Item
      BY <2>1, ElementOfSeq
    <2> QED
      BY <2>1, <2>2
  <1> QED
    BY <1>1, <1>2, <1>3, <1>4, <1>5, <1>6

LEMMA InboundRecvData ==
  ASSUME TypeOK, InboundInv, RecvData
  PROVE  InboundInv'
  <1> USE DEF InboundInv
  <1>1. PICK n \in ChunkSizes :
          /\ n <= Len(down)
          /\ rxbuf' = [k \in 1..FrameLen |-> IF k <= n THEN down[k] ELSE rxbuf[k]]
          /\ down' = SubSeq(down, n + 1, Len(down))
    BY DEF RecvData
  <1>2. /\ n \in Nat /\ n >= 1 /\ FrameLen \in Nat \ {0}
        /\ pc' = "beep" /\ UNCHANGED <<sent, link, shown, recvQ>>
    BY TcpConstants DEF RecvData, Goto, queues, server
  <1>3. /\ Len(down') = Len(down) - n
        /\ \A i \in 1..Len(down') : n + i \in 1..Len(down) /\ down'[i] = down[n + i]
    BY <1>1, <1>2, SuffixFacts, LenProperties DEF TypeOK
  <1>4. \A i \in 1..Len(down) :
          /\ down[i] \in (1..sent) \X (1..FrameLen)
          /\ StreamPos(down[i]) = StreamPos(down[1]) + i - 1
    BY DEF DownInv
  <1>5. 1 \in 1..Len(down) /\ StreamPos(down[1]) \in Nat
    BY <1>1, <1>2, InboundTypes
  <1>6. DownInv'
    <2>1. \A i \in 1..Len(down') :
            /\ down'[i] \in (1..sent) \X (1..FrameLen)
            /\ StreamPos(down'[i]) = StreamPos(down'[1]) + i - 1
      <3> SUFFICES ASSUME NEW i \in 1..Len(down')
                   PROVE  /\ down'[i] \in (1..sent) \X (1..FrameLen)
                          /\ StreamPos(down'[i]) = StreamPos(down'[1]) + i - 1
        OBVIOUS
      <3>1. 1 \in 1..Len(down') /\ n + 1 \in 1..Len(down) /\ n + i \in 1..Len(down)
        BY <1>2, <1>3, InboundTypes
      <3>2. down'[i] = down[n + i] /\ down'[1] = down[n + 1]
        BY <1>3, <3>1
      <3>3. /\ StreamPos(down[n + i]) = StreamPos(down[1]) + (n + i) - 1
            /\ StreamPos(down[n + 1]) = StreamPos(down[1]) + (n + 1) - 1
            /\ down[n + i] \in (1..sent) \X (1..FrameLen)
        BY <1>4, <3>1
      <3> QED
        BY <1>2, <1>5, <3>2, <3>3
    <2>2. link' = "up" /\ down' # <<>> => down'[Len(down')] = <<sent', FrameLen>>
      <3> SUFFICES ASSUME link' = "up", down' # <<>>
                   PROVE  down'[Len(down')] = <<sent', FrameLen>>
        OBVIOUS
      <3>1. down' \in Seq(Unit)
        BY TaskTypeOK DEF TypeOK, TcpTask
      <3>2. Len(down') \in 1..Len(down')
        BY <3>1, EmptySeq, LenProperties
      <3>3. down'[Len(down')] = down[n + Len(down')]
        BY <1>3, <3>2
      <3>4. n + Len(down') = Len(down) /\ down # <<>>
        BY <1>1, <1>2, <1>3, InboundTypes
      <3> QED
        BY <1>2, <3>3, <3>4 DEF DownInv
    <2> QED
      BY <1>2, <2>1, <2>2 DEF DownInv
  <1>7. /\ rxbuf'[1] = down[1]
        /\ \A k \in 1..FrameLen : rxbuf'[k] = IF k <= n THEN down[k] ELSE rxbuf[k]
    BY <1>1, <1>2
  <1>8. \A k \in 1..FrameLen : k <= n =>
          /\ k \in 1..Len(down) /\ rxbuf'[k] = down[k]
          /\ StreamPos(rxbuf'[k]) = StreamPos(down[1]) + k - 1
    BY <1>1, <1>2, <1>4, <1>7, InboundTypes
  <1>9. \A k \in 1..FrameLen : ~(k <= n) =>
          rxbuf'[k] = rxbuf[k] /\ StreamPos(rxbuf'[k]) < StreamPos(down[1])
    BY <1>5, <1>7 DEF BufferInv
  <1>10. BufferInv'
    <2>1. ASSUME NEW k \in 1..FrameLen
          PROVE  /\ rxbuf'[k] \in Received(sent)
                 /\ \A i \in 1..Len(down') : StreamPos(rxbuf'[k]) < StreamPos(down'[i])
      <3>1. CASE k <= n
        <4>1. rxbuf'[k] \in Received(sent)
          BY <1>4, <1>8, <3>1 DEF Received
        <4>2. \A i \in 1..Len(down') : StreamPos(down'[i]) = StreamPos(down[1]) + (n + i) - 1
          BY <1>3, <1>4
        <4> QED
          BY <1>2, <1>3, <1>5, <1>8, <3>1, <4>1, <4>2, InboundTypes
      <3>2. CASE ~(k <= n)
        <4>1. rxbuf'[k] = rxbuf[k]
          BY <1>9, <3>2
        <4> QED
          BY <1>3, <4>1 DEF BufferInv
      <3> QED
        BY <3>1, <3>2
    <2>2. Shaped(rxbuf')
      <3>1. PICK m \in 1..FrameLen :
              \A k \in 1..FrameLen : k <= m <=> k <= n
        <4>1. CASE n <= FrameLen
          BY <1>2, <4>1
        <4>2. CASE ~(n <= FrameLen)
          <5>1. FrameLen \in 1..FrameLen
            BY <1>2
          <5> WITNESS FrameLen \in 1..FrameLen
          <5> QED
            BY <1>2, <4>2
        <4> QED
          BY <4>1, <4>2
      <3>2. ASSUME NEW k \in 2..FrameLen, k <= m
            PROVE  StreamPos(rxbuf'[k]) = StreamPos(rxbuf'[k - 1]) + 1
        <4>1. k \in 1..FrameLen /\ k - 1 \in 1..FrameLen /\ k <= n /\ k - 1 <= n
          BY <1>2, <3>1, <3>2
        <4> QED
          BY <1>5, <1>8, <4>1
      <3>3. ASSUME NEW k \in 2..FrameLen, ~(k <= m)
            PROVE  StreamPos(rxbuf'[k]) < StreamPos(rxbuf'[1])
        BY <1>7, <1>9, <3>1, <3>3
      <3> QED
        BY <3>2, <3>3 DEF Shaped
    <2> QED
      BY <1>2, <2>1, <2>2 DEF BufferInv
  <1>11. Inbound' = Inbound
    BY <1>2 DEF Inbound
  <1>12. ItemsInv' /\ InboundOrder'
    <2>1. StreamPos(rxbuf[1]) < StreamPos(rxbuf'[1])
      BY <1>2, <1>5, <1>7 DEF BufferInv
    <2>2. \A i \in 1..Len(Inbound) : StreamPos(Inbound[i][1]) < StreamPos(rxbuf'[1])
      BY <1>5, <1>7, <2>1, InboundTypes DEF ItemsInv
    <2> QED
      BY <1>5, <1>7, <1>11, <2>2, InboundTypes DEF ItemsInv, InboundOrder
  <1> QED
    BY <1>6, <1>10, <1>12

LEMMA InboundServerSends ==
  ASSUME TypeOK, InboundInv, ServerSends
  PROVE  InboundInv'
  <1> USE DEF InboundInv
  <1> DEFINE f == Frame(sent + 1)
  <1>1. /\ link = "up" /\ sent' = sent + 1 /\ sent \in Nat /\ down' = down \o f
        /\ FrameLen \in Nat \ {0} /\ sent + 1 \in 1..MaxServerMsgs
        /\ UNCHANGED <<pc, rxbuf, link, recvQ, shown>>
    BY TcpConstants DEF ServerSends, TypeOK, device, queues
  <1>2. f \in Seq(Unit) /\ Len(f) = FrameLen /\ \A k \in 1..FrameLen : f[k] = <<sent + 1, k>>
    BY <1>1, FrameType DEF Frame
  <1> HIDE DEF f
  <1>3. /\ Len(down') = Len(down) + FrameLen /\ Len(down) \in Nat
        /\ \A i \in 1..Len(down') :
             IF i <= Len(down) THEN i \in 1..Len(down) /\ down'[i] = down[i]
             ELSE i - Len(down) \in 1..FrameLen /\ down'[i] = <<sent + 1, i - Len(down)>>
    BY <1>1, <1>2, ConcatProperties, LenProperties DEF TypeOK
  <1>4. \A i \in 1..Len(down) :
          /\ down[i] \in (1..sent) \X (1..FrameLen)
          /\ StreamPos(down[i]) = StreamPos(down[1]) + i - 1
          /\ StreamPos(down[i]) \in Nat
    BY InboundTypes DEF DownInv
  <1>5. \A k \in 1..FrameLen : StreamPos(<<sent + 1, k>>) = StreamPos(<<sent, FrameLen>>) + k
    BY <1>1, NextMessage
  <1>6. StreamPos(<<sent, FrameLen>>) \in Nat
    BY <1>1 DEF StreamPos
  <1>7. DownInv'
    <2>1. ASSUME NEW i \in 1..Len(down')
          PROVE  /\ down'[i] \in (1..sent') \X (1..FrameLen)
                 /\ StreamPos(down'[i]) = StreamPos(down'[1]) + i - 1
      <3>1. down'[i] \in (1..sent') \X (1..FrameLen)
        <4>1. CASE i <= Len(down)
          <5>1. down'[i] = down[i] /\ down[i] \in (1..sent) \X (1..FrameLen)
            BY <1>3, <1>4, <4>1
          <5>2. 1..sent \subseteq 1..sent'
            BY <1>1
          <5> QED
            BY <5>1, <5>2
        <4>2. CASE ~(i <= Len(down))
          <5>1. down'[i] = <<sent + 1, i - Len(down)>> /\ i - Len(down) \in 1..FrameLen
            BY <1>3, <4>2
          <5>2. sent + 1 \in 1..sent'
            BY <1>1
          <5> QED
            BY <5>1, <5>2
        <4> QED
          BY <4>1, <4>2
      <3>2. CASE Len(down) = 0
        <4>1. /\ i \in 1..FrameLen /\ 1 \in 1..FrameLen
              /\ down'[i] = <<sent + 1, i>> /\ down'[1] = <<sent + 1, 1>>
          BY <1>1, <1>3, <3>2
        <4> QED
          BY <1>5, <1>6, <3>1, <4>1
      <3>3. CASE Len(down) # 0
        <4>1. 1 \in 1..Len(down) /\ Len(down) \in 1..Len(down) /\ down # <<>>
          BY <1>3, <3>3
        <4>2. down'[1] = down[1]
          BY <1>1, <1>3, <4>1
        <4>3. StreamPos(<<sent, FrameLen>>) = StreamPos(down[1]) + Len(down) - 1
          BY <1>1, <1>4, <4>1 DEF DownInv
        <4>4. CASE i <= Len(down)
          BY <1>3, <1>4, <3>1, <4>2, <4>4
        <4>5. CASE ~(i <= Len(down))
          <5>1. i - Len(down) \in 1..FrameLen /\ down'[i] = <<sent + 1, i - Len(down)>>
            BY <1>3, <4>5
          <5>2. StreamPos(down'[i]) = StreamPos(<<sent, FrameLen>>) + (i - Len(down))
            BY <1>5, <5>1
          <5> QED
            BY <1>3, <1>4, <3>1, <4>1, <4>2, <4>3, <5>1, <5>2
        <4> QED
          BY <4>4, <4>5
      <3> QED
        BY <1>3, <3>2, <3>3
    <2>2. down'[Len(down')] = <<sent', FrameLen>>
      <3>1. Len(down') \in 1..Len(down') /\ ~(Len(down') <= Len(down))
        BY <1>1, <1>3
      <3>2. down'[Len(down')] = <<sent + 1, Len(down') - Len(down)>>
        BY <1>3, <3>1
      <3>3. Len(down') - Len(down) = FrameLen
        BY <1>1, <1>3
      <3> QED
        BY <1>1, <3>2, <3>3
    <2> QED
      BY <2>1, <2>2 DEF DownInv
  <1>8. BufferInv'
    <2>1. ASSUME NEW k \in 1..FrameLen
          PROVE  /\ rxbuf[k] \in Received(sent + 1)
                 /\ \A i \in 1..Len(down') : StreamPos(rxbuf[k]) < StreamPos(down'[i])
      <3>1. rxbuf[k] \in Received(sent)
        BY DEF BufferInv
      <3>2. rxbuf[k] \in Received(sent + 1)
        BY <1>1, <3>1 DEF Received
      <3>3. \A j \in 1..FrameLen : StreamPos(rxbuf[k]) < StreamPos(<<sent + 1, j>>)
        BY <1>1, <3>1, EarlierPositions
      <3> QED
        BY <1>3, <3>2, <3>3 DEF BufferInv
    <2> QED
      BY <1>1, <2>1 DEF BufferInv
  <1>9. ItemsInv' /\ InboundOrder'
    BY <1>1 DEF ItemsInv, InboundOrder, Inbound
  <1> QED
    BY <1>7, <1>8, <1>9

LEMMA InboundBeepAndForward ==
  ASSUME TypeOK, InboundInv, BeepAndForward
  PROVE  InboundInv'
  <1> USE DEF InboundInv
  <1>1. /\ pc = "beep" /\ pc' = "drain" /\ UNCHANGED <<down, sent, link, rxbuf, shown>>
        /\ recvQ' = recvQ \/ recvQ' = Append(recvQ, rxbuf)
    BY DEF BeepAndForward, Goto, network, server
  <1>2. DownInv' /\ BufferInv'
    BY <1>1 DEF DownInv, BufferInv
  <1>3. CASE recvQ' = recvQ
    BY <1>1, <1>2, <1>3, InboundStutter DEF inbound
  <1>4. CASE recvQ' = Append(recvQ, rxbuf)
    <2> DEFINE Item == [1..FrameLen -> Unit]
    <2>1. shown \in Seq(Item) /\ recvQ \in Seq(Item) /\ rxbuf \in Item
      BY DEF TypeOK
    <2> HIDE DEF Item
    <2>2. /\ Len(shown \o Append(recvQ, rxbuf)) = Len(shown \o recvQ) + 1
          /\ Len(shown \o recvQ) \in Nat
          /\ \A i \in 1..Len(shown \o recvQ) :
               (shown \o Append(recvQ, rxbuf))[i] = (shown \o recvQ)[i]
          /\ (shown \o Append(recvQ, rxbuf))[Len(shown \o recvQ) + 1] = rxbuf
      BY <2>1, ConcatProperties, AppendProperties, LenProperties
    <2>3. /\ Len(Inbound') = Len(Inbound) + 1 /\ Len(Inbound) \in Nat
          /\ \A i \in 1..Len(Inbound) : Inbound'[i] = Inbound[i]
          /\ Inbound'[Len(Inbound) + 1] = rxbuf
      BY <1>1, <1>4, <2>2 DEF Inbound
    <2>4. Shaped(rxbuf)
      BY <1>1 DEF BufferInv
    <2>5. ItemsInv'
      <3>1. ASSUME NEW i \in 1..Len(Inbound')
            PROVE  /\ StreamPos(Inbound'[i][1]) <= StreamPos(rxbuf[1])
                   /\ Shaped(Inbound'[i])
        <4>1. CASE i = Len(Inbound) + 1
          BY <2>3, <2>4, <4>1, InboundTypes
        <4>2. CASE i \in 1..Len(Inbound)
          BY <2>3, <4>2 DEF ItemsInv
        <4> QED
          BY <2>3, <4>1, <4>2
      <3>2. rxbuf' = rxbuf /\ pc' # "beep"
        BY <1>1
      <3> QED
        BY <3>1, <3>2 DEF ItemsInv
    <2>6. InboundOrder'
      <3> SUFFICES ASSUME NEW i \in 1..Len(Inbound'), NEW j \in 1..Len(Inbound'), i < j
                   PROVE  StreamPos(Inbound'[i][1]) < StreamPos(Inbound'[j][1])
        BY DEF InboundOrder
      <3>1. i \in 1..Len(Inbound) /\ Inbound'[i] = Inbound[i]
        BY <2>3
      <3>2. CASE j = Len(Inbound) + 1
        BY <1>1, <2>3, <3>1, <3>2 DEF ItemsInv
      <3>3. CASE j \in 1..Len(Inbound)
        BY <2>3, <3>1, <3>3 DEF InboundOrder
      <3> QED
        BY <2>3, <3>2, <3>3
    <2> QED
      BY <1>2, <2>5, <2>6
  <1> QED
    BY <1>1, <1>3, <1>4

LEMMA InboundGuiTakes ==
  ASSUME TypeOK, InboundInv, GuiTakes
  PROVE  InboundInv'
  <1> DEFINE Item == [1..FrameLen -> Unit]
  <1>1. /\ recvQ # <<>> /\ shown' = Append(shown, Head(recvQ)) /\ recvQ' = Tail(recvQ)
        /\ UNCHANGED <<down, sent, rxbuf, pc, link>>
    BY DEF GuiTakes, device, network, server
  <1>2. shown \in Seq(Item) /\ recvQ \in Seq(Item)
    BY DEF TypeOK
  <1> HIDE DEF Item
  <1>3. /\ Head(recvQ) = recvQ[1] /\ Head(recvQ) \in Item
        /\ Tail(recvQ) \in Seq(Item) /\ Len(Tail(recvQ)) = Len(recvQ) - 1
        /\ \A i \in 1..Len(recvQ) - 1 : Tail(recvQ)[i] = recvQ[i + 1]
        /\ Len(recvQ) \in Nat \ {0}
    BY <1>1, <1>2, HeadTailProperties, EmptySeq, LenProperties
  <1>4. /\ Append(shown, Head(recvQ)) \in Seq(Item)
        /\ Len(Append(shown, Head(recvQ))) = Len(shown) + 1 /\ Len(shown) \in Nat
        /\ \A i \in 1..Len(shown) : Append(shown, Head(recvQ))[i] = shown[i]
        /\ Append(shown, Head(recvQ))[Len(shown) + 1] = recvQ[1]
    BY <1>2, <1>3, AppendProperties, LenProperties
  <1> DEFINE a == Append(shown, Head(recvQ))
             b == Tail(recvQ)
  <1>5. /\ a \in Seq(Item) /\ b \in Seq(Item)
        /\ Len(a) = Len(shown) + 1 /\ Len(b) = Len(recvQ) - 1
        /\ \A i \in 1..Len(shown) : a[i] = shown[i]
        /\ a[Len(shown) + 1] = recvQ[1]
        /\ \A i \in 1..Len(recvQ) - 1 : b[i] = recvQ[i + 1]
    BY <1>3, <1>4
  <1>6. Inbound' = a \o b
    BY <1>1 DEF Inbound
  <1> HIDE DEF a, b
  <1>7. Len(a \o b) = Len(shown \o recvQ)
    <2>1. Len(a \o b) = Len(a) + Len(b)
      BY <1>5, ConcatProperties
    <2>2. Len(shown \o recvQ) = Len(shown) + Len(recvQ)
      BY <1>2, ConcatProperties
    <2> QED
      BY <1>3, <1>4, <1>5, <2>1, <2>2
  <1>8. \A i \in 1..Len(shown \o recvQ) : (a \o b)[i] = (shown \o recvQ)[i]
    <2> SUFFICES ASSUME NEW i \in 1..Len(shown \o recvQ)
                 PROVE  (a \o b)[i] = (shown \o recvQ)[i]
      OBVIOUS
    <2>1. i \in 1..Len(shown) + Len(recvQ)
      BY <1>2, ConcatProperties
    <2>2. /\ (shown \o recvQ)[i] = IF i <= Len(shown) THEN shown[i] ELSE recvQ[i - Len(shown)]
          /\ (a \o b)[i] = IF i <= Len(a) THEN a[i] ELSE b[i - Len(a)]
      BY <1>2, <1>3, <1>4, <1>5, <2>1, ConcatProperties
    <2> QED
      BY <1>3, <1>4, <1>5, <2>1, <2>2
  <1>9. \A i \in 1..Len(Inbound) : Inbound'[i] = Inbound[i]
    BY <1>6, <1>8 DEF Inbound
  <1>10. Len(Inbound') = Len(Inbound)
    BY <1>6, <1>7 DEF Inbound
  <1>11. DownInv' /\ BufferInv'
    BY <1>1 DEF InboundInv, DownInv, BufferInv
  <1>12. ItemsInv' /\ InboundOrder'
    BY <1>1, <1>9, <1>10 DEF InboundInv, ItemsInv, InboundOrder
  <1> QED
    BY <1>11, <1>12 DEF InboundInv

-----------------------------------------------------------------------------

(* The invariant holds in every reachable state: the stream arrives in one piece
   and in order in rx_buffer, and every item is cut from it. *)
THEOREM InboundInvCorrect == Spec => []InboundInv
  <1>1. Init => InboundInv
    <2> SUFFICES ASSUME Init PROVE InboundInv
      OBVIOUS
    <2>1. /\ Len(down) = 0 /\ pc # "beep" /\ link # "up"
          /\ \A k \in 1..FrameLen : rxbuf[k] = Blank
      BY DEF Init
    <2>2. Len(Inbound) = 0
      BY EmptySeq, ConcatProperties DEF Init, Inbound
    <2> QED
      BY <2>1, <2>2
      DEF InboundInv, DownInv, BufferInv, ItemsInv, InboundOrder, Received
  <1>2. TypeOK /\ InboundInv /\ [Next]_vars => InboundInv'
    <2> SUFFICES ASSUME TypeOK, InboundInv, [Next]_vars PROVE InboundInv'
      OBVIOUS
    <2> USE DEF inbound, device, queues, network, server, Goto
    <2>1. CASE TcpTask
      <3>1. CASE Connect
        BY <3>1, NothingUnderWay DEF Connect
      <3>2. CASE ConnectFails \/ BackoffOver \/ RecvNothing \/ RecvError \/ QueueDrained
        BY <3>2, InboundStutter
        DEF ConnectFails, BackoffOver, RecvNothing, RecvError, QueueDrained
      <3>3. CASE RecvData
        BY <3>3, InboundRecvData
      <3>4. CASE BeepAndForward
        BY <3>4, InboundBeepAndForward
      <3>5. CASE TakeFromQueue
        BY <3>5, InboundStutter DEF TakeFromQueue
      <3>6. CASE SendOk \/ SendFails
        BY <3>6, InboundStutter DEF SendOk, SendFails
      <3>7. CASE SendIntoVoid
        BY <3>7, InboundStutter DEF SendIntoVoid
      <3>8. CASE CloseSocket
        BY <3>8, NothingUnderWay DEF CloseSocket
      <3> QED
        BY <2>1, <3>1, <3>2, <3>3, <3>4, <3>5, <3>6, <3>7, <3>8 DEF TcpTask
    <2>2. CASE Producing
      BY <2>2, InboundStutter DEF Producing, OfferMsg, MsgAccepted, MsgTimedOut
    <2>3. CASE GuiTakes
      BY <2>3, InboundGuiTakes
    <2>4. CASE World
      <3>1. CASE LinkLost
        BY <3>1, InboundLinkLost
      <3>2. CASE ServerSends
        BY <3>2, InboundServerSends
      <3>3. CASE RetransmitGivesUp \/ ServerToggles
        BY <3>3, InboundStutter DEF RetransmitGivesUp, ServerToggles
      <3>4. ASSUME NEW r \in Sessions, ServerReads(r)
            PROVE  InboundInv'
        BY <3>4, InboundStutter DEF ServerReads
      <3> QED
        BY <2>4, <3>1, <3>2, <3>3, <3>4 DEF World
    <2>5. CASE UNCHANGED vars
      BY <2>5, InboundStutter DEF vars
    <2> QED
      BY <2>1, <2>2, <2>3, <2>4, <2>5 DEF Next
  <1> QED
    BY <1>1, <1>2, TypeCorrect, PTL DEF Spec

(* Nothing inbound is duplicated or reordered on the way to the GUI task. *)
THEOREM InboundOrderCorrect == Spec => []InboundOrder
  <1>1. InboundInv => InboundOrder
    BY DEF InboundInv
  <1> QED
    BY <1>1, InboundInvCorrect, PTL

(* Every item is a run of consecutive bytes and, behind it, older ones. *)
THEOREM ItemShapeCorrect == Spec => []ItemShape
  <1>1. InboundInv => ItemShape
    BY DEF InboundInv, ItemsInv, ItemShape, Shaped
  <1> QED
    BY <1>1, InboundInvCorrect, PTL
=============================================================================
