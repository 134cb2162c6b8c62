------------------------- MODULE AudioStreamProofs -------------------------
(***************************************************************************)
(* Theorems about module AudioStream, for packets, buffers, mailboxes and  *)
(* networks of any size and any number of starts and packets.              *)
(***************************************************************************)
EXTENDS AudioStream, FiniteSetTheorems, TLAPS

Streaming == {"open", "check", "read"}

(* Threads are started in the order of their numbers, and toggle_mic has set the
   flag before it touches the button. *)
ToggleInv ==
  /\ \A t \in Threads : pc[t] # "new" <=> t <= Newest
  /\ ui = "starting" => micRunning /\ Newest < MaxStarts
  /\ ui = "stopping" => ~micRunning
  /\ ui = "idle" => (label = "Stop" <=> micRunning)

(* As long as the flag is on, the thread of the last start does not take its end. *)
LastStartInv ==
  ui = "idle" /\ micRunning => Newest > 0 /\ pc[Newest] \notin {"closing", "ended"}

(* Without a hasty start there is one stream at a time. *)
SingleInv ==
  /\ \A t \in Threads : pc[t] \in {"new", "open"} => captured[t] = 0
  /\ ~hasty =>
       /\ \A t, u \in Threads : pc[t] \in Streaming /\ pc[u] \in Streaming => t = u
       /\ ui = "starting" => \A t \in Threads : pc[t] \notin Streaming
       /\ \A t \in Threads : pc[t] = "read" => sent < MaxPackets

(* The audio that waits to be played, in the microphone, on the network and in the
   device, is what the network can hold back and the surplus of the packets sent. *)
Backlog == dma + left + Packet * (mailbox + net)
Allowance == Header * sent + Flight * Packet + Chunk
SurplusInv ==
  ~hasty =>
    /\ Backlog <= Allowance
    /\ \A t \in Recording : Backlog + captured[t] <= Allowance

(* While the DMA buffers have room the task empties the mailbox: what is there and
   under way was on the network at once, but for a packet sent since. *)
MailboxInv ==
  ~hasty /\ dma + left < Dma =>
    /\ mailbox + net <= Flight + 1
    /\ \A t \in Recording : captured[t] = Chunk => mailbox + net <= Flight

IInv ==
  /\ TypeOK /\ ToggleInv /\ LastStartInv
  /\ SingleInv /\ SurplusInv /\ MailboxInv /\ SurplusFillsFirst

-----------------------------------------------------------------------------
(* The steps by what they change.                                           *)

LEMMA NextCases ==
  ASSUME Next
  PROVE  \/ ClickStart \/ ShowStarted \/ ClickStop \/ ShowStopped
         \/ (\E t \in Threads : \/ OpenStream(t) \/ OpenFails(t) \/ CheckFlag(t)
                                \/ ReadAndSend(t) \/ ReadFails(t) \/ CloseStream(t))
         \/ Arrive \/ RecvPacket \/ WriteSamples \/ Tick
  BY DEF Next, Thread

(* A step of a thread that neither sends nor touches the network and the device. *)
Turn(t) == OpenStream(t) \/ OpenFails(t) \/ CheckFlag(t) \/ ReadFails(t) \/ CloseStream(t)

LEMMA TurnFacts ==
  ASSUME TypeOK, NEW t \in Threads, Turn(t) \/ ReadAndSend(t)
  PROVE  /\ UNCHANGED <<button, device>>
         /\ \A u \in Threads : u # t => pc'[u] = pc[u] /\ captured'[u] = captured[u]
         /\ pc[t] # "new" /\ pc'[t] # "new"
         /\ pc' \in [Threads -> {"new", "open", "check", "read", "closing", "failing",
                                 "ended", "failed"}]
  <1> USE DEF TypeOK, Goto
  <1>1. CASE OpenStream(t) \/ OpenFails(t)
    BY <1>1 DEF OpenStream, OpenFails
  <1>2. CASE CheckFlag(t)
    BY <1>2 DEF CheckFlag
  <1>3. CASE ReadAndSend(t) \/ ReadFails(t)
    BY <1>3 DEF ReadAndSend, ReadFails
  <1>4. CASE CloseStream(t)
    BY <1>4 DEF CloseStream
  <1> QED
    BY <1>1, <1>2, <1>3, <1>4 DEF Turn

-----------------------------------------------------------------------------
(* Types.                                                                   *)

LEMMA TypeStep ==
  ASSUME TypeOK, [Next]_vars
  PROVE  TypeOK'
  <1> USE StreamConstants DEF Packet, Lesser
  <1>1. CASE ClickStart \/ ClickStop \/ ShowStopped
    BY <1>1 DEF ClickStart, ClickStop, ShowStopped, TypeOK, threads, device
  <1>2. CASE ShowStarted
    BY <1>2 DEF ShowStarted, TypeOK, device
  <1>3. ASSUME NEW t \in Threads, Turn(t) \/ ReadAndSend(t)
        PROVE  TypeOK'
    <2>1. UNCHANGED <<button, device>>
          /\ pc' \in [Threads -> {"new", "open", "check", "read", "closing", "failing",
                                  "ended", "failed"}]
      BY <1>3, TurnFacts
    <2>2. captured' \in [Threads -> 0..Chunk] /\ sent' \in 0..MaxPackets /\ net' \in 0..Flight
      <3>1. CASE ReadAndSend(t)
        BY <3>1 DEF ReadAndSend, TypeOK
      <3>2. CASE CloseStream(t)
        BY <3>2 DEF CloseStream, TypeOK
      <3>3. CASE OpenStream(t) \/ OpenFails(t) \/ CheckFlag(t) \/ ReadFails(t)
        BY <3>3 DEF OpenStream, OpenFails, CheckFlag, ReadFails, TypeOK
      <3> QED
        BY <1>3, <3>1, <3>2, <3>3 DEF Turn
    <2> QED
      BY <2>1, <2>2 DEF TypeOK, button, device
  <1>4. CASE Arrive \/ RecvPacket
    <2>1. dropped' \in BOOLEAN
      BY <1>4 DEF Arrive, RecvPacket, TypeOK
    <2> QED
      BY <1>4, <2>1 DEF Arrive, RecvPacket, TypeOK, button, threads
  <1>5. CASE WriteSamples
    BY <1>5 DEF WriteSamples, TypeOK, button, threads
  <1>6. CASE Tick
    <2>1. captured' \in [Threads -> 0..Chunk]
      BY <1>6 DEF Tick, TypeOK
    <2> QED
      BY <1>6, <2>1 DEF Tick, TypeOK, button
  <1>7. CASE UNCHANGED vars
    BY <1>7 DEF vars, button, threads, device, TypeOK
  <1> QED
    BY NextCases, <1>1, <1>2, <1>3, <1>4, <1>5, <1>6, <1>7 DEF Turn

-----------------------------------------------------------------------------
(* The button and the threads.                                              *)

(* Newest only depends on which threads have been started. *)
LEMMA NewestFacts ==
  ASSUME NEW k \in 0..MaxStarts, \A t \in Threads : pc[t] # "new" <=> t <= k
  PROVE  Newest = k
  <1>1. k \in Nat /\ 1..k \subseteq Threads
    BY StreamConstants DEF Threads
  <1>2. \A t \in Threads : t <= k <=> t \in 1..k
    BY <1>1, StreamConstants DEF Threads
  <1>3. {t \in Threads : pc[t] # "new"} = 1..k
    BY <1>1, <1>2
  <1>4. Cardinality(1..k) = k
    BY <1>1, FS_Interval
  <1> QED
    BY <1>3, <1>4 DEF Newest

LEMMA NewestType ==
  TypeOK => Newest \in 0..MaxStarts
  <1>1. IsFiniteSet(1..MaxStarts) /\ Cardinality(1..MaxStarts) = MaxStarts
    BY FS_Interval, StreamConstants
  <1>2. {t \in Threads : pc[t] # "new"} \in SUBSET (1..MaxStarts)
    BY DEF Threads
  <1> QED
    BY <1>1, <1>2, FS_Subset, FS_CardinalityType, StreamConstants DEF Newest

LEMMA NewestStep ==
  ASSUME \A t \in Threads : pc'[t] = "new" <=> pc[t] = "new"
  PROVE  Newest' = Newest
  BY DEF Newest

LEMMA NewestStarted ==
  ASSUME TypeOK, ToggleInv, ShowStarted
  PROVE  /\ Newest' = Newest + 1
         /\ Newest + 1 \in Threads /\ pc[Newest + 1] = "new"
         /\ pc'[Newest + 1] = "open"
         /\ \A t \in Threads : t # Newest + 1 => pc'[t] = pc[t]
  <1> DEFINE k == Newest
  <1>1. k \in 0..MaxStarts /\ k + 1 \in Threads /\ k < MaxStarts
    BY NewestType, StreamConstants DEF ToggleInv, ShowStarted, Threads
  <1>2. pc' = [pc EXCEPT ![k + 1] = "open"] /\ pc[k + 1] = "new"
    BY <1>1 DEF ShowStarted, ToggleInv
  <1>3. \A t \in Threads : pc'[t] = IF t = k + 1 THEN "open" ELSE pc[t]
    BY <1>2 DEF TypeOK
  <1>4. \A t \in Threads : pc[t] # "new" <=> t <= k
    BY DEF ToggleInv
  <1> HIDE DEF k
  <1>5. k \in Nat /\ 1..k + 1 \subseteq Threads
    BY <1>1, StreamConstants DEF Threads
  <1>6. \A t \in Threads : pc'[t] # "new" <=> t \in 1..k + 1
    BY <1>3, <1>4, <1>5 DEF Threads
  <1>7. {t \in Threads : pc'[t] # "new"} = 1..k + 1
    BY <1>5, <1>6
  <1>8. Cardinality(1..k + 1) = k + 1
    BY <1>5, FS_Interval
  <1>9. Newest' = k + 1
    BY <1>7, <1>8 DEF Newest
  <1> QED
    BY <1>1, <1>2, <1>3, <1>9 DEF k

LEMMA ToggleStep ==
  ASSUME TypeOK, ToggleInv, LastStartInv, [Next]_vars
  PROVE  ToggleInv' /\ LastStartInv'
  <1>0. Newest \in 0..MaxStarts
    BY NewestType
  <1>1. CASE ClickStart \/ ClickStop \/ ShowStopped
    <2>1. pc' = pc
      BY <1>1 DEF ClickStart, ClickStop, ShowStopped, threads
    <2>2. Newest' = Newest
      BY <2>1 DEF Newest
    <2> QED
      BY <1>1, <2>1, <2>2 DEF ToggleInv, LastStartInv, ClickStart, ClickStop, ShowStopped, TypeOK
  <1>2. CASE ShowStarted
    <2>1. \A t \in Threads : pc'[t] # "new" <=> t <= Newest'
      BY <1>0, <1>2, NewestStarted, StreamConstants DEF ToggleInv, Threads
    <2>2. ui' = "idle" /\ label' = "Stop" /\ micRunning' = micRunning /\ ui = "starting"
      BY <1>2 DEF ShowStarted
    <2>3. Newest' > 0 /\ pc'[Newest'] = "open"
      BY <1>0, <1>2, NewestStarted
    <2> QED
      BY <2>1, <2>2, <2>3 DEF ToggleInv, LastStartInv
  <1>3. ASSUME NEW t \in Threads, Turn(t) \/ ReadAndSend(t)
        PROVE  ToggleInv' /\ LastStartInv'
    <2>1. UNCHANGED button /\ \A u \in Threads : pc'[u] = "new" <=> pc[u] = "new"
      BY <1>3, TurnFacts
    <2>2. Newest' = Newest
      BY <2>1, NewestStep
    <2>3. micRunning => pc'[t] # "closing" /\ (pc'[t] = "ended" => pc[t] = "closing")
      BY <1>3 DEF Turn, OpenStream, OpenFails, CheckFlag, ReadFails, CloseStream, ReadAndSend,
                  Goto, TypeOK
    <2>4. \A u \in Threads : u # t => pc'[u] = pc[u]
      BY <1>3, TurnFacts
    <2>5. LastStartInv'
      BY <1>0, <2>1, <2>2, <2>3, <2>4 DEF LastStartInv, button, Threads
    <2> QED
      BY <2>1, <2>2, <2>5 DEF ToggleInv, button
  <1>4. CASE Arrive \/ RecvPacket \/ WriteSamples \/ Tick \/ UNCHANGED vars
    <2>1. UNCHANGED <<button, pc>>
      BY <1>4 DEF Arrive, RecvPacket, WriteSamples, Tick, vars, threads
    <2>2. Newest' = Newest
      BY <2>1 DEF Newest
    <2> QED
      BY <2>1, <2>2 DEF ToggleInv, LastStartInv, button
  <1> QED
    BY NextCases, <1>1, <1>2, <1>3, <1>4 DEF Turn

LEMMA SingleStep ==
  ASSUME TypeOK, ToggleInv, SingleInv, [Next]_vars
  PROVE  SingleInv'
  <1> USE DEF Streaming
  <1>1. CASE ClickStart
    <2>1. ~hasty' => ~hasty /\ \A t \in Threads : pc[t] \notin Streaming
      BY <1>1 DEF ClickStart
    <2>2. UNCHANGED threads
      BY <1>1 DEF ClickStart
    <2> QED
      BY <2>1, <2>2 DEF SingleInv, threads
  <1>2. CASE ClickStop \/ ShowStopped
    BY <1>2 DEF ClickStop, ShowStopped, SingleInv, threads
  <1>3. CASE ShowStarted
    <2>1. ui = "starting" /\ ui' = "idle" /\ UNCHANGED <<hasty, captured, sent>>
      BY <1>3 DEF ShowStarted
    <2>2. \A t \in Threads : IF t = Newest + 1 THEN pc[t] = "new" /\ pc'[t] = "open"
                                               ELSE pc'[t] = pc[t]
      BY <1>3, NewestStarted
    <2> QED
      BY <2>1, <2>2 DEF SingleInv
  <1>4. ASSUME NEW t \in Threads, Turn(t) \/ ReadAndSend(t)
        PROVE  SingleInv'
    <2>1. /\ UNCHANGED <<button, device>>
          /\ \A u \in Threads : u # t => pc'[u] = pc[u] /\ captured'[u] = captured[u]
          /\ pc'[t] # "new"
      BY <1>4, TurnFacts
    <2>2. /\ pc'[t] # "open"
          /\ pc'[t] \in Streaming => pc[t] \in Streaming
      BY <1>4 DEF Turn, OpenStream, OpenFails, CheckFlag, ReadFails, CloseStream, ReadAndSend,
                  Goto, TypeOK
    <2>3. /\ pc'[t] = "read" => sent' < MaxPackets
          /\ sent' # sent => pc[t] = "read" /\ pc'[t] = "check"
      BY <1>4 DEF Turn, OpenStream, OpenFails, CheckFlag, ReadFails, CloseStream, ReadAndSend,
                  Goto, TypeOK
    <2> QED
      BY <2>1, <2>2, <2>3 DEF SingleInv, button
  <1>5. CASE Arrive \/ RecvPacket \/ WriteSamples \/ UNCHANGED vars
    BY <1>5 DEF Arrive, RecvPacket, WriteSamples, vars, SingleInv, button, threads
  <1>6. CASE Tick
    <2>1. UNCHANGED <<button, pc, sent>>
          /\ \A t \in Threads : t \notin Recording => captured'[t] = captured[t]
      BY <1>6 DEF Tick
    <2> QED
      BY <2>1 DEF SingleInv, Recording, button
  <1> QED
    BY NextCases, <1>1, <1>2, <1>3, <1>4, <1>5, <1>6 DEF Turn

-----------------------------------------------------------------------------
(* The account of the audio under way.                                      *)

LEMMA Times ==
  ASSUME NEW a \in Nat, NEW b \in Nat
  PROVE  a * b \in Nat /\ a * (b + 1) = a * b + a
  OBVIOUS

LEMMA Plus == \A a, b \in Nat : a + b \in Nat
  OBVIOUS

LEMMA Larger ==
  ASSUME NEW a \in Nat, NEW b \in Nat, NEW c \in Nat, b <= c
  PROVE  a * b <= a * c
  <1>1. PICK d \in Nat : c = b + d
    <2>1. c - b \in Nat /\ c = b + (c - b)
      OBVIOUS
    <2> QED
      BY <2>1
  <1>2. a * (b + d) = a * b + a * d /\ a * d \in Nat /\ a * b \in Nat
    OBVIOUS
  <1> QED
    BY <1>1, <1>2

LEMMA Sizes ==
  ASSUME TypeOK
  PROVE  /\ Chunk \in Nat \ {0} /\ Header \in Nat /\ Packet \in Nat /\ Packet = Chunk + Header
         /\ {Dma, Mailbox, Flight} \subseteq Nat \ {0} /\ MaxPackets \in Nat
         /\ dma \in Nat /\ left \in Nat /\ mailbox \in Nat /\ net \in Nat /\ sent \in Nat
         /\ Packet * (mailbox + net) \in Nat /\ Header * sent \in Nat /\ Flight * Packet \in Nat
         /\ Backlog \in Nat /\ Allowance \in Nat
         /\ \A t \in Threads : captured[t] \in Nat
  BY StreamConstants, Times DEF TypeOK, Packet, Backlog, Allowance

LEMMA SizesAfter ==
  ASSUME TypeOK'
  PROVE  /\ mailbox' + net' \in Nat /\ dma' + left' \in Nat
         /\ Backlog' \in Nat /\ Allowance' \in Nat
         /\ \A t \in Threads : captured'[t] \in Nat
  <1>1. /\ Chunk \in Nat /\ Packet \in Nat /\ Header \in Nat /\ Flight \in Nat
        /\ Dma \in Nat /\ Mailbox \in Nat /\ MaxPackets \in Nat
    BY StreamConstants DEF Packet
  <1>2. /\ dma' \in 0..Dma /\ left' \in 0..Packet /\ mailbox' \in 0..Mailbox
        /\ net' \in 0..Flight /\ sent' \in 0..MaxPackets
        /\ \A t \in Threads : captured'[t] \in 0..Chunk
    BY DEF TypeOK
  <1>3. dma' \in Nat /\ left' \in Nat /\ mailbox' \in Nat /\ net' \in Nat /\ sent' \in Nat
    BY <1>1, <1>2
  <1>4. ASSUME NEW t \in Threads PROVE captured'[t] \in Nat
    BY <1>1, <1>2
  <1>5. mailbox' + net' \in Nat /\ dma' + left' \in Nat
    BY <1>3, Plus
  <1>6. Packet * (mailbox' + net') \in Nat /\ Header * sent' \in Nat /\ Flight * Packet \in Nat
    BY <1>1, <1>3, <1>5, Times
  <1>7. Backlog' \in Nat
    BY <1>3, <1>5, <1>6, Plus DEF Backlog
  <1>8. Allowance' \in Nat
    BY <1>1, <1>6 DEF Allowance
  <1> QED
    BY <1>4, <1>5, <1>7, <1>8

(* The device passes audio on, and loses it only at the mailbox. *)
LEMMA DeviceFacts ==
  ASSUME TypeOK, TypeOK', Arrive \/ RecvPacket \/ WriteSamples
  PROVE  /\ Backlog' <= Backlog /\ Allowance' = Allowance
         /\ dma' + left' >= dma + left
         /\ mailbox' + net' <= mailbox + net
         /\ UNCHANGED <<hasty, pc, captured, sent>>
  <1> USE Sizes
  <1>1. CASE Arrive
    <2>1. /\ UNCHANGED <<button, threads, left, dma>>
          /\ net > 0 /\ net' = net - 1
          /\ mailbox' = IF mailbox + 1 < Mailbox THEN mailbox + 1 ELSE Mailbox
          /\ mailbox <= Mailbox
      BY <1>1 DEF Arrive, Lesser, TypeOK
    <2>3. mailbox' + net' <= mailbox + net /\ mailbox' + net' \in Nat
      BY <2>1
    <2>2. Packet * (mailbox' + net') <= Packet * (mailbox + net)
          /\ Packet * (mailbox' + net') \in Nat
      BY <2>3, Larger, Times
    <2> QED
      BY <2>1, <2>2, <2>3 DEF Backlog, Allowance, button, threads
  <1>2. CASE RecvPacket
    <2>1. /\ UNCHANGED <<button, threads, net, dma>> /\ left = 0 /\ left' = Packet
          /\ mailbox' \in Nat /\ mailbox = mailbox' + 1
      BY <1>2 DEF RecvPacket, TypeOK
    <2>2. mailbox' + net \in Nat /\ mailbox + net = (mailbox' + net) + 1
      BY <2>1
    <2>3. Packet * (mailbox + net) = Packet * (mailbox' + net) + Packet
          /\ Packet * (mailbox' + net) \in Nat
      BY <2>2, Times
    <2> QED
      BY <2>1, <2>2, <2>3 DEF Backlog, Allowance, button, threads
  <1>3. CASE WriteSamples
    <2>1. UNCHANGED <<button, threads, net, mailbox>> /\ dma' + left' = dma + left
      BY <1>3 DEF WriteSamples, Lesser, TypeOK
    <2> QED
      BY <2>1 DEF Backlog, Allowance, button, threads
  <1> QED
    BY <1>1, <1>2, <1>3

(* A packet is as long as the time in which it was recorded, and its header. *)
LEMMA SendFacts ==
  ASSUME TypeOK, TypeOK', NEW t \in Threads, ReadAndSend(t), sent < MaxPackets
  PROVE  /\ Backlog' <= Backlog + Packet /\ Allowance' = Allowance + Header
         /\ mailbox' = mailbox /\ net' <= net + 1
         /\ UNCHANGED <<dma, left, dropped, hasty>>
         /\ pc[t] = "read" /\ captured[t] = Chunk /\ pc'[t] = "check" /\ captured'[t] = 0
         /\ \A u \in Threads : u # t => pc'[u] = pc[u] /\ captured'[u] = captured[u]
  <1> USE Sizes
  <1>1. /\ UNCHANGED <<button, device>> /\ sent' = sent + 1
        /\ net' = net \/ net' = net + 1
        /\ pc[t] = "read" /\ captured[t] = Chunk
      BY DEF ReadAndSend, Goto, Lesser
  <1>2. /\ pc'[t] = "check" /\ captured'[t] = 0
        /\ \A u \in Threads : u # t => pc'[u] = pc[u] /\ captured'[u] = captured[u]
      BY DEF ReadAndSend, Goto, TypeOK
  <1>3. Header * sent' = Header * sent + Header
    BY <1>1, Times
  <1>4. Packet * (mailbox + net') <= Packet * (mailbox + net) + Packet
        /\ Packet * (mailbox + net') \in Nat
    <2>1. mailbox + net \in Nat /\ mailbox + (net + 1) = (mailbox + net) + 1
      OBVIOUS
    <2>2. Packet * ((mailbox + net) + 1) = Packet * (mailbox + net) + Packet
      BY <2>1, Times
    <2> QED
      BY <1>1, <2>1, <2>2
  <1> QED
    BY <1>1, <1>2, <1>3, <1>4 DEF Backlog, Allowance, button, device

(* In a tick what is recorded is also played, unless the device has run dry; then
   what is under way is on the network. *)
LEMMA TickFacts ==
  ASSUME TypeOK, TypeOK', Tick
  PROVE  /\ UNCHANGED <<pc, hasty, sent, net, mailbox, left, dropped>> /\ Allowance' = Allowance
         /\ \A t \in Threads : t \in Recording => captured'[t] <= captured[t] + 1
         /\ mailbox > 0 => left > 0
         /\ left > 0 => dma = Dma
         /\ IF dma > 0 THEN dma' = dma - 1 /\ Backlog' = Backlog - 1
                       ELSE dma' = 0 /\ left' = 0 /\ mailbox' = 0 /\ Backlog' = Packet * net
  <1> USE Sizes
  <1>1. /\ UNCHANGED <<button, pc, sent, net, mailbox, left, dropped>>
        /\ dma' = IF dma > 0 THEN dma - 1 ELSE 0
    BY DEF Tick
  <1>2. \A t \in Threads : t \in Recording => captured'[t] <= captured[t] + 1
    BY DEF Tick, Lesser
  <1>3. (mailbox > 0 => left > 0) /\ (left > 0 => dma = Dma)
    BY DEF Tick, Busy, TypeOK
  <1>4. CASE dma > 0
    BY <1>1, <1>2, <1>3, <1>4 DEF Backlog, Allowance, button
  <1>5. CASE dma = 0
    <2>1. left = 0 /\ mailbox = 0
      BY <1>3, <1>5
    <2> QED
      BY <1>1, <1>2, <1>3, <1>5, <2>1 DEF Backlog, Allowance, button
  <1> QED
    BY <1>4, <1>5

(* Steps that touch neither the network nor the device keep the account: a stream
   that is opened has recorded nothing yet. *)
LEMMA AsideFacts ==
  ASSUME TypeOK, TypeOK', ToggleInv, SingleInv,
         \/ ClickStart \/ ShowStarted \/ ClickStop \/ ShowStopped
         \/ (\E t \in Threads : Turn(t)) \/ UNCHANGED vars
  PROVE  /\ UNCHANGED <<sent, net, mailbox, left, dma, dropped>>
         /\ hasty => hasty'
         /\ Backlog' = Backlog /\ Allowance' = Allowance
         /\ \A u \in Threads : u \in Recording' /\ u \notin Recording => captured'[u] = 0
         /\ \A u \in Threads : u \in Recording' /\ u \in Recording => captured'[u] = captured[u]
  <1>1. CASE ClickStart \/ ClickStop \/ ShowStopped \/ UNCHANGED vars
    <2>1. UNCHANGED <<pc, captured, sent, net, mailbox, left, dma, dropped>>
          /\ (hasty => hasty')
      BY <1>1 DEF ClickStart, ClickStop, ShowStopped, vars, button, threads, device, TypeOK
    <2> QED
      BY <2>1 DEF Backlog, Allowance, Recording
  <1>2. CASE ShowStarted
    <2>1. UNCHANGED <<hasty, captured, sent, net, device>>
      BY <1>2 DEF ShowStarted
    <2>2. \A u \in Threads : IF u = Newest + 1 THEN pc[u] = "new" /\ pc'[u] = "open"
                                               ELSE pc'[u] = pc[u]
      BY <1>2, NewestStarted
    <2> QED
      BY <2>1, <2>2 DEF device, Backlog, Allowance, Recording
  <1>3. ASSUME NEW t \in Threads, Turn(t)
        PROVE  /\ UNCHANGED <<sent, net, mailbox, left, dma, dropped, hasty>>
               /\ \A u \in Threads : u # t => pc'[u] = pc[u] /\ captured'[u] = captured[u]
               /\ t \in Recording' /\ t \notin Recording => captured'[t] = 0
               /\ t \in Recording' /\ t \in Recording => captured'[t] = captured[t]
    <2>1. /\ UNCHANGED <<button, device>>
          /\ \A u \in Threads : u # t => pc'[u] = pc[u] /\ captured'[u] = captured[u]
      BY <1>3, TurnFacts
    <2>2. UNCHANGED <<sent, net>>
      BY <1>3 DEF Turn, OpenStream, OpenFails, CheckFlag, ReadFails, CloseStream
    <2>3. pc'[t] \in {"check", "read"} =>
            /\ captured'[t] = captured[t]
            /\ pc[t] \in {"open", "check", "read"}
      BY <1>3 DEF Turn, OpenStream, OpenFails, CheckFlag, ReadFails, CloseStream, Goto, TypeOK
    <2> QED
      BY <2>1, <2>2, <2>3 DEF SingleInv, Recording, button, device
  <1>4. CASE \E t \in Threads : Turn(t)
    BY <1>3, <1>4 DEF Backlog, Allowance, Recording
  <1> QED
    BY <1>1, <1>2, <1>4

Aside ==
  \/ ClickStart \/ ShowStarted \/ ClickStop \/ ShowStopped
  \/ (\E t \in Threads : Turn(t)) \/ UNCHANGED vars

LEMMA StepCases ==
  ASSUME [Next]_vars
  PROVE  \/ Aside \/ (\E t \in Threads : ReadAndSend(t))
         \/ Arrive \/ RecvPacket \/ WriteSamples \/ Tick
  BY NextCases DEF Aside, Turn

LEMMA SurplusStep ==
  ASSUME TypeOK, TypeOK', ToggleInv, SingleInv, SurplusInv, [Next]_vars
  PROVE  SurplusInv'
  <1> USE Sizes
  <1> SUFFICES ASSUME ~hasty'
               PROVE  /\ Backlog' <= Allowance'
                      /\ \A t \in Recording' : Backlog' + captured'[t] <= Allowance'
    BY DEF SurplusInv
  <1>0. Backlog' \in Nat /\ Allowance' \in Nat /\ \A t \in Threads : captured'[t] \in Nat
    BY SizesAfter
  <1>1. CASE Aside
    <2>1. /\ ~hasty /\ Backlog' = Backlog /\ Allowance' = Allowance
          /\ \A u \in Threads : u \in Recording' /\ u \notin Recording => captured'[u] = 0
          /\ \A u \in Threads : u \in Recording' /\ u \in Recording => captured'[u] = captured[u]
      BY <1>1, AsideFacts DEF Aside
    <2> QED
      BY <2>1 DEF SurplusInv, Recording
  <1>2. ASSUME NEW t \in Threads, ReadAndSend(t)
        PROVE  /\ Backlog' <= Allowance'
               /\ \A u \in Recording' : Backlog' + captured'[u] <= Allowance'
    <2>1. ~hasty /\ pc[t] = "read"
      BY <1>2 DEF ReadAndSend, Goto, button
    <2>2. sent < MaxPackets
      BY <2>1 DEF SingleInv
    <2>3. /\ Backlog' <= Backlog + Packet /\ Allowance' = Allowance + Header
          /\ captured[t] = Chunk /\ pc'[t] = "check" /\ captured'[t] = 0
          /\ \A u \in Threads : u # t => pc'[u] = pc[u]
      BY <1>2, <2>2, SendFacts
    <2>4. Backlog + Chunk <= Allowance
      BY <2>1, <2>3 DEF SurplusInv, Recording
    <2>5. \A u \in Recording' : u = t
      BY <2>1, <2>3 DEF SingleInv, Recording, Streaming
    <2> QED
      BY <1>0, <2>3, <2>4, <2>5
  <1>3. CASE Arrive \/ RecvPacket \/ WriteSamples
    <2>1. Backlog' <= Backlog /\ Allowance' = Allowance /\ UNCHANGED <<hasty, pc, captured>>
      BY <1>3, DeviceFacts
    <2> QED
      BY <1>0, <2>1 DEF SurplusInv, Recording
  <1>4. CASE Tick
    <2>1. UNCHANGED <<pc, hasty>> /\ Allowance' = Allowance
      BY <1>4, TickFacts
    <2>2. \A t \in Recording' : t \in Threads /\ t \in Recording /\ captured'[t] <= captured[t] + 1
                                /\ captured'[t] <= Chunk
      BY <1>4, <2>1, TickFacts DEF Recording, TypeOK
    <2>3. CASE dma > 0
      <3>1. Backlog' = Backlog - 1
        BY <1>4, <2>3, TickFacts
      <3> QED
        BY <1>0, <2>1, <2>2, <3>1 DEF SurplusInv
    <2>4. CASE ~(dma > 0)
      <3>1. Backlog' = Packet * net
        BY <1>4, <2>4, TickFacts
      <3>2. Packet * net <= Packet * Flight /\ Packet * Flight = Flight * Packet
        BY Larger, StreamConstants DEF TypeOK
      <3>3. Backlog' + Chunk <= Allowance
        BY <3>1, <3>2, Times DEF Allowance
      <3> QED
        BY <1>0, <2>1, <2>2, <3>3
    <2> QED
      BY <2>3, <2>4
  <1> QED
    BY <1>1, <1>2, <1>3, <1>4, StepCases

LEMMA MailboxStep ==
  ASSUME TypeOK, TypeOK', ToggleInv, SingleInv, MailboxInv, [Next]_vars
  PROVE  MailboxInv'
  <1> USE Sizes
  <1> SUFFICES ASSUME ~hasty', dma' + left' < Dma
               PROVE  /\ mailbox' + net' <= Flight + 1
                      /\ \A t \in Recording' : captured'[t] = Chunk => mailbox' + net' <= Flight
    BY DEF MailboxInv
  <1>0. mailbox' + net' \in Nat /\ dma' + left' \in Nat
    BY SizesAfter
  <1>1. CASE Aside
    <2>1. /\ ~hasty /\ UNCHANGED <<mailbox, net, dma, left>>
          /\ \A u \in Threads : u \in Recording' /\ u \notin Recording => captured'[u] = 0
          /\ \A u \in Threads : u \in Recording' /\ u \in Recording => captured'[u] = captured[u]
      BY <1>1, AsideFacts DEF Aside
    <2> QED
      BY <2>1 DEF MailboxInv, Recording
  <1>2. ASSUME NEW t \in Threads, ReadAndSend(t)
        PROVE  /\ mailbox' + net' <= Flight + 1
               /\ \A u \in Recording' : captured'[u] = Chunk => mailbox' + net' <= Flight
    <2>1. ~hasty /\ pc[t] = "read"
      BY <1>2 DEF ReadAndSend, Goto, button
    <2>2. sent < MaxPackets
      BY <2>1 DEF SingleInv
    <2>3. /\ mailbox' = mailbox /\ net' <= net + 1 /\ UNCHANGED <<dma, left>>
          /\ captured[t] = Chunk /\ pc'[t] = "check" /\ captured'[t] = 0
          /\ \A u \in Threads : u # t => pc'[u] = pc[u]
      BY <1>2, <2>2, SendFacts
    <2>4. mailbox + net <= Flight
      BY <2>1, <2>3 DEF MailboxInv, Recording
    <2>5. \A u \in Recording' : u = t
      BY <2>1, <2>3 DEF SingleInv, Recording, Streaming
    <2>6. \A u \in Recording' : captured'[u] # Chunk
      BY <2>3, <2>5
    <2>7. mailbox' + net' <= Flight + 1
      BY <1>0, <2>3, <2>4, StreamConstants DEF TypeOK
    <2> QED
      BY <2>6, <2>7
  <1>3. CASE Arrive \/ RecvPacket \/ WriteSamples
    <2>1. /\ dma' + left' >= dma + left /\ mailbox' + net' <= mailbox + net
          /\ UNCHANGED <<hasty, pc, captured>>
      BY <1>3, DeviceFacts
    <2> QED
      BY <1>0, <2>1 DEF MailboxInv, Recording
  <1>4. CASE Tick
    <2>1. /\ UNCHANGED <<net, mailbox, left>>
          /\ mailbox > 0 => left > 0
          /\ left > 0 => dma = Dma
          /\ dma' = IF dma > 0 THEN dma - 1 ELSE 0
      BY <1>4, TickFacts DEF Tick
    <2>2. left = 0 /\ mailbox = 0
      BY <2>1
    <2>3. net <= Flight
      BY DEF TypeOK
    <2> QED
      BY <2>1, <2>2, <2>3
  <1> QED
    BY <1>1, <1>2, <1>3, <1>4, StepCases

(* When the mailbox overflows it holds more than the network could hand over at once,
   so the DMA buffers are full, and what is in there is under the allowance. *)
LEMMA FillsStep ==
  ASSUME TypeOK, TypeOK', ToggleInv, SingleInv, SurplusInv, MailboxInv, SurplusFillsFirst,
         [Next]_vars
  PROVE  SurplusFillsFirst'
  <1> USE Sizes
  <1> SUFFICES ASSUME dropped', ~hasty', Flight < Mailbox
               PROVE  Header * sent' + Flight * Packet >= Dma + Mailbox * Packet
    BY DEF SurplusFillsFirst
  <1>1. CASE dropped /\ ~hasty
    <2>1. sent' >= sent /\ sent' \in Nat
      <3>1. sent' = sent \/ sent' = Lesser(sent + 1, MaxPackets)
        BY StepCases DEF Aside, ClickStart, ShowStarted, ClickStop, ShowStopped, Turn, OpenStream,
           OpenFails, CheckFlag, ReadFails, CloseStream, ReadAndSend, Arrive, RecvPacket,
           WriteSamples, Tick, vars, threads
      <3> QED
        BY <3>1 DEF Lesser, TypeOK
    <2>2. Header * sent <= Header * sent' /\ Header * sent' \in Nat
      BY <2>1, Larger, Times
    <2>3. Header * sent + Flight * Packet >= Dma + Mailbox * Packet
      BY <1>1 DEF SurplusFillsFirst
    <2>4. Mailbox * Packet \in Nat
      BY Times
    <2> QED
      BY <2>2, <2>3, <2>4
  <1>2. CASE ~dropped /\ ~hasty
    <2>1. Arrive /\ mailbox = Mailbox
      <3>1. CASE Aside
        BY <1>2, <3>1, AsideFacts DEF Aside
      <3>2. CASE \E t \in Threads : ReadAndSend(t)
        BY <1>2, <3>2 DEF ReadAndSend, device
      <3>3. CASE RecvPacket \/ WriteSamples \/ Tick
        BY <1>2, <3>3 DEF RecvPacket, WriteSamples, Tick
      <3>4. CASE Arrive
        BY <1>2, <3>4 DEF Arrive
      <3> QED
        BY <3>1, <3>2, <3>3, <3>4, StepCases
    <2>2. net >= 1 /\ sent' = sent
      BY <2>1 DEF Arrive, threads
    <2>3. dma + left >= Dma
      BY <1>2, <2>1, <2>2 DEF MailboxInv
    <2>4. Packet * (Mailbox + 1) <= Packet * (mailbox + net)
      BY <2>1, <2>2, Larger
    <2>5. Packet * (Mailbox + 1) = Packet * Mailbox + Packet /\ Packet * Mailbox \in Nat
          /\ Packet * Mailbox = Mailbox * Packet
      BY Times
    <2>6. Backlog >= Dma + Packet * Mailbox + Packet
      BY <2>3, <2>4, <2>5 DEF Backlog
    <2>7. Backlog <= Header * sent + Flight * Packet + Chunk
      BY <1>2 DEF SurplusInv, Allowance
    <2> QED
      BY <2>2, <2>5, <2>6, <2>7
  <1>3. CASE hasty
    <2>1. hasty'
      BY <1>3, StepCases, AsideFacts DEF Aside, ReadAndSend, Arrive, RecvPacket, WriteSamples,
         Tick, button
    <2> QED
      BY <2>1
  <1> QED
    BY <1>1, <1>2, <1>3

(* The invariant holds in every reachable state. *)
THEOREM StreamInvCorrect == Spec => []IInv
  <1>1. Init => IInv
    <2> SUFFICES ASSUME Init PROVE IInv
      OBVIOUS
    <2>1. TypeOK
      <3>1. captured \in [Threads -> 0..Chunk]
        BY StreamConstants DEF Init
      <3>2. 0 \in 0..MaxPackets /\ 0 \in 0..Flight /\ 0 \in 0..Mailbox /\ 0 \in 0..Packet
            /\ 0 \in 0..Dma
        BY StreamConstants DEF Packet
      <3> QED
        BY <3>1, <3>2 DEF Init, TypeOK
    <2>2. Newest = 0
      BY StreamConstants, NewestFacts DEF Init, Threads
    <2>3. ToggleInv /\ LastStartInv
      BY <2>2, StreamConstants DEF Init, ToggleInv, LastStartInv, Threads
    <2>4. SingleInv
      BY DEF Init, SingleInv, Streaming
    <2>5. Recording = {} /\ Backlog = 0
      BY <2>1, Sizes DEF Init, Recording, Backlog
    <2>6. SurplusInv /\ MailboxInv
      BY <2>1, <2>5, Sizes DEF Init, SurplusInv, MailboxInv
    <2> QED
      BY <2>1, <2>3, <2>4, <2>6 DEF IInv, Init, SurplusFillsFirst
  <1>2. IInv /\ [Next]_vars => IInv'
    BY TypeStep, ToggleStep, SingleStep, SurplusStep, MailboxStep, FillsStep DEF IInv
  <1> QED
    BY <1>1, <1>2, PTL DEF Spec

(* Every variable keeps its type: neither the mailbox nor the DMA buffers hold more
   than they have room for (udp_client.c:178). *)
THEOREM StreamTypeCorrect == Spec => []TypeOK
  <1>1. IInv => TypeOK
    BY DEF IInv
  <1> QED
    BY <1>1, StreamInvCorrect, PTL

(* The button never reads "Stop Mic Stream" over a thread that took its end, however
   quickly it is clicked and however slowly older threads end (server.py:93, 104). *)
THEOREM StopMeansStreamingCorrect == Spec => []StopMeansStreaming
  <1>1. IInv => StopMeansStreaming
    BY DEF IInv, ToggleInv, LastStartInv, StopMeansStreaming
  <1> QED
    BY <1>1, StreamInvCorrect, PTL

(* Packets are lost at the device only when the surplus of the packets sent and what
   the network held back fill its buffers, for all sizes of these (udp_client.c:178). *)
THEOREM SurplusFillsFirstCorrect == Spec => []SurplusFillsFirst
  <1>1. IInv => SurplusFillsFirst
    BY DEF IInv
  <1> QED
    BY <1>1, StreamInvCorrect, PTL
=============================================================================
