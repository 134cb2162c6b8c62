---------------------------- MODULE AudioStream -----------------------------
(***************************************************************************)
(* The microphone stream: toggle_mic and audio_stream_thread of            *)
(* server/server.py, the datagrams on their way, udp_receive_task and      *)
(* audio_play_buffer on a device whose stream is set up (Audio), and the   *)
(* I2S DMA buffers.  Audio is counted in units of time: in one Tick every  *)
(* open microphone stream captures a unit and the amplifier plays one.     *)
(* Threads and tasks are quick: no tick passes while one could go on.      *)
(* Jitter is the network's, with up to Flight datagrams under way.         *)
(***************************************************************************)
EXTENDS Integers, FiniteSets

CONSTANTS
  Chunk,       \* units of audio in a packet (CHUNK = 512 samples)
  Header,      \* units a packet's sequence number plays for (2 samples)
  Dma,         \* units the DMA buffers hold (dma_buf_count * dma_buf_len)
  Mailbox,     \* datagrams lwIP keeps for the socket
  Flight,      \* bound: datagrams under way at once
  MaxStarts,   \* bound: microphone threads
  MaxPackets   \* bound: packets sent

ASSUME StreamConstants ==
  /\ {Chunk, Dma, Mailbox, Flight, MaxStarts} \subseteq Nat \ {0}
  /\ {Header, MaxPackets} \subseteq Nat

VARIABLES
  micRunning,  \* mic_running
  label,       \* text of mic_button: "Start" or "Stop"
  ui,          \* main thread: "idle", or between two statements of toggle_mic
  pc,          \* the microphone threads, in the order of their start
  captured,    \* units a thread's stream has captured and not yet read out
  sent,        \* packets sent by all threads
  net,         \* datagrams under way
  mailbox,     \* datagrams received and not yet taken by recvfrom
  left,        \* units that audio_play_buffer has still to write; 0 in recvfrom
  dma,         \* units written and not yet played
  dropped,     \* history: a datagram met a full mailbox
  hasty        \* history: a start came before an earlier thread was through

button == <<micRunning, label, ui, hasty>>
threads == <<pc, captured, sent>>
device == <<mailbox, left, dma, dropped>>
vars == <<button, threads, net, device>>

Threads == 1..MaxStarts
Packet == Chunk + Header
Lesser(a, b) == IF a < b THEN a ELSE b

Recording == {t \in Threads : pc[t] \in {"check", "read"}}
Newest == Cardinality({t \in Threads : pc[t] # "new"})

TypeOK ==
  /\ micRunning \in BOOLEAN /\ hasty \in BOOLEAN /\ dropped \in BOOLEAN
  /\ label \in {"Start", "Stop"} /\ ui \in {"idle", "starting", "stopping"}
  /\ pc \in [Threads -> {"new", "open", "check", "read", "closing", "failing",
                         "ended", "failed"}]
  /\ captured \in [Threads -> 0..Chunk]
  /\ sent \in 0..MaxPackets /\ net \in 0..Flight
  /\ mailbox \in 0..Mailbox /\ left \in 0..Packet /\ dma \in 0..Dma

Init ==
  /\ micRunning = FALSE /\ label = "Start" /\ ui = "idle" /\ hasty = FALSE
  /\ pc = [t \in Threads |-> "new"] /\ captured = [t \in Threads |-> 0]
  /\ sent = 0 /\ net = 0 /\ mailbox = 0 /\ left = 0 /\ dma = 0 /\ dropped = FALSE

-----------------------------------------------------------------------------
(* toggle_mic.  The flag changes first, in both directions; the threads run *)
(* between the statements.                                                  *)

ClickStart ==
  /\ ui = "idle" /\ ~micRunning /\ Newest < MaxStarts
  /\ micRunning' = TRUE /\ ui' = "starting"
  /\ hasty' = (hasty \/ \E t \in Threads : pc[t] \in {"open", "check", "read"})
  /\ UNCHANGED <<label, threads, net, device>>

ShowStarted ==
  /\ ui = "starting"
  /\ ui' = "idle" /\ label' = "Stop"
  /\ pc' = [pc EXCEPT ![Newest + 1] = "open"]
  /\ UNCHANGED <<micRunning, hasty, captured, sent, net, device>>

ClickStop ==
  /\ ui = "idle" /\ micRunning
  /\ micRunning' = FALSE /\ ui' = "stopping"
  /\ UNCHANGED <<label, hasty, threads, net, device>>

ShowStopped ==
  /\ ui = "stopping"
  /\ ui' = "idle" /\ label' = "Start"
  /\ UNCHANGED <<micRunning, hasty, threads, net, device>>

-----------------------------------------------------------------------------
(* audio_stream_thread.                                                     *)

Goto(t, from, to) == pc[t] = from /\ pc' = [pc EXCEPT ![t] = to]

OpenStream(t) ==
  /\ Goto(t, "open", "check")
  /\ UNCHANGED <<button, captured, sent, net, device>>

(* p.open raises: the finally block fails on the unbound stream, and nothing
   takes mic_running or the button back. *)
OpenFails(t) ==
  /\ Goto(t, "open", "failed")
  /\ UNCHANGED <<button, captured, sent, net, device>>

(* Mutant: the thread streams for ever. *)
CheckFlagIgnored(t) ==
  /\ sent < MaxPackets /\ Goto(t, "check", "read")
  /\ UNCHANGED <<button, captured, sent, net, device>>

CheckFlag(t) ==
  /\ IF micRunning THEN sent < MaxPackets /\ Goto(t, "check", "read")
                   ELSE Goto(t, "check", "closing")
  /\ UNCHANGED <<button, captured, sent, net, device>>

(* stream.read waits for a chunk; the packet is sent, and may be lost (it is where
   Flight datagrams are under way; the count of packets is capped). *)
ReadAndSend(t) ==
  /\ captured[t] = Chunk
  /\ Goto(t, "read", "check")
  /\ captured' = [captured EXCEPT ![t] = 0]
  /\ sent' = Lesser(sent + 1, MaxPackets)
  /\ \/ net < Flight /\ net' = net + 1
     \/ net' = net
  /\ UNCHANGED <<button, device>>

(* read or sendto raises. *)
ReadFails(t) ==
  /\ Goto(t, "read", "failing")
  /\ UNCHANGED <<button, captured, sent, net, device>>

(* Mutant: the thread takes the flag back when it ends. *)
CloseStreamClearsFlag(t) ==
  /\ pc[t] \in {"closing", "failing"}
  /\ pc' = [pc EXCEPT ![t] = IF @ = "closing" THEN "ended" ELSE "failed"]
  /\ captured' = [captured EXCEPT ![t] = 0]
  /\ micRunning' = FALSE
  /\ UNCHANGED <<label, ui, hasty, sent, net, device>>

(* The finally block; after an exception the flag and the button stay on. *)
CloseStream(t) ==
  /\ pc[t] \in {"closing", "failing"}
  /\ pc' = [pc EXCEPT ![t] = IF @ = "closing" THEN "ended" ELSE "failed"]
  /\ captured' = [captured EXCEPT ![t] = 0]
  /\ UNCHANGED <<button, sent, net, device>>

-----------------------------------------------------------------------------
(* The network and the device.                                              *)

Arrive ==
  /\ net > 0 /\ net' = net - 1
  /\ mailbox' = Lesser(mailbox + 1, Mailbox)
  /\ dropped' = (dropped \/ mailbox = Mailbox)
  /\ UNCHANGED <<button, threads, left, dma>>

(* Mutant: audio_play_buffer is given sizeof(rx_buffer) instead of received. *)
RecvPacketWhole ==
  /\ left = 0 /\ mailbox > 0
  /\ mailbox' = mailbox - 1
  /\ left' = Packet + Chunk
  /\ UNCHANGED <<button, threads, net, dma, dropped>>

(* Everything received is played, the sequence number included. *)
RecvPacket ==
  /\ left = 0 /\ mailbox > 0
  /\ mailbox' = mailbox - 1
  /\ left' = Packet
  /\ UNCHANGED <<button, threads, net, dma, dropped>>

(* i2s_write with portMAX_DELAY: it returns when all is written. *)
WriteSamples ==
  LET n == Lesser(left, Dma - dma)
  IN /\ n > 0
     /\ left' = left - n /\ dma' = dma + n
     /\ UNCHANGED <<button, threads, net, mailbox, dropped>>

(* What a thread or the receiving task does at once. *)
Busy ==
  \/ \E t \in Threads : \/ pc[t] \in {"open", "closing", "failing"}
                        \/ pc[t] = "check" /\ (micRunning => sent < MaxPackets)
                        \/ pc[t] = "read" /\ captured[t] = Chunk
  \/ left = 0 /\ mailbox > 0
  \/ left > 0 /\ dma < Dma

(* Without samples the DMA plays zeros (tx_desc_auto_clear). *)
Tick ==
  /\ ~Busy
  /\ captured' = [t \in Threads |-> IF t \in Recording THEN Lesser(captured[t] + 1, Chunk)
                                                       ELSE captured[t]]
  /\ dma' = IF dma > 0 THEN dma - 1 ELSE 0
  /\ UNCHANGED <<button, pc, sent, net, mailbox, left, dropped>>

Thread(t) == OpenStream(t) \/ CheckFlag(t) \/ ReadAndSend(t) \/ CloseStream(t)
Next ==
  \/ ClickStart \/ ShowStarted \/ ClickStop \/ ShowStopped
  \/ \E t \in Threads : Thread(t) \/ OpenFails(t) \/ ReadFails(t)
  \/ Arrive \/ RecvPacket \/ WriteSamples \/ Tick

Spec == Init /\ [][Next]_vars

(* Everything goes on but the clicks and the failures. *)
FairSpec ==
  /\ Spec
  /\ WF_vars(ShowStarted \/ ShowStopped) /\ \A t \in Threads : WF_vars(Thread(t))
  /\ WF_vars(Arrive) /\ WF_vars(RecvPacket \/ WriteSamples) /\ WF_vars(Tick)

-----------------------------------------------------------------------------
(* Properties.                                                              *)

(* The button reads "Stop Mic Stream" only over a thread that streams, or that an
   exception has ended: neither an earlier thread that ends late nor a quick stop and
   start takes the stream of the last start down. *)
StopMeansStreaming ==
  label = "Stop" /\ ui = "idle" => pc[Newest] \notin {"closing", "ended"}

(* A single stream loses no packet at the device before the sequence numbers played
   as samples have filled its buffers, but for the packets the network held back; a
   start before the earlier thread was through makes two streams at once, and a
   network that hands over more packets at once than the mailbox holds overruns it
   at any time. *)
SurplusFillsFirst ==
  dropped /\ ~hasty /\ Flight < Mailbox =>
    Header * sent + Flight * Packet >= Dma + Mailbox * Packet

(* After the last stop every thread ends, whatever it was doing, and the amplifier
   comes to play silence. *)
Silenced ==
  <>[]~micRunning => <>[](/\ \A t \in Threads : pc[t] \in {"new", "ended", "failed"}
                          /\ net = 0 /\ mailbox = 0 /\ left = 0 /\ dma = 0)
=============================================================================
