-------------------------------- MODULE Gui --------------------------------
(***************************************************************************)
(* The GUI task (main/gui.c) and the chat screen it drives (ui_events.c,   *)
(* ui_ChatScreen.c): the pass of the task's loop, the eight labels with    *)
(* their alignment, the rows their texts are copied from, and the single   *)
(* buffer through which a typed message reaches the send queue.            *)
(*                                                                         *)
(* A message is numbered when it is displayed.  Of its text only the size  *)
(* matters: "blank" starts with the terminator, "fits" leaves room for     *)
(* one, "full" fills all 64 bytes, so that memcpy copies no terminator.    *)
(***************************************************************************)
EXTENDS Integers, Sequences, FiniteSets

CONSTANTS
  Slots,      \* labels of ui_TextContainer and rows of message_buffer (8)
  QueueLen,   \* app_main.c: msg_queue_len
  Sizes,      \* subset of {"blank", "fits", "full"}
  MaxMsgs     \* bound: messages displayed

ASSUME GuiConstants ==
  /\ Slots \in Nat \ {0} /\ QueueLen \in Nat \ {0} /\ MaxMsgs \in Nat
  /\ Sizes \subseteq {"blank", "fits", "full"}

VARIABLES
  pc,          \* where _gui_task is in its loop
  recvQ,       \* *recv_queue: the sizes of the texts in it
  rows,        \* message_buffer
  idx,         \* idx
  labels,      \* text of each label: the messages whose characters it shows
  align,       \* alignment LVGL has for each label
  alignments,  \* the alignments array: 1 for right
  sendBuffer,  \* send_buffer: the message in it, 0 when send_buffer[0] is '\0'
  shown,       \* history: what was displayed, in order
  taken,       \* history: typed messages the send queue took
  dropped      \* history: typed messages dropped on a full send queue

screen == <<rows, idx, labels, align, alignments, shown>>
vars == <<pc, recvQ, screen, sendBuffer, taken, dropped>>

Slot == 0..Slots - 1
Text == [id : 0..MaxMsgs, size : {"blank", "fits", "full"}]
Empty == [id |-> 0, size |-> "blank"]
Garbage == 0          \* in a label: what follows message_buffer in memory
NoText == 0

TypeOK ==
  /\ pc \in {"recv", "handle", "flush"}
  /\ recvQ \in Seq(Sizes) /\ Len(recvQ) <= QueueLen
  /\ rows \in [Slot -> Text]
  /\ idx \in Slot
  /\ labels \in [Slot -> Seq(0..MaxMsgs)]
  /\ align \in [Slot -> {"left", "right"}]
  /\ alignments \in [Slot -> {0, 1}]
  /\ sendBuffer \in 0..MaxMsgs
  /\ shown \in Seq([size : Sizes, origin : {"remote", "local"}]) /\ Len(shown) <= MaxMsgs
  /\ taken \in Seq(1..MaxMsgs)
  /\ dropped \subseteq 1..MaxMsgs

Init ==
  /\ pc = "recv"
  /\ recvQ = <<>>
  /\ rows = [i \in Slot |-> Empty]
  /\ idx = 0
  /\ labels = [i \in Slot |-> <<>>]
  /\ align = [i \in Slot |-> "left"]
  /\ alignments = [i \in Slot |-> 0]
  /\ sendBuffer = NoText
  /\ shown = <<>>
  /\ taken = <<>>
  /\ dropped = {}

-----------------------------------------------------------------------------
(* recieve_message.                                                         *)

(* What lv_label_set_text reads from row i on, up to the first terminator: the
   rows that are full, one after the other, and the one behind them. *)
FullRun(r, i) == {k \in i..Slots - 1 : \A j \in i..k : r[j].size = "full"}
TextFrom(r, i, beyond) ==
  LET full == Cardinality(FullRun(r, i))
      behind == IF i + full = Slots THEN beyond
                ELSE IF r[i + full].size = "fits" THEN <<r[i + full].id>> ELSE <<>>
  IN [k \in 1..full |-> r[i + k - 1].id] \o behind

(* Mutant: the alignments are not moved with the texts. *)
ShiftedAlignmentsStay(i) == alignments[i]

(* A label takes over the text and the side of the one below it, unless that
   one is empty. *)
Shifts(i) == i # 0 /\ labels[i - 1] # <<>>
ShiftedAlignments(i) == IF Shifts(i) THEN alignments[i - 1] ELSE alignments[i]
SideOf(a) == IF a = 0 THEN "left" ELSE "right"

(* Mutant: the loop runs upwards, over labels already overwritten. *)
ShiftedLabelsUpwards(i) == IF i # 0 /\ labels[0] # <<>> THEN labels[0] ELSE labels[i]
ShiftedLabels(i) == IF Shifts(i) THEN labels[i - 1] ELSE labels[i]

(* Mutant: the index does not wrap. *)
NextRowUnwrapped(i) == i + 1
NextRow(i) == (i + 1) % Slots

(* The shift, then the new text in label 0, on the side of its origin
   (send_message moves its own message to the right). *)
Display(size, origin) ==
  LET id == Len(shown) + 1
      stored == [rows EXCEPT ![idx] = [id |-> id, size |-> size]]
  IN /\ rows' = stored
     /\ idx' = NextRow(idx)
     /\ \E beyond \in {<<>>, <<Garbage>>} :
          labels' = [i \in Slot |->
                       IF i = 0 THEN TextFrom(stored, idx, beyond) ELSE ShiftedLabels(i)]
     /\ alignments' = [i \in Slot |->
                         IF i = 0 THEN (IF origin = "local" THEN 1 ELSE 0)
                         ELSE ShiftedAlignments(i)]
     /\ align' = [i \in Slot |->
                    IF i = 0 \/ Shifts(i) THEN SideOf(alignments'[i]) ELSE align[i]]
     /\ shown' = Append(shown, [size |-> size, origin |-> origin])

-----------------------------------------------------------------------------
(* _gui_task.                                                               *)

(* xQueueReceive returns an item: ui_app_recieve_message. *)
TakeRemote ==
  /\ pc = "recv"
  /\ recvQ # <<>>
  /\ Display(Head(recvQ), "remote")
  /\ recvQ' = Tail(recvQ)
  /\ pc' = "handle"
  /\ UNCHANGED <<sendBuffer, taken, dropped>>

(* Nothing arrived within 10 ticks. *)
RecvTimeout ==
  /\ pc = "recv"
  /\ recvQ = <<>>
  /\ pc' = "handle"
  /\ UNCHANGED <<recvQ, screen, sendBuffer, taken, dropped>>

(* lv_task_handler delivers a click on the send button: send_message. *)
SendClicked(size) ==
  /\ pc = "handle"
  /\ Len(shown) + Len(recvQ) < MaxMsgs
  /\ Display(size, "local")
  /\ sendBuffer' = IF size = "blank" THEN NoText ELSE Len(shown) + 1
  /\ pc' = "flush"
  /\ UNCHANGED <<recvQ, taken, dropped>>

HandlerIdle ==
  /\ pc = "handle"
  /\ pc' = "flush"
  /\ UNCHANGED <<recvQ, screen, sendBuffer, taken, dropped>>

FlushNothing ==
  /\ pc = "flush"
  /\ sendBuffer = NoText
  /\ pc' = "recv"
  /\ UNCHANGED <<recvQ, screen, sendBuffer, taken, dropped>>

(* Mutant: the buffer is not cleared after it was queued. *)
FlushAcceptedKeeps ==
  /\ pc = "flush"
  /\ sendBuffer # NoText
  /\ taken' = Append(taken, sendBuffer)
  /\ pc' = "recv"
  /\ UNCHANGED <<recvQ, screen, sendBuffer, dropped>>

(* xQueueSend takes the message within 10 ticks. *)
FlushAccepted ==
  /\ pc = "flush"
  /\ sendBuffer # NoText
  /\ taken' = Append(taken, sendBuffer)
  /\ sendBuffer' = NoText
  /\ pc' = "recv"
  /\ UNCHANGED <<recvQ, screen, dropped>>

(* Mutant: the message stays in the buffer for the next pass. *)
FlushTimedOutKeeps ==
  /\ pc = "flush"
  /\ sendBuffer # NoText
  /\ pc' = "recv"
  /\ UNCHANGED <<recvQ, screen, sendBuffer, taken, dropped>>

(* It does not: the buffer is cleared all the same. *)
FlushTimedOut ==
  /\ pc = "flush"
  /\ sendBuffer # NoText
  /\ dropped' = dropped \cup {sendBuffer}
  /\ sendBuffer' = NoText
  /\ pc' = "recv"
  /\ UNCHANGED <<recvQ, screen, taken>>

(* tcp_helper_task puts an item into the receive queue. *)
RemoteArrives(size) ==
  /\ Len(recvQ) < QueueLen
  /\ Len(shown) + Len(recvQ) < MaxMsgs
  /\ recvQ' = Append(recvQ, size)
  /\ UNCHANGED <<pc, screen, sendBuffer, taken, dropped>>

GuiTask ==
  \/ TakeRemote \/ RecvTimeout \/ HandlerIdle
  \/ FlushNothing \/ FlushAccepted \/ FlushTimedOut

Next ==
  \/ GuiTask
  \/ \E size \in Sizes : SendClicked(size) \/ RemoteArrives(size)

Spec == Init /\ [][Next]_vars

-----------------------------------------------------------------------------

Lit == {i \in Slot : labels[i] # <<>>}          \* labels that show something
TopId(i) == labels[i][1]                        \* the message a label is for
Typed == {m \in 1..Len(shown) : shown[m].origin = "local" /\ shown[m].size # "blank"}

(* Every label stands on the side of the message it shows, right for one's own:
   the alignments array and the labels are shifted separately, and neither is
   shifted past an empty label. *)
SideMatchesOrigin ==
  \A i \in Lit : align[i] = "right" <=> shown[TopId(i)].origin = "local"

(* From the bottom up the labels show older and older messages, no message with
   text between the newest and the oldest shown is missing, and as long as no
   blank message was displayed the labels show exactly the latest ones, each
   once.  (After a blank one the shift leaves an older text in two labels.) *)
NewestFirst ==
  /\ \A i, j \in Lit : i < j => TopId(j) <= TopId(i)
  /\ \A i \in Lit, m \in 1..Len(shown) :
       m > TopId(i) /\ shown[m].size # "blank" => \E j \in Lit : TopId(j) = m
  /\ (\A m \in 1..Len(shown) : shown[m].size # "blank") =>
       \A i \in Slot : i < Len(shown) => i \in Lit /\ TopId(i) = Len(shown) - i

(* A typed message is taken by the send queue, dropped, or still in send_buffer;
   none is overwritten there by the next one, none is offered twice, and they are
   taken in the order they were typed in. *)
TypedAccounted ==
  LET done == {taken[k] : k \in 1..Len(taken)}
  IN /\ Typed = done \cup dropped \cup ({sendBuffer} \ {NoText})
     /\ done \cap dropped = {} /\ sendBuffer \notin done \cup dropped
     /\ \A j, k \in 1..Len(taken) : j < k => taken[j] < taken[k]

(* README.md:55: "Max Message: 64 characters per message": a message of that
   length is shown as it is, without text of another one. *)
ShowsOneMessage ==
  \A i \in Lit : \A k \in 1..Len(labels[i]) : labels[i][k] \in {TopId(i), Garbage}
=============================================================================
