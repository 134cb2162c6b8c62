------------------------------- MODULE Button -------------------------------
(***************************************************************************)
(* The SOS button of main/button.c: an edge interrupt, a queue of edge     *)
(* events, and the task that debounces the pin, compares it with the last  *)
(* state it acted on and offers a message to the shared send queue.        *)
(*                                                                         *)
(* A press or a release is a gesture: the contacts bounce, any number of   *)
(* times, and come to rest before the next gesture.  The code relies on    *)
(* one thing about them, and so does the model: they come to rest sooner   *)
(* than the 20 ms it waits.  A delay that began while they bounced has     *)
(* them at rest when it ends; one that began before may end in the middle. *)
(***************************************************************************)
EXTENDS Integers, Sequences, FiniteSets

CONSTANTS
  EvtQueueLen,   \* init_button: xQueueCreate(10, sizeof(int))
  MaxEdges       \* bound: level changes of the pin, bounces included

ASSUME ButtonConstants == EvtQueueLen \in Nat \ {0} /\ MaxEdges \in Nat

VARIABLES
  level,      \* logical level of the pin (g_active_low applied)
  target,     \* the level at which the contacts come to rest
  bouncing,   \* they have not come to rest yet
  irq,        \* the pin's interrupt is latched and its ISR has not run
  events,     \* items in button_evt_queue; they are all the same pin number
  pc,         \* where button_to_queue_task is
  within,     \* its delay began while the contacts bounced as they still do
  lastState,  \* last_state of the task
  sendFull,   \* the shared send queue has no room (another module's business)
  queued,     \* messages the send queue took, in order
  edges,      \* history: level changes so far
  presses,    \* history: gestures that press the button, one held at boot included
  reports     \* history: the states the task reported, queued or dropped

contacts == <<level, target, bouncing, edges, presses>>
vars == <<contacts, irq, events, pc, within, lastState, sendFull, queued, reports>>

Levels == {"released", "pressed"}
Steps == {"wait", "debounce", "send"}
(* A press is reported as "SOS", a release as 64 zero bytes. *)
Message(state) == IF state = "pressed" THEN "SOS" ELSE "blank"

TypeOK ==
  /\ level \in Levels /\ target \in Levels /\ bouncing \in BOOLEAN
  /\ irq \in BOOLEAN
  /\ events \in 0..EvtQueueLen
  /\ pc \in Steps /\ within \in BOOLEAN
  /\ lastState \in Levels \cup {"none"}
  /\ sendFull \in BOOLEAN
  /\ queued \in Seq({"SOS", "blank"})
  /\ edges \in 0..MaxEdges /\ presses \in Nat
  /\ reports \in Seq(Levels)

(* The button may be held while the device boots: no edge, no event. *)
Init ==
  /\ level \in Levels /\ target = level /\ bouncing = FALSE
  /\ irq = FALSE
  /\ events = 0
  /\ pc = "wait" /\ within = FALSE
  /\ lastState = "none"
  /\ sendFull \in BOOLEAN
  /\ queued = <<>>
  /\ edges = 0 /\ presses = (IF level = "pressed" THEN 1 ELSE 0)
  /\ reports = <<>>

(* The pin changes its level: an edge, which latches the interrupt.  A second one
   before the ISR runs adds nothing. *)
Edge ==
  /\ edges < MaxEdges
  /\ edges' = edges + 1
  /\ level' \in Levels \ {level}
  /\ irq' = TRUE
  /\ UNCHANGED <<events, pc, lastState, sendFull, queued, reports>>

(* The button is pressed or released, and its contacts begin to bounce. *)
Gesture ==
  /\ ~bouncing
  /\ Edge
  /\ target' = level' /\ bouncing' = TRUE
  /\ presses' = IF level' = "pressed" THEN presses + 1 ELSE presses
  /\ UNCHANGED within

(* They touch or part once more; the bound leaves them an edge to settle with. *)
Bounce ==
  /\ bouncing
  /\ edges + 1 < MaxEdges
  /\ Edge
  /\ UNCHANGED <<target, bouncing, presses, within>>

(* They come to rest. *)
Settle ==
  /\ bouncing
  /\ bouncing' = FALSE /\ within' = FALSE
  /\ IF level # target
     THEN Edge
     ELSE UNCHANGED <<level, irq, events, pc, lastState, sendFull, queued, edges, reports>>
  /\ UNCHANGED <<target, presses>>

(* Mutant: the event queue takes any number of events. *)
IsrUnbounded ==
  /\ irq
  /\ irq' = FALSE
  /\ events' = events + 1
  /\ UNCHANGED <<contacts, pc, within, lastState, sendFull, queued, reports>>

(* button_isr_handler: xQueueSendFromISR, whose result is ignored. *)
Isr ==
  /\ irq
  /\ irq' = FALSE
  /\ events' = IF events < EvtQueueLen THEN events + 1 ELSE events
  /\ UNCHANGED <<contacts, pc, within, lastState, sendFull, queued, reports>>

(* Mutant: no vTaskDelay, the pin is read whatever the contacts do. *)
TakeEventNoDelay ==
  /\ pc = "wait"
  /\ events > 0
  /\ events' = events - 1
  /\ pc' = "debounce" /\ within' = FALSE
  /\ UNCHANGED <<contacts, irq, lastState, sendFull, queued, reports>>

(* xQueueReceive, then vTaskDelay(20). *)
TakeEvent ==
  /\ pc = "wait"
  /\ events > 0
  /\ events' = events - 1
  /\ pc' = "debounce" /\ within' = bouncing
  /\ UNCHANGED <<contacts, irq, lastState, sendFull, queued, reports>>

(* The delay is over: by then the contacts have ended the bounce in which it began. *)
DelayOver == pc = "debounce" /\ ~within

(* gpio_get_level differs from last_state: remember it, build the message. *)
SampleChanged ==
  /\ DelayOver
  /\ level # lastState
  /\ lastState' = level
  /\ reports' = Append(reports, level)
  /\ pc' = "send"
  /\ UNCHANGED <<contacts, irq, events, within, sendFull, queued>>

SampleSame ==
  /\ DelayOver
  /\ level = lastState
  /\ pc' = "wait"
  /\ UNCHANGED <<contacts, irq, events, within, lastState, sendFull, queued, reports>>

(* Mutant: the events that came in meanwhile are flushed as bounces. *)
SendAcceptedFlushes ==
  /\ pc = "send"
  /\ ~sendFull
  /\ queued' = Append(queued, Message(lastState))
  /\ events' = 0
  /\ pc' = "wait"
  /\ sendFull' \in BOOLEAN
  /\ UNCHANGED <<contacts, irq, within, lastState, reports>>

(* xQueueSend within 100 ms; the message may take the last place. *)
SendAccepted ==
  /\ pc = "send"
  /\ ~sendFull
  /\ queued' = Append(queued, Message(lastState))
  /\ pc' = "wait"
  /\ sendFull' \in BOOLEAN
  /\ UNCHANGED <<contacts, irq, events, within, lastState, reports>>

(* No room for 100 ms: the message is dropped, last_state stays as it is. *)
SendTimedOut ==
  /\ pc = "send"
  /\ sendFull
  /\ pc' = "wait"
  /\ UNCHANGED <<contacts, irq, events, within, lastState, sendFull, queued, reports>>

(* The other users of the send queue fill and drain it. *)
SendQueueChanges ==
  /\ sendFull' = ~sendFull
  /\ UNCHANGED <<contacts, irq, events, pc, within, lastState, queued, reports>>

Task == TakeEvent \/ SampleChanged \/ SampleSame \/ SendAccepted \/ SendTimedOut

Contacts == Gesture \/ Bounce \/ Settle

Next == Contacts \/ Isr \/ Task \/ SendQueueChanges

Spec == Init /\ [][Next]_vars

(* A latched interrupt is served, the task (priority 6) is scheduled, and contacts
   do not bounce for ever.  Nothing is assumed about the queue or the gestures. *)
FairSpec == Spec /\ WF_vars(Isr) /\ WF_vars(Task) /\ WF_vars(Settle)

-----------------------------------------------------------------------------
(* Whenever the pin differs from what the task last acted on, something is
   under way that will make the task look again: a latched interrupt, a queued
   event, or a read of the pin still to come.  That is why it does no harm that
   the ISR drops events on a full queue and that edges merge. *)
NoLostEdge ==
  level # lastState => irq \/ events > 0 \/ pc = "debounce" \/ edges = 0

(* However its contacts bounce, whichever of the edges get an event of their own, and
   wherever in a bounce the pin is read, the task makes at most one "SOS" of a press. *)
PressReports == {i \in 1..Len(reports) : reports[i] = "pressed"}
OneReportPerPress == Cardinality(PressReports) <= presses

(* README.md:115: "Button press on ESP32 -> sends alert via TCP".  Taken mildly:
   a button that is pressed and held while the send queue has room for good is
   reported by a last message that says so. *)
PressRaisesAlert ==
  (<>[](level = "pressed" /\ edges > 0) /\ <>[](~sendFull))
    => <>(queued # <<>> /\ queued[Len(queued)] = "SOS")
=============================================================================
