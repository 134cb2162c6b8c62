---------------------------- MODULE ButtonDriver ----------------------------
(***************************************************************************)
(* The button component (components/button/src/button.c): the life cycle   *)
(* of its event queue, interrupt handler and debouncing task over calls of *)
(* button_init and button_deinit, and the task's way from an edge to the   *)
(* callback.  The firmware does not link it (main has a button.c of its    *)
(* own); the calls are those its header offers, made by one task, and a    *)
(* deinit from inside the callback, at any moment, also while the other    *)
(* task is inside button_init or button_deinit itself.  The caller stays   *)
(* on the core whose interrupts serve the pin, so the handler never runs   *)
(* halfway through one of its steps.                                       *)
(***************************************************************************)
EXTENDS Integers, Sequences

CONSTANTS
  EvtQueueLen,   \* xQueueCreate(10, ...)
  MaxEdges,      \* bound: level changes of the pin
  MaxCalls       \* bound: calls of init and deinit

ASSUME DriverConstants == EvtQueueLen \in Nat \ {0} /\ MaxEdges \in Nat /\ MaxCalls \in Nat

VARIABLES
  pc,         \* the task that calls init and deinit
  pinSet,     \* button_pin >= 0
  queue,      \* what button_evt_queue points to
  handle,     \* what debounce_task points to
  events,     \* items in the event queue
  attached,   \* the GPIO service knows button_isr_handler
  task,       \* button_debounce_task_func
  last,       \* last_debounced_state
  raw,        \* raw_state of the end of button_init
  level,      \* logical level of the pin
  irq,        \* an edge is latched for the handler
  edges,      \* history: level changes so far
  calls,      \* history: calls so far
  status,     \* history: what the caller has been told: "off", "ok", "failed"
  early,      \* history: the task compared levels before button_init was done
  misused,    \* history: a deinit was called on a button that was not "ok"
  overlapped, \* history: the callback's deinit ended while the caller was in a call
  reports     \* history: arguments of the callback since the last init

caller == <<pc, calls, status, misused>>
setup == <<pinSet, queue, handle, attached, raw>>
pin == <<level, irq, edges>>
debounce == <<task, events, last, early, reports, overlapped>>
vars == <<caller, setup, pin, debounce>>

Levels == {"released", "pressed"}
InitSteps == {"config", "service", "handler", "create", "sample", "store"}

TypeOK ==
  /\ pc \in {"idle", "kill", "free", "crashed"} \cup InitSteps
  /\ pinSet \in BOOLEAN /\ attached \in BOOLEAN
  /\ queue \in {"null", "live", "freed"}
  /\ handle \in {"null", "valid", "dangling"}
  /\ events \in 0..EvtQueueLen
  /\ task \in {"none", "wait", "debounce", "callback", "leaving"}
  /\ last \in Levels \cup {"none"} /\ raw \in Levels
  /\ level \in Levels /\ irq \in BOOLEAN /\ edges \in 0..MaxEdges
  /\ calls \in 0..MaxCalls
  /\ status \in {"off", "ok", "failed"}
  /\ early \in BOOLEAN /\ misused \in BOOLEAN /\ overlapped \in BOOLEAN
  /\ reports \in Seq(Levels)

Init ==
  /\ pc = "idle" /\ calls = 0 /\ status = "off" /\ misused = FALSE
  /\ pinSet = FALSE /\ queue = "null" /\ handle = "null" /\ attached = FALSE
  /\ level \in Levels /\ raw = level /\ irq = FALSE /\ edges = 0
  /\ task = "none" /\ events = 0 /\ last = "none" /\ reports = <<>>
  /\ early = FALSE /\ overlapped = FALSE

Running == pc # "crashed"
Goto(step) == pc' = step
Fail == Goto("idle") /\ status' = "failed"

-----------------------------------------------------------------------------
(* button_init.                                                             *)

(* Mutant: a queue is created only when button_evt_queue is NULL. *)
CallInitReusesQueue ==
  /\ pc = "idle" /\ status # "ok" /\ calls < MaxCalls
  /\ calls' = calls + 1
  /\ pinSet' = TRUE
  /\ queue' = (IF queue = "null" THEN "live" ELSE queue) /\ Goto("config")
  /\ reports' = <<>> /\ early' = FALSE
  /\ UNCHANGED <<status, events, handle, attached, raw, pin, task, last, misused, overlapped>>

(* The configuration is stored, then the queue is created.  The queue of an
   earlier init that never came to its deinit is forgotten. *)
CallInit ==
  /\ pc = "idle" /\ status # "ok" /\ calls < MaxCalls
  /\ calls' = calls + 1
  /\ pinSet' = TRUE
  /\ events' = 0
  /\ \/ queue' = "live" /\ Goto("config") /\ UNCHANGED status
     \/ queue' = "null" /\ Fail
  /\ reports' = <<>> /\ early' = FALSE
  /\ UNCHANGED <<handle, attached, raw, pin, task, last, misused, overlapped>>

(* gpio_config, then gpio_install_isr_service. *)
Configure ==
  /\ \/ pc = "config" /\ Goto("service")
     \/ pc = "service" /\ Goto("handler")
  /\ UNCHANGED <<calls, status, misused, setup, pin, debounce>>

AttachHandler ==
  /\ pc = "handler"
  /\ attached' = TRUE
  /\ Goto("create")
  /\ UNCHANGED <<calls, status, misused, pinSet, queue, handle, raw, pin, debounce>>

(* Any of these calls, or xTaskCreate, fails: the queue is deleted and the handler
   removed, but button_evt_queue and button_pin stay as they are. *)
InitFails ==
  /\ pc \in {"config", "service", "handler", "create"}
  /\ queue' = "freed"
  /\ attached' = FALSE /\ irq' = FALSE
  /\ Fail
  /\ UNCHANGED <<calls, misused, pinSet, handle, raw, level, edges, debounce>>

CreateTask ==
  /\ pc = "create"
  /\ task' = "wait" /\ handle' = "valid"
  /\ Goto("sample")
  /\ UNCHANGED <<calls, status, misused, pinSet, queue, attached, raw, pin,
                 events, last, early, reports, overlapped>>

(* raw_state = gpio_get_level(...), with the task already running. *)
SampleLevel ==
  /\ pc = "sample"
  /\ raw' = level
  /\ Goto("store")
  /\ UNCHANGED <<calls, status, misused, pinSet, queue, handle, attached, pin, debounce>>

(* last_debounced_state = ..., whatever the task has put there meanwhile. *)
StoreLevel ==
  /\ pc = "store"
  /\ last' = raw
  /\ Goto("idle") /\ status' = "ok"
  /\ UNCHANGED <<calls, misused, setup, pin, task, events, early, reports, overlapped>>

-----------------------------------------------------------------------------
(* button_deinit.                                                           *)

(* Mutant: the event queue is deleted first, the handler still attached. *)
CallDeinitKeepsHandler ==
  /\ pc = "idle" /\ pinSet /\ calls < MaxCalls
  /\ calls' = calls + 1
  /\ misused' = (misused \/ status # "ok")
  /\ status' = "off"
  /\ Goto("kill")
  /\ UNCHANGED <<setup, pin, debounce>>

(* Refused when button_pin is not set; otherwise the handler goes first. *)
CallDeinit ==
  /\ pc = "idle" /\ pinSet /\ calls < MaxCalls
  /\ calls' = calls + 1
  /\ misused' = (misused \/ status # "ok")
  /\ status' = "off"
  /\ attached' = FALSE /\ irq' = FALSE
  /\ Goto("kill")
  /\ UNCHANGED <<pinSet, queue, handle, raw, level, edges, debounce>>

(* vTaskDelete, wherever the task is; a handle that is no longer one is undefined. *)
DeleteTask ==
  /\ pc = "kill"
  /\ IF handle = "dangling" THEN Goto("crashed") ELSE Goto("free")
  /\ task' = "none"
  /\ handle' = "null"
  /\ UNCHANGED <<calls, status, misused, pinSet, queue, attached, raw, pin,
                 events, last, early, reports, overlapped>>

(* vQueueDelete; the queue of a failed init is deleted a second time. *)
DeleteQueue ==
  /\ pc = "free"
  /\ IF queue = "freed" THEN Goto("crashed") ELSE Goto("idle")
  /\ queue' = "null" /\ events' = 0
  /\ pinSet' = FALSE /\ last' = "none"
  /\ UNCHANGED <<calls, status, misused, handle, attached, raw, pin, task,
                 early, reports, overlapped>>

-----------------------------------------------------------------------------
(* The pin, button_isr_handler and button_debounce_task_func.               *)

PinChanges ==
  /\ Running /\ edges < MaxEdges
  /\ edges' = edges + 1
  /\ level' \in Levels \ {level}
  /\ irq' = attached
  /\ UNCHANGED <<caller, setup, debounce>>

(* Mutant: the handler does not respect the length of the queue. *)
IsrUnbounded ==
  /\ Running /\ irq
  /\ irq' = FALSE
  /\ events' = events + 1
  /\ UNCHANGED <<caller, setup, level, edges, task, last, early, reports, overlapped>>

Isr ==
  /\ Running /\ irq
  /\ irq' = FALSE
  /\ events' = IF events < EvtQueueLen THEN events + 1 ELSE events
  /\ UNCHANGED <<caller, setup, level, edges, task, last, early, reports, overlapped>>

(* xQueueReceive, then vTaskDelay(button_debounce_ms). *)
TakeEvent ==
  /\ Running /\ task = "wait" /\ events > 0
  /\ events' = events - 1
  /\ task' = "debounce"
  /\ UNCHANGED <<caller, setup, pin, last, early, reports, overlapped>>

(* Mutant: the callback is called for every event. *)
CompareAlwaysReports ==
  /\ Running /\ task = "debounce"
  /\ early' = (early \/ pc \in InitSteps)
  /\ last' = level /\ reports' = Append(reports, level) /\ task' = "callback"
  /\ UNCHANGED <<caller, setup, pin, events, overlapped>>

(* The level is read and, if it changed, remembered and handed to the callback. *)
Compare ==
  /\ Running /\ task = "debounce"
  /\ early' = (early \/ pc \in InitSteps)
  /\ IF level # last
     THEN last' = level /\ reports' = Append(reports, level) /\ task' = "callback"
     ELSE task' = "wait" /\ UNCHANGED <<last, reports>>
  /\ UNCHANGED <<caller, setup, pin, events, overlapped>>

(* Mutant: what came in during the callback is taken for bouncing and discarded. *)
CallbackReturnsFlushes ==
  /\ Running /\ task = "callback"
  /\ task' = "wait" /\ events' = 0
  /\ UNCHANGED <<caller, setup, pin, last, early, reports, overlapped>>

CallbackReturns ==
  /\ Running /\ task = "callback"
  /\ task' = "wait"
  /\ UNCHANGED <<caller, setup, pin, events, last, early, reports, overlapped>>

(* The callback calls button_deinit, which removes the handler ... *)
CallbackDeinits ==
  /\ Running /\ task = "callback" /\ pinSet /\ calls < MaxCalls
  /\ calls' = calls + 1
  /\ attached' = FALSE /\ irq' = FALSE
  /\ task' = "leaving"
  /\ UNCHANGED <<pc, status, misused, pinSet, queue, handle, raw, level, edges,
                 events, last, early, reports, overlapped>>

(* ... and has the task delete itself: debounce_task keeps its value, and the rest of
   button_deinit is never executed. *)
DeletesItself ==
  /\ Running /\ task = "leaving"
  /\ task' = "none" /\ handle' = "dangling"
  /\ status' = "off"
  /\ overlapped' = (overlapped \/ pc # "idle")
  /\ UNCHANGED <<pc, calls, misused, pinSet, queue, attached, raw, pin,
                 events, last, early, reports>>

-----------------------------------------------------------------------------

Caller ==
  \/ CallInit \/ Configure \/ AttachHandler \/ InitFails \/ CreateTask
  \/ SampleLevel \/ StoreLevel \/ CallDeinit \/ DeleteTask \/ DeleteQueue

Debounce == TakeEvent \/ Compare \/ CallbackReturns \/ CallbackDeinits \/ DeletesItself

Next == Caller \/ Isr \/ Debounce \/ PinChanges

Spec == Init /\ [][Next]_vars

(* The debouncing task (priority 5) and a latched interrupt are served. *)
FairSpec ==
  /\ Spec
  /\ WF_vars(Isr) /\ WF_vars(TakeEvent \/ Compare \/ CallbackReturns \/ DeletesItself)

-----------------------------------------------------------------------------
(* Properties.                                                              *)

(* The interrupt handler and the debouncing task never meet a deleted queue,
   whichever step of an init fails and wherever a deinit finds the task. *)
QueueOutlivesUsers == attached \/ irq \/ task # "none" => queue = "live"

(* Handles are deleted once.  A second deletion takes a deinit of a button whose init
   failed, or that its own callback has deinitialised; or a deinit by the callback
   that comes to its end while the caller is inside button_init or button_deinit, which
   read and write debounce_task without regard to each other (button.c:111, 163). *)
DeletedOnce == pc = "crashed" => misused \/ overlapped

(* From the level that button_init stored, each call of the callback tells of a change
   of the one before, unless the task came to compare levels before button_init had
   stored its own: then a state may be told twice, against "Only trigger callback if
   state actually changed (debounced)" (button.c:39).  Changes that come to nothing
   within a delay are not told. *)
ReportsChanges ==
  status = "ok" /\ ~early =>
    LET told == <<raw>> \o reports
    IN /\ \A i \in 1..Len(reports) : told[i] # told[i + 1]
       /\ last = told[Len(told)]

(* While the button stays initialised, the callback is told the level at which the
   pin comes to rest. *)
ToldInTheEnd == <>[](status = "ok" /\ ~early) => <>[](last = level)
=============================================================================
