------------------------- MODULE ButtonDriverProofs -------------------------
(***************************************************************************)
(* Theorems about the button component of module ButtonDriver, for every   *)
(* length of the event queue and any number of edges and calls.  One       *)
(* inductive invariant carries them all.                                   *)
(***************************************************************************)
EXTENDS ButtonDriver, SequenceTheorems, TLAPS

(* The handle is one, unless the callback's deinit ran into a call. *)
Usable == queue = "live" /\ (handle = "valid" \/ overlapped)
Silent == ~attached /\ ~irq

(* What button_init has set up at each of its steps, and what a finished one
   leaves to the application: a queue and a task until somebody deinitialises. *)
SetUp ==
  /\ pc \in InitSteps => pinSet /\ queue = "live" /\ status # "ok"
  /\ pc \in {"config", "service", "handler"} => Silent
  /\ pc \in InitSteps \ {"sample", "store"} => task = "none"
  /\ pc \in {"sample", "store"} => Usable
  /\ status = "ok" => pc = "idle" /\ Usable /\ pinSet

(* A button that is not initialised is silent: no handler, no latched edge and,
   but for the deletion under way, no task. *)
TornDown ==
  /\ status # "ok" /\ pc \notin InitSteps => Silent
  /\ status # "ok" /\ pc \in {"idle", "free", "crashed"} => task = "none"
  /\ task = "leaving" => Silent
  /\ pc \in {"kill", "free"} => misused \/ queue = "live"
  /\ pc = "kill" => (misused \/ Usable) /\ (task # "none" => queue = "live")
  /\ pc = "crashed" => misused \/ overlapped

(* The callback's history starts with the level that button_init stores. *)
History ==
  /\ pc \in InitSteps /\ ~early => reports = <<>>
  /\ ReportsChanges

LifeInv == SetUp /\ TornDown
IInv == TypeOK /\ LifeInv /\ History

-----------------------------------------------------------------------------

LEMMA InvInit == Init => IInv
  <1> SUFFICES ASSUME Init
               PROVE  IInv
    OBVIOUS
  <1> USE DriverConstants DEF Init, Levels, InitSteps
  <1>1. {pinSet, attached, irq, early, misused, overlapped} \subseteq BOOLEAN
    OBVIOUS
  <1>2. TypeOK
    BY <1>1 DEF TypeOK
  <1>3. LifeInv /\ History
    BY DEF LifeInv, SetUp, TornDown, Usable, Silent, History, ReportsChanges
  <1> QED
    BY <1>2, <1>3 DEF IInv

LEMMA TypeStep == TypeOK /\ [Next]_vars => TypeOK'
  <1> SUFFICES ASSUME TypeOK, [Next]_vars
               PROVE  TypeOK'
    OBVIOUS
  <1> USE DriverConstants DEF TypeOK, Levels, InitSteps, Goto, Fail, Running,
          caller, setup, pin, debounce
  <1>1. CASE CallInit
    <2>1. pinSet' \in BOOLEAN /\ early' \in BOOLEAN
      BY <1>1 DEF CallInit
    <2>2. reports' \in Seq(Levels)
      BY <1>1, EmptySeq DEF CallInit
    <2> QED
      BY <1>1, <2>1, <2>2 DEF CallInit
  <1>2. CASE Configure
    BY <1>2 DEF Configure
  <1>3. CASE AttachHandler
    BY <1>3 DEF AttachHandler
  <1>4. CASE InitFails
    BY <1>4 DEF InitFails
  <1>5. CASE CreateTask
    BY <1>5 DEF CreateTask
  <1>6. CASE SampleLevel
    BY <1>6 DEF SampleLevel
  <1>7. CASE StoreLevel
    BY <1>7 DEF StoreLevel
  <1>8. CASE CallDeinit
    <2>1. attached' \in BOOLEAN /\ irq' \in BOOLEAN /\ misused' \in BOOLEAN
      BY <1>8 DEF CallDeinit
    <2> QED
      BY <1>8, <2>1 DEF CallDeinit
  <1>9. CASE DeleteTask
    BY <1>9 DEF DeleteTask
  <1>10. CASE DeleteQueue
    <2>1. pinSet' \in BOOLEAN
      BY <1>10 DEF DeleteQueue
    <2> QED
      BY <1>10, <2>1 DEF DeleteQueue
  <1>11. CASE PinChanges
    BY <1>11 DEF PinChanges
  <1>12. CASE Isr
    <2>1. irq' \in BOOLEAN
      BY <1>12 DEF Isr
    <2>2. events' \in 0..EvtQueueLen
      BY <1>12 DEF Isr
    <2> QED
      BY <1>12, <2>1, <2>2 DEF Isr
  <1>13. CASE TakeEvent
    BY <1>13 DEF TakeEvent
  <1>14. CASE Compare
    <2>1. Append(reports, level) \in Seq(Levels)
      BY AppendProperties
    <2> QED
      BY <1>14, <2>1 DEF Compare
  <1>15. CASE CallbackReturns
    BY <1>15 DEF CallbackReturns
  <1>16. CASE CallbackDeinits
    <2>1. attached' \in BOOLEAN /\ irq' \in BOOLEAN
      BY <1>16 DEF CallbackDeinits
    <2> QED
      BY <1>16, <2>1 DEF CallbackDeinits
  <1>17. CASE DeletesItself
    <2>1. overlapped' \in BOOLEAN
      BY <1>17 DEF DeletesItself
    <2> QED
      BY <1>17, <2>1 DEF DeletesItself
  <1>18. CASE UNCHANGED vars
    BY <1>18 DEF vars
  <1> QED
    BY <1>1, <1>2, <1>3, <1>4, <1>5, <1>6, <1>7, <1>8, <1>9,
       <1>10, <1>11, <1>12, <1>13, <1>14, <1>15, <1>16, <1>17, <1>18
       DEF Next, Caller, Debounce

LEMMA LifeStep == TypeOK /\ LifeInv /\ [Next]_vars => LifeInv'
  <1> SUFFICES ASSUME TypeOK, LifeInv, [Next]_vars
               PROVE  LifeInv'
    OBVIOUS
  <1> USE DEF LifeInv, SetUp, TornDown, Usable, Silent, TypeOK, InitSteps, Goto, Fail, Running,
          caller, setup, pin, debounce
  <1>1. CASE CallInit
    BY <1>1 DEF CallInit
  <1>2. CASE Configure
    BY <1>2 DEF Configure
  <1>3. CASE AttachHandler
    BY <1>3 DEF AttachHandler
  <1>4. CASE InitFails
    BY <1>4 DEF InitFails
  <1>5. CASE CreateTask
    BY <1>5 DEF CreateTask
  <1>6. CASE SampleLevel
    BY <1>6 DEF SampleLevel
  <1>7. CASE StoreLevel
    BY <1>7 DEF StoreLevel
  <1>8. CASE CallDeinit
    BY <1>8 DEF CallDeinit
  <1>9. CASE DeleteTask
    BY <1>9 DEF DeleteTask
  <1>10. CASE DeleteQueue
    BY <1>10 DEF DeleteQueue
  <1>11. CASE PinChanges
    BY <1>11 DEF PinChanges
  <1>12. CASE Isr
    BY <1>12 DEF Isr
  <1>13. CASE TakeEvent
    BY <1>13 DEF TakeEvent
  <1>14. CASE Compare
    BY <1>14 DEF Compare
  <1>15. CASE CallbackReturns
    BY <1>15 DEF CallbackReturns
  <1>16. CASE CallbackDeinits
    BY <1>16 DEF CallbackDeinits
  <1>17. CASE DeletesItself
    BY <1>17 DEF DeletesItself
  <1>18. CASE UNCHANGED vars
    BY <1>18 DEF vars
  <1> QED
    BY <1>1, <1>2, <1>3, <1>4, <1>5, <1>6, <1>7, <1>8, <1>9,
       <1>10, <1>11, <1>12, <1>13, <1>14, <1>15, <1>16, <1>17, <1>18
       DEF Next, Caller, Debounce

(* Only these steps touch what History speaks of. *)
LEMMA HistoryStep == TypeOK /\ LifeInv /\ History /\ [Next]_vars => History'
  <1> SUFFICES ASSUME TypeOK, LifeInv, History, [Next]_vars
               PROVE  History'
    OBVIOUS
  <1> USE DEF History, ReportsChanges, InitSteps, Goto, Fail, Running,
          caller, setup, pin, debounce
  <1>1. CASE CallInit
    BY <1>1 DEF CallInit
  <1>2. CASE Configure \/ AttachHandler \/ InitFails \/ CreateTask
    BY <1>2 DEF Configure, AttachHandler, InitFails, CreateTask, LifeInv, SetUp
  <1>3. CASE SampleLevel
    BY <1>3 DEF SampleLevel, LifeInv, SetUp
  <1>4. CASE StoreLevel
    BY <1>4, EmptySeq DEF StoreLevel
  <1>5. CASE CallDeinit \/ DeleteTask \/ DeleteQueue \/ CallbackDeinits \/ DeletesItself
    BY <1>5 DEF CallDeinit, DeleteTask, DeleteQueue, CallbackDeinits, DeletesItself, LifeInv, SetUp
  <1>6. CASE PinChanges \/ Isr \/ TakeEvent \/ CallbackReturns \/ UNCHANGED vars
    BY <1>6 DEF PinChanges, Isr, TakeEvent, CallbackReturns, vars
  <1>7. CASE Compare
    <2>1. CASE status # "ok" \/ early \/ level = last
      BY <1>7, <2>1 DEF Compare
    <2>2. CASE status = "ok" /\ ~early /\ level # last
      <3> DEFINE told == <<raw>> \o reports
      <3>1. pc \notin InitSteps /\ pc' = pc
        BY <1>7, <2>2 DEF Compare, LifeInv, SetUp
      <3>2. told \in Seq(Levels) /\ Len(told) = Len(reports) + 1 /\ raw' = raw
        BY <1>7 DEF Compare, TypeOK
      <3>3. (<<raw>> \o reports)' = Append(told, level)
        BY <1>7, <2>2 DEF Compare, TypeOK
      <3>4. last = told[Len(told)] /\ last' = level
        BY <1>7, <2>2 DEF Compare
      <3>5. Len(reports') = Len(reports) + 1
        BY <1>7, <2>2 DEF Compare, TypeOK
      <3>6. \A i \in 1..Len(reports') : Append(told, level)[i] # Append(told, level)[i + 1]
        BY <3>2, <3>4, <3>5, <2>2, AppendProperties DEF TypeOK
      <3>7. level = Append(told, level)[Len(Append(told, level))]
        BY <3>2, AppendProperties DEF TypeOK
      <3> QED
        BY <3>1, <3>3, <3>4, <3>6, <3>7
    <2> QED
      BY <2>1, <2>2
  <1> QED
    BY <1>1, <1>2, <1>3, <1>4, <1>5, <1>6, <1>7 DEF Next, Caller, Debounce

LEMMA InvCorrect == Spec => []IInv
  <1>1. IInv /\ [Next]_vars => IInv'
    BY TypeStep, LifeStep, HistoryStep DEF IInv
  <1> QED
    BY InvInit, <1>1, PTL DEF Spec

-----------------------------------------------------------------------------

(* Every variable keeps its type; the event queue stays within its length. *)
THEOREM DriverTypeCorrect == Spec => []TypeOK
  <1>1. IInv => TypeOK
    BY DEF IInv
  <1> QED
    BY InvCorrect, <1>1, PTL

(* The interrupt handler and the debouncing task never meet a deleted queue: a
   failed button_init and a button_deinit silence them first, at whatever step. *)
THEOREM QueueOutlivesUsersCorrect == Spec => []QueueOutlivesUsers
  <1>1. IInv => QueueOutlivesUsers
    BY DEF IInv, LifeInv, SetUp, TornDown, Usable, Silent, TypeOK, InitSteps, QueueOutlivesUsers
  <1> QED
    BY InvCorrect, <1>1, PTL

(* Nothing is deleted twice but by a deinit of a button that is not initialised, or
   after a deinit in the callback that overlapped a call (button.c:111, 163, 169). *)
THEOREM DeletedOnceCorrect == Spec => []DeletedOnce
  <1>1. IInv => DeletedOnce
    BY DEF IInv, LifeInv, TornDown, DeletedOnce
  <1> QED
    BY InvCorrect, <1>1, PTL

(* Each call of the callback tells of a change of the one before, from the level that
   button_init stored on, if the task looked at no level before that (button.c:39). *)
THEOREM ReportsChangesCorrect == Spec => []ReportsChanges
  <1>1. IInv => ReportsChanges
    BY DEF IInv, History
  <1> QED
    BY InvCorrect, <1>1, PTL
=============================================================================
