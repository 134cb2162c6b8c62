---------------------------- MODULE ButtonProofs ----------------------------
(***************************************************************************)
(* Proofs about Button, for every length of the event queue and any number *)
(* of edges.                                                               *)
(***************************************************************************)
EXTENDS Button, SequenceTheorems, FiniteSetTheorems, TLAPS

(* Every variable keeps its type; the event queue stays within its length. *)
THEOREM ButtonTypeCorrect == Spec => []TypeOK
<1> USE ButtonConstants DEF Levels, Steps, contacts, DelayOver
<1>1. Init => TypeOK
  <2> SUFFICES ASSUME Init PROVE TypeOK
    OBVIOUS
  <2>1. queued \in Seq({"SOS", "blank"}) /\ reports \in Seq({"released", "pressed"})
    BY EmptySeq DEF Init
  <2>2. irq \in BOOLEAN /\ bouncing \in BOOLEAN /\ within \in BOOLEAN
    BY DEF Init
  <2> QED
    BY <2>1, <2>2 DEF Init, TypeOK
<1>2. TypeOK /\ [Next]_vars => TypeOK'
  <2> SUFFICES ASSUME TypeOK, [Next]_vars PROVE TypeOK'
    OBVIOUS
  <2>1. CASE Contacts \/ SendQueueChanges
    <3>1. CASE SendQueueChanges
      <4>1. sendFull' \in BOOLEAN
        BY <3>1 DEF TypeOK, SendQueueChanges
      <4> QED
        BY <3>1, <4>1 DEF TypeOK, SendQueueChanges
    <3>2. CASE Contacts
      <4>1. /\ level' \in Levels /\ edges' \in 0..MaxEdges
            /\ UNCHANGED <<events, pc, lastState, sendFull, queued, reports>>
        BY <3>2 DEF TypeOK, Contacts, Gesture, Bounce, Settle, Edge
      <4>2. target' \in Levels /\ presses' \in Nat
        BY <3>2, <4>1 DEF TypeOK, Contacts, Gesture, Bounce, Settle
      <4>3. irq' \in BOOLEAN
        BY <3>2 DEF TypeOK, Contacts, Gesture, Bounce, Settle, Edge
      <4>4. bouncing' \in BOOLEAN /\ within' \in BOOLEAN
        BY <3>2 DEF TypeOK, Contacts, Gesture, Bounce, Settle
      <4> QED
        BY <4>1, <4>2, <4>3, <4>4 DEF TypeOK
    <3> QED
      BY <2>1, <3>1, <3>2
  <2>2. CASE Isr
    <3>1. irq' \in BOOLEAN
      BY <2>2 DEF Isr
    <3>2. events' \in 0..EvtQueueLen
      BY <2>2 DEF TypeOK, Isr
    <3> QED
      BY <2>2, <3>1, <3>2 DEF TypeOK, Isr
  <2>3. CASE TakeEvent \/ SampleSame \/ SendTimedOut
    <3>1. within' \in BOOLEAN
      BY <2>3 DEF TypeOK, TakeEvent, SampleSame, SendTimedOut
    <3> QED
      BY <2>3, <3>1 DEF TypeOK, TakeEvent, SampleSame, SendTimedOut
  <2>4. CASE SampleChanged
    <3>1. Append(reports, level) \in Seq(Levels)
      BY AppendProperties DEF TypeOK
    <3> QED
      BY <2>4, <3>1 DEF TypeOK, SampleChanged
  <2>5. CASE SendAccepted
    <3>1. Append(queued, Message(lastState)) \in Seq({"SOS", "blank"})
      BY AppendProperties DEF TypeOK, Message
    <3> QED
      BY <2>5, <3>1 DEF TypeOK, SendAccepted
  <2>6. CASE UNCHANGED vars
    BY <2>6 DEF TypeOK, vars
  <2> QED
    BY <2>1, <2>2, <2>3, <2>4, <2>5, <2>6 DEF Next, Task
<1> QED
  BY <1>1, <1>2, PTL DEF Spec

(* No edge is lost for good, however short the event queue. *)
THEOREM NoLostEdgeCorrect == Spec => []NoLostEdge
<1>1. Init => NoLostEdge
  BY DEF Init, NoLostEdge
<1>2. TypeOK /\ NoLostEdge /\ [Next]_vars => NoLostEdge'
  <2> SUFFICES ASSUME TypeOK, NoLostEdge, [Next]_vars PROVE NoLostEdge'
    OBVIOUS
  <2>1. CASE Contacts
    BY <2>1 DEF NoLostEdge, Contacts, Gesture, Bounce, Settle, Edge
  <2>2. CASE Isr
    BY <2>2, ButtonConstants DEF TypeOK, NoLostEdge, Isr, contacts
  <2>3. CASE TakeEvent
    BY <2>3 DEF NoLostEdge, TakeEvent
  <2>4. CASE SampleChanged \/ SampleSame
    BY <2>4 DEF NoLostEdge, SampleChanged, SampleSame, contacts
  <2>5. CASE SendAccepted \/ SendTimedOut \/ SendQueueChanges
    BY <2>5 DEF NoLostEdge, SendAccepted, SendTimedOut, SendQueueChanges, contacts
  <2>6. CASE UNCHANGED vars
    BY <2>6 DEF NoLostEdge, vars, contacts
  <2> QED
    BY <2>1, <2>2, <2>3, <2>4, <2>5, <2>6 DEF Next, Task
<1> QED
  BY <1>1, <1>2, ButtonTypeCorrect, PTL DEF Spec

-----------------------------------------------------------------------------
(* One report per press.                                                    *)

Indicator(b) == IF b THEN 1 ELSE 0

(* The pin may be read before the bounce is over. *)
MayMislead == bouncing /\ DelayOver

(* One more "SOS" may follow before the button is pressed again: the last press is
   not reported, or a read in the middle of a bounce takes a report of it back. *)
Owed ==
  IF lastState = "pressed"
  THEN target = "pressed" /\ MayMislead
  ELSE target = "pressed" \/ MayMislead

(* Each press pays for one report, made or owed. *)
PressInv ==
  /\ ~bouncing => level = target
  /\ Cardinality(PressReports) + Indicator(Owed) <= presses

LEMMA PressReportsCounted ==
  ASSUME TypeOK
  PROVE  IsFiniteSet(PressReports) /\ Cardinality(PressReports) \in Nat /\ presses \in Nat
<1>1. Len(reports) \in Nat
  BY LenProperties DEF TypeOK
<1>2. IsFiniteSet(1..Len(reports))
  BY <1>1, FS_Interval
<1>3. PressReports \in SUBSET (1..Len(reports))
  BY DEF PressReports
<1>4. IsFiniteSet(PressReports)
  BY <1>2, <1>3, FS_Subset
<1> QED
  BY <1>4, FS_CardinalityType DEF TypeOK

(* A report adds its own index to those of the "SOS" reports, or none. *)
LEMMA PressReportsGrow ==
  ASSUME TypeOK, reports' = Append(reports, level)
  PROVE  /\ Cardinality(PressReports) \in Nat
         /\ Cardinality(PressReports')
              = Cardinality(PressReports) + Indicator(level = "pressed")
<1>1. /\ Len(reports) \in Nat /\ Len(reports') = Len(reports) + 1
      /\ \A i \in 1..Len(reports) : reports'[i] = reports[i]
      /\ reports'[Len(reports) + 1] = level
  BY AppendProperties, LenProperties DEF TypeOK
<1>2. IsFiniteSet(PressReports) /\ Cardinality(PressReports) \in Nat
  BY PressReportsCounted
<1>3. CASE level = "pressed"
  <2>1. PressReports' = PressReports \cup {Len(reports) + 1}
    BY <1>1, <1>3 DEF PressReports
  <2>2. Len(reports) + 1 \notin PressReports
    BY <1>1 DEF PressReports
  <2> QED
    BY <1>2, <1>3, <2>1, <2>2, FS_AddElement DEF Indicator
<1>4. CASE level # "pressed"
  <2>1. PressReports' = PressReports
    BY <1>1, <1>4 DEF PressReports
  <2> QED
    BY <1>2, <1>4, <2>1 DEF Indicator
<1> QED
  BY <1>3, <1>4

(* At most one report per press, whatever the bounces, the length of the event queue
   and the moments at which the pin is read (button.c:28-35). *)
THEOREM OneReportPerPressCorrect == Spec => []OneReportPerPress
<1>1. Init => PressInv
  <2> SUFFICES ASSUME Init PROVE PressInv
    OBVIOUS
  <2>1. PressReports = {}
    BY EmptySeq DEF Init, PressReports
  <2>2. Cardinality(PressReports) = 0
    BY <2>1, FS_EmptySet
  <2> QED
    BY <2>2 DEF Init, PressInv, Owed, MayMislead, Indicator
<1>2. TypeOK /\ PressInv /\ [Next]_vars => PressInv'
  <2> SUFFICES ASSUME TypeOK, PressInv, [Next]_vars PROVE PressInv'
    OBVIOUS
  <2>0. Cardinality(PressReports) \in Nat /\ presses \in Nat
    BY PressReportsCounted
  <2>1. CASE UNCHANGED reports
    <3>1. PressReports' = PressReports
      BY <2>1 DEF PressReports
    <3> USE <2>0, <2>1, <3>1 DEF PressInv, Owed, MayMislead, DelayOver, Indicator, TypeOK, Levels
    <3>2. CASE Gesture
      BY <3>2 DEF Gesture, Edge
    <3>3. CASE Bounce
      BY <3>3 DEF Bounce, Edge
    <3>4. CASE Settle
      BY <3>4 DEF Settle, Edge
    <3>5. CASE Isr
      BY <3>5 DEF Isr, contacts
    <3>6. CASE TakeEvent
      BY <3>6 DEF TakeEvent, contacts
    <3>7. CASE SampleSame \/ SendAccepted \/ SendTimedOut \/ SendQueueChanges
      BY <3>7 DEF SampleSame, SendAccepted, SendTimedOut, SendQueueChanges, contacts
    <3>8. CASE UNCHANGED vars
      BY <3>8 DEF vars, contacts
    <3>9. ~SampleChanged
      <4>1. SampleChanged => Len(reports') = Len(reports) + 1 /\ Len(reports) \in Nat
        BY AppendProperties, LenProperties DEF SampleChanged
      <4> QED
        BY <4>1
    <3> QED
      BY <3>2, <3>3, <3>4, <3>5, <3>6, <3>7, <3>8, <3>9 DEF Next, Task, Contacts
  <2>2. CASE SampleChanged
    <3>1. /\ Cardinality(PressReports')
               = Cardinality(PressReports) + Indicator(level = "pressed")
          /\ level # lastState /\ lastState' = level /\ DelayOver /\ pc' = "send"
          /\ UNCHANGED <<level, target, bouncing, presses>>
      BY <2>2, PressReportsGrow DEF SampleChanged, contacts
    <3> QED
      BY <2>0, <3>1 DEF PressInv, Owed, MayMislead, DelayOver, Indicator, TypeOK, Levels
  <2>3. CASE ~SampleChanged
    BY <2>1, <2>3 DEF Next, Task, Contacts, Gesture, Bounce, Settle, Edge, Isr, TakeEvent,
       SampleSame, SendAccepted, SendTimedOut, SendQueueChanges, vars, contacts
  <2> QED
    BY <2>2, <2>3
<1>3. TypeOK /\ PressInv => OneReportPerPress
  BY PressReportsCounted DEF PressInv, OneReportPerPress, Indicator
<1> QED
  BY <1>1, <1>2, <1>3, ButtonTypeCorrect, PTL DEF Spec
=============================================================================
