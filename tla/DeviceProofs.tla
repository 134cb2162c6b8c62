---------------------------- MODULE DeviceProofs ----------------------------
(***************************************************************************)
(* The composed device, for any number of producers, connections and edges *)
(* and queues of any length.  Its steps are those of TcpHelper and Button, *)
(* taken jointly, so that the invariants proved of the two carry over; the *)
(* theorems are those that relate the two to each other.                   *)
(***************************************************************************)
EXTENDS Device, TcpHelperProofs, FiniteSetTheorems

-----------------------------------------------------------------------------
(* The two parts of the device.                                             *)

(* Every step of the device is one of the messaging core, or leaves it alone. *)
LEMMA StepRefinesTcp == [DeviceNext]_deviceVars => [Next]_vars
<1> SUFFICES ASSUME [DeviceNext]_deviceVars PROVE [Next]_vars
  OBVIOUS
<1>1. CASE InitTcpTask \/ InitButton \/ ButtonAlone \/ UNCHANGED deviceVars
  BY <1>1 DEF InitTcpTask, InitButton, ButtonAlone, deviceVars
<1>2. CASE ButtonOffers \/ ButtonAccepted \/ ButtonTimedOut
  BY <1>2, DeviceConstants DEF ButtonOffers, ButtonAccepted, ButtonTimedOut, Next, Producing
<1>3. CASE OtherOffers \/ OtherAccepted \/ OtherTimedOut
  BY <1>3 DEF OtherOffers, OtherAccepted, OtherTimedOut, Others, Next, Producing
<1>4. CASE TcpRuns \/ Elsewhere
  BY <1>4 DEF TcpRuns, Elsewhere, Next
<1> QED
  BY <1>1, <1>2, <1>3, <1>4 DEF DeviceNext

(* The invariants of module TcpHelper are invariants of the device. *)
LEMMA DeviceRefinesTcp == DeviceSpec => Spec
<1>1. DeviceInit => Init
  BY DEF DeviceInit
<1> QED
  BY <1>1, StepRefinesTcp, PTL DEF DeviceSpec, Spec

(* Whatever a step that leaves the button alone does to the send queue, the button
   sees it fill or drain, or sees nothing. *)
LEMMA OthersSeenByButton ==
  ASSUME UNCHANGED button
  PROVE  [Btn!Next]_Btn!vars
  <1>1. CASE SendQFull' = SendQFull
    BY <1>1 DEF button, contactVars, Btn!vars, Btn!contacts
  <1>2. CASE SendQFull' # SendQFull
    <2>1. SendQFull \in BOOLEAN /\ SendQFull' \in BOOLEAN
      BY DEF SendQFull
    <2>2. SendQFull' = ~SendQFull
      BY <1>2, <2>1
    <2> QED
      BY <2>2 DEF button, contactVars, Btn!contacts, Btn!Next, Btn!SendQueueChanges
  <1> QED
    BY <1>1, <1>2

(* The send queue is empty or full for the button as for everybody else. *)
LEMMA InitMaps == DeviceInit => Btn!Init
  <1> SUFFICES ASSUME DeviceInit
               PROVE  Btn!Init
    OBVIOUS
  <1>1. SendQFull \in BOOLEAN
    BY DEF SendQFull
  <1> QED
    BY <1>1 DEF DeviceInit, Btn!Init

LEMMA StepMaps == [DeviceNext]_deviceVars => [Btn!Next]_Btn!vars
  <1> SUFFICES ASSUME [DeviceNext]_deviceVars
               PROVE  [Btn!Next]_Btn!vars
    OBVIOUS
  <1>1. CASE InitTcpTask \/ InitButton
    BY <1>1, OthersSeenByButton DEF InitTcpTask, InitButton
  <1>2. CASE ButtonAlone
    BY <1>2 DEF ButtonAlone, Btn!Next, Btn!Task
  <1>3. CASE ButtonOffers
    BY <1>3 DEF ButtonOffers, Btn!Next, Btn!Task
  <1>4. CASE ButtonAccepted
    BY <1>4 DEF ButtonAccepted, Btn!Next, Btn!Task
  <1>5. CASE ButtonTimedOut
    BY <1>5 DEF ButtonTimedOut, Btn!Next, Btn!Task
  <1>6. CASE OtherOffers \/ OtherAccepted \/ OtherTimedOut
    BY <1>6, OthersSeenByButton DEF OtherOffers, OtherAccepted, OtherTimedOut
  <1>7. CASE TcpRuns \/ Elsewhere
    BY <1>7, OthersSeenByButton DEF TcpRuns, Elsewhere
  <1>8. CASE UNCHANGED deviceVars
    BY <1>8, OthersSeenByButton DEF deviceVars
  <1> QED
    BY <1>1, <1>2, <1>3, <1>4, <1>5, <1>6, <1>7, <1>8 DEF DeviceNext

-----------------------------------------------------------------------------
(* The theorems of ButtonProofs, over the state of the device.              *)

BtnP == INSTANCE ButtonProofs WITH pc <- btnPc, sendFull <- SendQFull

(* The button of the device is the one ButtonProofs speaks about: the two instances
   name the same steps. *)
LEMMA DeviceRefinesButton == DeviceSpec => BtnP!Spec
<1>1. DeviceInit => BtnP!Init
  BY InitMaps DEF Btn!Init, BtnP!Init, Btn!Levels, BtnP!Levels
<1>2. [DeviceNext]_deviceVars => [BtnP!Next]_BtnP!vars
  <2>1. Btn!vars = BtnP!vars /\ (Btn!vars)' = (BtnP!vars)'
    BY DEF Btn!vars, BtnP!vars, Btn!contacts, BtnP!contacts
  <2>2. Btn!Next = BtnP!Next
    BY Zenon
    DEF Btn!Next, BtnP!Next, Btn!Task, BtnP!Task, Btn!Contacts, BtnP!Contacts,
        Btn!Gesture, BtnP!Gesture, Btn!Bounce, BtnP!Bounce, Btn!Settle, BtnP!Settle,
        Btn!Edge, BtnP!Edge, Btn!contacts, BtnP!contacts, Btn!DelayOver, BtnP!DelayOver,
        Btn!Isr, BtnP!Isr, Btn!SendQueueChanges, BtnP!SendQueueChanges,
        Btn!TakeEvent, BtnP!TakeEvent, Btn!SampleChanged, BtnP!SampleChanged,
        Btn!SampleSame, BtnP!SampleSame, Btn!SendAccepted, BtnP!SendAccepted,
        Btn!SendTimedOut, BtnP!SendTimedOut,
        Btn!Levels, BtnP!Levels, Btn!Message, BtnP!Message
  <2> QED
    BY StepMaps, <2>1, <2>2
<1> QED
  BY <1>1, <1>2, PTL DEF DeviceSpec, BtnP!Spec

LEMMA DeviceButtonType == DeviceSpec => []Btn!TypeOK
<1>1. BtnP!Spec => []BtnP!TypeOK
  BY BtnP!ButtonTypeCorrect, DeviceConstants
<1>2. BtnP!TypeOK => Btn!TypeOK
  BY DEF BtnP!TypeOK, Btn!TypeOK, BtnP!Levels, Btn!Levels, BtnP!Steps, Btn!Steps
<1> QED
  BY <1>1, <1>2, DeviceRefinesButton, PTL

(* On a device whose queue the other tasks fill and the TCP task drains no edge is
   lost for good (button.c:19, 32). *)
THEOREM DeviceLosesNoEdge == DeviceSpec => []Btn!NoLostEdge
<1>1. BtnP!Spec => []BtnP!NoLostEdge
  BY BtnP!NoLostEdgeCorrect, DeviceConstants
<1>2. BtnP!NoLostEdge => Btn!NoLostEdge
  BY DEF BtnP!NoLostEdge, Btn!NoLostEdge
<1> QED
  BY <1>1, <1>2, DeviceRefinesButton, PTL

(* The instances count with the same Cardinality. *)
LEMMA SameCardinality ==
  ASSUME NEW S
  PROVE  Btn!Cardinality(S) = Cardinality(S) /\ BtnP!Cardinality(S) = Cardinality(S)
BY Zenon DEF Cardinality, Btn!Cardinality, BtnP!Cardinality

LEMMA DeviceReportsOncePerPress == DeviceSpec => []Btn!OneReportPerPress
<1>1. BtnP!Spec => []BtnP!OneReportPerPress
  BY BtnP!OneReportPerPressCorrect, DeviceConstants
<1>2. BtnP!OneReportPerPress => Btn!OneReportPerPress
  BY SameCardinality DEF BtnP!OneReportPerPress, Btn!OneReportPerPress, BtnP!PressReports, Btn!PressReports
<1> QED
  BY <1>1, <1>2, DeviceRefinesButton, PTL

-----------------------------------------------------------------------------
(* What relates the two parts.                                              *)

Indicator(b) == IF b THEN 1 ELSE 0

(* The button's task is inside xQueueSend in both modules or in neither. *)
WaitInv == "button" \in waiting <=> btnPc = "send"

(* Every accepted message has an author. *)
AuthorInv ==
  /\ author \in Seq({"SOS", "blank", "other"}) /\ Len(author) = accepted
  /\ boot \in {"play", "tcp", "done", "nobutton"}

(* The button's k-th message is its k-th among all that were accepted. *)
Rank(n) == Cardinality(Alerts \cap 1..n)
QueuedInv ==
  /\ Len(queued) = Cardinality(Alerts)
  /\ \A n \in Alerts : queued[Rank(n)] = author[n]

(* Every "SOS" report becomes at most one message, which is in the queue or still
   being offered to it. *)
Alerting == {n \in 1..accepted : author[n] = "SOS"}
PressInv ==
  Cardinality(Alerting) + Indicator(btnPc = "send" /\ lastState = "pressed")
    <= Cardinality(Btn!PressReports)

(* A report is queued at most once. *)
ReportInv == Len(queued) + Indicator(btnPc = "send") <= Len(reports)

(* As long as no report was dropped the newest alert in the queue says what the task
   last saw: this is what the server will be told last. *)
Newest(a) == \E n \in Alerts : author[n] = a /\ \A k \in Alerts : k <= n
NewestInv ==
  btnPc # "send" /\ lastState # "none" /\ Len(queued) = Len(reports)
    => Newest(Btn!Message(lastState))

DeviceInv ==
  WaitInv /\ AuthorInv /\ QueuedInv /\ PressInv /\ ReportInv /\ NewestInv

(* What the invariants of the two modules say of the types. *)
LEMMA DeviceTypes ==
  ASSUME TypeOK, Btn!TypeOK, AuthorInv
  PROVE  /\ accepted \in Nat /\ edges \in Nat
         /\ Len(queued) \in Nat /\ Len(reports) \in Nat
         /\ IsFiniteSet(Alerts) /\ Cardinality(Alerts) \in Nat
         /\ IsFiniteSet(Alerting) /\ Cardinality(Alerting) \in Nat
         /\ Cardinality(Btn!PressReports) \in Nat /\ presses \in Nat
         /\ \A n \in 1..accepted : author[n] \in {"SOS", "blank", "other"}
<1>1. accepted \in Nat /\ edges \in Nat
  BY TcpConstants, DeviceConstants DEF TypeOK, Btn!TypeOK
<1>2. Len(queued) \in Nat /\ Len(reports) \in Nat
  BY LenProperties DEF Btn!TypeOK
<1>3. IsFiniteSet(1..accepted)
  BY <1>1, FS_Interval
<1>4. /\ IsFiniteSet(Alerts) /\ Cardinality(Alerts) \in Nat
      /\ IsFiniteSet(Alerting) /\ Cardinality(Alerting) \in Nat
  BY <1>3, FS_Subset, FS_CardinalityType DEF Alerts, Alerting
<1>5. \A n \in 1..accepted : author[n] \in {"SOS", "blank", "other"}
  BY ElementOfSeq DEF AuthorInv
<1>6. Cardinality(Btn!PressReports) \in Nat
  <2>1. IsFiniteSet(1..Len(reports)) /\ Btn!PressReports \in SUBSET (1..Len(reports))
    BY <1>2, FS_Interval DEF Btn!PressReports
  <2> QED
    BY <2>1, FS_Subset, FS_CardinalityType
<1>7. presses \in Nat
  BY DEF Btn!TypeOK
<1> QED
  BY <1>1, <1>2, <1>4, <1>5, <1>6, <1>7

(* A report adds its own index to those of the "SOS" reports, or none. *)
LEMMA PressReportsGrow ==
  ASSUME Btn!TypeOK, reports' = Append(reports, level)
  PROVE  Cardinality(Btn!PressReports')
           = Cardinality(Btn!PressReports) + Indicator(level = "pressed")
<1>1. BtnP!TypeOK
  BY DEF BtnP!TypeOK, Btn!TypeOK, BtnP!Levels, Btn!Levels, BtnP!Steps, Btn!Steps
<1>2. Cardinality(BtnP!PressReports')
        = Cardinality(BtnP!PressReports) + BtnP!Indicator(level = "pressed")
  BY <1>1, BtnP!PressReportsGrow, DeviceConstants, SameCardinality
<1>3. BtnP!PressReports = Btn!PressReports /\ BtnP!PressReports' = Btn!PressReports'
  BY DEF BtnP!PressReports, Btn!PressReports
<1> QED
  BY <1>2, <1>3 DEF BtnP!Indicator, Indicator

(* Outside the producers nobody touches what was accepted or who is waiting. *)
LEMMA QueueSideKept ==
  ASSUME TcpTask \/ GuiTakes \/ World
  PROVE  UNCHANGED <<accepted, waiting>>
BY DEF TcpTask, Connect, ConnectFails, BackoffOver, RecvData, RecvNothing, RecvError,
       BeepAndForward, TakeFromQueue, QueueDrained, SendOk, SendIntoVoid, SendFails,
       CloseSocket, GuiTakes, World, LinkLost, RetransmitGivesUp, ServerToggles,
       ServerSends, ServerReads, queues

(* A step that accepts no message and leaves the button alone changes none of it. *)
LEMMA DeviceStutter ==
  ASSUME DeviceInv, UNCHANGED <<accepted, author, button>>,
         "button" \in waiting' <=> "button" \in waiting,
         boot' \in {"play", "tcp", "done", "nobutton"}
  PROVE  DeviceInv'
<1>1. Alerts' = Alerts /\ Alerting' = Alerting
  BY DEF Alerts, Alerting
<1> QED
  BY <1>1 DEF DeviceInv, WaitInv, AuthorInv, QueuedInv, Rank, PressInv, Btn!PressReports,
              ReportInv, NewestInv, Newest, Btn!Message, button

(* The pin, its interrupt and the part of the task that is not xQueueSend. *)
LEMMA AloneKeepsDeviceInv ==
  ASSUME TypeOK, Btn!TypeOK, DeviceInv, ButtonAlone
  PROVE  DeviceInv'
<1>1. UNCHANGED <<accepted, waiting, boot, author, queued, reports, lastState>>
  BY DEF ButtonAlone, vars, queues, Btn!Contacts, Btn!Gesture, Btn!Bounce, Btn!Settle,
     Btn!Edge, Btn!Isr, Btn!TakeEvent, Btn!SampleSame
<1>2. btnPc' = btnPc \/ (btnPc # "send" /\ btnPc' # "send")
  BY DEF ButtonAlone, Btn!Contacts, Btn!Gesture, Btn!Bounce, Btn!Settle,
     Btn!Edge, Btn!Isr, Btn!TakeEvent, Btn!SampleSame, Btn!DelayOver
<1>3. Alerts' = Alerts /\ Alerting' = Alerting /\ Btn!PressReports' = Btn!PressReports
  BY <1>1 DEF Alerts, Alerting, Btn!PressReports
<1>4. AuthorInv' /\ QueuedInv'
  BY <1>1, <1>3 DEF DeviceInv, AuthorInv, QueuedInv, Rank
<1> QED
  BY <1>1, <1>2, <1>3, <1>4
  DEF DeviceInv, WaitInv, PressInv, ReportInv, Indicator, NewestInv, Newest, Btn!Message

(* The task reports a level: if it is a press, that is now the alert it offers. *)
LEMMA OffersKeepsDeviceInv ==
  ASSUME TypeOK, Btn!TypeOK, DeviceInv, ButtonOffers
  PROVE  DeviceInv'
<1>1. /\ UNCHANGED <<accepted, boot, author, queued>>
      /\ waiting' = waiting \cup {"button"} /\ btnPc = "debounce" /\ btnPc' = "send"
      /\ level # lastState /\ lastState' = level /\ reports' = Append(reports, level)
  BY DEF ButtonOffers, OfferMsg, Btn!SampleChanged, Btn!DelayOver
<1>2. Alerts' = Alerts /\ Alerting' = Alerting
  BY <1>1 DEF Alerts, Alerting
<1>3. WaitInv' /\ AuthorInv' /\ QueuedInv' /\ NewestInv'
  BY <1>1, <1>2 DEF DeviceInv, WaitInv, AuthorInv, QueuedInv, Rank, NewestInv
<1>4. PressInv'
  <2>1. Cardinality(Btn!PressReports) \in Nat /\ Cardinality(Alerting) \in Nat
    BY DeviceTypes DEF DeviceInv
  <2>2. Cardinality(Btn!PressReports')
          = Cardinality(Btn!PressReports) + Indicator(level = "pressed")
    BY <1>1, PressReportsGrow
  <2> QED
    BY <1>1, <1>2, <2>1, <2>2 DEF DeviceInv, PressInv, Indicator
<1>5. ReportInv'
  <2>1. Len(reports') = Len(reports) + 1
    BY <1>1, AppendProperties DEF Btn!TypeOK
  <2> QED
    BY <1>1, <2>1, DeviceTypes DEF DeviceInv, ReportInv, Indicator
<1> QED
  BY <1>3, <1>4, <1>5 DEF DeviceInv

(* The queue was full for 100 ms: from now on there are more reports than alerts. *)
LEMMA TimedOutKeepsDeviceInv ==
  ASSUME TypeOK, Btn!TypeOK, DeviceInv, ButtonTimedOut
  PROVE  DeviceInv'
<1>1. /\ UNCHANGED <<accepted, boot, author, queued, lastState, reports>>
      /\ waiting' = waiting \ {"button"} /\ btnPc = "send" /\ btnPc' = "wait"
  BY DEF ButtonTimedOut, MsgTimedOut, Btn!SendTimedOut
<1>2. Alerts' = Alerts /\ Alerting' = Alerting
  BY <1>1 DEF Alerts, Alerting
<1>3. WaitInv' /\ AuthorInv' /\ QueuedInv'
  BY <1>1, <1>2 DEF DeviceInv, WaitInv, AuthorInv, QueuedInv, Rank
<1>4. Len(queued) + 1 <= Len(reports) /\ Len(queued) \in Nat /\ Len(reports) \in Nat
  BY <1>1, DeviceTypes DEF DeviceInv, ReportInv, Indicator
<1>5. PressInv'
  <2>1. Cardinality(Btn!PressReports) \in Nat /\ Cardinality(Alerting) \in Nat
    BY DeviceTypes DEF DeviceInv
  <2> QED
    BY <1>1, <1>2, <2>1 DEF DeviceInv, PressInv, Btn!PressReports, Indicator
<1>6. ReportInv' /\ NewestInv'
  BY <1>1, <1>4 DEF ReportInv, NewestInv, Indicator
<1> QED
  BY <1>3, <1>5, <1>6 DEF DeviceInv

(* What accepting a message does to the history. *)
LEMMA AuthorAppend ==
  ASSUME TypeOK, AuthorInv, NEW a \in {"SOS", "blank", "other"},
         accepted' = accepted + 1, author' = Append(author, a), boot' = boot
  PROVE  /\ AuthorInv'
         /\ \A n \in 1..accepted : author'[n] = author[n]
         /\ author'[accepted + 1] = a
         /\ Alerts' = IF Alert(a) THEN Alerts \cup {accepted + 1} ELSE Alerts
         /\ Alerting' = IF a = "SOS" THEN Alerting \cup {accepted + 1} ELSE Alerting
<1>1. /\ Append(author, a) \in Seq({"SOS", "blank", "other"})
      /\ Len(Append(author, a)) = accepted + 1
      /\ \A n \in 1..accepted : Append(author, a)[n] = author[n]
      /\ Append(author, a)[accepted + 1] = a
  BY AppendProperties DEF AuthorInv
<1>2. 1..(accepted + 1) = (1..accepted) \cup {accepted + 1}
  BY TcpConstants DEF TypeOK
<1> QED
  BY <1>1, <1>2 DEF AuthorInv, Alerts, Alerting, Alert

LEMMA OtherAcceptedKeepsDeviceInv ==
  ASSUME TypeOK, Btn!TypeOK, DeviceInv, OtherAccepted
  PROVE  DeviceInv'
<1>1. PICK p \in Others : MsgAccepted(p)
  BY DEF OtherAccepted
<1>2. /\ waiting' = waiting \ {p} /\ p # "button" /\ accepted' = accepted + 1
      /\ author' = Append(author, "other") /\ UNCHANGED <<boot, button>>
  BY <1>1 DEF MsgAccepted, Others, OtherAccepted
<1>3. /\ AuthorInv' /\ Alerts' = Alerts /\ Alerting' = Alerting
      /\ \A n \in 1..accepted : author'[n] = author[n]
  BY <1>2, AuthorAppend DEF DeviceInv, Alert
<1>4. \A n \in Alerts : author'[n] = author[n]
  BY <1>3 DEF Alerts
<1>5. QueuedInv' /\ NewestInv'
  BY <1>2, <1>3, <1>4
  DEF DeviceInv, QueuedInv, Rank, NewestInv, Newest, Btn!Message, button
<1>6. WaitInv' /\ PressInv' /\ ReportInv'
  BY <1>2, <1>3
  DEF DeviceInv, WaitInv, PressInv, Btn!PressReports, ReportInv, Indicator, button
<1> QED
  BY <1>3, <1>5, <1>6 DEF DeviceInv

(* The rank of an alert is a place in the button's own sequence, and a younger
   message does not move it. *)
LEMMA RankFacts ==
  ASSUME TypeOK, Btn!TypeOK, AuthorInv, NEW n \in Alerts
  PROVE  /\ Rank(n) \in 1..Cardinality(Alerts)
         /\ (Alerts \cup {accepted + 1}) \cap 1..n = Alerts \cap 1..n
<1>1. accepted \in Nat /\ n \in 1..accepted
  BY DeviceTypes DEF Alerts
<1>2. IsFiniteSet(Alerts) /\ Cardinality(Alerts) \in Nat
  BY DeviceTypes
<1> DEFINE Upto == Alerts \cap 1..n
<1>3. Upto \in SUBSET Alerts /\ Upto # {}
  BY <1>1
<1>4. IsFiniteSet(Upto) /\ Cardinality(Upto) <= Cardinality(Alerts)
  BY ONLY <1>2, <1>3, FS_Subset
<1>5. Cardinality(Upto) \in Nat /\ Cardinality(Upto) # 0
  BY <1>3, <1>4, FS_CardinalityType, FS_EmptySet
<1>6. Rank(n) \in 1..Cardinality(Alerts)
  BY <1>2, <1>4, <1>5 DEF Rank
<1>7. accepted + 1 \notin 1..n
  BY <1>1
<1> QED
  BY <1>6, <1>7

(* The alert goes into the queue: it is the button's next, and the newest. *)
LEMMA AcceptedKeepsDeviceInv ==
  ASSUME TypeOK, Btn!TypeOK, DeviceInv, ButtonAccepted
  PROVE  DeviceInv'
<1>0. accepted \in Nat
  BY DeviceTypes DEF DeviceInv
<1> PICK new \in Nat : new = accepted + 1
  BY <1>0
<1> DEFINE a == Btn!Message(lastState)
<1>1. /\ waiting' = waiting \ {"button"} /\ accepted' = accepted + 1
      /\ author' = Append(author, a) /\ queued' = Append(queued, a)
      /\ btnPc = "send" /\ btnPc' = "wait"
      /\ UNCHANGED <<boot, lastState, reports>>
  BY DEF ButtonAccepted, MsgAccepted, Btn!SendAccepted
<1>2. a \in {"SOS", "blank"} /\ Alert(a) /\ (a = "SOS" <=> lastState = "pressed")
  BY DEF Btn!Message, Alert
<1>3. /\ accepted \in Nat /\ AuthorInv
      /\ IsFiniteSet(Alerts) /\ Cardinality(Alerts) \in Nat
      /\ IsFiniteSet(Alerting) /\ Cardinality(Alerting) \in Nat
      /\ Alerts \subseteq 1..accepted /\ Alerting \subseteq 1..accepted
  BY DeviceTypes DEF DeviceInv, Alerts, Alerting
<1>4. /\ AuthorInv' /\ author'[new] = a
      /\ \A n \in 1..accepted : author'[n] = author[n]
      /\ Alerts' = Alerts \cup {new}
      /\ Alerting' = IF a = "SOS" THEN Alerting \cup {new} ELSE Alerting
  BY <1>1, <1>2, <1>3, AuthorAppend
<1>5. /\ Len(queued) \in Nat /\ Len(queued') = Len(queued) + 1
      /\ \A i \in 1..Len(queued) : queued'[i] = queued[i]
      /\ queued'[Len(queued) + 1] = a
  BY <1>1, <1>2, LenProperties, AppendProperties DEF Btn!TypeOK
<1>6. new \notin Alerts /\ new \notin Alerting
  BY <1>3
<1>7. Cardinality(Alerts') = Cardinality(Alerts) + 1
  BY <1>3, <1>4, <1>6, FS_AddElement
<1> HIDE DEF a
<1>8. QueuedInv'
  <2>1. Len(queued) = Cardinality(Alerts)
    BY DEF DeviceInv, QueuedInv
  <2>2. ASSUME NEW n \in Alerts
        PROVE  queued'[Rank(n)'] = author'[n]
    <3>1. /\ Rank(n) \in 1..Cardinality(Alerts)
          /\ (Alerts \cup {new}) \cap 1..n = Alerts \cap 1..n
      BY <1>3, RankFacts
    <3>2. Rank(n)' = Rank(n)
      BY <1>4, <3>1 DEF Rank
    <3>3. queued[Rank(n)] = author[n]
      BY DEF DeviceInv, QueuedInv
    <3> QED
      BY <1>3, <1>4, <1>5, <2>1, <3>1, <3>2, <3>3
  <2>3. queued'[Rank(new)'] = author'[new]
    <3>1. Alerts' \cap 1..new = Alerts'
      <4>1. \A n \in Alerts' : n \in 1..new
        BY <1>3, <1>4
      <4> QED
        BY <4>1
    <3>2. Rank(new)' = Cardinality(Alerts')
      BY <3>1 DEF Rank
    <3> QED
      BY <3>2, <1>4, <1>5, <1>7, <2>1
  <2>4. \A n \in Alerts' : queued'[Rank(n)'] = author'[n]
    BY <1>4, <2>2, <2>3
  <2> QED
    BY <1>5, <1>7, <2>1, <2>4 DEF QueuedInv, Rank
<1>9. PressInv'
  <2>1. Btn!PressReports' = Btn!PressReports /\ Cardinality(Btn!PressReports) \in Nat
    BY <1>1, DeviceTypes DEF DeviceInv, Btn!PressReports
  <2>2. Cardinality(Alerting')
          = Cardinality(Alerting) + Indicator(lastState = "pressed")
    <3>1. Cardinality(Alerting \cup {new}) = Cardinality(Alerting) + 1
      BY <1>3, <1>6, FS_AddElement
    <3> QED
      BY <1>2, <1>3, <1>4, <3>1 DEF Indicator
  <2> QED
    BY <1>1, <1>3, <2>1, <2>2 DEF DeviceInv, PressInv, Indicator
<1>10. ReportInv'
  BY <1>1, <1>5, DeviceTypes DEF DeviceInv, ReportInv, Indicator
<1>11. NewestInv'
  <2>1. \A k \in Alerts' : k <= new
    BY <1>3, <1>4
  <2>2. Newest(a)'
    BY <1>1, <1>4, <2>1 DEF Newest, a, Btn!Message
  <2> QED
    BY <1>1, <2>2 DEF NewestInv, a, Btn!Message
<1>12. WaitInv'
  BY <1>1 DEF WaitInv
<1> QED
  BY <1>4, <1>8, <1>9, <1>10, <1>11, <1>12 DEF DeviceInv

(* The parts of the device agree on the button's task, on the accepted messages and
   their authors, on the presses spent and on what the newest alert says. *)
THEOREM DeviceInvCorrect == DeviceSpec => []DeviceInv
<1>1. DeviceInit => DeviceInv
  <2> SUFFICES ASSUME DeviceInit PROVE DeviceInv
    OBVIOUS
  <2>1. /\ boot = "play" /\ author = <<>> /\ accepted = 0 /\ waiting = {}
        /\ btnPc = "wait" /\ lastState = "none" /\ queued = <<>> /\ reports = <<>>
    BY DEF DeviceInit, Init
  <2>2. Alerts = {} /\ Alerting = {}
    BY <2>1 DEF Alerts, Alerting
  <2>3. author \in Seq({"SOS", "blank", "other"}) /\ Len(author) = 0 /\ Len(queued) = 0
    BY <2>1, EmptySeq
  <2>4. WaitInv /\ AuthorInv /\ ReportInv /\ NewestInv
    BY <2>1, <2>3 DEF WaitInv, AuthorInv, ReportInv, NewestInv, Indicator
  <2>5. Cardinality(Alerts) = 0 /\ Cardinality(Alerting) = 0
    BY <2>2, FS_EmptySet
  <2>6. QueuedInv
    BY <2>2, <2>3, <2>5 DEF QueuedInv
  <2>7. PressInv
    <3>1. Btn!PressReports = {}
      BY <2>1, EmptySeq DEF Btn!PressReports
    <3> QED
      BY <2>1, <2>5, <3>1, FS_EmptySet DEF PressInv, Indicator
  <2> QED
    BY <2>4, <2>6, <2>7 DEF DeviceInv
<1>2. TypeOK /\ Btn!TypeOK /\ DeviceInv /\ [DeviceNext]_deviceVars => DeviceInv'
  <2> SUFFICES ASSUME TypeOK, Btn!TypeOK, DeviceInv, [DeviceNext]_deviceVars
               PROVE  DeviceInv'
    OBVIOUS
  <2>1. CASE InitTcpTask \/ InitButton
    <3>1. /\ UNCHANGED <<accepted, author, button, waiting>>
          /\ boot' \in {"play", "tcp", "done", "nobutton"}
      BY <2>1 DEF InitTcpTask, InitButton, vars, queues
    <3> QED
      BY <3>1, DeviceStutter
  <2>2. CASE ButtonAlone
    BY <2>2, AloneKeepsDeviceInv
  <2>3. CASE ButtonOffers
    BY <2>3, OffersKeepsDeviceInv
  <2>4. CASE ButtonAccepted
    BY <2>4, AcceptedKeepsDeviceInv
  <2>5. CASE ButtonTimedOut
    BY <2>5, TimedOutKeepsDeviceInv
  <2>6. CASE OtherAccepted
    BY <2>6, OtherAcceptedKeepsDeviceInv
  <2>7. boot \in {"play", "tcp", "done", "nobutton"}
    BY DEF DeviceInv, AuthorInv
  <2>8. CASE OtherOffers \/ OtherTimedOut
    <3>1. /\ UNCHANGED <<accepted, boot, author, button>>
          /\ "button" \in waiting' <=> "button" \in waiting
      BY <2>8 DEF OtherOffers, OtherTimedOut, OfferMsg, MsgTimedOut, Others
    <3> QED
      BY <2>7, <3>1, DeviceStutter
  <2>9. CASE TcpRuns \/ Elsewhere
    BY <2>7, <2>9, QueueSideKept, DeviceStutter DEF TcpRuns, Elsewhere
  <2>10. CASE UNCHANGED deviceVars
    BY <2>7, <2>10, DeviceStutter DEF deviceVars, vars, queues
  <2> QED
    BY <2>1, <2>2, <2>3, <2>4, <2>5, <2>6, <2>8, <2>9, <2>10 DEF DeviceNext
<1>3. Spec => []TypeOK
  BY TypeCorrect
<1> QED
  BY <1>1, <1>2, <1>3, DeviceRefinesTcp, DeviceButtonType, PTL DEF DeviceSpec

-----------------------------------------------------------------------------
(* What follows for the device.                                             *)

(* What TcpHelper promises of the messaging core holds of the whole device: order per
   connection, no message twice, inbound order, loss only in a step after which the
   connection does not work, as MessageChannel allows it (tcp_helper.c:244-282). *)
THEOREM DeviceMessaging ==
  DeviceSpec =>
    /\ [](SessionOrder /\ DeliveredOnce /\ InboundOrder)
    /\ LossNeedsDeadLink /\ ImplementsChannel
BY DeviceRefinesTcp, SessionOrderCorrect, DeliveredOnceCorrect, InboundOrderCorrect,
   LossNeedsDeadLinkCorrect, ChannelImplemented, PTL

(* The parts of the device never disagree on who waits at the send queue and on which
   of the accepted messages are the button's, in which order (button.c:49). *)
THEOREM DeviceTypeCorrect == DeviceSpec => []DeviceTypeOK
<1>1. TypeOK /\ Btn!TypeOK /\ DeviceInv => DeviceTypeOK
  BY DeviceTypes DEF DeviceInv, WaitInv, AuthorInv, QueuedInv, Rank, DeviceTypeOK
<1>2. Spec => []TypeOK
  BY TypeCorrect
<1> QED
  BY <1>1, <1>2, DeviceRefinesTcp, DeviceButtonType, DeviceInvCorrect, PTL

(* The server reads at most one alert per press of the button, whatever the contacts'
   bounces, full queues and reconnections (button.c:28-49, tcp_helper.c:267-279). *)
THEOREM OneAlertPerPressCorrect == DeviceSpec => []OneAlertPerPress
<1>1. TypeOK /\ Btn!TypeOK /\ DeviceInv /\ DeliveredOnce /\ Btn!OneReportPerPress
        => OneAlertPerPress
  <2> SUFFICES ASSUME TypeOK, Btn!TypeOK, DeviceInv, DeliveredOnce, Btn!OneReportPerPress
               PROVE  OneAlertPerPress
    OBVIOUS
  <2> DEFINE msg == [i \in AlertReads |-> log[i].m]
  <2>1. \A i \in 1..Len(log) : log[i].m \in 1..accepted
    BY OrderTypes DEF Elements
  <2>2. msg \in Injection(AlertReads, Alerting)
    <3>1. msg \in [AlertReads -> Alerting]
      BY <2>1 DEF AlertReads, Alerting
    <3>2. \A i, j \in AlertReads : msg[i] = msg[j] => i = j
      BY DEF AlertReads, DeliveredOnce
    <3> QED
      BY <3>1, <3>2 DEF Injection, IsInjective
  <2>3. IsFiniteSet(Alerting) /\ Cardinality(Alerting) \in Nat
    BY DeviceTypes DEF DeviceInv
  <2> HIDE DEF msg
  <2>4. IsFiniteSet(AlertReads) /\ Cardinality(AlertReads) <= Cardinality(Alerting)
    BY <2>2, <2>3, FS_Injection
  <2>5. Cardinality(AlertReads) \in Nat
    BY <2>4, FS_CardinalityType
  <2>6. /\ Cardinality(Alerting) <= Cardinality(Btn!PressReports)
        /\ Cardinality(Btn!PressReports) \in Nat /\ presses \in Nat
    BY <2>3, DeviceTypes DEF DeviceInv, PressInv, Indicator
  <2> QED
    BY <2>3, <2>4, <2>5, <2>6, SameCardinality DEF OneAlertPerPress, Btn!OneReportPerPress
<1>2. Spec => []TypeOK /\ []DeliveredOnce
  BY TypeCorrect, DeliveredOnceCorrect
<1> QED
  BY <1>1, <1>2, DeviceRefinesTcp, DeviceButtonType, DeviceInvCorrect,
     DeviceReportsOncePerPress, PTL

(* At rest, when no report was dropped or lost, the newest report the server has read
   tells the level of the pin: no edge and no order of the parts leaves the server
   with an older one (button.c:19-49). *)
THEOREM ServerKnowsCorrect == DeviceSpec => []ServerKnows
<1>1. TypeOK /\ Btn!TypeOK /\ DeviceInv /\ Btn!NoLostEdge => ServerKnows
  <2> SUFFICES ASSUME TypeOK, Btn!TypeOK, DeviceInv, Btn!NoLostEdge,
                      AtRest, ~Dropped, Alerts \cap LostMsgs = {}
               PROVE  \E n \in Alerts \cap Arrived :
                        author[n] = Btn!Message(level) /\ \A k \in Alerts : k <= n
    BY DEF ServerKnows
  <2>1. btnPc = "wait" /\ edges # 0
    BY DeviceTypes DEF AtRest, DeviceInv
  <2>2. lastState = level /\ level \in {"released", "pressed"}
    BY <2>1 DEF AtRest, Btn!NoLostEdge, Btn!TypeOK, Btn!Levels
  <2>3. Len(queued) \in Nat /\ Len(reports) \in Nat
    BY DeviceTypes DEF DeviceInv
  <2>4. Len(reports) <= Len(queued)
    <3>1. {"button"} \cap waiting = {}
      BY <2>1 DEF DeviceInv, WaitInv
    <3>2. Cardinality({"button"} \cap waiting) = 0
      BY <3>1, FS_EmptySet
    <3> QED
      BY <2>3, <3>2 DEF Dropped
  <2>5. Len(queued) = Len(reports)
    BY <2>1, <2>3, <2>4 DEF DeviceInv, ReportInv, Indicator
  <2>6. PICK n \in Alerts : author[n] = Btn!Message(level) /\ \A k \in Alerts : k <= n
    BY <2>1, <2>2, <2>5 DEF DeviceInv, NewestInv, Newest
  <2>7. n \in Arrived
    BY DEF AtRest, LostMsgs, Alerts
  <2> QED
    BY <2>6, <2>7
<1>2. Spec => []TypeOK
  BY TypeCorrect
<1>3. DeviceSpec => []Btn!NoLostEdge
  BY DeviceLosesNoEdge, PTL
<1> QED
  BY <1>1, <1>2, <1>3, DeviceRefinesTcp, DeviceButtonType, DeviceInvCorrect, PTL
=============================================================================
