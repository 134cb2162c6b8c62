------------------------------- MODULE Device -------------------------------
(***************************************************************************)
(* The messaging of a whole device, composed of TcpHelper (the queues, the *)
(* TCP task, the far end) and Button (the SOS button): app_main's order of *)
(* starting them, and the button's task as one of the producers that share *)
(* the send queue.  A step of the button's task inside xQueueSend is a     *)
(* step of both modules.  The other producers are the GUI task, which runs *)
(* before the Wi-Fi is there, and user_input_task.                         *)
(***************************************************************************)
EXTENDS TcpHelper, FiniteSets

CONSTANTS
  EvtQueueLen, MaxEdges,   \* as in Button
  MaxOther                 \* bound: messages of the other producers

ASSUME DeviceConstants ==
  /\ EvtQueueLen \in Nat \ {0} /\ {MaxEdges, MaxOther} \subseteq Nat
  /\ MaxAccepted = MaxEdges + MaxOther
  /\ "button" \in Producers

VARIABLES
  boot,     \* app_main: "play", "tcp" after init_tcp_task, then what init_button returned
  author,   \* history: what each accepted message is: "SOS", "blank" or "other"
  level, target, bouncing, edges, presses,                 \* as in Button
  irq, events, btnPc, within, lastState, queued, reports   \* as in Button

contactVars == <<level, target, bouncing, edges, presses>>
button == <<contactVars, irq, events, btnPc, within, lastState, queued, reports>>
deviceVars == <<vars, boot, author, button>>

Btn == INSTANCE Button WITH pc <- btnPc, sendFull <- SendQFull

Alert(a) == a # "other"

Alerts == {n \in 1..accepted : Alert(author[n])}   \* the button's messages

(* The parts agree on where the button's task is and on the messages accepted: what
   Button counts as queued are the button's messages among all, in their order. *)
DeviceTypeOK ==
  /\ TypeOK /\ Btn!TypeOK
  /\ boot \in {"play", "tcp", "done", "nobutton"}
  /\ Len(author) = accepted /\ \A n \in 1..accepted : author[n] \in {"SOS", "blank", "other"}
  /\ "button" \in waiting <=> btnPc = "send"
  /\ Len(queued) = Cardinality(Alerts)
  /\ \A n \in Alerts : queued[Cardinality(Alerts \cap 1..n)] = author[n]

DeviceInit ==
  /\ Init
  /\ boot = "play" /\ author = <<>>
  /\ level \in Btn!Levels /\ target = level /\ bouncing = FALSE
  /\ edges = 0 /\ presses = (IF level = "pressed" THEN 1 ELSE 0)
  /\ irq = FALSE /\ events = 0 /\ btnPc = "wait" /\ within = FALSE
  /\ lastState = "none" /\ queued = <<>> /\ reports = <<>>

-----------------------------------------------------------------------------
(* app_main.                                                                *)

(* play() returns (Audio), and init_tcp_task starts its tasks. *)
InitTcpTask ==
  /\ boot = "play" /\ boot' = "tcp"
  /\ UNCHANGED <<vars, author, button>>

(* init_button fails when its queue cannot be created; nobody looks at that. *)
InitButton ==
  /\ boot = "tcp" /\ boot' \in {"done", "nobutton"}
  /\ UNCHANGED <<vars, author, button>>

-----------------------------------------------------------------------------
(* The button's interrupt and task.                                         *)

ButtonAlone ==
  /\ boot = "done"
  /\ UNCHANGED <<vars, boot, author>>
  /\ Btn!Contacts \/ Btn!Isr \/ Btn!TakeEvent \/ Btn!SampleSame

ButtonOffers ==
  /\ OfferMsg("button") /\ UNCHANGED <<boot, author>>
  /\ Btn!SampleChanged

ButtonAccepted ==
  /\ MsgAccepted("button") /\ UNCHANGED boot
  /\ author' = Append(author, Btn!Message(lastState))
  /\ Btn!SendAccepted

(* Mutant: the state that could not be reported is forgotten again. *)
ButtonTimedOutForgets ==
  /\ MsgTimedOut("button") /\ UNCHANGED <<boot, author>>
  /\ btnPc' = "wait" /\ lastState' = "none"
  /\ UNCHANGED <<contactVars, irq, events, within, queued, reports>>

ButtonTimedOut ==
  /\ MsgTimedOut("button") /\ UNCHANGED <<boot, author>>
  /\ Btn!SendTimedOut

-----------------------------------------------------------------------------
(* The rest of the device and the world.                                    *)

Others == (Producers \cap waiting) \ {"button"}
ByOthers == Cardinality({n \in 1..accepted : author[n] = "other"}) + Cardinality(Others)

OtherOffers ==
  /\ ByOthers < MaxOther
  /\ \E p \in Producers \ {"button"} : (p = "gui" \/ boot # "play") /\ OfferMsg(p)
  /\ UNCHANGED <<boot, author, button>>

OtherAccepted ==
  /\ \E p \in Others : MsgAccepted(p)
  /\ author' = Append(author, "other")
  /\ UNCHANGED <<boot, button>>

OtherTimedOut ==
  /\ \E p \in Others : MsgTimedOut(p)
  /\ UNCHANGED <<boot, author, button>>

TcpRuns == boot # "play" /\ TcpTask /\ UNCHANGED <<boot, author, button>>

Elsewhere == (GuiTakes \/ World) /\ UNCHANGED <<boot, author, button>>

DeviceNext ==
  \/ InitTcpTask \/ InitButton
  \/ ButtonAlone \/ ButtonOffers \/ ButtonAccepted \/ ButtonTimedOut
  \/ OtherOffers \/ OtherAccepted \/ OtherTimedOut
  \/ TcpRuns \/ Elsewhere

DeviceSpec == DeviceInit /\ [][DeviceNext]_deviceVars

(* app_main goes on, the tasks are scheduled, and the server's threads read. *)
DeviceFairSpec ==
  /\ DeviceSpec
  /\ WF_deviceVars(InitTcpTask \/ InitButton)
  /\ WF_deviceVars(TcpRuns /\ ~MayBlock)
  /\ WF_deviceVars(ButtonAccepted \/ ButtonTimedOut)
  /\ WF_deviceVars(Elsewhere /\ \E s \in Sessions : ServerReads(s))

-----------------------------------------------------------------------------
(* Properties.                                                              *)

Dropped == Len(reports) > Len(queued) + Cardinality({"button"} \cap waiting)

(* From the pin to the server's log: the server never reads more alerts than the
   button was pressed, over any number of bounces, retries and connections. *)
AlertReads == {i \in 1..Len(log) : author[log[i].m] = "SOS"}
OneAlertPerPress == Cardinality(AlertReads) <= presses

(* When all has come to rest, and no report of the button was dropped at the queue
   or lost with a connection, the newest report the server has read tells the
   level at which the pin rests. *)
AtRest ==
  /\ edges > 0 /\ ~irq /\ events = 0 /\ btnPc = "wait"
  /\ Alerts \cap InTransit = {}
ServerKnows ==
  AtRest /\ ~Dropped /\ Alerts \cap LostMsgs = {} =>
    \E n \in Alerts \cap Arrived :
      author[n] = Btn!Message(level) /\ \A k \in Alerts : k <= n

(* A report reaches the server, however busy the others keep the queue, unless it
   is dropped at a full queue or the connection does not hold from there on. *)
AlertArrives ==
  \A k \in 1..MaxEdges :
    (Len(reports) >= k /\ [](link = "up"))
      ~> (Dropped \/ Alerts \cap LostMsgs # {} \/ Cardinality(Alerts \cap Arrived) >= k)
=============================================================================
