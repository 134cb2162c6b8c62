------------------------------- MODULE Audio -------------------------------
(***************************************************************************)
(* The audio half of the device: the life cycle that udp_client.c gives to *)
(* the amplifier and its I2S driver (audio_utils.c, max98357.c), to the    *)
(* Wi-Fi station and to the receiving task.                                *)
(*                                                                         *)
(* app_main calls udp_client_start_audio_streaming once and starts the     *)
(* messaging afterwards, in the same task.  The later calls, of which the  *)
(* program makes none today, are the four udp_client.h offers and the two  *)
(* other ways to bring the Wi-Fi up; they come from one task, in any       *)
(* order.  Of a datagram nothing matters here but whether i2s_write gets   *)
(* it.  The flash that nvs_flash_init reads is taken to be sound.          *)
(***************************************************************************)
EXTENDS WifiStation

CONSTANTS
  MaxCalls,         \* bound: calls of the APIs in one boot
  MaxBoots          \* bound: boots of the device

ASSUME AudioConstants == MaxCalls \in Nat /\ MaxBoots \in Nat \ {0}

VARIABLES
  pc,         \* the task that calls the API
  calls,      \* calls made in this boot
  alone,      \* the call in progress is udp_client_init by itself
  running,    \* udp_client_running
  task,       \* udp_receive_task
  sdPin,      \* sd_pin of max98357.c is set
  level,      \* level of the amplifier's SD_MODE pin
  i2s,        \* the I2S driver is installed
  messaging,  \* app_main has got past play()
  boots,      \* boots so far
  prepared,   \* history: a udp_client_init by itself has succeeded, and no stop came since
  disturbed   \* history: a call came out of turn

caller == <<pc, calls, alone, messaging>>
amp == <<sdPin, level, i2s>>
history == <<prepared, disturbed>>
vars == <<caller, running, task, station, amp, boots, history>>

Alive == {"created", "check", "recv", "write"}

TypeOK ==
  /\ pc \in {"boot", "install", "pins", "enable", "start", "wait", "create", "idle",
             "deinit", "helper", "crashed"}
  /\ calls \in 0..MaxCalls
  /\ running \in BOOLEAN
  /\ task \in Alive \cup {"none", "ended"}
  /\ StationTypeOK
  /\ sdPin \in BOOLEAN /\ level \in {0, 1} /\ i2s \in BOOLEAN
  /\ alone \in BOOLEAN /\ messaging \in BOOLEAN
  /\ boots \in 1..MaxBoots
  /\ prepared \in BOOLEAN /\ disturbed \in BOOLEAN

Init ==
  /\ pc = "boot" /\ calls = 0 /\ alone = FALSE /\ messaging = FALSE
  /\ running = FALSE /\ task = "none"
  /\ StationOff
  /\ sdPin = FALSE /\ level = 0 /\ i2s = FALSE
  /\ boots = 1 /\ prepared = FALSE /\ disturbed = FALSE

Goto(step) == pc' = step

(* The call returns; in app_main the messaging is started next. *)
Return == Goto("idle") /\ messaging' = TRUE

-----------------------------------------------------------------------------
(* udp_client_init and its audio_utils_init, by itself or as the first half of
   udp_client_start_audio_streaming. *)

(* max98357_init remembers the pin, sets its level to 0 once the pin is
   configured, and fails if it cannot be.  The call is out of turn while the
   client runs, and after another initialisation. *)
Initialise(byItself) ==
  /\ calls < MaxCalls
  /\ calls' = calls + 1 /\ alone' = byItself
  /\ sdPin' = TRUE
  /\ disturbed' = (disturbed \/ running \/ prepared)
  /\ \/ Goto("install") /\ level' = 0 /\ UNCHANGED messaging
     \/ Return /\ UNCHANGED level
  /\ UNCHANGED <<running, task, station, i2s, boots, prepared>>

(* udp_client_start_audio_streaming. *)
CallStreaming == pc \in {"boot", "idle"} /\ Initialise(FALSE)

(* udp_client_init. *)
CallInit == pc = "idle" /\ Initialise(TRUE)

InstallDriver ==
  /\ pc = "install"
  /\ ~i2s
  /\ i2s' = TRUE
  /\ Goto("pins")
  /\ UNCHANGED <<calls, alone, messaging, running, task, station, sdPin, level, boots, history>>

(* Mutant: the error is not returned. *)
InstallFailsIgnored ==
  /\ pc = "install"
  /\ Goto("enable")
  /\ UNCHANGED <<calls, alone, messaging, running, task, station, amp, boots, history>>

(* i2s_driver_install fails: no memory, or the driver is there already. *)
InstallFails ==
  /\ pc = "install"
  /\ Return
  /\ UNCHANGED <<calls, alone, running, task, station, amp, boots, history>>

SetPins ==
  /\ pc = "pins"
  /\ Goto("enable")
  /\ UNCHANGED <<calls, alone, messaging, running, task, station, amp, boots, history>>

(* Mutant: the driver is left installed. *)
SetPinsFailsKeepsDriver ==
  /\ pc = "pins"
  /\ Return
  /\ UNCHANGED <<calls, alone, running, task, station, amp, boots, history>>

(* i2s_set_pin fails: the driver is uninstalled again. *)
SetPinsFails ==
  /\ pc = "pins"
  /\ i2s' = FALSE
  /\ Return
  /\ UNCHANGED <<calls, alone, running, task, station, sdPin, level, boots, history>>

(* max98357_amp_enable, then audio_utils_set_gain, which cannot fail here. *)
EnableAmp ==
  /\ pc = "enable"
  /\ level' = 1
  /\ prepared' = (prepared \/ alone)
  /\ IF alone THEN Return ELSE Goto("start") /\ UNCHANGED messaging
  /\ UNCHANGED <<calls, alone, running, task, station, sdPin, i2s, boots, disturbed>>

-----------------------------------------------------------------------------
(* udp_client_start and wifi_init_sta.                                      *)

(* udp_client_start, which does not ask whether the client is initialised: out
   of turn unless it is, or unless the call will be refused. *)
CallStart ==
  /\ pc = "idle" /\ calls < MaxCalls
  /\ calls' = calls + 1 /\ alone' = FALSE
  /\ disturbed' = (disturbed \/ ~(running \/ prepared))
  /\ Goto("start")
  /\ UNCHANGED <<messaging, running, task, station, amp, boots, prepared>>

(* Refused while running; otherwise the Wi-Fi is started, and its STA_START
   event calls esp_wifi_connect. *)
StartWifi ==
  /\ pc = "start"
  /\ running \/ wifi = "off"
  /\ IF running THEN Return /\ UNCHANGED station
     ELSE Goto("wait") /\ StationStarts("udp_client") /\ UNCHANGED messaging
  /\ UNCHANGED <<calls, alone, running, task, amp, boots, history>>

(* Mutant: the error of the second esp_event_loop_create_default is tolerated. *)
StartWifiAgainTolerated ==
  /\ pc = "start"
  /\ ~running /\ wifi # "off"
  /\ Goto("wait")
  /\ UNCHANGED <<calls, alone, messaging, running, task, station, amp, boots, history>>

(* A second wifi_init_sta in one boot: esp_event_loop_create_default reports that
   the loop exists, and ESP_ERROR_CHECK aborts. *)
StartWifiAgain ==
  /\ pc = "start"
  /\ ~running /\ wifi # "off"
  /\ Goto("crashed")
  /\ UNCHANGED <<calls, alone, messaging, running, task, station, amp, boots, history>>

(* xEventGroupWaitBits: either bit will do, success or not. *)
WifiDecided ==
  /\ pc = "wait" /\ bits # {}
  /\ running' = TRUE
  /\ Goto("create")
  /\ UNCHANGED <<calls, alone, messaging, task, station, amp, boots, history>>

CreateTask ==
  /\ pc = "create"
  /\ task' = "created"
  /\ Return
  /\ UNCHANGED <<calls, alone, running, station, amp, boots, history>>

(* xTaskCreate fails: no memory for the stack. *)
CreateTaskFails ==
  /\ pc = "create"
  /\ running' = FALSE
  /\ Return
  /\ UNCHANGED <<calls, alone, task, station, amp, boots, history>>

-----------------------------------------------------------------------------
(* udp_client_stop.                                                         *)

(* Nothing happens unless running; then the flag is cleared and 100 ms pass. *)
CallStop ==
  /\ pc = "idle" /\ calls < MaxCalls
  /\ calls' = calls + 1 /\ alone' = FALSE
  /\ running' = FALSE
  /\ Goto(IF running THEN "deinit" ELSE "idle")
  /\ disturbed' = (disturbed \/ running)
  /\ UNCHANGED <<messaging, task, station, amp, boots, prepared>>

(* audio_utils_deinit, whether the task has ended or not.  The uninstallation
   fails if there is no driver. *)
Deinit ==
  /\ pc = "deinit"
  /\ level' = IF sdPin THEN 0 ELSE level
  /\ i2s' = FALSE
  /\ sdPin' = (sdPin /\ ~i2s)
  /\ prepared' = FALSE
  /\ Return
  /\ UNCHANGED <<calls, alone, running, task, station, boots, disturbed>>

-----------------------------------------------------------------------------
(* udp_receive_task.                                                        *)

TaskGoes(from, to) ==
  /\ pc # "crashed" /\ task = from
  /\ task' = to
  /\ UNCHANGED <<caller, running, station, amp, boots, history>>

SocketBound == TaskGoes("created", "check")
(* socket() or bind() fails: the task ends, udp_client_running stays true. *)
SocketFails == TaskGoes("created", "ended")
KeepsRunning == running /\ TaskGoes("check", "recv")
SeesStop == ~running /\ TaskGoes("check", "ended")
(* The datagram goes to i2s_write, which refuses it if there is no driver. *)
RecvDatagram == wifi = "online" /\ TaskGoes("recv", IF i2s THEN "write" ELSE "check")
(* Too short to hold a sample. *)
RecvEmpty == wifi = "online" /\ TaskGoes("recv", "check")
RecvFails == TaskGoes("recv", "ended")
WriteDone == i2s /\ TaskGoes("write", "check")

(* The driver was uninstalled under the task's i2s_write: what it touches is
   freed memory, so it may return an error, or crash. *)
WriteOnFreedDriver ==
  /\ pc # "crashed" /\ task = "write" /\ ~i2s
  /\ \/ task' = "check" /\ UNCHANGED pc
     \/ pc' = "crashed" /\ UNCHANGED task
  /\ UNCHANGED <<calls, alone, messaging, running, station, amp, boots, history>>

-----------------------------------------------------------------------------
(* The other two stations, called instead of or after that of the client.   *)

(* An initialisation of the station beside one that is there aborts like
   StartWifiAgain. *)
CallStation(o, next) ==
  /\ pc = "idle" /\ calls < MaxCalls
  /\ calls' = calls + 1 /\ alone' = FALSE
  /\ IF wifi = "off" THEN Goto(next) /\ StationStarts(o)
                     ELSE Goto("crashed") /\ UNCHANGED station
  /\ UNCHANGED <<messaging, running, task, amp, boots, history>>

(* wifi_helper_init, which waits like wifi_init_sta. *)
WifiHelperInit == CallStation("tcp_helper", "helper")

WifiHelperDecided ==
  /\ pc = "helper" /\ bits # {}
  /\ Goto("idle")
  /\ UNCHANGED <<calls, alone, messaging, running, task, station, amp, boots, history>>

(* wifi_station_init, which does not wait. *)
WifiStationInit == CallStation("wifi_station", "idle")

Wifi ==
  /\ pc # "crashed"
  /\ StationEvent
  /\ UNCHANGED <<caller, running, task, amp, boots, history>>

(* The device restarts after an abort or a crash. *)
Restart ==
  /\ pc = "crashed" /\ boots < MaxBoots
  /\ pc' = "boot" /\ calls' = 0 /\ alone' = FALSE /\ messaging' = FALSE
  /\ running' = FALSE /\ task' = "none"
  /\ StationReset
  /\ sdPin' = FALSE /\ level' = 0 /\ i2s' = FALSE
  /\ boots' = boots + 1 /\ prepared' = FALSE /\ disturbed' = FALSE

-----------------------------------------------------------------------------

Caller ==
  \/ CallStreaming \/ CallInit \/ CallStart
  \/ InstallDriver \/ InstallFails \/ SetPins \/ SetPinsFails \/ EnableAmp
  \/ StartWifi \/ StartWifiAgain \/ WifiDecided \/ CreateTask \/ CreateTaskFails
  \/ CallStop \/ Deinit \/ WifiHelperInit \/ WifiHelperDecided \/ WifiStationInit

ReceiveTask ==
  \/ SocketBound \/ SocketFails \/ KeepsRunning \/ SeesStop
  \/ RecvDatagram \/ RecvEmpty \/ RecvFails \/ WriteDone \/ WriteOnFreedDriver

Next == Caller \/ ReceiveTask \/ Wifi \/ Restart

Spec == Init /\ [][Next]_vars

(* The caller's task runs, and an attempt to join the network ends, with an
   address or with a disconnection (an access point that answers but never hands
   out an address is excluded: the wait has no timeout). *)
FairSpec ==
  /\ Spec
  /\ WF_vars(pc \notin {"idle", "crashed"} /\ Caller)
  /\ WF_vars(wifi = "connecting" /\ Wifi)

-----------------------------------------------------------------------------
(* Properties.                                                              *)

(* The receive buffer is static: there is never a second receiving task beside
   it.  Nothing in udp_client_start sees to that, a stopped task may still be
   blocked in recvfrom; the second wifi_init_sta aborts before it comes to that. *)
OneReceiver == pc = "create" => task = "none"

(* A driver that is installed makes the next installation fail.  As long as the
   Wi-Fi is off, there is one between the calls exactly if udp_client_init was
   called by itself and succeeded: a call that failed, at whatever step, leaves
   none behind and can be repeated, and what a successful one has prepared is
   still there for udp_client_start. *)
RetryPossible == pc = "idle" /\ wifi = "off" => (i2s <=> prepared)

(* As long as no call comes out of turn, the receiving task plays into an
   installed driver and an enabled amplifier, after failed starts too, and
   whether the client was initialised and started in one call or in two.  (Out of
   turn, a second initialisation mutes the stream, and udp_client_start alone
   starts a task that has no driver.) *)
PlaysAloud == task \in Alive /\ ~disturbed => i2s /\ level = 1 /\ running

(* app_main gets past play() and starts the messaging, whatever fails in the
   audio part, and with or without a network. *)
MessagingStarts == ~messaging ~> messaging
=============================================================================
