---------------------------- MODULE AudioProofs ----------------------------
(***************************************************************************)
(* Theorems about the audio life cycle of module Audio, for every number   *)
(* of retries, calls and boots.  One inductive invariant carries them all. *)
(***************************************************************************)
EXTENDS Audio, TLAPS

(* The Wi-Fi is initialised, by the client, before anything that relies on it. *)
WifiFirst ==
  /\ task # "none" \/ running \/ pc \in {"wait", "create"} => wifi # "off"
  /\ pc \in {"wait", "create"} => task = "none"

(* What udp_client_init has prepared stays; until the Wi-Fi is on, any other
   driver is there only inside the call that installed it. *)
DriverOwned ==
  /\ prepared => i2s
  /\ wifi = "off" /\ i2s => prepared \/ pc \in {"pins", "enable", "start"}

(* What each step of a call can rely on: nobody undoes the steps before it, and
   udp_client_start relies on what was prepared unless it was called out of turn. *)
StartInv ==
  /\ pc \in {"pins", "enable"} => i2s /\ ~prepared
  /\ pc \in {"start", "wait", "create"} \/ prepared \/ running =>
       disturbed \/ (i2s /\ level = 1)
  /\ pc = "deinit" => disturbed
  /\ pc = "create" => running
  /\ pc \in {"install", "pins", "enable"} /\ (running \/ prepared) => disturbed

(* A call that comes in turn changes nothing under a receiving task, so an
   undisturbed task meets the amplifier as the start left it. *)
Undisturbed ==
  task \in Alive /\ ~disturbed =>
    i2s /\ level = 1 /\ running /\ pc \in {"idle", "start", "crashed"}

(* Until the station gives up, the counter of retries counts the failures. *)
RetriesCount ==
  /\ wifi = "off" => owner = "none"
  /\ owner # "wifi_station" /\ wifi # "gaveup" => fails = retry
  /\ wifi = "gaveup" => owner # "wifi_station" /\ fails = WIFI_MAX_RETRY + 1

IInv == TypeOK /\ WifiFirst /\ DriverOwned /\ StartInv /\ Undisturbed /\ RetriesCount

-----------------------------------------------------------------------------

LEMMA InvInit == Init => IInv
  <1> SUFFICES ASSUME Init
               PROVE  IInv
    OBVIOUS
  <1> USE AudioConstants, RetryConstant DEF Init, Alive, StationOff, StationTypeOK, Stations
  <1>1. {running, sdPin, i2s, alone, messaging, prepared, disturbed} \subseteq BOOLEAN
    OBVIOUS
  <1>2. TypeOK
    BY <1>1 DEF TypeOK
  <1>3. WifiFirst /\ DriverOwned /\ StartInv /\ Undisturbed /\ RetriesCount
    BY DEF WifiFirst, DriverOwned, StartInv, Undisturbed, RetriesCount
  <1> QED
    BY <1>2, <1>3 DEF IInv

(* What an event handler leaves of the station, whoever owns it. *)
LEMMA HandlerKeeps ==
  ASSUME StationTypeOK, RetriesCount,
         \/ GotIp
         \/ owner # "wifi_station" /\ LimitedRetry
         \/ owner = "wifi_station" /\ UnlimitedRetry
  PROVE  /\ StationTypeOK' /\ RetriesCount'
         /\ wifi \in {"connecting", "online"} /\ wifi' \in {"connecting", "online", "gaveup"}
  <1> USE RetryConstant DEF StationTypeOK, Stations, RetriesCount
  <1>1. CASE GotIp
    BY <1>1 DEF GotIp
  <1>2. CASE owner # "wifi_station" /\ LimitedRetry
    <2>1. fails' \in 0..WIFI_MAX_RETRY + 1 /\ owner' = owner
      BY <1>2 DEF LimitedRetry, Fails
    <2>2. wifi' \in {"connecting", "gaveup"} /\ retry' \in 0..WIFI_MAX_RETRY
      BY <1>2 DEF LimitedRetry, Fails
    <2>3. bits' \subseteq {"CONNECTED", "FAIL"}
      BY <1>2 DEF LimitedRetry, Fails
    <2>4. RetriesCount'
      BY <1>2 DEF LimitedRetry, Fails
    <2> QED
      BY <1>2, <2>1, <2>2, <2>3, <2>4 DEF LimitedRetry, Fails
  <1>3. CASE owner = "wifi_station" /\ UnlimitedRetry
    BY <1>3 DEF UnlimitedRetry, Fails
  <1> QED
    BY <1>1, <1>2, <1>3

(* No step of the program, nor a reboot, leaves the invariant. *)
LEMMA InvNext == IInv /\ [Next]_vars => IInv'
  <1> SUFFICES ASSUME IInv, [Next]_vars
               PROVE  IInv'
    OBVIOUS
  <1> USE AudioConstants, RetryConstant DEF IInv, TypeOK, StationTypeOK, Stations, WifiFirst, DriverOwned, StartInv, Undisturbed,
                             RetriesCount, Alive, caller, amp, station, history
  <1>1. CASE Caller
    <2>1. CASE CallStreaming \/ CallInit
      <3>1. PICK byItself \in BOOLEAN : pc \in {"boot", "idle"} /\ Initialise(byItself)
        BY <2>1 DEF CallStreaming, CallInit
      <3>2. {running', sdPin', i2s', alone', messaging', prepared', disturbed'} \subseteq BOOLEAN
        BY <3>1 DEF Initialise, Return, Goto
      <3>3. TypeOK'
        BY <3>1, <3>2 DEF Initialise, Return, Goto
      <3>4. WifiFirst' /\ DriverOwned' /\ StartInv' /\ Undisturbed' /\ RetriesCount'
        BY <3>1 DEF Initialise, Return, Goto
      <3> QED
        BY <3>3, <3>4
    <2>16. CASE CallStart
      <3>1. {running', sdPin', i2s', alone', messaging', prepared', disturbed'} \subseteq BOOLEAN
        BY <2>16 DEF CallStart, Goto
      <3>2. TypeOK'
        BY <2>16, <3>1 DEF CallStart, Goto
      <3>3. WifiFirst' /\ DriverOwned' /\ StartInv' /\ Undisturbed' /\ RetriesCount'
        BY <2>16 DEF CallStart, Goto
      <3> QED
        BY <3>2, <3>3
    <2>2. CASE InstallDriver
      BY <2>2 DEF InstallDriver, Goto
    <2>3. CASE InstallFails
      BY <2>3 DEF InstallFails, Return, Goto
    <2>4. CASE SetPins
      BY <2>4 DEF SetPins, Goto
    <2>5. CASE SetPinsFails
      <3>1. {running', sdPin', i2s', alone', messaging', prepared', disturbed'} \subseteq BOOLEAN
        BY <2>5 DEF SetPinsFails, Return, Goto
      <3>2. TypeOK'
        BY <2>5, <3>1 DEF SetPinsFails, Return, Goto
      <3>3. WifiFirst' /\ DriverOwned' /\ RetriesCount'
        BY <2>5 DEF SetPinsFails, Return, Goto
      <3>4. StartInv' /\ Undisturbed'
        BY <2>5 DEF SetPinsFails, Return, Goto
      <3> QED
        BY <3>2, <3>3, <3>4
    <2>6. CASE EnableAmp
      BY <2>6 DEF EnableAmp, Return, Goto
    <2>7. CASE StartWifi
      <3>1. {running', sdPin', i2s', alone', messaging', prepared', disturbed'} \subseteq BOOLEAN
        BY <2>7 DEF StartWifi, StationStarts, Return, Goto
      <3>2. TypeOK'
        BY <2>7, <3>1 DEF StartWifi, StationStarts, Return, Goto
      <3>3. WifiFirst' /\ DriverOwned' /\ RetriesCount'
        BY <2>7 DEF StartWifi, StationStarts, Return, Goto
      <3>4. StartInv' /\ Undisturbed'
        BY <2>7 DEF StartWifi, StationStarts, Return, Goto
      <3> QED
        BY <3>2, <3>3, <3>4
    <2>8. CASE StartWifiAgain
      BY <2>8 DEF StartWifiAgain, Goto
    <2>9. CASE WifiDecided
      BY <2>9 DEF WifiDecided, Goto
    <2>10. CASE CreateTask
      BY <2>10 DEF CreateTask, Return, Goto
    <2>11. CASE CreateTaskFails
      BY <2>11 DEF CreateTaskFails, Return, Goto
    <2>12. CASE CallStop
      <3>1. {running', sdPin', i2s', alone', messaging', prepared', disturbed'} \subseteq BOOLEAN
        BY <2>12 DEF CallStop, Goto
      <3>2. TypeOK'
        BY <2>12, <3>1 DEF CallStop, Goto
      <3>3. WifiFirst' /\ DriverOwned' /\ StartInv' /\ Undisturbed' /\ RetriesCount'
        BY <2>12 DEF CallStop, Goto
      <3> QED
        BY <3>2, <3>3
    <2>13. CASE Deinit
      BY <2>13 DEF Deinit, Return, Goto
    <2>14. CASE WifiHelperInit \/ WifiStationInit
      <3>1. PICK o \in {"tcp_helper", "wifi_station"}, next \in {"helper", "idle"} :
              CallStation(o, next)
        BY <2>14 DEF WifiHelperInit, WifiStationInit
      <3>2. /\ pc = "idle" /\ calls' \in 0..MaxCalls
            /\ alone' = FALSE
            /\ UNCHANGED <<messaging, running, task, sdPin, level, i2s, boots, prepared, disturbed>>
        BY <3>1 DEF CallStation
      <3>3. CASE wifi = "off"
        <4>1. pc' = next /\ owner' = o /\ wifi' = "connecting" /\ UNCHANGED <<retry, bits, fails>>
          BY <3>1, <3>3 DEF CallStation, Goto, StationStarts
        <4>2. TypeOK'
          BY <3>2, <4>1
        <4> QED
          BY <3>2, <3>3, <4>1, <4>2
      <3>4. CASE wifi # "off"
        <4>1. pc' = "crashed" /\ UNCHANGED <<owner, wifi, retry, bits, fails>>
          BY <3>1, <3>4 DEF CallStation, Goto
        <4>2. TypeOK'
          BY <3>2, <4>1
        <4> QED
          BY <3>2, <3>4, <4>1, <4>2
      <3> QED
        BY <3>3, <3>4
    <2>15. CASE WifiHelperDecided
      BY <2>15 DEF WifiHelperDecided, Goto
    <2> QED
      BY <1>1, <2>1, <2>2, <2>3, <2>4, <2>5, <2>6, <2>7, <2>8, <2>9, <2>10, <2>11, <2>12, <2>13,
         <2>14, <2>15, <2>16 DEF Caller
  <1>2. CASE ReceiveTask
    <2>1. CASE SocketBound
      BY <2>1 DEF SocketBound, TaskGoes
    <2>2. CASE SocketFails
      BY <2>2 DEF SocketFails, TaskGoes
    <2>3. CASE KeepsRunning
      BY <2>3 DEF KeepsRunning, TaskGoes
    <2>4. CASE SeesStop
      BY <2>4 DEF SeesStop, TaskGoes
    <2>5. CASE RecvDatagram
      BY <2>5 DEF RecvDatagram, TaskGoes
    <2>6. CASE RecvEmpty
      BY <2>6 DEF RecvEmpty, TaskGoes
    <2>7. CASE RecvFails
      BY <2>7 DEF RecvFails, TaskGoes
    <2>8. CASE WriteDone
      BY <2>8 DEF WriteDone, TaskGoes
    <2>9. CASE WriteOnFreedDriver
      BY <2>9 DEF WriteOnFreedDriver
    <2> QED
      BY <1>2, <2>1, <2>2, <2>3, <2>4, <2>5, <2>6, <2>7, <2>8, <2>9 DEF ReceiveTask
  <1>3. CASE Wifi
    <2>1. UNCHANGED <<pc, calls, alone, messaging, running, task, sdPin, level, i2s, boots,
                     prepared, disturbed>>
      BY <1>3 DEF Wifi
    <2>2. StationTypeOK /\ RetriesCount
      OBVIOUS
    <2>3. /\ StationTypeOK' /\ RetriesCount'
          /\ wifi \in {"connecting", "online"} /\ wifi' \in {"connecting", "online", "gaveup"}
      <3> USE DEF Wifi, StationEvent
      <3>1. CASE UdpClientHandler
        BY <1>3, <2>2, <3>1, HandlerKeeps DEF UdpClientHandler
      <3>2. CASE TcpHelperHandler
        BY <1>3, <2>2, <3>2, HandlerKeeps DEF TcpHelperHandler
      <3>3. CASE WifiStationHandler
        BY <1>3, <2>2, <3>3, HandlerKeeps DEF WifiStationHandler
      <3> QED
        BY <1>3, <3>1, <3>2, <3>3
    <2>4. TypeOK'
      BY <2>1, <2>3
    <2>5. WifiFirst' /\ DriverOwned' /\ StartInv' /\ Undisturbed'
      BY <2>1, <2>3
    <2> QED
      BY <2>3, <2>4, <2>5
  <1>4. CASE Restart
    <2>1. {running', sdPin', i2s', alone', messaging', prepared', disturbed'} \subseteq BOOLEAN
      BY <1>4 DEF Restart
    <2>2. TypeOK'
      BY <1>4, <2>1 DEF Restart, StationReset
    <2>3. WifiFirst' /\ DriverOwned' /\ StartInv' /\ Undisturbed' /\ RetriesCount'
      BY <1>4 DEF Restart, StationReset
    <2> QED
      BY <2>2, <2>3
  <1>5. CASE UNCHANGED vars
    BY <1>5 DEF vars
  <1> QED
    BY <1>1, <1>2, <1>3, <1>4, <1>5 DEF Next

LEMMA Invariance == Spec => []IInv
  BY InvInit, InvNext, PTL DEF Spec

(* The variables of the audio client keep their types; the retries stay within
   WIFI_MAX_RETRY for ever. *)
THEOREM AudioTypeCorrect == Spec => []TypeOK
  BY Invariance, PTL DEF IInv

(* The code never creates a second receiving task, however its users mix starts
   and stops: the task shares its static buffer with nobody. *)
THEOREM OneReceiverCorrect == Spec => []OneReceiver
  <1>1. IInv => OneReceiver
    BY DEF IInv, WifiFirst, OneReceiver
  <1> QED
    BY <1>1, Invariance, PTL

(* Whatever calls were made and failed before the Wi-Fi is up, a driver is left
   exactly if udp_client_init alone has succeeded. *)
THEOREM RetryPossibleCorrect == Spec => []RetryPossible
  <1>1. IInv => RetryPossible
    BY DEF IInv, DriverOwned, RetryPossible
  <1> QED
    BY <1>1, Invariance, PTL

(* Unless a call comes out of turn, the receiving task plays into an installed
   driver and an enabled amplifier, started in one call or in two. *)
THEOREM PlaysAloudCorrect == Spec => []PlaysAloud
  <1>1. IInv => PlaysAloud
    BY DEF IInv, Undisturbed, PlaysAloud
  <1> QED
    BY <1>1, Invariance, PTL

(* For every WIFI_MAX_RETRY, the stations of udp_client.c and tcp_helper.c give up
   exactly after that many failed retries in a row; of wifi_station.c nothing is
   claimed. *)
THEOREM GivesUpLateCorrect == Spec => []GivesUpLate
  <1>1. IInv => GivesUpLate
    <2> SUFFICES ASSUME IInv
                 PROVE  GivesUpLate
      OBVIOUS
    <2>1. /\ WIFI_MAX_RETRY \in Nat
          /\ retry \in 0..WIFI_MAX_RETRY /\ fails \in 0..WIFI_MAX_RETRY + 1
      BY RetryConstant DEF IInv, TypeOK, StationTypeOK
    <2>2. RetriesCount
      BY DEF IInv
    <2> QED
      BY <2>1, <2>2 DEF RetriesCount, GivesUpLate
  <1> QED
    BY <1>1, Invariance, PTL
=============================================================================
