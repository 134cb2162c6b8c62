---------------------------- MODULE WifiStation -----------------------------
(***************************************************************************)
(* The Wi-Fi station, of which the repository has three: wifi_init_sta in  *)
(* udp_client.c, the one app_main uses; wifi_helper_init in tcp_helper.c,  *)
(* whose call in init_tcp_task is commented out; and wifi_station_init of  *)
(* the wifi_station component.  Each has an event handler, a counter of    *)
(* retries and an event group of its own, but the default event loop of    *)
(* the device is one: whoever comes first owns the station until reboot.   *)
(***************************************************************************)
EXTENDS Integers

CONSTANT WIFI_MAX_RETRY   \* udp_client.c, tcp_helper.h: 5

ASSUME RetryConstant == WIFI_MAX_RETRY \in Nat

VARIABLES
  owner,  \* whose initialisation succeeded
  wifi,   \* the station
  retry,  \* s_retry_num of the owner
  bits,   \* s_wifi_event_group of the owner
  fails   \* history: disconnections in a row without an address in between (capped)

station == <<owner, wifi, retry, bits, fails>>

Stations == {"udp_client", "tcp_helper", "wifi_station"}

StationTypeOK ==
  /\ owner \in Stations \cup {"none"}
  /\ wifi \in {"off", "connecting", "online", "gaveup"}
  /\ retry \in 0..WIFI_MAX_RETRY
  /\ bits \subseteq {"CONNECTED", "FAIL"}
  /\ fails \in 0..WIFI_MAX_RETRY + 1

StationOff == owner = "none" /\ wifi = "off" /\ retry = 0 /\ bits = {} /\ fails = 0

(* A reboot. *)
StationReset == owner' = "none" /\ wifi' = "off" /\ retry' = 0 /\ bits' = {} /\ fails' = 0

(* The first initialisation; STA_START makes the handler call esp_wifi_connect. *)
StationStarts(o) ==
  /\ wifi = "off"
  /\ owner' = o /\ wifi' = "connecting"
  /\ UNCHANGED <<retry, bits, fails>>

(* Mutant: the counter is not reset. *)
GotIpKeepsRetries ==
  /\ wifi = "connecting"
  /\ wifi' = "online" /\ fails' = 0
  /\ bits' = bits \cup {"CONNECTED"}
  /\ UNCHANGED <<owner, retry>>

(* IP_EVENT_STA_GOT_IP. *)
GotIp ==
  /\ wifi = "connecting"
  /\ wifi' = "online" /\ retry' = 0 /\ fails' = 0
  /\ bits' = bits \cup {"CONNECTED"}
  /\ UNCHANGED owner

(* An attempt failed or the connection is lost. *)
Fails ==
  /\ wifi \in {"connecting", "online"}
  /\ fails' = IF fails > WIFI_MAX_RETRY THEN fails ELSE fails + 1
  /\ UNCHANGED owner

(* Mutant: giving up is not announced to the waiting task. *)
LimitedRetryUnannounced ==
  /\ Fails
  /\ IF retry < WIFI_MAX_RETRY
     THEN wifi' = "connecting" /\ retry' = retry + 1
     ELSE wifi' = "gaveup" /\ UNCHANGED retry
  /\ UNCHANGED bits

(* Mutant: one retry too many. *)
LimitedRetryOffByOne ==
  /\ Fails
  /\ IF retry <= WIFI_MAX_RETRY
     THEN wifi' = "connecting" /\ retry' = retry + 1 /\ UNCHANGED bits
     ELSE wifi' = "gaveup" /\ bits' = bits \cup {"FAIL"} /\ UNCHANGED retry

(* STA_DISCONNECTED in udp_client.c and tcp_helper.c.  Nothing ever connects a
   station again that has given up. *)
LimitedRetry ==
  /\ Fails
  /\ IF retry < WIFI_MAX_RETRY
     THEN wifi' = "connecting" /\ retry' = retry + 1 /\ UNCHANGED bits
     ELSE wifi' = "gaveup" /\ bits' = bits \cup {"FAIL"} /\ UNCHANGED retry

(* STA_DISCONNECTED in wifi_station.c, which counts the retries (capped here) and
   never looks at the count. *)
UnlimitedRetry ==
  /\ Fails
  /\ wifi' = "connecting"
  /\ retry' = IF retry < WIFI_MAX_RETRY THEN retry + 1 ELSE retry
  /\ UNCHANGED bits

UdpClientHandler == owner = "udp_client" /\ (GotIp \/ LimitedRetry)
TcpHelperHandler == owner = "tcp_helper" /\ (GotIp \/ LimitedRetry)
WifiStationHandler == owner = "wifi_station" /\ (GotIp \/ UnlimitedRetry)

(* The event_handler of the owner. *)
StationEvent == UdpClientHandler \/ TcpHelperHandler \/ WifiStationHandler

-----------------------------------------------------------------------------
(* The two stations that look at their counter give up exactly after
   WIFI_MAX_RETRY + 1 disconnections in a row, however many came before the last
   address they were given (udp_client.c:54, tcp_helper.c:42).  The third has a
   limit in its Kconfig too and does not keep it: nothing is claimed of it here. *)
GivesUpLate ==
  owner # "wifi_station" => (wifi = "gaveup" <=> fails = WIFI_MAX_RETRY + 1)
=============================================================================
