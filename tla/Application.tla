---------------------------- MODULE Application -----------------------------
(***************************************************************************)
(* The example application: wifi.c polls the state of the Wi-Fi station    *)
(* and user_main.c turns what it reports into MQTT_Connect and             *)
(* MQTT_Disconnect, and queues its first packets whenever the client       *)
(* reports a session.  The client is MqttClient.                           *)
(*                                                                         *)
(* A poll comes at any time while its timer is armed: 500 and 2000 ms are  *)
(* not told apart, and so neither is an address that is not there yet,     *)
(* which decides on that alone.  MQTT_HOST is an address, as it is in      *)
(* user_config.sample.h: there are no lookups.                             *)
(***************************************************************************)
EXTENDS MqttClient

CONSTANTS
  Failures,        \* STATION_WRONG_PASSWORD, _NO_AP_FOUND, _CONNECT_FAIL
  FirstPackets     \* what mqttConnectedCb asks for, in order

ASSUME ApplicationAssumption ==
  /\ HostIsIP
  /\ Failures \cap {"STATION_IDLE", "STATION_CONNECTING", "STATION_GOT_IP"} = {}
  /\ FirstPackets \in Seq(Requests)
  /\ {"MQTT_Connect", "MQTT_Disconnect"} \subseteq Calls

VARIABLES
  station,         \* SDK: wifi_station_get_connect_status
  joining,         \* SDK: the station tries to join the network or is in it
  polling,         \* WiFiLinker is armed
  lastWifiStatus,
  todo             \* the rest of mqttConnectedCb while it runs

wifiVars == <<station, joining, polling, lastWifiStatus>>
systemVars == <<vars, wifiVars, todo>>

StationStatus == {"STATION_IDLE", "STATION_CONNECTING", "STATION_GOT_IP"} \cup Failures

SystemTypeOK ==
  /\ StateTypes /\ FlagTypes
  /\ station \in StationStatus /\ lastWifiStatus \in StationStatus
  /\ joining \in BOOLEAN /\ polling \in BOOLEAN
  /\ todo \in Seq(Requests) /\ Len(todo) <= Len(FirstPackets)

SystemInit ==
  /\ Init
  /\ station = "STATION_IDLE" /\ joining = FALSE
  /\ polling = FALSE /\ lastWifiStatus = "STATION_IDLE"
  /\ todo = <<>>

-----------------------------------------------------------------------------
(* The station, as wifi.c uses it: it gives up joining when that fails,    *)
(* until wifi_station_connect, and it may lose the network at any time.    *)

StationJoins ==
  /\ joining
  /\ \/ station # "STATION_GOT_IP" /\ station' \in StationStatus \ {"STATION_IDLE"}
     \/ station = "STATION_GOT_IP" /\ station' = "STATION_CONNECTING"
  /\ joining' = (station' \notin Failures)
  /\ UNCHANGED <<vars, polling, lastWifiStatus, todo>>

-----------------------------------------------------------------------------
(* user_main.c and wifi.c *)

WIFI_Connect == polling' = TRUE /\ joining' = TRUE

(* app_init, once. *)
app_init ==
  /\ ~polling
  /\ MQTT_Init
  /\ WIFI_Connect
  /\ UNCHANGED <<station, lastWifiStatus, todo>>

wifiConnectCb(status) ==
  IF status = "STATION_GOT_IP" THEN MQTT_Connect ELSE MQTT_Disconnect

(* Mutant: the timer is armed again only by a poll that finds an address. *)
CheckStops ==
  /\ polling /\ Idle /\ todo = <<>>
  /\ polling' = (station = "STATION_GOT_IP")
  /\ joining' = (joining \/ station \in Failures)
  /\ lastWifiStatus' = station
  /\ IF station # lastWifiStatus THEN wifiConnectCb(station) ELSE UNCHANGED vars
  /\ UNCHANGED <<station, todo>>

(* Mutant: losing the network is not reported. *)
CheckReportsJoins ==
  /\ polling /\ Idle /\ todo = <<>>
  /\ joining' = (joining \/ station \in Failures)
  /\ lastWifiStatus' = station
  /\ IF station # lastWifiStatus /\ station = "STATION_GOT_IP"
       THEN wifiConnectCb(station) ELSE UNCHANGED vars
  /\ UNCHANGED <<station, polling, todo>>

(* Mutant: a station that found no network is not told to try again. *)
CheckForgets ==
  /\ polling /\ Idle /\ todo = <<>>
  /\ joining' = (joining \/ station \in Failures \ {"STATION_NO_AP_FOUND"})
  /\ lastWifiStatus' = station
  /\ IF station # lastWifiStatus THEN wifiConnectCb(station) ELSE UNCHANGED vars
  /\ UNCHANGED <<station, polling, todo>>

(* A poll: try again to join if that failed, and report a change. *)
wifi_check_ip ==
  /\ polling /\ Idle /\ todo = <<>>
  /\ joining' = (joining \/ station \in Failures)
  /\ lastWifiStatus' = station
  /\ IF station # lastWifiStatus THEN wifiConnectCb(station) ELSE UNCHANGED vars
  /\ UNCHANGED <<station, polling, todo>>

(* mqttConnectedCb: the next of its calls. *)
mqttConnectedCb ==
  /\ todo # <<>>
  /\ MQTT_Publish(Head(todo)) \/ MQTT_Subscribe(Head(todo))
  /\ todo' = Tail(todo)
  /\ UNCHANGED wifiVars

-----------------------------------------------------------------------------
(* The client.  Nothing of its connection is heard without the network.    *)

Online == station = "STATION_GOT_IP"

NetworkStep ==
  \/ mqtt_tcpclient_recon_cb \/ mqtt_tcpclient_discon_cb
  \/ Online /\ (mqtt_tcpclient_connect_cb \/ mqtt_tcpclient_sent_cb)
  \/ Online /\ \E s \in Segments :
                 mqtt_tcpclient_recv(s) \/ mqtt_tcpclient_recv_bad_length(s)
  \/ READPACKET

(* What the client does, and mqttConnectedCb once CONNACK has accepted it. *)
ClientStep(A) ==
  /\ todo = <<>> /\ A
  /\ todo' = IF accepted' /\ ~accepted THEN FirstPackets ELSE <<>>
  /\ UNCHANGED wifiVars

-----------------------------------------------------------------------------

SystemNext ==
  \/ app_init \/ wifi_check_ip \/ mqttConnectedCb
  \/ StationJoins
  \/ ClientStep(NetworkStep)
  \/ ClientStep(mqtt_timer \/ MQTT_Task)

SystemSpec == SystemInit /\ [][SystemNext]_systemVars

(* As in MqttClient, BrokerFairness included, while there is a network;    *)
(* and: the timer of wifi.c runs; a station that tries to join and fails   *)
(* says so.                                                                *)
SystemFairness ==
  /\ WF_systemVars(app_init) /\ WF_systemVars(wifi_check_ip)
  /\ WF_systemVars(mqttConnectedCb)
  /\ WF_systemVars(ClientStep(MQTT_Task)) /\ WF_systemVars(ClientStep(mqtt_timer))
  /\ WF_systemVars(ClientStep(READPACKET))
  /\ WF_systemVars(ClientStep(link = "closing" /\ mqtt_tcpclient_discon_cb))
  /\ WF_systemVars(ClientStep(link = "connecting" /\ mqtt_tcpclient_recon_cb))
  /\ SF_systemVars(ClientStep(Online /\ mqtt_tcpclient_connect_cb /\ greeted'))
  /\ SF_systemVars(ClientStep(/\ Online /\ greeted
                              /\ \E s \in Segments : mqtt_tcpclient_recv(s)
                              /\ accepted' # accepted))

FairSystem == SystemSpec /\ SystemFairness

-----------------------------------------------------------------------------
(* Properties *)

(* A connection is opened only while the station had an address when it    *)
(* was last polled: reporting a loss stops the client's timer, and nothing *)
(* that comes from the stack afterwards starts an attempt.                 *)
OpensOnlyWithNetwork ==
  [][link = "none" /\ link' = "connecting" => lastWifiStatus' = "STATION_GOT_IP"]_systemVars

(* If the network stays there is a session, and again whenever it breaks:  *)
(* also after losses of the network too short for a poll to see, and after *)
(* failures to join.  Only an attempt that espconn refuses, or a CONNECT it*)
(* refuses on a connection that then stays open, leaves the client without *)
(* one (Stranded).                                                         *)
SessionWithNetwork ==
  <>[](station = "STATION_GOT_IP") => []<>(connState = "MQTT_DATA") \/ <>[]Stranded

(* A station that can join joins: the application asks again after every   *)
(* failure.                                                                *)
JoinsAgain == polling ~> joining

(* The first packets are built, and fit the queue together, as those of    *)
(* user_main.c do.                                                         *)
FirstPacketsFit ==
  /\ \A i \in DOMAIN FirstPackets : FirstPackets[i].built
  /\ Used(FirstPackets) <= QueueSize

(* The packets of mqttConnectedCb stay together at the end of the queue,   *)
(* whatever an earlier session left in it, if FirstPacketsFit.             *)
FirstPacketsQueued ==
  [][todo # <<>> /\ todo' = <<>> =>
       /\ Len(msgQueue') >= Len(FirstPackets)
       /\ \A i \in DOMAIN FirstPackets :
            msgQueue'[Len(msgQueue') - Len(FirstPackets) + i].type = FirstPackets[i].type]_systemVars

=============================================================================
