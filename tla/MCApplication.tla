--------------------------- MODULE MCApplication ----------------------------
(***************************************************************************)
(* Small instances of Application.                                         *)
(***************************************************************************)
EXTENDS Application

CONSTANTS c1    \* an espconn address

Accepted == [type |-> "CONNACK", arg |-> 0]
Refused == [type |-> "CONNACK", arg |-> 5]

(* A broker that accepts, refuses, and publishes in the middle of a        *)
(* session.                                                                *)
AppSegments == {<<Accepted>>, <<Refused>>, <<[type |-> "PUBLISH", arg |-> 1]>>}

Packets(t) == [type |-> t, size |-> 1, built |-> TRUE]
AppRequests == {Packets("SUBSCRIBE"), Packets("PUBLISH")}
AppCalls == {"MQTT_Connect", "MQTT_Disconnect"}

(* mqttConnectedCb's packets, one for three of each type. *)
TwoPackets == <<Packets("SUBSCRIBE"), Packets("PUBLISH")>>

(* Two of the three failures, which wifi.c treats alike. *)
SomeFailures == {"STATION_NO_AP_FOUND", "STATION_WRONG_PASSWORD"}

=============================================================================
