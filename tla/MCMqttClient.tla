---------------------------- MODULE MCMqttClient ----------------------------
(***************************************************************************)
(* Small instances of MqttClient.                                          *)
(***************************************************************************)
EXTENDS MqttClient

CONSTANTS c1, c2    \* espconn addresses

Accepted == [type |-> "CONNACK", arg |-> 0]
Refused == [type |-> "CONNACK", arg |-> 5]
Publish(qos) == [type |-> "PUBLISH", arg |-> qos]
Other(t) == [type |-> t, arg |-> 0]

AllCalls == {"MQTT_Connect", "MQTT_Disconnect", "MQTT_DeleteClient"}
NoDelete == {"MQTT_Connect", "MQTT_Disconnect"}

(* A broker that accepts, refuses, sends something a new connection does   *)
(* not expect, and publishes: two publishes in one segment, a publish      *)
(* behind another packet, an answer behind a publish.                      *)
ClientSegments ==
  {<<Accepted>>, <<Refused>>, <<Publish(1), Publish(2)>>,
   <<Other("PUBREC"), Publish(1)>>, <<Publish(0), Other("PUBREL")>>, <<>>}

(* What matters to waiting: an answer to CONNECT, and a packet that is     *)
(* answered with one.                                                      *)
LiveSegments == {<<Accepted>>, <<Refused>>, <<Publish(1)>>}

Request(t, size, built) == [type |-> t, size |-> size, built |-> built]

(* Packets that fit, one that never does, and ones that are not built. *)
ClientRequests ==
  {Request("PUBLISH", 1, TRUE), Request("PUBLISH", 3, TRUE),
   Request("PUBLISH", 1, FALSE), Request("SUBSCRIBE", 1, FALSE)}

OneRequest == {Request("PUBLISH", 1, TRUE)}

=============================================================================
