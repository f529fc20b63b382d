--------------------------- MODULE MCMultiClient ----------------------------
(***************************************************************************)
(* Small instances of MultiClient.                                         *)
(***************************************************************************)
EXTENDS MultiClient

CONSTANTS a, b    \* clients

AllCalls == {"MQTT_Connect", "MQTT_Disconnect", "MQTT_Publish"}
ConnectOnly == {"MQTT_Connect"}

=============================================================================
