----------------------------- MODULE Connection -----------------------------
(***************************************************************************)
(* mqtt_connection_t: one output buffer and one identifier counter, and    *)
(* the packets built in it, one over the other.  Every step is one call of *)
(* a builder of mqtt_msg.c.                                                *)
(***************************************************************************)
EXTENDS MqttMsg

CONSTANTS
  Topics, Payloads,  \* what the application publishes and subscribes to
  Infos,             \* what it tells about itself in connect_info
  AckIds,            \* identifiers of received packets
  Ids                \* bound: values of the identifier counter looked at

ASSUME ConnectionAssumption ==
  /\ Topics \subseteq String /\ Payloads \subseteq String
  /\ Infos \subseteq Info
  /\ AckIds \subseteq 0 .. MaxId
  /\ Ids \subseteq 0 .. MaxId

VARIABLES
  message_id,   \* the counter: the identifier taken last
  message,      \* the packet built last, empty if it could not be built
  pending_id,   \* where the builders report the identifier of a request
  req           \* history: what the packet was built from

vars == <<message_id, message, pending_id, req>>

NoRequest == [type |-> 0]

TypeOK ==
  /\ message_id \in 0 .. MaxId
  /\ message \in String
  /\ pending_id \in 0 .. MaxId

Init ==
  /\ message_id \in Ids
  /\ message = <<>> /\ pending_id = 0 /\ req = NoRequest

-----------------------------------------------------------------------------

(* The identifier the next numbered packet gets. *)
NewId == NextId(message_id)

(* append_message_id takes an identifier even if there is no room for it.  *)
TakeId == message_id' = NewId /\ NewId \in Ids

(* What append_message_id returns: 0 if it could not append to m. *)
Appended(m) == IF append_message_id(m, NewId).ok THEN NewId ELSE 0

(* mqtt_msg_init, on a cleared structure. *)
mqtt_msg_init ==
  /\ message_id' = 0
  /\ message' = <<>> /\ req' = NoRequest
  /\ UNCHANGED pending_id

Connect(info) ==
  /\ message' = mqtt_msg_connect(info)
  /\ req' = [type |-> CONNECT, info |-> info]
  /\ UNCHANGED <<message_id, pending_id>>

(* The topic is appended before an identifier is taken. *)
Publish(topic, data, qos, retain) ==
  LET named == append_string(init_message, topic)
  IN  /\ req' = [type |-> PUBLISH, topic |-> topic, data |-> data,
                 qos |-> qos, retain |-> retain]
      /\ message' = IF topic = <<>> THEN <<>>
                      ELSE mqtt_msg_publish(topic, data, qos, retain, NewId)
      /\ IF topic = <<>> \/ ~named.ok
           THEN UNCHANGED <<message_id, pending_id>>
           ELSE IF qos = 0
             THEN pending_id' = 0 /\ UNCHANGED message_id
             ELSE pending_id' = Appended(named) /\ TakeId

(* mqtt_msg_subscribe and mqtt_msg_unsubscribe: the identifier is first.   *)
RequestTopic(topic, packet, r) ==
  /\ req' = r
  /\ message' = IF topic = <<>> THEN <<>> ELSE packet
  /\ IF topic = <<>>
       THEN UNCHANGED <<message_id, pending_id>>
       ELSE pending_id' = Appended(init_message) /\ TakeId

Subscribe(topic, qos) ==
  RequestTopic(topic, mqtt_msg_subscribe(topic, qos, NewId),
               [type |-> SUBSCRIBE, topic |-> topic, qos |-> qos])

Unsubscribe(topic) ==
  RequestTopic(topic, mqtt_msg_unsubscribe(topic, NewId),
               [type |-> UNSUBSCRIBE, topic |-> topic])

(* An acknowledgement of identifier 0 gets one of the client's own. *)
Ack(type, id) ==
  /\ req' = [type |-> type, id |-> id]
  /\ message' = mqtt_msg_ack(type, IF id = 0 THEN NewId ELSE id)
  /\ IF id = 0 THEN TakeId ELSE UNCHANGED message_id
  /\ UNCHANGED pending_id

Bare(type) ==
  /\ req' = [type |-> type]
  /\ message' = mqtt_msg_bare(type)
  /\ UNCHANGED <<message_id, pending_id>>

Next ==
  \/ mqtt_msg_init
  \/ \E info \in Infos : Connect(info)
  \/ \E t \in Topics, d \in Payloads, qos \in 0 .. 2, retain \in BOOLEAN :
       Publish(t, d, qos, retain)
  \/ \E t \in Topics, qos \in 0 .. 2 : Subscribe(t, qos)
  \/ \E t \in Topics : Unsubscribe(t)
  \/ \E type \in {PUBACK, PUBREC, PUBREL, PUBCOMP}, id \in AckIds : Ack(type, id)
  \/ \E type \in {PINGREQ, PINGRESP, DISCONNECT} : Bare(type)

Spec == Init /\ [][Next]_vars

-----------------------------------------------------------------------------
(* Properties *)

Built == message # <<>>

(* The packet stays in the output buffer, in which a header with a length  *)
(* of one byte starts at the second place.                                 *)
FitsBuffer ==
  Built => Len(message) + (IF message[2] < 128 THEN 1 ELSE 0) <= buffer_length

(* What a reader finds is what the packet was built from, for every packet *)
(* that was built: its length, type and flags, and the topic and payload   *)
(* of a PUBLISH, on both sides of the length at which the header grows.    *)
(* Without a payload the reader reports none.                              *)
ReadsBack ==
  Built =>
    /\ mqtt_get_total_length(message, Len(message)) = Len(message)
    /\ mqtt_get_type(message) = req.type
    /\ req.type = PUBLISH =>
         /\ mqtt_get_qos(message) = req.qos
         /\ mqtt_get_retain(message) = Flag(req.retain, 1)
         /\ mqtt_get_publish_topic(message, Len(message)) = Text(req.topic)
         /\ mqtt_get_publish_data(message, Len(message)) =
              IF req.data = <<>> THEN Null(0) ELSE Text(req.data)

(* The string at index i of the packet, and the index behind it. *)
StringAt(i) == Slice(message, i + 2, i + 2 + Number(message, i))
Behind(i) == i + 2 + Number(message, i)

(* A CONNECT: its flags, and where its strings are if they say so. *)
ClientIdAt == LengthEnd(message, Len(message)) + Len(Magic) + 6
Flags == message[ClientIdAt - 2]
IsSet(w) == (Flags \div w) % 2 = 1
WillAt == Behind(ClientIdAt)
UserAt == IF IsSet(4) THEN Behind(Behind(WillAt)) ELSE WillAt
PassAt == IF IsSet(128) THEN Behind(UserAt) ELSE UserAt
EndAt == IF IsSet(64) THEN Behind(PassAt) ELSE PassAt

(* What a broker finds in a CONNECT is what connect_info says: the flags   *)
(* tell which strings are there, these use the packet up, each is the one  *)
(* that was given, and nothing is left out that was.  An empty client_id   *)
(* becomes two bytes, of which the second is whatever stands in memory.    *)
ConnectParses ==
  Built /\ req.type = CONNECT =>
    LET info == req.info
    IN  /\ EndAt = Len(message)
        /\ ~IsSet(1) /\ (IsSet(2) <=> info.clean_session)
        /\ Number(message, ClientIdAt - 2) = info.keepalive % 65536
        /\ StringAt(ClientIdAt) = IF info.client_id = <<>> THEN <<0, info.after_id>>
                                                          ELSE info.client_id
        /\ IF IsSet(4)
             THEN /\ StringAt(WillAt) = info.will_topic
                  /\ StringAt(Behind(WillAt)) = info.will_message
                  /\ (Flags \div 8) % 4 = info.will_qos
                  /\ IsSet(32) <=> info.will_retain
             ELSE info.will_topic = <<>> /\ (Flags \div 8) % 8 = 0
        /\ IF IsSet(128) THEN StringAt(UserAt) = info.username ELSE info.username = <<>>
        /\ IF IsSet(64) THEN StringAt(PassAt) = info.password ELSE info.password = <<>>

(* The identifier of a packet on the wire, where MQTT puts it. *)
WireId ==
  Number(message, IF req.type = PUBLISH THEN BehindTopic(message, Len(message))
                                        ELSE LengthEnd(message, Len(message)))

Numbered ==
  \/ req.type \in {SUBSCRIBE, UNSUBSCRIBE, PUBACK, PUBREC, PUBREL, PUBCOMP}
  \/ req.type = PUBLISH /\ req.qos > 0

(* Every packet that MQTT numbers carries an identifier that is not 0, also*)
(* where the counter wraps.  For a request it is the one reported to the   *)
(* caller and the counter's last; an acknowledgement repeats the one it got.*)
NumberedPackets ==
  Built /\ Numbered =>
    /\ WireId # 0
    /\ req.type \in {PUBLISH, SUBSCRIBE, UNSUBSCRIBE} =>
         WireId = pending_id /\ WireId = message_id
    /\ req.type \in {PUBACK, PUBREC, PUBREL, PUBCOMP} => req.id \in {0, WireId}

=============================================================================
