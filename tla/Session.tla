------------------------------ MODULE Session -------------------------------
(***************************************************************************)
(* Packet identifiers and QoS over the life of several connections: what   *)
(* the application publishes, the outbound queue, the broker's side of the *)
(* QoS flows and the connection between them.                              *)
(*                                                                         *)
(* A connection is up or down; MqttClient says how it gets there, and that *)
(* MQTT_Task runs when the queue has something to send.  sendTimeout is    *)
(* TRUE while the counter of that name is not 0.  pending_msg_id is left   *)
(* out: it decides only what is logged.                                    *)
(***************************************************************************)
EXTENDS Integers, Sequences, FiniteSets, SequencesExt

CONSTANTS
  Messages,        \* what the application asks to send, each once
  QueueSize,       \* packets msgQueue has room for
  MaxMessageId,    \* the largest uint16_t
  CleanSessions,   \* the values clean_session may be initialised to
  MaxInflight,     \* sends espconn accepts before a sent callback
  MaxAnswers       \* bound: answers of the broker on their way

ASSUME SessionAssumption ==
  /\ \A m \in Messages : m.type \in {"PUBLISH", "SUBSCRIBE"} /\ m.qos \in 0 .. 2
  /\ QueueSize \in Nat \ {0}
  /\ MaxMessageId \in Nat \ {0}
  /\ CleanSessions \subseteq BOOLEAN
  /\ MaxInflight \in Nat \ {0} /\ MaxAnswers \in Nat \ {0}

VARIABLES
  clean_session,     \* connect_info.clean_session
  connState,         \* "down": no connection
  message_id,
  msgQueue,          \* packets, oldest first
  pending_msg_type,
  sendTimeout,
  unconfirmed,       \* SDK: sends without a sent callback yet
  toBroker,          \* those of them the broker has not received
  toClient,          \* the broker's answers on their way
  held,              \* broker: QoS 2 messages received and not released
  accepted,          \* broker: messages it took for new, in order
  order,             \* history: what the application asked for, in order
  cut,               \* history: of the messages held, those whose flow was cut
  swallowed,         \* history: messages the broker took for duplicates
  carried,           \* history: a connection began with packets queued or held
  late               \* history: a send of this connection timed out

clientVars ==
  <<clean_session, connState, message_id, msgQueue, pending_msg_type, sendTimeout>>
netVars == <<unconfirmed, toBroker, toClient>>
brokerVars == <<held, accepted, swallowed>>
histVars == <<order, cut, carried, late>>
vars == <<clientVars, netVars, brokerVars, histVars>>

None == [type |-> "NONE", qos |-> 0]

PacketType ==
  {"CONNECT", "CONNACK", "PUBLISH", "PUBACK", "PUBREC", "PUBREL", "PUBCOMP",
   "SUBSCRIBE", "SUBACK", "PINGREQ", "PINGRESP"}

(* msg says, for the properties, which message a packet is about. *)
Packet == [type : PacketType, id : 0 .. MaxMessageId, msg : Messages \cup {None}]

Pkt(type, id, msg) == [type |-> type, id |-> id, msg |-> msg]

TypeOK ==
  /\ clean_session \in BOOLEAN
  /\ connState \in {"down", "MQTT_CONNECT_SENDING", "MQTT_DATA",
                   "TCP_RECONNECT_DISCONNECTING"}
  /\ message_id \in 0 .. MaxMessageId
  /\ msgQueue \in Seq(Packet) /\ Len(msgQueue) <= QueueSize
  /\ pending_msg_type \in PacketType \cup {"NONE"} /\ sendTimeout \in BOOLEAN
  /\ unconfirmed \in Seq(Packet) /\ toBroker \in Seq(Packet) /\ toClient \in Seq(Packet)
  /\ held \subseteq [id : 0 .. MaxMessageId, msg : Messages \cup {None}]
  /\ accepted \in Seq(Messages \cup {None}) /\ order \in Seq(Messages)
  /\ cut \subseteq Messages \cup {None}
  /\ swallowed \subseteq Messages \cup {None}
  /\ carried \in BOOLEAN /\ late \in BOOLEAN

Init ==
  /\ clean_session \in CleanSessions
  /\ connState = "down" /\ message_id = 0 /\ msgQueue = <<>>
  /\ pending_msg_type = "NONE" /\ sendTimeout = FALSE
  /\ unconfirmed = <<>> /\ toBroker = <<>> /\ toClient = <<>>
  /\ held = {} /\ accepted = <<>> /\ swallowed = {}
  /\ order = <<>> /\ cut = {}
  /\ carried = FALSE /\ late = FALSE

-----------------------------------------------------------------------------
HeldMessages == {h.msg : h \in held}

(* A packet about each of ms is lost: it found no room, or was not looked  *)
(* at, or the connection has ended.                                        *)
CutWith(ms) == cut' = cut \cup (ms \cap HeldMessages)

-----------------------------------------------------------------------------
(* The application: MQTT_Publish and MQTT_Subscribe, at any time *)

Numbered(m) == m.type = "SUBSCRIBE" \/ m.qos > 0

(* The queue with room for one more packet: the oldest one goes. *)
MakeRoom == IF Len(msgQueue) < QueueSize THEN msgQueue ELSE Tail(msgQueue)

(* Mutant: the counter is not advanced. *)
SendSameId(m) ==
  /\ m \notin Range(order)
  /\ msgQueue' = Append(MakeRoom, Pkt(m.type, IF Numbered(m) THEN 1 ELSE 0, m))
  /\ CutWith(IF Len(msgQueue) < QueueSize THEN {} ELSE {Head(msgQueue).msg})
  /\ order' = Append(order, m)
  /\ UNCHANGED <<clean_session, connState, message_id, pending_msg_type, sendTimeout,
                 netVars, brokerVars, carried, late>>

Send(m) ==
  /\ m \notin Range(order) /\ message_id < MaxMessageId
  /\ message_id' = IF Numbered(m) THEN message_id + 1 ELSE message_id
  /\ msgQueue' = Append(MakeRoom,
                        Pkt(m.type, IF Numbered(m) THEN message_id' ELSE 0, m))
  /\ CutWith(IF Len(msgQueue) < QueueSize THEN {} ELSE {Head(msgQueue).msg})
  /\ order' = Append(order, m)
  /\ UNCHANGED <<clean_session, connState, pending_msg_type, sendTimeout, netVars,
                 brokerVars, carried, late>>

-----------------------------------------------------------------------------
(* The client's callbacks, timer and task *)

(* espconn_send, which refuses when too many sends are unconfirmed. *)
Accepts == Len(unconfirmed) < MaxInflight

espconn_send(p) ==
  /\ unconfirmed' = IF Accepts THEN Append(unconfirmed, p) ELSE unconfirmed
  /\ toBroker' = IF Accepts THEN Append(toBroker, p) ELSE toBroker

(* A connection is open: mqtt_msg_init, and CONNECT is sent. *)
mqtt_tcpclient_connect_cb ==
  /\ connState = "down"
  /\ message_id' = 0
  /\ pending_msg_type' = "CONNECT"
  /\ sendTimeout' = TRUE
  /\ espconn_send(Pkt("CONNECT", 0, None))
  /\ connState' = "MQTT_CONNECT_SENDING"
  /\ carried' = (carried \/ msgQueue # <<>> \/ (~clean_session /\ held # {}))
  /\ UNCHANGED <<clean_session, msgQueue, toClient, brokerVars, order, cut, late>>

(* The connection ends, with what is on its way in both directions. *)
ConnectionEnds ==
  /\ connState # "down"
  /\ connState' = "down"
  /\ unconfirmed' = <<>> /\ toBroker' = <<>> /\ toClient' = <<>>
  /\ CutWith(HeldMessages)
  /\ late' = FALSE
  /\ UNCHANGED <<clean_session, message_id, msgQueue, pending_msg_type, sendTimeout,
                 brokerVars, order, carried>>

(* Mutant: in a session the callback is always called. *)
CallsInSession == connState = "MQTT_DATA"

(* Whether a confirmation calls publishedCb: it is the packet sent last    *)
(* that decides.                                                           *)
CallsPublishedCb == connState = "MQTT_DATA" /\ pending_msg_type = "PUBLISH"

(* The oldest send is confirmed once the broker's side has it. *)
mqtt_tcpclient_sent_cb ==
  /\ Len(unconfirmed) > Len(toBroker)
  /\ unconfirmed' = Tail(unconfirmed)
  /\ sendTimeout' = FALSE
  /\ UNCHANGED <<clean_session, connState, message_id, msgQueue, pending_msg_type, toBroker,
                 toClient, brokerVars, histVars>>

(* mqtt_timer counts sendTimeout down to 0. *)
SendTimesOut ==
  /\ sendTimeout
  /\ sendTimeout' = FALSE
  /\ late' = (late \/ unconfirmed # <<>>)
  /\ UNCHANGED <<clean_session, connState, message_id, msgQueue, pending_msg_type, netVars,
                 brokerVars, order, cut, carried>>

(* Mutant: the task does not wait for a confirmation. *)
TaskDataEager ==
  /\ connState = "MQTT_DATA" /\ msgQueue # <<>>
  /\ msgQueue' = Tail(msgQueue)
  /\ pending_msg_type' = Head(msgQueue).type
  /\ sendTimeout' = TRUE
  /\ espconn_send(Head(msgQueue))
  /\ UNCHANGED <<clean_session, connState, message_id, toClient, brokerVars, histVars>>

(* Mutant: the newest packet is sent. *)
TaskDataNewest ==
  /\ connState = "MQTT_DATA" /\ msgQueue # <<>> /\ ~sendTimeout
  /\ msgQueue' = Front(msgQueue)
  /\ pending_msg_type' = Last(msgQueue).type
  /\ sendTimeout' = TRUE
  /\ espconn_send(Last(msgQueue))
  /\ UNCHANGED <<clean_session, connState, message_id, toClient, brokerVars, histVars>>

(* MQTT_Task sends the oldest packet.  It is lost if espconn refuses it. *)
TaskData ==
  /\ connState = "MQTT_DATA" /\ msgQueue # <<>> /\ ~sendTimeout
  /\ msgQueue' = Tail(msgQueue)
  /\ pending_msg_type' = Head(msgQueue).type
  /\ sendTimeout' = TRUE
  /\ espconn_send(Head(msgQueue))
  /\ CutWith(IF Accepts THEN {} ELSE {Head(msgQueue).msg})
  /\ UNCHANGED <<clean_session, connState, message_id, toClient, brokerVars, order,
                 carried, late>>

(* mqtt_send_keepalive, never while sendTimeout runs: MqttClient's         *)
(* KeepAliveNotOverlapping, for a host given as an address.                *)
TaskKeepAlive ==
  /\ connState = "MQTT_DATA" /\ ~sendTimeout
  /\ pending_msg_type' = "PINGREQ"
  /\ sendTimeout' = TRUE
  /\ espconn_send(Pkt("PINGREQ", 0, None))
  /\ connState' = IF Accepts THEN connState ELSE "TCP_RECONNECT_DISCONNECTING"
  /\ UNCHANGED <<clean_session, message_id, msgQueue, toClient, brokerVars, histVars>>

(* Mutant: PUBREC is answered only if a PUBLISH was sent last. *)
RecvForLastSent ==
  \E n \in 1 .. Len(toClient) :
    /\ toClient' = SubSeq(toClient, n + 1, Len(toClient))
    /\ LET p == toClient[1]
           answered == /\ connState = "MQTT_DATA" /\ p.type = "PUBREC"
                       /\ pending_msg_type = "PUBLISH"
           room == Len(msgQueue) < QueueSize
       IN  /\ connState' = IF p.type = "CONNACK" /\ connState = "MQTT_CONNECT_SENDING"
                             THEN "MQTT_DATA" ELSE connState
           /\ msgQueue' = IF answered /\ room
                            THEN Append(msgQueue, Pkt("PUBREL", p.id, p.msg))
                            ELSE msgQueue
           /\ CutWith({toClient[i].msg : i \in 2 .. n}
                        \cup (IF answered /\ ~room THEN {p.msg} ELSE {}))
    /\ UNCHANGED <<clean_session, message_id, pending_msg_type, sendTimeout,
                   unconfirmed, toBroker, brokerVars, order, carried, late>>

(* A segment arrives: n answers, the first of which is handled.  They are  *)
(* no PUBLISH, so those behind it are not looked at.  PUBREC is answered if*)
(* the queue has room.                                                     *)
mqtt_tcpclient_recv ==
  \E n \in 1 .. Len(toClient) :
    /\ toClient' = SubSeq(toClient, n + 1, Len(toClient))
    /\ LET p == toClient[1]
           answered == connState = "MQTT_DATA" /\ p.type = "PUBREC"
           room == Len(msgQueue) < QueueSize
       IN  /\ connState' = IF p.type = "CONNACK" /\ connState = "MQTT_CONNECT_SENDING"
                             THEN "MQTT_DATA" ELSE connState
           /\ msgQueue' = IF answered /\ room
                            THEN Append(msgQueue, Pkt("PUBREL", p.id, p.msg))
                            ELSE msgQueue
           /\ CutWith({toClient[i].msg : i \in 2 .. n}
                        \cup (IF answered /\ ~room THEN {p.msg} ELSE {}))
    /\ UNCHANGED <<clean_session, message_id, pending_msg_type, sendTimeout,
                   unconfirmed, toBroker, brokerVars, order, carried, late>>

-----------------------------------------------------------------------------
(* The broker, as MQTT describes it *)

BrokerAnswer(p) ==
  CASE p.type = "CONNECT" -> <<Pkt("CONNACK", 0, None)>>
    [] p.type = "PUBLISH" /\ p.msg.qos = 1 -> <<Pkt("PUBACK", p.id, p.msg)>>
    [] p.type = "PUBLISH" /\ p.msg.qos = 2 -> <<Pkt("PUBREC", p.id, p.msg)>>
    [] p.type = "PUBREL" -> <<Pkt("PUBCOMP", p.id, p.msg)>>
    [] p.type = "SUBSCRIBE" -> <<Pkt("SUBACK", p.id, p.msg)>>
    [] p.type = "PINGREQ" -> <<Pkt("PINGRESP", 0, None)>>
    [] OTHER -> <<>>

(* A QoS 2 PUBLISH whose identifier is held is a duplicate. *)
BrokerReceives ==
  /\ toBroker # <<>> /\ toBroker' = Tail(toBroker)
  /\ Len(toClient) < MaxAnswers
  /\ LET p == Head(toBroker)
         qos2 == p.type = "PUBLISH" /\ p.msg.qos = 2
         duplicate == qos2 /\ \E h \in held : h.id = p.id
     IN  /\ toClient' = toClient \o BrokerAnswer(p)
         /\ held' = CASE qos2 /\ ~duplicate -> held \cup {[id |-> p.id, msg |-> p.msg]}
                      [] p.type = "PUBREL" -> {h \in held : h.id # p.id}
                      [] p.type = "CONNECT" /\ clean_session -> {}
                      [] OTHER -> held
         /\ accepted' = IF p.type = "PUBLISH" /\ ~duplicate THEN Append(accepted, p.msg)
                                                            ELSE accepted
         /\ swallowed' = IF duplicate THEN swallowed \cup {p.msg} ELSE swallowed
  /\ cut' = cut \cap {h.msg : h \in held'}
  /\ UNCHANGED <<clientVars, unconfirmed, order, carried, late>>

-----------------------------------------------------------------------------

Next ==
  \/ \E m \in Messages : Send(m)
  \/ mqtt_tcpclient_connect_cb \/ ConnectionEnds
  \/ mqtt_tcpclient_sent_cb \/ mqtt_tcpclient_recv
  \/ SendTimesOut
  \/ TaskData \/ TaskKeepAlive
  \/ BrokerReceives

Spec == Init /\ [][Next]_vars

(* The stack and the broker do what is theirs on a connection that stays;  *)
(* the timer runs; and the task, posted whenever a send is confirmed, does *)
(* not lose every race against the keep-alive.                             *)
Fairness ==
  /\ WF_vars(mqtt_tcpclient_sent_cb) /\ WF_vars(mqtt_tcpclient_recv)
  /\ WF_vars(SendTimesOut) /\ WF_vars(BrokerReceives)
  /\ WF_vars(connState = "TCP_RECONNECT_DISCONNECTING" /\ ConnectionEnds)
  /\ SF_vars(TaskData)

FairSpec == Spec /\ Fairness

-----------------------------------------------------------------------------
(* Properties *)

(* Sends do not overlap unless one of this connection timed out. *)
OneSendAtATime == ~late => Len(unconfirmed) <= 1

(* publishedCb is called for the confirmation of a PUBLISH and for no      *)
(* other, as long as no send timed out: nothing the application does    *)
(* between a send and its confirmation disturbs what the callback looks at.*)
PublishedCbRight ==
  [][mqtt_tcpclient_sent_cb /\ ~late =>
       (CallsPublishedCb <=> unconfirmed[1].type = "PUBLISH" /\ connState = "MQTT_DATA")]_vars

(* On connections that all began with nothing queued, and with nothing     *)
(* held by the broker unless the session is clean, the broker takes no QoS *)
(* 2 message for a duplicate of another.                                   *)
NoneSwallowedUncarried == ~carried => swallowed = {}

(* The broker gets the messages in the order in which the application sent *)
(* them, none of them twice, whatever was dropped and however often the    *)
(* connection ended.                                                       *)
OrderKept ==
  \A i, j \in DOMAIN accepted :
    i < j => \E k, n \in DOMAIN order :
               k < n /\ order[k] = accepted[i] /\ order[n] = accepted[j]

(* A QoS 2 message that the broker holds is released, PUBREC answered and  *)
(* PUBREL taken, on the connection it came by, unless that ends, a packet  *)
(* about the message finds no room in the queue or in espconn, or PUBREC   *)
(* arrives behind another answer in one segment.                           *)
Qos2Completes ==
  \A m \in {n \in Messages : n.qos = 2} :
    connState = "MQTT_DATA" /\ m \in HeldMessages ~> m \notin HeldMessages \/ m \in cut

=============================================================================
