------------------------------ MODULE Receive -------------------------------
(***************************************************************************)
(* mqtt_tcpclient_recv on bytes.  The broker sends packets; TCP delivers   *)
(* their bytes in segments that may join packets and cut them; each        *)
(* segment is one receive callback, a loop (READPACKET) over what is left  *)
(* of it.  Every turn copies that over the head of in_buffer, whose tail   *)
(* keeps bytes of earlier segments.                                        *)
(*                                                                         *)
(* MQTT_KEEPALIVE_SEND is treated as MQTT_DATA by the callback, and its    *)
(* "Invalid packet" branch is dead (SessionOnLiveLink of MqttClient).      *)
(***************************************************************************)
EXTENDS MqttMsg, SequencesExt

MQTT_BUF_SIZE == buffer_length    \* of in_buffer too

CONSTANTS
  Bursts,      \* the sequences of packets the broker sends at once
  Cuts,        \* lengths at which TCP may cut a segment; {}: never
  QueueSize,   \* answers msgQueue has room for
  MaxSegments  \* bound: segments that arrive

(* A packet the broker sends.  more counts bytes of its payload that the   *)
(* broker has announced and not sent yet.                                  *)
BrokerPacket ==
  [type : 1 .. 14, qos : 0 .. 2, id : 0 .. MaxId, topic : String,
   data : String, code : Byte, more : Nat]

(* Bound: remaining lengths have at most three bytes; MQTT allows four.    *)
LengthLimit == 128 * 128 * 128

(* MQTT wants a topic of a PUBLISH, and an identifier of what is answered  *)
(* with one.                                                               *)
WellFormed(p) ==
  /\ p.type = PUBLISH => Len(p.topic) \in 1 .. MaxId
  /\ p.type \in {PUBREC, PUBREL} \/ (p.type = PUBLISH /\ p.qos > 0) => p.id # 0
  /\ 4 + Len(p.topic) + Len(p.data) + p.more < LengthLimit

(* Only the last packet of a burst may have to be continued. *)
ASSUME ReceiveAssumption ==
  /\ \A s \in Bursts :
       /\ s \in Seq(BrokerPacket) /\ s # <<>>
       /\ \A i \in 1 .. Len(s) : WellFormed(s[i]) /\ (i < Len(s) => s[i].more = 0)
  /\ Cuts \subseteq Nat \ {0}
  /\ QueueSize \in Nat /\ MaxSegments \in Nat

VARIABLES
  connState,   \* MQTT_CONNECT_SENDING or MQTT_DATA
  closing,     \* espconn_disconnect was called
  in_buffer,
  rest,        \* the bytes of the segment not looked at: pdata and len
  msgQueue,    \* answers queued, oldest first
  message_id,  \* the client's identifier counter
  event,       \* what dataCb was called with last
  burst,       \* history: the packets being received
  stream,      \* bytes of burst that have not arrived
  cut,         \* history: the segment begins or ends inside a packet
  todo,        \* history: the packets that are left of one that does not
  arrived      \* history: segments that have arrived

linkVars == <<connState, closing>>
vars == <<linkVars, in_buffer, rest, msgQueue, message_id, event, burst, stream, cut,
          todo, arrived>>

TypeOK ==
  /\ connState \in {"MQTT_CONNECT_SENDING", "MQTT_DATA"} /\ closing \in BOOLEAN
  /\ in_buffer \in [1 .. MQTT_BUF_SIZE -> Byte]
  /\ rest \in String /\ stream \in String
  /\ msgQueue \in Seq(String) /\ Len(msgQueue) <= QueueSize
  /\ message_id \in 0 .. MaxId
  /\ event.topic \in String \cup {NULL} /\ event.data \in String \cup {NULL}

Init ==
  /\ connState = "MQTT_CONNECT_SENDING" /\ closing = FALSE
  /\ in_buffer = [i \in 1 .. MQTT_BUF_SIZE |-> 0]
  /\ rest = <<>> /\ msgQueue = <<>> /\ message_id = 0
  /\ event = [topic |-> <<>>, topic_length |-> 0, data |-> <<>>, data_length |-> 0]
  /\ burst = <<>> /\ stream = <<>> /\ cut = FALSE /\ todo = <<>> /\ arrived = 0

-----------------------------------------------------------------------------
(* The broker: packets as MQTT lays them out *)

LengthBytes(n) ==
  IF n < 128 THEN <<n>>
  ELSE IF n < 16384 THEN <<128 + (n % 128), n \div 128>>
  ELSE <<128 + (n % 128), 128 + ((n \div 128) % 128), n \div 16384>>

IdField(p) == IF p.qos > 0 THEN Bytes16(p.id) ELSE <<>>

PublishBody(p) == Bytes16(Len(p.topic)) \o p.topic \o IdField(p) \o p.data

Body(p) ==
  CASE p.type = PUBLISH -> PublishBody(p)
    [] p.type = CONNACK -> <<0, p.code>>
    [] p.type \in {PINGREQ, PINGRESP} -> <<>>
    [] p.type = SUBACK -> Bytes16(p.id) \o <<p.qos>>
    [] OTHER -> Bytes16(p.id)

Header(p) ==
  <<p.type * 16 + (IF p.type \in {PUBLISH, PUBREL} THEN p.qos * 2 ELSE 0)>>
  \o LengthBytes(Len(Body(p)) + p.more)

Wire(p) == Header(p) \o Body(p)

Encode(ps) == FlattenSeq([i \in DOMAIN ps |-> Wire(ps[i])])

Complete(ps) == \A i \in DOMAIN ps : ps[i].more = 0

(* TCP delivers the next n bytes: of a burst under way, or of a new one.   *)
Arrive(ps, n) ==
  LET new == stream = <<>>
      from == IF new THEN Encode(ps) ELSE stream
  IN  /\ rest = <<>> /\ arrived < MaxSegments /\ arrived' = arrived + 1
      /\ IF new THEN Complete(burst) ELSE ps = burst
      /\ n <= Len(from)
      /\ rest' = SubSeq(from, 1, n)
      /\ stream' = SubSeq(from, n + 1, Len(from))
      /\ burst' = ps
      /\ cut' = ~(new /\ n = Len(from))
      /\ todo' = IF cut' THEN <<>> ELSE ps
      /\ UNCHANGED <<linkVars, in_buffer, msgQueue, message_id, event>>

ArriveAny ==
  \E ps \in IF stream = <<>> THEN Bursts ELSE {burst} :
    \E n \in Cuts \cup {Len(IF stream = <<>> THEN Encode(ps) ELSE stream)} :
      Arrive(ps, n)

-----------------------------------------------------------------------------
(* One turn of READPACKET *)

(* in_buffer after os_memcpy. *)
Copied == rest \o SubSeq(in_buffer, Len(rest) + 1, MQTT_BUF_SIZE)

(* A segment of MQTT_BUF_SIZE or more: "Message too long". *)
RecvTooLong ==
  /\ Len(rest) >= MQTT_BUF_SIZE
  /\ rest' = <<>> /\ todo' = <<>>
  /\ UNCHANGED <<linkVars, in_buffer, msgQueue, message_id, event, burst, stream,
                 cut, arrived>>

(* The answer to a packet: its type, or 0. *)
AnswerType(type, qos) ==
  CASE type = PUBLISH /\ qos = 1 -> PUBACK
    [] type = PUBLISH /\ qos = 2 -> PUBREC
    [] type = PUBREC -> PUBREL
    [] type = PUBREL -> PUBCOMP
    [] type = PINGREQ -> PINGRESP
    [] OTHER -> 0

(* Mutant: nobody looks whether there is room. *)
QueuedAlways(m) == Append(msgQueue, m)

Queued(m) == IF Len(msgQueue) < QueueSize THEN Append(msgQueue, m) ELSE msgQueue

(* Built and queued; without an identifier it takes one of the client's.   *)
Answer(type, id) ==
  LET own == id = 0 /\ type # PINGRESP
      m == IF type = PINGRESP THEN mqtt_msg_bare(PINGRESP)
           ELSE mqtt_msg_ack(type, IF own THEN NextId(message_id) ELSE id)
  IN  /\ msgQueue' = IF type = 0 THEN msgQueue ELSE Queued(m)
      /\ message_id' = IF type # 0 /\ own THEN NextId(message_id) ELSE message_id

(* Mutant: the payload is looked for in all of in_buffer. *)
deliverAll(message, length) ==
  LET topic == mqtt_get_publish_topic(message, length)
      data == mqtt_get_publish_data(message, MQTT_BUF_SIZE)
  IN  [topic |-> topic.text, topic_length |-> topic.length,
       data |-> data.text, data_length |-> data.length]

(* What dataCb is called with. *)
deliver_publish(message, length) ==
  LET topic == mqtt_get_publish_topic(message, length)
      data == mqtt_get_publish_data(message, length)
  IN  [topic |-> topic.text, topic_length |-> topic.length,
       data |-> data.text, data_length |-> data.length]

(* MQTT_CONNECT_SENDING: the rest of the segment is not looked at. *)
RecvConnack ==
  LET code == mqtt_get_connect_return_code(Copied)
      isConnack == mqtt_get_type(Copied) = CONNACK
  IN  /\ Len(rest) < MQTT_BUF_SIZE /\ connState = "MQTT_CONNECT_SENDING"
      /\ in_buffer' = Copied
      /\ connState' = IF isConnack /\ code = 0 THEN "MQTT_DATA" ELSE connState
      /\ closing' = (closing \/ (isConnack /\ code # 0))
      /\ rest' = <<>> /\ todo' = <<>>
      /\ UNCHANGED <<msgQueue, message_id, event, burst, stream, cut, arrived>>

(* Mutant: the length of the packet is not subtracted once it is handled. *)
NextPacketSame(message_length) ==
  IF message_length < Len(rest) THEN rest ELSE <<>>

(* Mutant: one byte of the packet is looked at again. *)
NextPacketEarly(message_length) ==
  IF message_length < Len(rest) THEN SubSeq(rest, message_length, Len(rest))
                                ELSE <<>>

(* What is left of the segment behind a PUBLISH; message_length is a       *)
(* uint16_t.                                                               *)
NextPacket(message_length) ==
  LET length == message_length % 65536
  IN  IF length < Len(rest) THEN SubSeq(rest, length + 1, Len(rest)) ELSE <<>>

RecvData ==
  LET type == mqtt_get_type(Copied)
      isPublish == type = PUBLISH
  IN  /\ Len(rest) < MQTT_BUF_SIZE /\ connState = "MQTT_DATA"
      /\ in_buffer' = Copied
      /\ Answer(AnswerType(type, mqtt_get_qos(Copied)),
                mqtt_get_id(Copied, MQTT_BUF_SIZE))
      /\ event' = IF isPublish THEN deliver_publish(Copied, Len(rest)) ELSE event
      /\ rest' = IF isPublish
                   THEN NextPacket(mqtt_get_total_length(Copied, Len(rest)))
                   ELSE <<>>
      /\ todo' = IF rest' = <<>> \/ todo = <<>> THEN <<>> ELSE Tail(todo)
      /\ UNCHANGED <<linkVars, burst, stream, cut, arrived>>

READPACKET == rest # <<>> /\ (RecvTooLong \/ RecvConnack \/ RecvData)

-----------------------------------------------------------------------------

(* MQTT_Task sends the oldest packet. *)
TaskSends ==
  /\ rest = <<>> /\ connState = "MQTT_DATA" /\ msgQueue # <<>>
  /\ msgQueue' = Tail(msgQueue)
  /\ UNCHANGED <<linkVars, in_buffer, rest, message_id, event, burst, stream, cut,
                 todo, arrived>>

(* The connection ends and mqtt_tcpclient_connect_cb opens a new one.      *)
Reconnect ==
  /\ rest = <<>>
  /\ connState' = "MQTT_CONNECT_SENDING" /\ closing' = FALSE
  /\ message_id' = 0
  /\ burst' = <<>> /\ stream' = <<>>
  /\ UNCHANGED <<in_buffer, rest, msgQueue, event, cut, todo, arrived>>

Next == ArriveAny \/ READPACKET \/ TaskSends \/ Reconnect

Spec == Init /\ [][Next]_vars

-----------------------------------------------------------------------------
(* Properties *)

Present(text) == IF text = NULL THEN <<>> ELSE text

(* The answers in a queue, each a kind of packet and an identifier. *)
Waiting(q) ==
  [i \in DOMAIN q |-> [type |-> mqtt_get_type(q[i]),
                       id |-> IF Len(q[i]) = 2 THEN 0 ELSE Number(q[i], 2)]]

(* To a segment of whole packets the callback does what Delivery says:     *)
(* every publish of it is delivered with its topic and payload and answered*)
(* with its identifier, wherever it starts in the segment and whatever     *)
(* earlier segments, cut or not, left in in_buffer.                        *)
D == INSTANCE Delivery WITH
       TooLong <- {s \in Bursts : Len(Encode(s)) >= MQTT_BUF_SIZE},
       session <- connState = "MQTT_DATA",
       queue <- Waiting(msgQueue),
       event <- [topic |-> event.topic, data |-> Present(event.data)]

ImplementsDelivery ==
  D!Init /\ [][~cut' => D!Next \/ UNCHANGED D!vars]_vars

(* rest starts where the burst does, and a PUBLISH is first. *)
AtFirstPublish ==
  /\ burst # <<>> /\ burst[1].type = PUBLISH /\ connState = "MQTT_DATA"
  /\ rest # <<>> /\ Len(rest) < MQTT_BUF_SIZE
  /\ Len(rest) + Len(stream) = Len(Encode(burst))

(* A PUBLISH that TCP cut is delivered as far as it has arrived: with its  *)
(* topic exactly if that is there (otherwise with a null pointer and the   *)
(* length of the segment), with a prefix of its payload, and with nothing  *)
(* that an earlier segment left in in_buffer; and if its identifier is     *)
(* there the answer carries it.                                            *)
CutPublishDelivered ==
  [][RecvData /\ AtFirstPublish =>
       LET p == burst[1]
           behind == Len(Header(p)) + 2 + Len(p.topic)
       IN  /\ event'.topic = IF Len(rest) >= behind THEN p.topic ELSE NULL
           /\ IsPrefix(Present(event'.data), p.data)
           /\ p.qos > 0 /\ Len(rest) >= behind + 2 /\ msgQueue' # msgQueue =>
                Number(Last(msgQueue'), 2) = p.id]_vars

(* The loop advances with every turn, so the callback returns; but for a   *)
(* PUBLISH whose length on the wire is a multiple of 65536.                *)
LoopAdvances ==
  [][READPACKET =>
       \/ Len(rest') < Len(rest)
       \/ mqtt_get_total_length(rest, Len(rest)) % 65536 = 0]_vars

=============================================================================
