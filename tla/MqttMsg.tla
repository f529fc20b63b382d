------------------------------ MODULE MqttMsg -------------------------------
(***************************************************************************)
(* mqtt_msg.c: the packets a client builds in its output buffer, and the   *)
(* readers it uses on packets it built or received.                        *)
(*                                                                         *)
(* A packet is a sequence of bytes.  A builder leaves three bytes for the  *)
(* fixed header, appends the rest of the packet behind them for as long as *)
(* it fits the buffer, and writes the header last, when it knows whether   *)
(* the length takes one byte or two.  A builder that runs out of room      *)
(* returns a packet of length 0, here the empty sequence.                  *)
(***************************************************************************)
EXTENDS Integers, Sequences

CONSTANTS
  buffer_length,     \* of the output buffer, MQTT_BUF_SIZE
  PROTOCOL_NAMEv311, \* TRUE: MQTT 3.1.1; FALSE: MQTT 3.1
  NULL               \* the null pointer

Byte == 0 .. 255
String == Seq(Byte)
MaxId == 65535       \* the largest uint16_t

MQTT_MAX_FIXED_HEADER_SIZE == 3

(* enum mqtt_message_type *)
CONNECT == 1
CONNACK == 2
PUBLISH == 3
PUBACK == 4
PUBREC == 5
PUBREL == 6
PUBCOMP == 7
SUBSCRIBE == 8
SUBACK == 9
UNSUBSCRIBE == 10
UNSUBACK == 11
PINGREQ == 12
PINGRESP == 13
DISCONNECT == 14

(* Absent strings are empty ones; only client_id tells them apart.         *)
(* after_id is the byte in memory behind the terminator of client_id: 0    *)
(* for the array that stands for no identifier, anything for a string.     *)
Info == [client_id : String \cup {NULL}, after_id : Byte, clean_session : BOOLEAN,
         keepalive : Nat, will_topic : String, will_message : String,
         will_qos : 0 .. 2, will_retain : BOOLEAN,
         username : String, password : String]

(* The smallest buffer holds the fixed part of CONNECT and an identifier.  *)
ASSUME MsgAssumption ==
  /\ buffer_length \in 19 .. 65535
  /\ PROTOCOL_NAMEv311 \in BOOLEAN
  /\ NULL \notin String

-----------------------------------------------------------------------------
(* Appending to the packet under construction: m.body is what follows the  *)
(* fixed header, and m.ok is FALSE once something did not fit.             *)

init_message == [ok |-> TRUE, body |-> <<>>]

fail_message == [ok |-> FALSE, body |-> <<>>]

(* A 16-bit number, most significant byte first. *)
Bytes16(n) == <<(n \div 256) % 256, n % 256>>

(* Mutant: the bytes of the length field are forgotten in the test. *)
appendNoLength(m, s) ==
  IF m.ok /\ MQTT_MAX_FIXED_HEADER_SIZE + Len(m.body) + 2 <= buffer_length
    THEN [m EXCEPT !.body = @ \o s]
    ELSE fail_message

append(m, s) ==
  IF m.ok /\ MQTT_MAX_FIXED_HEADER_SIZE + Len(m.body) + Len(s) <= buffer_length
    THEN [m EXCEPT !.body = @ \o s]
    ELSE fail_message

append_string(m, s) == append(m, Bytes16(Len(s)) \o s)

(* Mutant: the counter is taken as it comes. *)
NextIdPlain(n) == (n + 1) % 65536

(* ++message_id on 16 bits, again if that gives 0. *)
NextId(n) == IF n = MaxId THEN 1 ELSE n + 1

append_message_id(m, id) == append(m, Bytes16(id))

Flag(b, weight) == IF b THEN weight ELSE 0

(* Mutant: one byte for lengths up to 128. *)
finiOffByOne(m, type, qos, retain) ==
  LET first == type * 16 + qos * 2 + Flag(retain, 1)
      n == Len(m.body)
  IN  CASE ~m.ok -> <<>>
        [] m.ok /\ n > 128 -> <<first, 128 + (n % 128), n \div 128>> \o m.body
        [] m.ok /\ n <= 128 -> <<first, n>> \o m.body

(* The packet with its fixed header (the dup flag is never set). *)
fini_message(m, type, qos, retain) ==
  LET first == type * 16 + qos * 2 + Flag(retain, 1)
      n == Len(m.body)
  IN  CASE ~m.ok -> <<>>
        [] m.ok /\ n > 127 -> <<first, 128 + (n % 128), (n \div 128) % 256>> \o m.body
        [] m.ok /\ n <= 127 -> <<first, n>> \o m.body

-----------------------------------------------------------------------------
(* The builders *)

Magic == IF PROTOCOL_NAMEv311 THEN <<77, 81, 84, 84>>
                              ELSE <<77, 81, 73, 115, 100, 112>>

(* Mutant: a password is announced only with a user name. *)
ConnectFlagsNoPassword(info) ==
  LET will == info.will_topic # <<>>
  IN  Flag(info.username # <<>>, 128)
      + Flag(info.username # <<>> /\ info.password # <<>>, 64)
      + Flag(will /\ info.will_retain, 32) + Flag(will, info.will_qos * 8)
      + Flag(will, 4) + Flag(info.clean_session, 2)

ConnectFlags(info) ==
  LET will == info.will_topic # <<>>
  IN  Flag(info.username # <<>>, 128) + Flag(info.password # <<>>, 64)
      + Flag(will /\ info.will_retain, 32) + Flag(will, info.will_qos * 8)
      + Flag(will, 4) + Flag(info.clean_session, 2)

(* 3.1.1 writes two bytes for an empty client_id, whether they fit or not. *)
AppendClientId(m, info) ==
  CASE info.client_id = NULL -> fail_message
    [] info.client_id = <<>> ->
         LET with == append_string(m, <<0, info.after_id>>)
         IN  IF ~PROTOCOL_NAMEv311 THEN fail_message
             ELSE IF with.ok THEN with ELSE m
    [] OTHER -> append_string(m, info.client_id)

AppendIf(given, m, s) == IF given THEN append_string(m, s) ELSE m

mqtt_msg_connect(info) ==
  LET fixed == append(init_message,
                 Bytes16(Len(Magic)) \o Magic
                 \o <<IF PROTOCOL_NAMEv311 THEN 4 ELSE 3, ConnectFlags(info)>>
                 \o Bytes16(info.keepalive))
      will == info.will_topic # <<>>
      id == AppendClientId(fixed, info)
      topic == AppendIf(will, id, info.will_topic)
      message == AppendIf(will, topic, info.will_message)
      user == AppendIf(info.username # <<>>, message, info.username)
      pass == AppendIf(info.password # <<>>, user, info.password)
  IN  fini_message(pass, CONNECT, 0, FALSE)

mqtt_msg_publish(topic, data, qos, retain, id) ==
  LET named == append_string(init_message, topic)
      numbered == IF qos > 0 THEN append_message_id(named, id) ELSE named
  IN  fini_message(append(numbered, data), PUBLISH, qos, retain)

(* mqtt_msg_puback, mqtt_msg_pubrec, mqtt_msg_pubrel and mqtt_msg_pubcomp. *)
mqtt_msg_ack(type, id) ==
  fini_message(append_message_id(init_message, id), type,
               IF type = PUBREL THEN 1 ELSE 0, FALSE)

mqtt_msg_subscribe(topic, qos, id) ==
  LET named == append_string(append_message_id(init_message, id), topic)
  IN  fini_message(append(named, <<qos>>), SUBSCRIBE, 1, FALSE)

mqtt_msg_unsubscribe(topic, id) ==
  fini_message(append_string(append_message_id(init_message, id), topic),
               UNSUBSCRIBE, 1, FALSE)

(* mqtt_msg_pingreq, mqtt_msg_pingresp and mqtt_msg_disconnect. *)
mqtt_msg_bare(type) == fini_message(init_message, type, 0, FALSE)

-----------------------------------------------------------------------------
(* The readers, on the first length bytes of a buffer b.  C's index k is   *)
(* place k + 1 of the sequence.                                            *)

mqtt_get_type(b) == b[1] \div 16
mqtt_get_qos(b) == (b[1] \div 2) % 4
mqtt_get_retain(b) == b[1] % 2
mqtt_get_connect_return_code(b) == b[4]

(* The index behind the remaining length, whose last byte is below 128. *)
LengthEnd(b, length) ==
  LET last(i) == b[i + 1] < 128 /\ \A j \in 1 .. i - 1 : b[j + 1] >= 128
  IN  IF \E i \in 1 .. length - 1 : last(i)
        THEN 1 + (CHOOSE i \in 1 .. length - 1 : last(i))
        ELSE length

(* The remaining length's seven-bit digits, least significant first.  MQTT *)
(* has at most four; the readers would shift on.                           *)
RemainingLength(b, end) ==
  LET digit(i) == IF i < end THEN b[i + 1] % 128 ELSE 0
  IN  digit(1) + 128 * digit(2) + 16384 * digit(3) + 2097152 * digit(4)

mqtt_get_total_length(b, length) ==
  LET end == LengthEnd(b, length) IN RemainingLength(b, end) + end

(* A number at index i, and the bytes from index i up to index j. *)
Number(b, i) == b[i + 1] * 256 + b[i + 2]
Slice(b, i, j) == SubSeq(b, i + 1, j)

(* The readers that return NULL return [text |-> NULL, length |-> what     *)
(* they leave in *length].                                                 *)
Null(length) == [text |-> NULL, length |-> length]
Text(s) == [text |-> s, length |-> Len(s)]

mqtt_get_publish_topic(b, length) ==
  LET i == LengthEnd(b, length)
      topiclen == Number(b, i)
  IN  IF i + 2 >= length \/ i + 2 + topiclen > length
        THEN Null(length)
        ELSE Text(Slice(b, i + 2, i + 2 + topiclen))

(* The index behind the topic of a PUBLISH, if there is a byte. *)
BehindTopic(b, length) ==
  LET i == LengthEnd(b, length) IN i + 2 + Number(b, i)

HasBehindTopic(b, length) ==
  /\ LengthEnd(b, length) + 2 < length
  /\ BehindTopic(b, length) < length

mqtt_get_publish_data(b, length) ==
  LET behind == BehindTopic(b, length)
      i == IF mqtt_get_qos(b) > 0 THEN behind + 2 ELSE behind
      totlen == mqtt_get_total_length(b, length)
  IN  IF ~HasBehindTopic(b, length) \/ i >= length \/ totlen < i
        THEN Null(0)
        ELSE Text(Slice(b, i, IF totlen <= length THEN totlen ELSE length))

WithId == {PUBACK, PUBREC, PUBREL, PUBCOMP, SUBACK, UNSUBACK, SUBSCRIBE}

mqtt_get_id(b, length) ==
  IF length < 1 THEN 0
  ELSE IF mqtt_get_type(b) = PUBLISH
    THEN IF /\ HasBehindTopic(b, length)
            /\ mqtt_get_qos(b) > 0
            /\ BehindTopic(b, length) + 2 < length
           THEN Number(b, BehindTopic(b, length)) ELSE 0
    ELSE IF mqtt_get_type(b) \in WithId /\ length >= 4 /\ b[2] < 128
           THEN Number(b, 2) ELSE 0

=============================================================================
