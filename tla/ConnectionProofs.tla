-------------------------- MODULE ConnectionProofs --------------------------
(***************************************************************************)
(* For every buffer length, and all topics, payloads and connect_info: the *)
(* packets stay in the buffer, and their length and identifiers read back. *)
(***************************************************************************)
EXTENDS Connection, SequenceFacts, TLAPS

(* A packet under construction that stays in the buffer. *)
UnderConstruction(m) ==
  /\ m = [ok |-> m.ok, body |-> m.body]
  /\ m.ok \in BOOLEAN /\ m.body \in String
  /\ m.ok => MQTT_MAX_FIXED_HEADER_SIZE + Len(m.body) <= buffer_length

(* A packet as a builder returns it, in the buffer. *)
Fits(p) == p # <<>> => Len(p) + (IF p[2] < 128 THEN 1 ELSE 0) <= buffer_length

-----------------------------------------------------------------------------
(* Appending *)

(* The buffer's length is a number of 16 bits. *)
LEMMA BufferLength == buffer_length \in Nat /\ buffer_length >= 19 /\ buffer_length <= 65535
  BY MsgAssumption, SMTT(60) DEF MsgAssumption

(* A number of 16 bits is made of its two bytes. *)
LEMMA DivMod16 ==
  ASSUME NEW n \in 0 .. MaxId
  PROVE  ((n \div 256) % 256) * 256 + (n % 256) = n
<1>1. n \in Nat /\ n < 65536
  BY SMTT(60) DEF MaxId
<1>2. n \div 256 \in 0 .. 255
  BY <1>1, DivByte
<1>3. (n \div 256) * 256 + (n % 256) = n
  BY <1>1
<1>4. (n \div 256) % 256 = n \div 256
  BY <1>2, ModSmall
<1> QED
  BY <1>3, <1>4

(* A 16-bit field takes two bytes. *)
LEMMA Bytes16Type ==
  ASSUME NEW n \in Nat
  PROVE  Bytes16(n) \in String /\ Len(Bytes16(n)) = 2
<1>1. (n \div 256) % 256 \in Byte /\ n % 256 \in Byte
  BY DivMod DEF Byte
<1> QED
  BY <1>1, Prefix2 DEF Bytes16, String

(* A message begins empty, and a failed one is empty. *)
LEMMA StartsEmpty == UnderConstruction(init_message) /\ UnderConstruction(fail_message)
  BY BufferLength DEF UnderConstruction, init_message, fail_message, String,
     MQTT_MAX_FIXED_HEADER_SIZE

(* Whatever is appended, what is under construction stays in the buffer. *)
LEMMA AppendStays ==
  ASSUME NEW m, UnderConstruction(m), NEW s \in String
  PROVE  /\ UnderConstruction(append(m, s))
         /\ append(m, s).ok => m.ok /\ append(m, s).body = m.body \o s
<1>1. CASE append(m, s) = fail_message
  BY <1>1, StartsEmpty DEF fail_message
<1>2. CASE /\ m.ok
           /\ MQTT_MAX_FIXED_HEADER_SIZE + Len(m.body) + Len(s) <= buffer_length
           /\ append(m, s) = [m EXCEPT !.body = @ \o s]
  <2>1. m.body \o s \in String /\ Len(m.body \o s) = Len(m.body) + Len(s)
    BY DEF UnderConstruction, String
  <2>2. append(m, s) = [ok |-> TRUE, body |-> m.body \o s]
    BY <1>2 DEF UnderConstruction
  <2>3. Len(m.body) \in Nat /\ Len(s) \in Nat
    BY DEF UnderConstruction, String
  <2> DEFINE a == append(m, s)
  <2>4. a.ok = TRUE /\ a.body = m.body \o s /\ a = [ok |-> a.ok, body |-> a.body]
    BY <2>2
  <2>5. 3 + Len(a.body) <= buffer_length
    BY <1>2, <2>1, <2>3, <2>4, BufferLength DEF MQTT_MAX_FIXED_HEADER_SIZE
  <2> HIDE DEF a
  <2> QED
    BY <1>2, <2>1, <2>4, <2>5
    DEF UnderConstruction, MQTT_MAX_FIXED_HEADER_SIZE, a
<1> QED
  BY <1>1, <1>2 DEF append

(* append_string keeps a message under construction; when it succeeds      *)
(* the two length bytes and the string are at the end.                     *)
LEMMA AppendStringStays ==
  ASSUME NEW m, UnderConstruction(m), NEW s \in String
  PROVE  /\ UnderConstruction(append_string(m, s))
         /\ append_string(m, s).ok =>
              m.ok /\ append_string(m, s).body = m.body \o (Bytes16(Len(s)) \o s)
<1>1. Bytes16(Len(s)) \o s \in String
  BY Bytes16Type DEF String
<1> QED
  BY <1>1, AppendStays DEF append_string

(* append_message_id keeps a message under construction; when it           *)
(* succeeds the two bytes are at the end.                                  *)
LEMMA AppendIdStays ==
  ASSUME NEW m, UnderConstruction(m), NEW id \in Nat
  PROVE  /\ UnderConstruction(append_message_id(m, id))
         /\ append_message_id(m, id).ok =>
              m.ok /\ append_message_id(m, id).body = m.body \o Bytes16(id)
  BY Bytes16Type, AppendStays DEF append_message_id

-----------------------------------------------------------------------------
(* The header *)

(* The first byte of a packet. *)
FirstByte(type, qos, retain) == type * 16 + qos * 2 + Flag(retain, 1)

(* The type can be read from the first byte whatever the flags are. *)
LEMMA HeaderByte ==
  ASSUME NEW type \in 1 .. 14, NEW r \in 0 .. 5
  PROVE  type * 16 + r \in 0 .. 255 /\ (type * 16 + r) \div 16 = type
  OBVIOUS

(* The first byte is a byte, and its high half is the type. *)
LEMMA FirstByteType ==
  ASSUME NEW type \in 1 .. 14, NEW qos \in 0 .. 2, NEW retain \in BOOLEAN
  PROVE  /\ FirstByte(type, qos, retain) \in Byte
         /\ FirstByte(type, qos, retain) \div 16 = type
<1>1. PICK r \in 0 .. 1 : Flag(retain, 1) = r
  BY DEF Flag
<1>2. PICK low \in 0 .. 5 : qos * 2 + r = low
  OBVIOUS
<1>3. FirstByte(type, qos, retain) = type * 16 + low
  BY <1>1, <1>2 DEF FirstByte
<1> QED
  BY <1>3, HeaderByte DEF Byte

(* What fini_message makes of m: two or three bytes before its body, the   *)
(* second of them the length if there are two.                             *)
Shaped(p, m, first) ==
  LET n == Len(m.body)
  IN  /\ p \in String
      /\ Fits(p)
      /\ p # <<>> <=> m.ok
      /\ m.ok /\ n <= 127 => p = <<first, n>> \o m.body
      /\ m.ok /\ n > 127 =>
           p = <<first, 128 + (n % 128), (n \div 128) % 256>> \o m.body

(* What fini_message returns: nothing, or a fixed header before the        *)
(* body.                                                                   *)
LEMMA FiniShape ==
  ASSUME NEW m, UnderConstruction(m), NEW type \in 1 .. 14, NEW qos \in 0 .. 2,
         NEW retain \in BOOLEAN
  PROVE  Shaped(fini_message(m, type, qos, retain), m, FirstByte(type, qos, retain))
<1> DEFINE p == fini_message(m, type, qos, retain)
           n == Len(m.body)
           first == FirstByte(type, qos, retain)
<1>1. n \in Nat /\ m.body \in Seq(Byte) /\ first \in Byte /\ m.ok \in BOOLEAN
  BY FirstByteType DEF UnderConstruction, String
<1>2. CASE ~m.ok
  <2>1. p = <<>>
    BY <1>2 DEF fini_message
  <2> QED
    BY <2>1, <1>2 DEF Shaped, Fits, String
<1>3. CASE m.ok /\ n > 127
  <2> DEFINE b2 == 128 + (n % 128)
             b3 == (n \div 128) % 256
  <2>1. p = <<first, b2, b3>> \o m.body
    BY <1>3, <1>1 DEF fini_message, FirstByte
  <2>2. b2 \in Byte /\ b2 >= 128 /\ b3 \in Byte
    <3>1. n \in Nat
      BY <1>1
    <3> HIDE DEF n
    <3> QED
      BY <3>1, DivMod DEF Byte
  <2> HIDE DEF p, b2, b3, first
  <2>3. p \in Seq(Byte) /\ Len(p) = 3 + n /\ p[2] = b2
    BY <2>1, <2>2, <1>1, Prefix3
  <2>4. Fits(p)
    <3>1. 3 + n <= buffer_length
      BY <1>3 DEF UnderConstruction, MQTT_MAX_FIXED_HEADER_SIZE
    <3>2. ~(p[2] < 128)
      BY <2>2, <2>3 DEF Byte
    <3> QED
      BY <2>3, <3>1, <3>2, <1>1 DEF Fits
  <2>5. p # <<>>
    BY <2>3, <1>1
  <2>6. ~(n <= 127)
    BY <1>3, <1>1
  <2> QED
    BY <2>1, <2>3, <2>4, <2>5, <2>6, <1>3 DEF Shaped, String, b2, b3, p, first
<1>4. CASE m.ok /\ n <= 127
  <2>1. p = <<first, n>> \o m.body
    BY <1>4, <1>1 DEF fini_message, FirstByte
  <2>2. n \in Byte
    <3>1. n \in Nat /\ n <= 127
      BY <1>1, <1>4
    <3> HIDE DEF n
    <3> QED
      BY <3>1 DEF Byte
  <2> HIDE DEF p, first
  <2>3. p \in Seq(Byte) /\ Len(p) = 2 + n /\ p[2] = n
    BY <2>1, <2>2, <1>1, Prefix2
  <2>4. Fits(p)
    <3>1. 3 + n <= buffer_length
      BY <1>4 DEF UnderConstruction, MQTT_MAX_FIXED_HEADER_SIZE
    <3>2. p[2] < 128
      BY <2>3, <1>4, <1>1
    <3> QED
      BY <2>3, <3>1, <3>2, <1>1, BufferLength DEF Fits
  <2>5. p # <<>>
    BY <2>3, <1>1
  <2>6. ~(n > 127)
    BY <1>4, <1>1
  <2> QED
    BY <2>1, <2>3, <2>4, <2>5, <2>6, <1>4 DEF Shaped, String, p, first
<1> QED
  BY <1>1, <1>2, <1>3, <1>4

-----------------------------------------------------------------------------
(* The builders *)

(* A builder's result: a packet that stays in the buffer. *)
Packet(p) == p \in String /\ Fits(p)

(* p is what a builder makes of body: nothing, or a packet of that body.   *)
BuiltFrom(p, body, first) ==
  /\ Packet(p)
  /\ p # <<>> => \E m : /\ UnderConstruction(m) /\ m.ok /\ m.body = body
                       /\ Shaped(p, m, first)

(* A message finished is the packet of the body it was built from. *)
LEMMA FiniBuilt ==
  ASSUME NEW m, UnderConstruction(m), NEW body, m.ok => m.body = body,
         NEW type \in 1 .. 14, NEW qos \in 0 .. 2, NEW retain \in BOOLEAN
  PROVE  BuiltFrom(fini_message(m, type, qos, retain), body,
                   FirstByte(type, qos, retain))
<1> DEFINE p == fini_message(m, type, qos, retain)
           first == FirstByte(type, qos, retain)
<1>1. Shaped(p, m, first)
  BY FiniShape
<1> HIDE DEF p, first
<1>2. Packet(p) /\ (p # <<>> => m.ok)
  BY <1>1 DEF Shaped, Packet
<1> QED
  BY <1>1, <1>2 DEF BuiltFrom, p, first

(* The protocol name is one of two constant strings. *)
LEMMA MagicType == Magic \in String
<1>1. <<77, 81, 84, 84>> \in String
  BY DEF String, Byte
<1>2. <<77, 81, 73, 115, 100, 112>> \in String
  BY DEF String, Byte
<1> QED
  BY <1>1, <1>2 DEF Magic

(* The connect flags are a byte. *)
LEMMA FlagsType ==
  ASSUME NEW info \in Info
  PROVE  ConnectFlags(info) \in Byte
<1> DEFINE will == info.will_topic # <<>>
<1>1. PICK a \in {0, 128}, b \in {0, 64}, c \in {0, 32}, e \in {0, 4}, f \in {0, 2} :
        /\ a = Flag(info.username # <<>>, 128) /\ b = Flag(info.password # <<>>, 64)
        /\ c = Flag(will /\ info.will_retain, 32) /\ e = Flag(will, 4)
        /\ f = Flag(info.clean_session, 2)
  BY DEF Flag
<1>2. PICK d \in {0, 8, 16} : d = Flag(will, info.will_qos * 8)
  BY DEF Flag, Info
<1>3. ConnectFlags(info) = a + b + c + d + e + f
  BY <1>1, <1>2 DEF ConnectFlags
<1> QED
  BY <1>3 DEF Byte

(* An optional string keeps the message under construction. *)
LEMMA AppendIfStays ==
  ASSUME NEW m, UnderConstruction(m), NEW s \in String, NEW given \in BOOLEAN
  PROVE  UnderConstruction(AppendIf(given, m, s))
  BY AppendStringStays DEF AppendIf

(* So does the client id, which must not be empty. *)
LEMMA ClientIdStays ==
  ASSUME NEW m, UnderConstruction(m), NEW info \in Info
  PROVE  UnderConstruction(AppendClientId(m, info))
<1>1. info.client_id \in String \cup {NULL} /\ info.after_id \in Byte
  BY DEF Info
<1>2. <<0, info.after_id>> \in String
  BY <1>1, Prefix2 DEF String, Byte
<1>3. UnderConstruction(append_string(m, <<0, info.after_id>>))
  BY <1>2, AppendStringStays
<1>4. info.client_id # NULL => UnderConstruction(append_string(m, info.client_id))
  BY <1>1, AppendStringStays
<1>5. UnderConstruction(fail_message)
  BY StartsEmpty
<1>6. CASE info.client_id = NULL
  <2>1. <<>> \in String
    BY SMTT(60) DEF String
  <2>2. info.client_id # <<>>
    BY <1>6, <2>1, MsgAssumption DEF MsgAssumption
  <2> QED
    BY <1>5, <1>6, <2>2 DEF AppendClientId
<1>7. CASE info.client_id # NULL /\ info.client_id = <<>>
  <2> DEFINE with == append_string(m, <<0, info.after_id>>)
  <2>1. AppendClientId(m, info) = IF ~PROTOCOL_NAMEv311 THEN fail_message
                                  ELSE IF with.ok THEN with ELSE m
    BY <1>7 DEF AppendClientId
  <2> HIDE DEF with
  <2>2. AppendClientId(m, info) \in {fail_message, with, m}
    BY <2>1
  <2> QED
    BY <2>2, <1>3, <1>5 DEF with
<1>8. CASE info.client_id # NULL /\ info.client_id # <<>>
  <2>1. AppendClientId(m, info) = append_string(m, info.client_id)
    BY <1>8 DEF AppendClientId
  <2> QED
    BY <2>1, <1>4, <1>8
<1> QED
  BY <1>6, <1>7, <1>8

(* mqtt_msg_connect gives a CONNECT packet or nothing. *)
LEMMA ConnectPacket ==
  ASSUME NEW info \in Info
  PROVE  \E body : BuiltFrom(mqtt_msg_connect(info), body, FirstByte(CONNECT, 0, FALSE))
<1> DEFINE version == IF PROTOCOL_NAMEv311 THEN 4 ELSE 3
           header == Bytes16(Len(Magic)) \o Magic \o <<version, ConnectFlags(info)>>
                     \o Bytes16(info.keepalive)
           fixed == append(init_message, header)
           will == info.will_topic # <<>>
           id == AppendClientId(fixed, info)
           topic == AppendIf(will, id, info.will_topic)
           msg == AppendIf(will, topic, info.will_message)
           user == AppendIf(info.username # <<>>, msg, info.username)
           pass == AppendIf(info.password # <<>>, user, info.password)
<1>1. /\ info.will_topic \in String /\ info.will_message \in String
      /\ info.username \in String /\ info.password \in String
      /\ info.keepalive \in Nat
  BY DEF Info
<1>2. header \in String
  <2>1. Len(Magic) \in Nat
    BY MagicType DEF String
  <2>2. version \in Byte
    BY DEF Byte
  <2>3. <<version, ConnectFlags(info)>> \in String
    BY <2>2, FlagsType, Prefix2 DEF String
  <2>4. Bytes16(Len(Magic)) \in String /\ Bytes16(info.keepalive) \in String
    BY <2>1, <1>1, Bytes16Type
  <2> HIDE DEF version
  <2> QED
    BY <2>3, <2>4, MagicType DEF String
<1>3. UnderConstruction(fixed)
  <2> HIDE DEF header
  <2> QED
    BY <1>2, StartsEmpty, AppendStays
<1> HIDE DEF fixed
<1>4. UnderConstruction(id)
  BY <1>3, ClientIdStays
<1> HIDE DEF id
<1>5. UnderConstruction(topic)
  BY <1>1, <1>4, AppendIfStays
<1> HIDE DEF topic
<1>6. UnderConstruction(msg)
  BY <1>1, <1>5, AppendIfStays
<1> HIDE DEF msg
<1>7. UnderConstruction(user)
  BY <1>1, <1>6, AppendIfStays
<1> HIDE DEF user
<1>8. UnderConstruction(pass)
  BY <1>1, <1>7, AppendIfStays
<1> HIDE DEF pass
<1>9. CONNECT \in 1 .. 14 /\ 0 \in 0 .. 2 /\ FALSE \in BOOLEAN
  BY DEF CONNECT
<1>10. BuiltFrom(fini_message(pass, CONNECT, 0, FALSE), pass.body,
                 FirstByte(CONNECT, 0, FALSE))
  BY <1>8, <1>9, FiniBuilt, Zenon
<1>11. mqtt_msg_connect(info) = fini_message(pass, CONNECT, 0, FALSE)
  BY DEF mqtt_msg_connect, pass, user, msg, topic, id, fixed
<1> QED
  BY <1>10, <1>11, Zenon

(* What mqtt_msg_publish puts behind the header. *)
IdField(qos, id) == IF qos > 0 THEN Bytes16(id) ELSE <<>>

(* The body of a PUBLISH: the topic behind its length, the identifier,     *)
(* the payload.                                                            *)
PublishBody(topic, data, qos, id) ==
  ((Bytes16(Len(topic)) \o topic) \o IdField(qos, id)) \o data

(* mqtt_msg_publish gives that body behind a fixed header, or nothing. *)
LEMMA PublishBuilt ==
  ASSUME NEW topic \in String, NEW data \in String, NEW qos \in 0 .. 2,
         NEW retain \in BOOLEAN, NEW id \in 1 .. MaxId
  PROVE  BuiltFrom(mqtt_msg_publish(topic, data, qos, retain, id),
                   PublishBody(topic, data, qos, id), FirstByte(PUBLISH, qos, retain))
<1> DEFINE named == append_string(init_message, topic)
           numbered == IF qos > 0 THEN append_message_id(named, id) ELSE named
           m == append(numbered, data)
           field == Bytes16(Len(topic)) \o topic
<1>1. Len(topic) \in Nat /\ id \in Nat
  BY SMTT(60) DEF String, MaxId
<1>2. Bytes16(Len(topic)) \in String /\ Bytes16(id) \in String
  BY <1>1, Bytes16Type
<1>3. field \in String
  BY <1>2 DEF String
<1>4. /\ UnderConstruction(named)
      /\ named.ok => named.body = field
  <2>1. <<>> \o field = field
    BY <1>3 DEF String
  <2>2. init_message.body = <<>>
    BY DEF init_message
  <2> HIDE DEF field, named
  <2>3. named.ok => named.body = <<>> \o field
    BY AppendStringStays, StartsEmpty, <2>2 DEF named, field
  <2> QED
    BY <2>1, <2>3, AppendStringStays, StartsEmpty DEF named
<1> HIDE DEF named, field
<1>5. /\ UnderConstruction(numbered)
      /\ numbered.ok => numbered.body = field \o IdField(qos, id)
  <2>1. CASE qos > 0
    BY <2>1, <1>4, <1>1, AppendIdStays DEF IdField
  <2>2. CASE ~(qos > 0)
    <3>1. field \o <<>> = field
      BY <1>3 DEF String
    <3> QED
      BY <2>2, <3>1, <1>4 DEF IdField
  <2> QED
    BY <2>1, <2>2
<1> HIDE DEF numbered
<1>6. /\ UnderConstruction(m)
      /\ m.ok => m.body = (field \o IdField(qos, id)) \o data
  BY <1>5, AppendStays
<1> HIDE DEF m
<1>7. PUBLISH \in 1 .. 14
  BY DEF PUBLISH
<1>8. mqtt_msg_publish(topic, data, qos, retain, id) = fini_message(m, PUBLISH, qos, retain)
  BY DEF mqtt_msg_publish, m, numbered, named
<1> QED
  BY <1>6, <1>7, <1>8, FiniBuilt, ZenonT(60) DEF PublishBody, field

-----------------------------------------------------------------------------
(* Reading the header back *)

(* The lengths that two bytes of the header can say. *)
MaxRemaining == 16383

(* The readers find the length of p, and m's body behind its header. *)
Decoded(p, m, first) ==
  /\ p \in String /\ p # <<>> /\ p[1] = first
  /\ LengthEnd(p, Len(p)) \in Nat
  /\ Len(p) = LengthEnd(p, Len(p)) + Len(m.body)
  /\ mqtt_get_total_length(p, Len(p)) = Len(p)
  /\ \A i \in 1 .. Len(m.body) : p[LengthEnd(p, Len(p)) + i] = m.body[i]

(* A remaining length that fits the buffer is its two base-128 digits. *)
LEMMA Digits ==
  ASSUME NEW n \in Nat, n <= MaxRemaining
  PROVE  /\ n \div 128 \in 0 .. 127 /\ (n \div 128) % 256 = n \div 128
         /\ (n \div 128) % 128 = n \div 128
         /\ (128 + (n % 128)) % 128 = n % 128
         /\ (n % 128) + 128 * (n \div 128) = n
<1>1. n \div 128 \in 0 .. 127
  BY DEF MaxRemaining
<1>2. \A k \in 0 .. 127 : k % 256 = k /\ k % 128 = k
  OBVIOUS
<1>3. (n % 128) + 128 * (n \div 128) = n
  OBVIOUS
<1>4. (128 + (n % 128)) % 128 = n % 128
  OBVIOUS
<1> QED
  BY <1>1, <1>2, <1>3, <1>4

(* A remaining length of one byte is read back. *)
LEMMA OneByteLength ==
  ASSUME NEW p \in String, NEW a \in 0 .. 127, Len(p) >= 2, p[2] = a
  PROVE  LengthEnd(p, Len(p)) = 2 /\ RemainingLength(p, 2) = a
<1> DEFINE last(i) == p[i + 1] < 128 /\ \A j \in 1 .. i - 1 : p[j + 1] >= 128
<1>1. Len(p) \in Nat /\ 1 \in 1 .. Len(p) - 1
  BY DEF String
<1>2. \A i \in 1 .. Len(p) - 1 : last(i) <=> i = 1
  <2> SUFFICES ASSUME NEW i \in 1 .. Len(p) - 1
               PROVE  last(i) <=> i = 1
    OBVIOUS
  <2>1. a < 128 /\ ~(a >= 128) /\ 1 + 1 = 2
    OBVIOUS
  <2>2. CASE i = 1
    BY <2>1, <2>2
  <2>3. CASE i # 1
    <3>1. 1 \in 1 .. i - 1
      BY <2>3, <1>1
    <3> QED
      BY <3>1, <2>1, <2>3
  <2> QED
    BY <2>2, <2>3
<1> HIDE DEF last
<1>3. (CHOOSE i \in 1 .. Len(p) - 1 : last(i)) = 1
  BY <1>1, <1>2
<1>4. LengthEnd(p, Len(p)) = IF \E i \in 1 .. Len(p) - 1 : last(i)
        THEN 1 + (CHOOSE i \in 1 .. Len(p) - 1 : last(i)) ELSE Len(p)
  BY DEF LengthEnd, last
<1>5. LengthEnd(p, Len(p)) = 2
  BY <1>1, <1>2, <1>3, <1>4
<1>6. RemainingLength(p, 2) = a % 128
  <2>1. RemainingLength(p, 2) = (a % 128) + 128 * 0 + 16384 * 0 + 2097152 * 0
    BY DEF RemainingLength
  <2>2. a % 128 \in Nat
    OBVIOUS
  <2> QED
    BY <2>1, <2>2
<1>7. a % 128 = a
  OBVIOUS
<1> QED
  BY <1>5, <1>6, <1>7

(* A packet whose remaining length is the two bytes a and b. *)
HasTwoBytes(p, a, b) ==
  /\ p \in String /\ a \in 128 .. 255 /\ b \in 0 .. 127
  /\ Len(p) >= 3 /\ p[2] = a /\ p[3] = b

(* A remaining length of two bytes is read back. *)
LEMMA TwoByteLength ==
  ASSUME NEW p, NEW a, NEW b, HasTwoBytes(p, a, b)
  PROVE  /\ LengthEnd(p, Len(p)) = 3
         /\ RemainingLength(p, 3) = (a % 128) + 128 * b
<1> DEFINE last(i) == p[i + 1] < 128 /\ \A j \in 1 .. i - 1 : p[j + 1] >= 128
<1> USE DEF HasTwoBytes
<1>1. Len(p) \in Nat /\ 1 \in 1 .. Len(p) - 1 /\ 2 \in 1 .. Len(p) - 1
  BY DEF String
<1>2. ~(a < 128) /\ a >= 128 /\ b < 128 /\ ~(b >= 128) /\ 1 + 1 = 2 /\ 2 + 1 = 3
  OBVIOUS
<1>3. \A i \in 1 .. Len(p) - 1 : last(i) <=> i = 2
  <2> SUFFICES ASSUME NEW i \in 1 .. Len(p) - 1
               PROVE  last(i) <=> i = 2
    OBVIOUS
  <2>1. CASE i = 1
    BY <2>1, <1>2
  <2>2. CASE i = 2
    BY <2>2, <1>2
  <2>3. CASE i # 1 /\ i # 2
    <3>1. 2 \in 1 .. i - 1
      BY <2>3, <1>1
    <3> QED
      BY <3>1, <1>2, <2>3
  <2> QED
    BY <2>1, <2>2, <2>3
<1> HIDE DEF last
<1>4. (CHOOSE i \in 1 .. Len(p) - 1 : last(i)) = 2
  BY <1>1, <1>3
<1>5. LengthEnd(p, Len(p)) = IF \E i \in 1 .. Len(p) - 1 : last(i)
        THEN 1 + (CHOOSE i \in 1 .. Len(p) - 1 : last(i)) ELSE Len(p)
  BY DEF LengthEnd, last
<1>6. LengthEnd(p, Len(p)) = 3
  BY <1>1, <1>3, <1>4, <1>5
<1>7. RemainingLength(p, 3) = (a % 128) + 128 * (b % 128)
  <2>1. RemainingLength(p, 3) = (a % 128) + 128 * (b % 128) + 16384 * 0 + 2097152 * 0
    BY <1>2 DEF RemainingLength
  <2>2. a % 128 \in Nat /\ b % 128 \in Nat
    OBVIOUS
  <2> QED
    BY <2>1, <2>2
<1>8. b % 128 = b
  BY SMTT(60)
<1> QED
  BY <1>6, <1>7, <1>8

(* The fixed header fini_message writes is read back by the decoder:       *)
(* type, flags and remaining length.                                       *)
LEMMA HeaderReadsBack ==
  ASSUME NEW m, NEW p, NEW first \in Byte,
         UnderConstruction(m), m.ok, Len(m.body) <= MaxRemaining, Shaped(p, m, first)
  PROVE  Decoded(p, m, first)
<1>1. Len(m.body) \in Nat /\ m.body \in Seq(Byte) /\ p \in String /\ p # <<>>
  BY DEF UnderConstruction, String, Shaped
<1>2. PICK n \in Nat : n = Len(m.body)
  BY <1>1
<1>3. CASE n <= 127
  <2>1. p = <<first, n>> \o m.body
    BY <1>2, <1>3 DEF Shaped
  <2>2. n \in Byte /\ n \in 0 .. 127
    BY <1>3 DEF Byte
  <2>3. /\ Len(p) = 2 + n /\ p[1] = first /\ p[2] = n
        /\ \A i \in 1 .. Len(m.body) : p[2 + i] = m.body[i]
    BY <2>1, <2>2, <1>1, <1>2, Prefix2
  <2>4. LengthEnd(p, Len(p)) = 2 /\ RemainingLength(p, 2) = n
    <3>1. Len(p) >= 2
      BY <2>3
    <3>2. p \in String /\ p[2] = n /\ n \in 0 .. 127
      BY <1>1, <2>2, <2>3
    <3>3. LengthEnd(p, Len(p)) = 2
      BY <3>1, <3>2, OneByteLength
    <3>4. RemainingLength(p, 2) = n
      BY <3>1, <3>2, OneByteLength
    <3> QED
      BY <3>3, <3>4
  <2>5. mqtt_get_total_length(p, Len(p)) = n + 2
    BY <2>4 DEF mqtt_get_total_length
  <2> QED
    BY <2>3, <2>4, <2>5, <1>1, <1>2 DEF Decoded
<1>4. CASE n > 127
  <2>1. PICK b2, b3 : b2 = 128 + (n % 128) /\ b3 = (n \div 128) % 256
    OBVIOUS
  <2>2. p = <<first, b2, b3>> \o m.body
    <3>1. p = <<first, 128 + (n % 128), (n \div 128) % 256>> \o m.body
      BY <1>2, <1>4, Zenon DEF Shaped
    <3> QED
      BY <3>1, <2>1, Zenon
  <2>3. b2 \in 128 .. 255 /\ b3 \in 0 .. 127 /\ (b2 % 128) + 128 * b3 = n
    <3>1. n <= MaxRemaining
      BY <1>2
    <3>2. /\ n \div 128 \in 0 .. 127 /\ (n \div 128) % 256 = n \div 128
          /\ (128 + (n % 128)) % 128 = n % 128 /\ (n % 128) + 128 * (n \div 128) = n
      BY <3>1, Digits
    <3>3. 128 + (n % 128) \in 128 .. 255
      BY DivMod
    <3> QED
      BY <2>1, <3>2, <3>3, ZenonT(60)
  <2>4. b2 \in Byte /\ b3 \in Byte
    BY <2>3 DEF Byte
  <2>5. /\ Len(p) = 3 + n /\ p[1] = first /\ p[2] = b2 /\ p[3] = b3
        /\ \A i \in 1 .. Len(m.body) : p[3 + i] = m.body[i]
    BY <2>2, <2>4, <1>1, <1>2, Prefix3
  <2>6. LengthEnd(p, Len(p)) = 3 /\ RemainingLength(p, 3) = (b2 % 128) + 128 * b3
    <3>1. Len(p) >= 3
      BY <2>5
    <3>2. p \in String /\ p[2] = b2 /\ p[3] = b3 /\ b2 \in 128 .. 255 /\ b3 \in 0 .. 127
      BY <1>1, <2>3, <2>5
    <3>3. HasTwoBytes(p, b2, b3)
      BY <3>1, <3>2 DEF HasTwoBytes
    <3> QED
      BY <3>3, TwoByteLength
  <2>7. mqtt_get_total_length(p, Len(p)) = n + 3
    BY <2>3, <2>6 DEF mqtt_get_total_length
  <2> QED
    BY <2>5, <2>6, <2>7, <1>1, <1>2 DEF Decoded
<1> QED
  BY <1>3, <1>4

-----------------------------------------------------------------------------
(* The packets with identifiers, and those without a body *)

(* There is a packet identifier. *)
LEMMA MaxIdType == MaxId \in Nat /\ MaxId >= 1
  BY DEF MaxId

(* A new packet identifier is never 0. *)
LEMMA NextIdType ==
  ASSUME NEW n \in 0 .. MaxId
  PROVE  NextId(n) \in 1 .. MaxId
  BY MaxIdType DEF NextId

(* A packet that is only a fixed header. *)
LEMMA BareBuilt ==
  ASSUME NEW type \in 1 .. 14
  PROVE  BuiltFrom(mqtt_msg_bare(type), <<>>, FirstByte(type, 0, FALSE))
<1>1. UnderConstruction(init_message) /\ init_message.body = <<>>
  BY StartsEmpty DEF init_message
<1>2. 0 \in 0 .. 2 /\ FALSE \in BOOLEAN
  OBVIOUS
<1> QED
  BY <1>1, <1>2, FiniBuilt, Zenon DEF mqtt_msg_bare

(* The flags of an acknowledgement: a PUBREL has qos 1. *)
AckQos(type) == IF type = PUBREL THEN 1 ELSE 0

(* The identifier alone, as an acknowledgement and a request begin. *)
LEMMA IdFirst ==
  ASSUME NEW id \in Nat
  PROVE  LET m == append_message_id(init_message, id)
         IN  UnderConstruction(m) /\ (m.ok => m.body = Bytes16(id))
<1>1. init_message.body = <<>> /\ <<>> \o Bytes16(id) = Bytes16(id)
  BY Bytes16Type DEF init_message, String
<1> QED
  BY <1>1, StartsEmpty, AppendIdStays

(* An acknowledgement is its identifier behind a fixed header. *)
LEMMA AckBuilt ==
  ASSUME NEW type \in 4 .. 7, NEW id \in Nat
  PROVE  BuiltFrom(mqtt_msg_ack(type, id), Bytes16(id),
                   FirstByte(type, AckQos(type), FALSE))
<1> DEFINE m == append_message_id(init_message, id)
<1>1. UnderConstruction(m) /\ (m.ok => m.body = Bytes16(id))
  BY IdFirst
<1>2. mqtt_msg_ack(type, id) = fini_message(m, type, AckQos(type), FALSE)
  BY DEF mqtt_msg_ack, AckQos
<1>3. type \in 1 .. 14 /\ AckQos(type) \in 0 .. 2 /\ FALSE \in BOOLEAN
  BY DEF AckQos
<1> HIDE DEF m
<1> QED
  BY <1>1, <1>2, <1>3, FiniBuilt, Zenon

(* An UNSUBSCRIBE is its identifier and its topic. *)
LEMMA UnsubscribeBuilt ==
  ASSUME NEW topic \in String, NEW id \in Nat
  PROVE  BuiltFrom(mqtt_msg_unsubscribe(topic, id),
                   Bytes16(id) \o (Bytes16(Len(topic)) \o topic),
                   FirstByte(UNSUBSCRIBE, 1, FALSE))
<1> DEFINE numbered == append_message_id(init_message, id)
           m == append_string(numbered, topic)
<1>1. UnderConstruction(numbered) /\ (numbered.ok => numbered.body = Bytes16(id))
  BY IdFirst
<1> HIDE DEF numbered
<1>2. /\ UnderConstruction(m)
      /\ m.ok => m.body = Bytes16(id) \o (Bytes16(Len(topic)) \o topic)
  BY <1>1, AppendStringStays
<1>3. mqtt_msg_unsubscribe(topic, id) = fini_message(m, UNSUBSCRIBE, 1, FALSE)
  BY DEF mqtt_msg_unsubscribe, m, numbered
<1>4. UNSUBSCRIBE \in 1 .. 14 /\ 1 \in 0 .. 2 /\ FALSE \in BOOLEAN
  BY DEF UNSUBSCRIBE
<1> HIDE DEF m
<1> QED
  BY <1>2, <1>3, <1>4, FiniBuilt, Zenon

(* A SUBSCRIBE is its identifier, its topic and the qos. *)
LEMMA SubscribeBuilt ==
  ASSUME NEW topic \in String, NEW id \in Nat, NEW qos \in 0 .. 2
  PROVE  BuiltFrom(mqtt_msg_subscribe(topic, qos, id),
                   (Bytes16(id) \o (Bytes16(Len(topic)) \o topic)) \o <<qos>>,
                   FirstByte(SUBSCRIBE, 1, FALSE))
<1> DEFINE numbered == append_message_id(init_message, id)
           named == append_string(numbered, topic)
           m == append(named, <<qos>>)
<1>1. UnderConstruction(numbered) /\ (numbered.ok => numbered.body = Bytes16(id))
  BY IdFirst
<1> HIDE DEF numbered
<1>2. /\ UnderConstruction(named)
      /\ named.ok => named.body = Bytes16(id) \o (Bytes16(Len(topic)) \o topic)
  BY <1>1, AppendStringStays
<1> HIDE DEF named
<1>3. <<qos>> \in String
  BY DEF String, Byte
<1>4. /\ UnderConstruction(m)
      /\ m.ok => m.body = (Bytes16(id) \o (Bytes16(Len(topic)) \o topic)) \o <<qos>>
  BY <1>2, <1>3, AppendStays
<1>5. mqtt_msg_subscribe(topic, qos, id) = fini_message(m, SUBSCRIBE, 1, FALSE)
  BY DEF mqtt_msg_subscribe, m, named, numbered
<1>6. SUBSCRIBE \in 1 .. 14 /\ 1 \in 0 .. 2 /\ FALSE \in BOOLEAN
  BY DEF SUBSCRIBE
<1> HIDE DEF m
<1> QED
  BY <1>4, <1>5, <1>6, FiniBuilt, Zenon

(* An identifier alone always fits. *)
LEMMA IdFits ==
  ASSUME NEW id \in Nat
  PROVE  append_message_id(init_message, id).ok
<1>1. Len(Bytes16(id)) = 2
  BY Bytes16Type
<1>2. init_message.ok /\ Len(init_message.body) = 0
  BY DEF init_message
<1>3. append(init_message, Bytes16(id)) = [init_message EXCEPT !.body = @ \o Bytes16(id)]
  BY <1>1, <1>2, BufferLength DEF append, MQTT_MAX_FIXED_HEADER_SIZE
<1> QED
  BY <1>3 DEF append_message_id, init_message

(* A PUBLISH is built only if its topic and its identifier were appended.  *)
LEMMA PublishAppends ==
  ASSUME NEW topic \in String, NEW data \in String, NEW qos \in 0 .. 2,
         NEW retain \in BOOLEAN, NEW id \in 1 .. MaxId,
         mqtt_msg_publish(topic, data, qos, retain, id) # <<>>
  PROVE  LET named == append_string(init_message, topic)
         IN  named.ok /\ (qos > 0 => append_message_id(named, id).ok)
<1> DEFINE named == append_string(init_message, topic)
           numbered == IF qos > 0 THEN append_message_id(named, id) ELSE named
           m == append(numbered, data)
<1>1. id \in Nat
  BY SMTT(60) DEF MaxId
<1>2. UnderConstruction(named)
  BY StartsEmpty, AppendStringStays
<1> HIDE DEF named
<1>3. UnderConstruction(append_message_id(named, id))
      /\ (append_message_id(named, id).ok => named.ok)
  BY <1>1, <1>2, AppendIdStays
<1>4. UnderConstruction(numbered) /\ (numbered.ok => named.ok)
  BY <1>2, <1>3
<1>5. qos > 0 => numbered = append_message_id(named, id)
  OBVIOUS
<1> HIDE DEF numbered
<1>6. m.ok => numbered.ok
  BY <1>4, AppendStays
<1>7. m.ok
  <2>1. fini_message(m, PUBLISH, qos, retain) # <<>>
    BY DEF mqtt_msg_publish, m, numbered, named
  <2> HIDE DEF m
  <2> QED
    BY <2>1 DEF fini_message
<1> HIDE DEF m
<1> QED
  BY <1>4, <1>5, <1>6, <1>7, SMTT(60) DEF named

-----------------------------------------------------------------------------
(* The invariant: what the last packet is, for what was asked.             *)

(* What the last call of mqtt_msg_publish left. *)
FromPublish ==
  /\ req.type = PUBLISH /\ req.data \in Payloads
  /\ req.topic \in Topics /\ req.topic # <<>>
  /\ req.qos \in 0 .. 2 /\ req.retain \in BOOLEAN
  /\ \E id \in 1 .. MaxId :
       /\ BuiltFrom(message, PublishBody(req.topic, req.data, req.qos, id),
                    FirstByte(PUBLISH, req.qos, req.retain))
       /\ req.qos > 0 => pending_id = id /\ message_id = id

(* What the last call of mqtt_msg_subscribe or mqtt_msg_unsubscribe        *)
(* left.                                                                   *)
FromRequest ==
  /\ req.type \in {SUBSCRIBE, UNSUBSCRIBE}
  /\ \E id \in 1 .. MaxId, rest \in String :
       /\ BuiltFrom(message, Bytes16(id) \o rest, FirstByte(req.type, 1, FALSE))
       /\ pending_id = id /\ message_id = id

(* What the last acknowledgement left. *)
FromAck ==
  /\ req.type \in 4 .. 7
  /\ \E id \in 1 .. MaxId :
       /\ BuiltFrom(message, Bytes16(id),
                    FirstByte(req.type, AckQos(req.type), FALSE))
       /\ req.id \in {0, id}

(* What the last packet without an identifier left. *)
FromOther ==
  /\ req.type \in {CONNECT, PINGREQ, PINGRESP, DISCONNECT}
  /\ \E body : BuiltFrom(message, body, FirstByte(req.type, 0, FALSE))

(* A packet is what one of the encoders made of the last request. *)
Source == Built => FromPublish \/ FromRequest \/ FromAck \/ FromOther

(* The inductive invariant. *)
IInv == TypeOK /\ Source

(* The identifier a call would take. *)
LEMMA NewIdType ==
  ASSUME TypeOK
  PROVE  NewId \in 1 .. MaxId /\ NewId \in Nat
<1>1. NewId \in 1 .. MaxId
  BY NextIdType DEF TypeOK, NewId
<1> QED
  BY <1>1, MaxIdType

(* mqtt_msg_publish keeps the invariant. *)
LEMMA PublishStep ==
  ASSUME IInv, NEW t \in Topics, NEW d \in Payloads, NEW qos \in 0 .. 2,
         NEW retain \in BOOLEAN, Publish(t, d, qos, retain)
  PROVE  IInv'
<1> DEFINE named == append_string(init_message, t)
<1>1. t \in String /\ d \in String
  BY ConnectionAssumption DEF ConnectionAssumption
<1>2. PICK id : id = NewId /\ id \in 1 .. MaxId
  BY NewIdType DEF IInv
<1>3. req' = [type |-> PUBLISH, topic |-> t, data |-> d, qos |-> qos, retain |-> retain]
  BY DEF Publish
<1>4. CASE t = <<>>
  <2>1. message' = <<>> /\ UNCHANGED <<message_id, pending_id>>
    BY <1>4 DEF Publish
  <2> QED
    BY <2>1 DEF IInv, TypeOK, Source, Built, String
<1>5. CASE t # <<>>
  <2>1. message' = mqtt_msg_publish(t, d, qos, retain, id)
    BY <1>2, <1>5 DEF Publish
  <2>2. BuiltFrom(message', PublishBody(t, d, qos, id), FirstByte(PUBLISH, qos, retain))
    BY <2>1, <1>1, <1>2, PublishBuilt
  <2>3. message' \in String
    BY <2>2 DEF BuiltFrom, Packet
  <2>4. TypeOK'
    <3>1. message_id' \in {message_id, id} /\ pending_id' \in {pending_id, 0, id}
      BY <1>2, <1>5 DEF Publish, Appended, TakeId
    <3>2. 0 \in 0 .. MaxId /\ id \in 0 .. MaxId
      BY <1>2, MaxIdType
    <3> QED
      BY <3>1, <3>2, <2>3 DEF IInv, TypeOK
  <2>5. ASSUME message' # <<>>
        PROVE  FromPublish'
    <3>1. named.ok /\ (qos > 0 => append_message_id(named, id).ok)
      BY <2>1, <2>5, <1>1, <1>2, PublishAppends
    <3>2. qos > 0 => pending_id' = id /\ message_id' = id
      BY <3>1, <1>2, <1>5 DEF Publish, Appended, TakeId
    <3>3. /\ req'.type = PUBLISH /\ req'.topic = t /\ req'.data = d
          /\ req'.qos = qos /\ req'.retain = retain
      BY <1>3
    <3> QED
      BY <2>2, <3>2, <3>3, <1>2, <1>5 DEF FromPublish
  <2> QED
    BY <2>4, <2>5 DEF IInv, Source, Built
<1> QED
  BY <1>4, <1>5

(* So does a packet that subscribes or unsubscribes. *)
LEMMA RequestStep ==
  ASSUME IInv, NEW t \in Topics, NEW packet, NEW r, NEW rest \in String,
         r.type \in {SUBSCRIBE, UNSUBSCRIBE},
         BuiltFrom(packet, Bytes16(NewId) \o rest, FirstByte(r.type, 1, FALSE)),
         RequestTopic(t, packet, r)
  PROVE  IInv'
<1>1. NewId \in 1 .. MaxId /\ NewId \in Nat
  BY NewIdType DEF IInv
<1>2. CASE t = <<>>
  <2>1. message' = <<>> /\ UNCHANGED <<message_id, pending_id>>
    BY <1>2 DEF RequestTopic
  <2> QED
    BY <2>1 DEF IInv, TypeOK, Source, Built, String
<1>3. CASE t # <<>>
  <2>1. message' = packet /\ req' = r /\ message_id' = NewId /\ pending_id' = NewId
    BY <1>1, <1>3, IdFits DEF RequestTopic, Appended, TakeId
  <2>2. TypeOK'
    BY <2>1, <1>1, MaxIdType DEF TypeOK, BuiltFrom, Packet
  <2>3. FromRequest'
    BY <2>1, <1>1 DEF FromRequest
  <2> QED
    BY <2>2, <2>3 DEF IInv, Source
<1> QED
  BY <1>2, <1>3

(* So does an acknowledgement. *)
LEMMA AckStep ==
  ASSUME IInv, NEW type \in {PUBACK, PUBREC, PUBREL, PUBCOMP}, NEW id \in AckIds,
         Ack(type, id)
  PROVE  IInv'
<1>1. NewId \in 1 .. MaxId /\ NewId \in Nat
  BY NewIdType DEF IInv
<1>2. type \in 4 .. 7
  BY DEF PUBACK, PUBREC, PUBREL, PUBCOMP
<1>3. PICK sent : sent = (IF id = 0 THEN NewId ELSE id)
  OBVIOUS
<1>4. sent \in 1 .. MaxId /\ sent \in Nat /\ id \in {0, sent}
  BY <1>1, <1>3, MaxIdType, ConnectionAssumption DEF ConnectionAssumption
<1>5. req' = [type |-> type, id |-> id] /\ message' = mqtt_msg_ack(type, sent)
  BY <1>3 DEF Ack
<1>6. BuiltFrom(message', Bytes16(sent), FirstByte(type, AckQos(type), FALSE))
  BY <1>2, <1>4, <1>5, AckBuilt
<1>7. TypeOK'
  <2>1. message_id' \in {message_id, NewId} /\ pending_id' = pending_id
    BY DEF Ack, TakeId
  <2> QED
    BY <2>1, <1>1, <1>6, MaxIdType DEF IInv, TypeOK, BuiltFrom, Packet
<1>8. FromAck'
  <2>1. req'.type = type /\ req'.id = id
    BY <1>5
  <2> QED
    BY <2>1, <1>2, <1>4, <1>6 DEF FromAck
<1> QED
  BY <1>7, <1>8 DEF IInv, Source

(* So does a packet without an identifier. *)
LEMMA OtherStep ==
  ASSUME IInv, NEW body,
         BuiltFrom(message', body, FirstByte(req.type, 0, FALSE)'),
         req'.type \in {CONNECT, PINGREQ, PINGRESP, DISCONNECT},
         UNCHANGED <<message_id, pending_id>>
  PROVE  IInv'
<1>1. TypeOK'
  BY DEF IInv, TypeOK, BuiltFrom, Packet
<1>2. FromOther'
  BY DEF FromOther
<1> QED
  BY <1>1, <1>2 DEF IInv, Source

(* At first nothing is built.                                              *)
LEMMA InitIInv == Init => IInv
  BY MaxIdType, ConnectionAssumption
  DEF Init, IInv, TypeOK, Source, Built, String, ConnectionAssumption

(* Every call keeps the invariant: what it builds has its source.          *)
LEMMA NextIInv == IInv /\ [Next]_vars => IInv'
<1> SUFFICES ASSUME IInv, [Next]_vars
             PROVE  IInv'
  OBVIOUS
<1>1. CASE mqtt_msg_init
  BY <1>1, MaxIdType DEF mqtt_msg_init, IInv, TypeOK, Source, Built, String
<1>2. ASSUME NEW info \in Infos, Connect(info)
      PROVE  IInv'
  <2>1. info \in Info
    BY ConnectionAssumption DEF ConnectionAssumption
  <2>2. PICK body : BuiltFrom(mqtt_msg_connect(info), body, FirstByte(CONNECT, 0, FALSE))
    BY <2>1, ConnectPacket
  <2>3. /\ message' = mqtt_msg_connect(info) /\ req'.type = CONNECT
        /\ UNCHANGED <<message_id, pending_id>>
    BY <1>2 DEF Connect
  <2> QED
    BY <2>2, <2>3, OtherStep
<1>3. ASSUME NEW t \in Topics, NEW d \in Payloads, NEW qos \in 0 .. 2,
             NEW retain \in BOOLEAN, Publish(t, d, qos, retain)
      PROVE  IInv'
  BY <1>3, PublishStep
<1>4. ASSUME NEW t \in Topics, NEW qos \in 0 .. 2, Subscribe(t, qos)
      PROVE  IInv'
  <2>1. t \in String /\ NewId \in Nat /\ NewId \in 1 .. MaxId
    BY NewIdType, ConnectionAssumption DEF IInv, ConnectionAssumption
  <2> DEFINE rest == (Bytes16(Len(t)) \o t) \o <<qos>>
             r == [type |-> SUBSCRIBE, topic |-> t, qos |-> qos]
  <2>2. /\ rest \in String
        /\ (Bytes16(NewId) \o (Bytes16(Len(t)) \o t)) \o <<qos>> = Bytes16(NewId) \o rest
    <3>1. Bytes16(NewId) \in String /\ Bytes16(Len(t)) \o t \in String /\ <<qos>> \in String
      <4>1. Len(t) \in Nat
        BY <2>1 DEF String
      <4>2. <<qos>> \in String
        BY DEF String, Byte
      <4> QED
        BY <4>1, <4>2, <2>1, Bytes16Type DEF String
    <3> QED
      BY <3>1 DEF String
  <2>3. BuiltFrom(mqtt_msg_subscribe(t, qos, NewId), Bytes16(NewId) \o rest,
                  FirstByte(SUBSCRIBE, 1, FALSE))
    BY <2>1, <2>2, SubscribeBuilt
  <2>4. r.type = SUBSCRIBE
    OBVIOUS
  <2>5. RequestTopic(t, mqtt_msg_subscribe(t, qos, NewId), r)
    BY <1>4 DEF Subscribe
  <2> HIDE DEF rest, r
  <2> QED
    BY <2>2, <2>3, <2>4, <2>5, RequestStep
<1>5. ASSUME NEW t \in Topics, Unsubscribe(t)
      PROVE  IInv'
  <2>1. t \in String /\ NewId \in Nat /\ NewId \in 1 .. MaxId
    BY NewIdType, ConnectionAssumption DEF IInv, ConnectionAssumption
  <2> DEFINE rest == Bytes16(Len(t)) \o t
             r == [type |-> UNSUBSCRIBE, topic |-> t]
  <2>2. rest \in String
    <3>1. Len(t) \in Nat
      BY <2>1 DEF String
    <3> QED
      BY <3>1, <2>1, Bytes16Type DEF String
  <2>3. BuiltFrom(mqtt_msg_unsubscribe(t, NewId), Bytes16(NewId) \o rest,
                  FirstByte(UNSUBSCRIBE, 1, FALSE))
    BY <2>1, UnsubscribeBuilt
  <2>4. r.type = UNSUBSCRIBE
    OBVIOUS
  <2>5. RequestTopic(t, mqtt_msg_unsubscribe(t, NewId), r)
    BY <1>5 DEF Unsubscribe
  <2> HIDE DEF rest, r
  <2> QED
    BY <2>2, <2>3, <2>4, <2>5, RequestStep
<1>6. ASSUME NEW type \in {PUBACK, PUBREC, PUBREL, PUBCOMP}, NEW id \in AckIds,
             Ack(type, id)
      PROVE  IInv'
  BY <1>6, AckStep
<1>7. ASSUME NEW type \in {PINGREQ, PINGRESP, DISCONNECT}, Bare(type)
      PROVE  IInv'
  <2>1. type \in 1 .. 14
    BY DEF PINGREQ, PINGRESP, DISCONNECT
  <2>2. BuiltFrom(mqtt_msg_bare(type), <<>>, FirstByte(type, 0, FALSE))
    BY <2>1, BareBuilt
  <2>3. /\ message' = mqtt_msg_bare(type) /\ req'.type = type
        /\ UNCHANGED <<message_id, pending_id>>
    BY <1>7 DEF Bare
  <2> QED
    BY <2>2, <2>3, OtherStep
<1>8. CASE UNCHANGED vars
  BY <1>8 DEF vars, IInv, TypeOK, Source, Built, FromPublish, FromRequest, FromAck,
     FromOther
<1> QED
  BY <1>1, <1>2, <1>3, <1>4, <1>5, <1>6, <1>7, <1>8 DEF Next

-----------------------------------------------------------------------------
(* What the invariant says of a built packet. *)

(* A 16-bit field n at the start of a body b, and what follows it. *)
FieldThen(b, n, s) ==
  /\ b \in String /\ Len(b) = 2 + Len(s)
  /\ b[1] * 256 + b[2] = n
  /\ \A i \in 1 .. Len(s) : b[2 + i] = s[i]

(* A number and a string at the start of a body. *)
LEMMA FieldFirst ==
  ASSUME NEW n \in 0 .. MaxId, NEW s \in String
  PROVE  FieldThen(Bytes16(n) \o s, n, s)
<1> DEFINE high == (n \div 256) % 256
           low == n % 256
<1>1. n \in Nat
  BY MaxIdType
<1>2. high \in Byte /\ low \in Byte
  BY <1>1, DivMod DEF Byte
<1>3. Bytes16(n) = <<high, low>>
  BY DEF Bytes16
<1>4. high * 256 + low = n
  BY DivMod16
<1> HIDE DEF high, low
<1>5. <<high, low>> \o s \in Seq(Byte) /\ Len(<<high, low>> \o s) = 2 + Len(s)
  BY <1>2, Prefix2 DEF String
<1>6. /\ (<<high, low>> \o s)[1] = high /\ (<<high, low>> \o s)[2] = low
      /\ \A i \in 1 .. Len(s) : (<<high, low>> \o s)[2 + i] = s[i]
  BY <1>2, Prefix2 DEF String
<1> QED
  BY <1>3, <1>4, <1>5, <1>6 DEF String, FieldThen

(* Every packet that fits has a length that two bytes can say. *)
ShortBuffer == buffer_length <= MQTT_MAX_FIXED_HEADER_SIZE + MaxRemaining

(* A built packet is decoded into its body. *)
LEMMA BuiltDecoded ==
  ASSUME ShortBuffer, NEW p, NEW body, NEW first \in Byte,
         BuiltFrom(p, body, first), p # <<>>
  PROVE  \E m : m.body = body /\ body \in String /\ Decoded(p, m, first)
            /\ Len(body) + 3 <= buffer_length
<1>1. PICK m : /\ UnderConstruction(m) /\ m.ok /\ m.body = body
               /\ Shaped(p, m, first)
  BY DEF BuiltFrom
<1>2. 3 + Len(m.body) <= buffer_length /\ Len(m.body) \in Nat /\ m.body \in String
  BY <1>1 DEF UnderConstruction, MQTT_MAX_FIXED_HEADER_SIZE, String
<1>3. Len(m.body) <= MaxRemaining
  BY <1>2, BufferLength DEF ShortBuffer, MQTT_MAX_FIXED_HEADER_SIZE, MaxRemaining
<1>4. Decoded(p, m, first)
  BY <1>1, <1>3, HeaderReadsBack
<1> QED
  BY <1>1, <1>2, <1>4

(* The number at the start of a packet's body. *)
LEMMA NumberFirst ==
  ASSUME NEW p, NEW m, NEW first, Decoded(p, m, first), NEW n \in 0 .. MaxId,
         NEW s \in String, m.body = Bytes16(n) \o s
  PROVE  Number(p, LengthEnd(p, Len(p))) = n
<1>1. PICK e \in Nat : e = LengthEnd(p, Len(p))
  BY DEF Decoded
<1>2. /\ Len(m.body) = 2 + Len(s) /\ Len(s) \in Nat
      /\ m.body[1] * 256 + m.body[2] = n
  BY FieldFirst DEF String, FieldThen
<1>3. 1 \in 1 .. Len(m.body) /\ 2 \in 1 .. Len(m.body)
  BY <1>2
<1>4. p[e + 1] = m.body[1] /\ p[e + 2] = m.body[2]
  BY <1>1, <1>3 DEF Decoded
<1> QED
  BY <1>1, <1>2, <1>4 DEF Number

(* The body of a PUBLISH: its topic's length, the topic, and the rest.     *)
PublishRest(d, qos, id) == IdField(qos, id) \o d

(* The identifier field is bytes. *)
LEMMA IdFieldType ==
  ASSUME NEW qos \in 0 .. 2, NEW id \in 1 .. MaxId
  PROVE  IdField(qos, id) \in Seq(Byte)
<1>1. id \in Nat
  BY MaxIdType
<1>2. Bytes16(id) \in Seq(Byte)
  BY <1>1, Bytes16Type DEF String
<1> QED
  BY <1>2 DEF IdField

(* A PUBLISH body, seen from its first string. *)
LEMMA PublishBodyShape ==
  ASSUME NEW t \in String, NEW d \in String, NEW qos \in 0 .. 2,
         NEW id \in 1 .. MaxId
  PROVE  PublishBody(t, d, qos, id) = Bytes16(Len(t)) \o (t \o PublishRest(d, qos, id))
<1> DEFINE f == Bytes16(Len(t))
           g == IdField(qos, id)
<1>1. Len(t) \in Nat
  BY DEF String
<1>2. f \in Seq(Byte)
  BY <1>1, Bytes16Type DEF String
<1>3. g \in Seq(Byte)
  BY IdFieldType
<1>4. t \in Seq(Byte) /\ d \in Seq(Byte)
  BY DEF String
<1> HIDE DEF f, g
<1>5. ((f \o t) \o g) \o d = f \o (t \o (g \o d))
  <2>1. f \o t \in Seq(Byte) /\ g \o d \in Seq(Byte)
    BY <1>2, <1>3, <1>4
  <2>2. ((f \o t) \o g) \o d = (f \o t) \o (g \o d)
    BY ONLY <1>3, <1>4, <2>1, ConcatAssociative, SMTT(60)
  <2>3. (f \o t) \o (g \o d) = f \o (t \o (g \o d))
    BY ONLY <1>2, <1>4, <2>1, ConcatAssociative, SMTT(60)
  <2> QED
    BY ONLY <2>2, <2>3
<1> QED
  BY <1>5 DEF PublishBody, PublishRest, f, g

(* What follows the topic: the identifier, if there is one, and the        *)
(* payload.                                                                *)
LEMMA PublishRestShape ==
  ASSUME NEW d \in String, NEW qos \in 0 .. 2, NEW id \in 1 .. MaxId
  PROVE  /\ PublishRest(d, qos, id) \in String
         /\ qos > 0 => PublishRest(d, qos, id) = Bytes16(id) \o d
         /\ qos = 0 => PublishRest(d, qos, id) = d
<1>1. <<>> \o d = d
  BY DEF String
<1>2. IdField(qos, id) \o d \in String
  <2>1. IdField(qos, id) \in Seq(Byte)
    BY IdFieldType
  <2> QED
    BY <2>1 DEF String
<1>3. qos > 0 => PublishRest(d, qos, id) = Bytes16(id) \o d
  BY DEF PublishRest, IdField
<1>4. qos = 0 => PublishRest(d, qos, id) = d
  BY <1>1 DEF PublishRest, IdField
<1> QED
  BY <1>2, <1>3, <1>4 DEF PublishRest

(* The topic of n bytes, the identifier of skip bytes and the payload of a *)
(* PUBLISH whose body is at index e.                                       *)
FieldsAt(p, e, n, skip, t, d, qos, id) ==
  /\ Number(p, e) = n
  /\ qos > 0 => Number(p, e + 2 + n) = id
  /\ \A i \in 1 .. n : p[e + 2 + i] = t[i]
  /\ Len(p) = e + 2 + n + skip + Len(d)
  /\ \A i \in 1 .. Len(d) : p[e + 2 + n + skip + i] = d[i]

(* Where the decoder finds the fields of a PUBLISH. *)
LEMMA PublishFields ==
  ASSUME NEW t \in String, NEW d \in String, NEW qos \in 0 .. 2,
         NEW id \in 1 .. MaxId, Len(t) <= MaxId, NEW p, NEW m, NEW first,
         Decoded(p, m, first), m.body = PublishBody(t, d, qos, id)
  PROVE  FieldsAt(p, LengthEnd(p, Len(p)), Len(t), IF qos > 0 THEN 2 ELSE 0,
                  t, d, qos, id)
<1>1. PICK e \in Nat : e = LengthEnd(p, Len(p))
  BY DEF Decoded
<1>2. PICK rest : rest = PublishRest(d, qos, id)
  OBVIOUS
<1>3. rest \in String
  BY <1>2, PublishRestShape
<1>4. m.body = Bytes16(Len(t)) \o (t \o rest)
  BY <1>2, PublishBodyShape
<1>5. (qos > 0 => rest = Bytes16(id) \o d) /\ (qos = 0 => rest = d)
  BY <1>2, PublishRestShape
<1>6. PICK n : n = Len(t) /\ n \in Nat
  BY DEF String
<1>7. n \in 0 .. MaxId /\ id \in 0 .. MaxId
  BY <1>6, MaxIdType
<1>8. /\ t \o rest \in String /\ Len(t \o rest) = n + Len(rest)
      /\ \A i \in 1 .. n : (t \o rest)[i] = t[i]
      /\ \A i \in 1 .. Len(rest) : (t \o rest)[n + i] = rest[i]
  BY <1>3, <1>6, ConcatIndex DEF String
<1>9. Len(rest) \in Nat /\ Len(d) \in Nat
  BY <1>3 DEF String
<1>10. /\ Len(m.body) = 2 + n + Len(rest)
      /\ \A i \in 1 .. n + Len(rest) : m.body[2 + i] = (t \o rest)[i]
  <2> DEFINE s == t \o rest
  <2>1. s \in String
    BY <1>8
  <2> HIDE DEF s
  <2>2. FieldThen(Bytes16(n) \o s, n, s)
    BY <1>7, <2>1, FieldFirst
  <2>3. m.body = Bytes16(n) \o s
    BY <1>6, <1>4 DEF s
  <2>4. Len(s) = n + Len(rest)
    BY <1>8 DEF s
  <2>5. Len(m.body) = 2 + (n + Len(rest))
    BY <2>2, <2>3, <2>4 DEF FieldThen
  <2>6. \A i \in 1 .. n + Len(rest) : m.body[2 + i] = s[i]
    BY <2>2, <2>3, <2>4 DEF FieldThen
  <2> QED
    BY <2>5, <2>6, <1>6, <1>9 DEF s
<1>11. Number(p, e) = n
  <2>1. m.body = Bytes16(n) \o (t \o rest) /\ t \o rest \in String
    BY <1>6, <1>8, <1>4
  <2>2. Number(p, LengthEnd(p, Len(p))) = n
    BY <1>7, <2>1, NumberFirst
  <2> QED
    BY <2>2, <1>1
<1>12. Len(p) = e + 2 + n + Len(rest)
  BY <1>1, <1>6, <1>9, <1>10, SMTT(60) DEF Decoded
<1>13. \A i \in 1 .. Len(m.body) : p[e + i] = m.body[i]
  BY <1>1 DEF Decoded
<1>14. \A i \in 1 .. n : p[e + 2 + i] = t[i]
  <2> SUFFICES ASSUME NEW i \in 1 .. n
               PROVE  p[e + 2 + i] = t[i]
    OBVIOUS
  <2>1. i \in 1 .. n + Len(rest) /\ 2 + i \in 1 .. Len(m.body)
    BY <1>6, <1>9, <1>10
  <2>2. p[e + (2 + i)] = m.body[2 + i]
    BY <1>13, <2>1
  <2>3. e + (2 + i) = e + 2 + i
    BY <1>1
  <2> QED
    BY <2>1, <2>2, <2>3, <1>8, <1>10
<1>15. \A i \in 1 .. Len(rest) : p[e + 2 + n + i] = rest[i]
  <2> SUFFICES ASSUME NEW i \in 1 .. Len(rest)
               PROVE  p[e + 2 + n + i] = rest[i]
    OBVIOUS
  <2>1. n + i \in 1 .. n + Len(rest) /\ 2 + (n + i) \in 1 .. Len(m.body)
    BY <1>6, <1>9, <1>10
  <2>2. p[e + (2 + (n + i))] = m.body[2 + (n + i)]
    BY <1>13, <2>1
  <2>3. e + (2 + (n + i)) = e + 2 + n + i
    BY <1>1, <1>6, SMTT(60)
  <2> QED
    BY <2>1, <2>2, <2>3, <1>8, <1>10
<1>16. CASE qos > 0
  <2>1. /\ Len(rest) = 2 + Len(d) /\ rest[1] * 256 + rest[2] = id
        /\ \A i \in 1 .. Len(d) : rest[2 + i] = d[i]
    <3>1. FieldThen(Bytes16(id) \o d, id, d)
      BY <1>7, FieldFirst
    <3> QED
      BY <3>1, <1>5, <1>16 DEF FieldThen
  <2>2. 1 \in 1 .. Len(rest) /\ 2 \in 1 .. Len(rest)
    BY <2>1, <1>9
  <2>3. p[e + 2 + n + 1] = rest[1] /\ p[e + 2 + n + 2] = rest[2]
    BY <1>15, <2>2
  <2>4. Number(p, e + 2 + n) = id
    BY <2>1, <2>3 DEF Number
  <2>5. \A i \in 1 .. Len(d) : p[e + 2 + n + 2 + i] = d[i]
    <3> SUFFICES ASSUME NEW i \in 1 .. Len(d)
                 PROVE  p[e + 2 + n + 2 + i] = d[i]
      OBVIOUS
    <3>1. 2 + i \in 1 .. Len(rest)
      BY <2>1, <1>9
    <3>2. p[e + 2 + n + (2 + i)] = rest[2 + i]
      BY <1>15, <3>1
    <3>3. e + 2 + n + (2 + i) = e + 2 + n + 2 + i
      BY <1>1, <1>6
    <3> QED
      BY <3>2, <3>3, <2>1
  <2>6. Len(p) = e + 2 + n + 2 + Len(d)
    BY <1>1, <1>6, <1>9, <1>12, <2>1
  <2>7. FieldsAt(p, e, n, 2, t, d, qos, id)
    BY <1>11, <1>14, <2>4, <2>5, <2>6, Zenon DEF FieldsAt
  <2> QED
    BY <2>7, <1>1, <1>6, <1>16, Zenon
<1>17. CASE qos = 0
  <2>1. ~(qos > 0) /\ rest = d
    BY <1>5, <1>17
  <2>2. e + 2 + n + 0 = e + 2 + n
    BY <1>1, <1>6
  <2>3. FieldsAt(p, e, n, 0, t, d, qos, id)
    BY <1>11, <1>12, <1>14, <1>15, <2>1, <2>2, Zenon DEF FieldsAt
  <2> QED
    BY <2>1, <2>3, <1>1, <1>6, Zenon
<1> QED
  BY <1>16, <1>17

(* A PUBLISH decoded: every field of it. *)
LEMMA FlagsRead ==
  ASSUME NEW qos \in 0 .. 2, NEW retain \in BOOLEAN
  PROVE  /\ (FirstByte(PUBLISH, qos, retain) \div 2) % 4 = qos
         /\ FirstByte(PUBLISH, qos, retain) % 2 = Flag(retain, 1)
<1>1. PICK r \in 0 .. 1 : Flag(retain, 1) = r
  BY DEF Flag
<1>2. FirstByte(PUBLISH, qos, retain) = 48 + qos * 2 + r
  BY <1>1 DEF FirstByte, PUBLISH
<1>3. ((48 + qos * 2 + r) \div 2) % 4 = qos /\ (48 + qos * 2 + r) % 2 = r
  OBVIOUS
<1> QED
  BY <1>1, <1>2, <1>3

(* A slice of a packet that is known byte by byte. *)
LEMMA SliceIs ==
  ASSUME NEW p \in Seq(Byte), NEW t \in Seq(Byte), NEW i \in Nat,
         i + Len(t) <= Len(p), \A k \in 1 .. Len(t) : p[i + k] = t[k]
  PROVE  Slice(p, i, i + Len(t)) = t
  BY SubSeqIs DEF Slice

(* mqtt_get_publish_topic returns a topic that is where it looks. *)
LEMMA TopicRead ==
  ASSUME NEW p \in Seq(Byte), NEW t \in Seq(Byte), t # <<>>,
         NEW e \in Nat, e = LengthEnd(p, Len(p)), Number(p, e) = Len(t),
         e + 2 + Len(t) <= Len(p),
         \A i \in 1 .. Len(t) : p[e + 2 + i] = t[i]
  PROVE  mqtt_get_publish_topic(p, Len(p)) = Text(t)
<1>1. Len(t) \in Nat /\ Len(t) > 0 /\ Len(p) \in Nat /\ e + 2 \in Nat
  OBVIOUS
<1>2. ~(e + 2 >= Len(p) \/ e + 2 + Len(t) > Len(p))
  BY <1>1
<1>3. Slice(p, e + 2, e + 2 + Len(t)) = t
  BY <1>1, SliceIs
<1>4. mqtt_get_publish_topic(p, Len(p)) = Text(Slice(p, e + 2, e + 2 + Len(t)))
  BY <1>2, Zenon DEF mqtt_get_publish_topic
<1> QED
  BY <1>3, <1>4

(* So is its payload, if there is one, at the index i behind the rest.     *)
DataAt(p, d, i) ==
  /\ LengthEnd(p, Len(p)) + 2 <= BehindTopic(p, Len(p))
  /\ i = (IF mqtt_get_qos(p) > 0 THEN BehindTopic(p, Len(p)) + 2
                                 ELSE BehindTopic(p, Len(p)))
  /\ mqtt_get_total_length(p, Len(p)) = Len(p)
  /\ Len(p) = i + Len(d)
  /\ \A k \in 1 .. Len(d) : p[i + k] = d[k]

(* mqtt_get_publish_data returns a payload that is where it looks, and     *)
(* NULL for an empty one.                                                  *)
LEMMA DataRead ==
  ASSUME NEW p \in Seq(Byte), NEW d \in Seq(Byte), NEW i \in Nat, DataAt(p, d, i),
         LengthEnd(p, Len(p)) \in Nat, BehindTopic(p, Len(p)) \in Nat
  PROVE  mqtt_get_publish_data(p, Len(p)) = IF d = <<>> THEN Null(0) ELSE Text(d)
<1>1. mqtt_get_publish_data(p, Len(p)) =
        IF ~HasBehindTopic(p, Len(p)) \/ i >= Len(p) \/ Len(p) < i
          THEN Null(0)
          ELSE Text(Slice(p, i, IF Len(p) <= Len(p) THEN Len(p) ELSE Len(p)))
  BY Zenon DEF mqtt_get_publish_data, DataAt
<1>2. Len(p) \in Nat /\ Len(d) \in Nat /\ (d = <<>> <=> Len(d) = 0)
  OBVIOUS
<1>3. Len(p) = i + Len(d)
  BY DEF DataAt
<1>4. CASE d = <<>>
  <2>1. i >= Len(p)
    BY <1>2, <1>3, <1>4
  <2> QED
    BY <1>1, <1>4, <2>1
<1>5. CASE d # <<>>
  <2>1. ~(i >= Len(p)) /\ ~(Len(p) < i)
    BY <1>2, <1>3, <1>5
  <2>2. HasBehindTopic(p, Len(p))
    <3>1. PICK e \in Nat : e = LengthEnd(p, Len(p))
      OBVIOUS
    <3>2. PICK b \in Nat : b = BehindTopic(p, Len(p))
      OBVIOUS
    <3>3. e + 2 <= b /\ i = (IF mqtt_get_qos(p) > 0 THEN b + 2 ELSE b)
      BY <3>1, <3>2 DEF DataAt
    <3>4. b <= i
      BY <3>3
    <3>5. e + 2 < Len(p) /\ b < Len(p)
      BY <1>2, <2>1, <3>3, <3>4
    <3> QED
      BY <3>1, <3>2, <3>5 DEF HasBehindTopic
  <2>3. Slice(p, i, i + Len(d)) = d
    <3>1. i + Len(d) <= Len(p)
      BY <1>2, <1>3
    <3>2. \A k \in 1 .. Len(d) : p[i + k] = d[k]
      BY DEF DataAt
    <3> QED
      BY <3>1, <3>2, SliceIs
  <2>4. mqtt_get_publish_data(p, Len(p)) = Text(Slice(p, i, Len(p)))
    BY <1>1, <2>1, <2>2
  <2> QED
    BY <1>3, <1>5, <2>3, <2>4
<1> QED
  BY <1>4, <1>5

(* What the decoder reads in a PUBLISH. *)
PublishReadsBack(p, t, d, qos, retain) ==
  /\ mqtt_get_total_length(p, Len(p)) = Len(p)
  /\ mqtt_get_type(p) = PUBLISH
  /\ mqtt_get_qos(p) = qos
  /\ mqtt_get_retain(p) = Flag(retain, 1)
  /\ mqtt_get_publish_topic(p, Len(p)) = Text(t)
  /\ mqtt_get_publish_data(p, Len(p)) = IF d = <<>> THEN Null(0) ELSE Text(d)

(* The decoder reads back the PUBLISH the encoder built. *)
LEMMA PublishDecoded ==
  ASSUME NEW t \in String, t # <<>>, NEW d \in String, NEW qos \in 0 .. 2,
         NEW retain \in BOOLEAN, NEW id \in 1 .. MaxId, Len(t) <= MaxId,
         NEW p, NEW m, Decoded(p, m, FirstByte(PUBLISH, qos, retain)),
         m.body = PublishBody(t, d, qos, id)
  PROVE  /\ PublishReadsBack(p, t, d, qos, retain)
         /\ qos > 0 => Number(p, BehindTopic(p, Len(p))) = id
<1> DEFINE first == FirstByte(PUBLISH, qos, retain)
<1>1. /\ first \in Byte /\ first \div 16 = PUBLISH
      /\ (first \div 2) % 4 = qos /\ first % 2 = Flag(retain, 1)
  <2>1. PUBLISH \in 1 .. 14
    BY DEF PUBLISH
  <2> QED
    BY <2>1, FirstByteType, FlagsRead
<1> HIDE DEF first
<1>2. Decoded(p, m, first)
  BY DEF first
<1>3. p[1] = first /\ p \in Seq(Byte) /\ mqtt_get_total_length(p, Len(p)) = Len(p)
  BY <1>2 DEF Decoded, String
<1>4. /\ mqtt_get_type(p) = PUBLISH /\ mqtt_get_qos(p) = qos
      /\ mqtt_get_retain(p) = Flag(retain, 1)
  BY <1>1, <1>3 DEF mqtt_get_type, mqtt_get_qos, mqtt_get_retain
<1>5. PICK e \in Nat : e = LengthEnd(p, Len(p))
  BY <1>2 DEF Decoded
<1>6. PICK n \in Nat : n = Len(t)
  BY DEF String
<1>7. PICK skip \in Nat : skip = (IF qos > 0 THEN 2 ELSE 0)
  OBVIOUS
<1>8. /\ Number(p, e) = n
      /\ qos > 0 => Number(p, e + 2 + n) = id
      /\ \A i \in 1 .. n : p[e + 2 + i] = t[i]
      /\ Len(p) = e + 2 + n + skip + Len(d)
      /\ \A i \in 1 .. Len(d) : p[e + 2 + n + skip + i] = d[i]
  <2>1. FieldsAt(p, e, n, skip, t, d, qos, id)
    BY <1>2, <1>5, <1>6, <1>7, PublishFields, Zenon
  <2> QED
    BY <2>1 DEF FieldsAt
<1>9. BehindTopic(p, Len(p)) = e + 2 + n
  BY <1>5, <1>8 DEF BehindTopic
<1>10. mqtt_get_publish_topic(p, Len(p)) = Text(t)
  <2>1. e + 2 + Len(t) <= Len(p)
    <3>1. Len(d) \in Nat
      BY DEF String
    <3> QED
      BY <3>1, <1>6, <1>7, <1>8
  <2>2. t \in Seq(Byte) /\ t # <<>>
    BY DEF String
  <2> QED
    BY <2>1, <2>2, <1>3, <1>5, <1>6, <1>8, TopicRead
<1>11. mqtt_get_publish_data(p, Len(p)) = IF d = <<>> THEN Null(0) ELSE Text(d)
  <2>1. PICK i \in Nat : i = e + 2 + n + skip
    BY <1>7
  <2>2. DataAt(p, d, i)
    <3>1. e + 2 <= e + 2 + n
      OBVIOUS
    <3>2. i = (IF qos > 0 THEN e + 2 + n + 2 ELSE e + 2 + n)
      BY <2>1, <1>7
    <3> QED
      BY <3>1, <3>2, <2>1, <1>3, <1>4, <1>5, <1>8, <1>9, Zenon DEF DataAt
  <2>3. d \in Seq(Byte) /\ LengthEnd(p, Len(p)) \in Nat /\ BehindTopic(p, Len(p)) \in Nat
    BY <1>5, <1>9, SMTT(60) DEF String
  <2> QED
    BY <2>2, <2>3, <1>3, DataRead
<1> QED
  BY <1>3, <1>4, <1>8, <1>9, <1>10, <1>11 DEF PublishReadsBack

(* The topic of a PUBLISH that was built is not longer than its length says.*)
LEMMA TopicLength ==
  ASSUME NEW t \in String, NEW d \in String, NEW qos \in 0 .. 2,
         NEW id \in 1 .. MaxId, Len(PublishBody(t, d, qos, id)) + 3 <= buffer_length
  PROVE  Len(t) <= MaxId
<1> DEFINE rest == PublishRest(d, qos, id)
           f == Bytes16(Len(t))
<1>1. Len(t) \in Nat
  BY DEF String
<1>2. f \in Seq(Byte) /\ Len(f) = 2
  BY <1>1, Bytes16Type DEF String
<1>3. rest \in Seq(Byte)
  BY PublishRestShape DEF String
<1>4. PublishBody(t, d, qos, id) = f \o (t \o rest)
  BY PublishBodyShape
<1> HIDE DEF f, rest
<1>5. Len(f \o (t \o rest)) = 2 + (Len(t) + Len(rest))
  <2> DEFINE s == t \o rest
  <2>1. s \in Seq(Byte) /\ Len(s) = Len(t) + Len(rest)
    BY <1>3, ConcatIndex DEF String
  <2> HIDE DEF s
  <2>2. Len(f \o s) = 2 + Len(s)
    <3>1. f \in Seq(Byte) /\ s \in Seq(Byte)
      BY <1>2, <2>1
    <3>2. Len(f \o s) = Len(f) + Len(s)
      BY <3>1
    <3> QED
      BY <3>2, <1>2
  <2> QED
    BY <2>1, <2>2 DEF s
<1>6. Len(rest) \in Nat
  BY <1>3
<1>7. 2 + (Len(t) + Len(rest)) + 3 <= buffer_length
  BY <1>4, <1>5
<1> QED
  BY <1>1, <1>6, <1>7, BufferLength DEF MaxId

-----------------------------------------------------------------------------
(* The properties *)

(* A PUBLISH that was built, as the application asked for it. *)
LEMMA PublishHolds ==
  ASSUME ShortBuffer, IInv, Built, FromPublish
  PROVE  /\ PublishReadsBack(message, req.topic, req.data, req.qos, req.retain)
         /\ req.qos > 0 =>
              /\ Number(message, BehindTopic(message, Len(message))) # 0
              /\ Number(message, BehindTopic(message, Len(message))) = pending_id
              /\ Number(message, BehindTopic(message, Len(message))) = message_id
<1>1. PICK id \in 1 .. MaxId :
        /\ BuiltFrom(message, PublishBody(req.topic, req.data, req.qos, id),
                     FirstByte(PUBLISH, req.qos, req.retain))
        /\ req.qos > 0 => pending_id = id /\ message_id = id
  BY DEF FromPublish
<1>2. /\ req.topic \in String /\ req.topic # <<>> /\ req.data \in String
      /\ req.qos \in 0 .. 2 /\ req.retain \in BOOLEAN
  BY ConnectionAssumption DEF FromPublish, ConnectionAssumption
<1>3. FirstByte(PUBLISH, req.qos, req.retain) \in Byte
  <2>1. PUBLISH \in 1 .. 14
    BY DEF PUBLISH
  <2> QED
    BY <2>1, <1>2, FirstByteType
<1>4. PICK m :
        /\ m.body = PublishBody(req.topic, req.data, req.qos, id)
        /\ Decoded(message, m, FirstByte(PUBLISH, req.qos, req.retain))
        /\ Len(PublishBody(req.topic, req.data, req.qos, id)) + 3 <= buffer_length
  BY <1>1, <1>3, BuiltDecoded, Zenon DEF Built
<1>5. Len(req.topic) <= MaxId
  BY <1>2, <1>4, TopicLength
<1>6. /\ PublishReadsBack(message, req.topic, req.data, req.qos, req.retain)
      /\ req.qos > 0 => Number(message, BehindTopic(message, Len(message))) = id
  <2>1. PICK t, d, q, r : /\ t = req.topic /\ d = req.data
                          /\ q = req.qos /\ r = req.retain
    OBVIOUS
  <2>2. /\ t \in String /\ t # <<>> /\ d \in String /\ q \in 0 .. 2 /\ r \in BOOLEAN
        /\ Len(t) <= MaxId
    BY <2>1, <1>2, <1>5
  <2>3. m.body = PublishBody(t, d, q, id) /\ Decoded(message, m, FirstByte(PUBLISH, q, r))
    BY <2>1, <1>4
  <2>4. PublishReadsBack(message, t, d, q, r)
    BY <2>2, <2>3, PublishDecoded
  <2>5. q > 0 => Number(message, BehindTopic(message, Len(message))) = id
    BY <2>2, <2>3, PublishDecoded
  <2> QED
    BY <2>1, <2>4, <2>5
<1>7. id # 0
  BY MaxIdType
<1> QED
  BY <1>1, <1>6, <1>7

(* A request: its identifier, length and type. *)
LEMMA RequestHolds ==
  ASSUME ShortBuffer, Built, FromRequest
  PROVE  /\ mqtt_get_total_length(message, Len(message)) = Len(message)
         /\ mqtt_get_type(message) = req.type
         /\ Number(message, LengthEnd(message, Len(message))) # 0
         /\ Number(message, LengthEnd(message, Len(message))) = pending_id
         /\ Number(message, LengthEnd(message, Len(message))) = message_id
<1>1. PICK id \in 1 .. MaxId, rest \in String :
        /\ BuiltFrom(message, Bytes16(id) \o rest, FirstByte(req.type, 1, FALSE))
        /\ pending_id = id /\ message_id = id
  BY DEF FromRequest
<1>2. req.type \in 1 .. 14 /\ 1 \in 0 .. 2 /\ FALSE \in BOOLEAN
  BY DEF FromRequest, SUBSCRIBE, UNSUBSCRIBE
<1>3. /\ FirstByte(req.type, 1, FALSE) \in Byte
      /\ FirstByte(req.type, 1, FALSE) \div 16 = req.type
  BY <1>2, FirstByteType
<1>4. PICK m : /\ m.body = Bytes16(id) \o rest
               /\ Decoded(message, m, FirstByte(req.type, 1, FALSE))
  BY <1>1, <1>3, BuiltDecoded, Zenon DEF Built
<1>5. id \in 0 .. MaxId /\ id # 0
  BY MaxIdType
<1>6. Number(message, LengthEnd(message, Len(message))) = id
  BY <1>4, <1>5, NumberFirst, Zenon
<1> QED
  BY <1>1, <1>3, <1>4, <1>5, <1>6 DEF Decoded, mqtt_get_type

(* An acknowledgement: the same. *)
LEMMA AckHolds ==
  ASSUME ShortBuffer, Built, FromAck
  PROVE  /\ mqtt_get_total_length(message, Len(message)) = Len(message)
         /\ mqtt_get_type(message) = req.type
         /\ Number(message, LengthEnd(message, Len(message))) # 0
         /\ req.id \in {0, Number(message, LengthEnd(message, Len(message)))}
<1> DEFINE first == FirstByte(req.type, AckQos(req.type), FALSE)
<1>1. PICK id \in 1 .. MaxId :
        BuiltFrom(message, Bytes16(id), first) /\ req.id \in {0, id}
  BY DEF FromAck
<1>2. req.type \in 1 .. 14 /\ AckQos(req.type) \in 0 .. 2 /\ FALSE \in BOOLEAN
  BY DEF FromAck, AckQos
<1>3. first \in Byte /\ first \div 16 = req.type
  BY <1>2, FirstByteType
<1> HIDE DEF first
<1>4. PICK m : m.body = Bytes16(id) /\ Decoded(message, m, first)
  BY <1>1, <1>3, BuiltDecoded, Zenon DEF Built
<1>5. id \in 0 .. MaxId /\ id # 0 /\ id \in Nat
  BY MaxIdType
<1>6. Bytes16(id) = Bytes16(id) \o <<>> /\ <<>> \in String
  BY <1>5, Bytes16Type DEF String
<1>7. Number(message, LengthEnd(message, Len(message))) = id
  BY <1>4, <1>5, <1>6, NumberFirst, Zenon
<1> QED
  BY <1>1, <1>3, <1>4, <1>5, <1>7 DEF Decoded, mqtt_get_type

(* A packet without an identifier reads back. *)
LEMMA OtherHolds ==
  ASSUME ShortBuffer, Built, FromOther
  PROVE  /\ mqtt_get_total_length(message, Len(message)) = Len(message)
         /\ mqtt_get_type(message) = req.type
<1>1. PICK body : BuiltFrom(message, body, FirstByte(req.type, 0, FALSE))
  BY DEF FromOther
<1>2. req.type \in 1 .. 14 /\ 0 \in 0 .. 2 /\ FALSE \in BOOLEAN
  BY DEF FromOther, CONNECT, PINGREQ, PINGRESP, DISCONNECT
<1>3. /\ FirstByte(req.type, 0, FALSE) \in Byte
      /\ FirstByte(req.type, 0, FALSE) \div 16 = req.type
  BY <1>2, FirstByteType
<1>4. PICK m : Decoded(message, m, FirstByte(req.type, 0, FALSE))
  BY <1>1, <1>3, BuiltDecoded, Zenon DEF Built
<1> QED
  BY <1>3, <1>4 DEF Decoded, mqtt_get_type

(* What the four cases say of the type. *)
LEMMA RequestType ==
  FromRequest => req.type # PUBLISH /\ req.type \notin {PUBACK, PUBREC, PUBREL, PUBCOMP}
  BY DEF FromRequest, CONNECT, PUBLISH, PUBACK, PUBREC, PUBREL, PUBCOMP,
     SUBSCRIBE, UNSUBSCRIBE, PINGREQ, PINGRESP, DISCONNECT

(* An acknowledgement is no request. *)
LEMMA AckType == FromAck => req.type \notin {PUBLISH, SUBSCRIBE, UNSUBSCRIBE}
  BY DEF FromAck, CONNECT, PUBLISH, PUBACK, PUBREC, PUBREL, PUBCOMP,
     SUBSCRIBE, UNSUBSCRIBE, PINGREQ, PINGRESP, DISCONNECT

(* A packet without an identifier is not numbered. *)
LEMMA OtherType == FromOther => req.type # PUBLISH /\ ~Numbered
  BY DEF FromOther, Numbered, CONNECT, PUBLISH, PUBACK, PUBREC, PUBREL, PUBCOMP,
     SUBSCRIBE, UNSUBSCRIBE, PINGREQ, PINGRESP, DISCONNECT

(* A PUBLISH is no acknowledgement; only one with a qos is numbered. *)
LEMMA PublishType ==
  FromPublish => /\ req.type = PUBLISH
                 /\ req.type \notin {PUBACK, PUBREC, PUBREL, PUBCOMP}
                 /\ Numbered => req.qos > 0
  BY DEF FromPublish, Numbered, CONNECT, PUBLISH, PUBACK, PUBREC, PUBREL, PUBCOMP,
     SUBSCRIBE, UNSUBSCRIBE, PINGREQ, PINGRESP, DISCONNECT

(* Each property follows from the invariant. *)
LEMMA FitsHolds == IInv => FitsBuffer
  BY DEF IInv, Source, Built, FitsBuffer, FromPublish, FromRequest, FromAck, FromOther,
     BuiltFrom, Packet, Fits

(* Whatever built the message, its fields are read back from it.           *)
LEMMA ReadsBackHolds ==
  ASSUME ShortBuffer, IInv
  PROVE  ReadsBack
<1>1. ASSUME Built, FromPublish
      PROVE  ReadsBack
  BY <1>1, PublishHolds, PublishType, Zenon DEF ReadsBack, PublishReadsBack
<1>2. ASSUME Built, FromRequest
      PROVE  ReadsBack
  BY <1>2, RequestHolds, RequestType, Zenon DEF ReadsBack
<1>3. ASSUME Built, FromAck
      PROVE  ReadsBack
  BY <1>3, AckHolds, AckType, Zenon DEF ReadsBack
<1>4. ASSUME Built, FromOther
      PROVE  ReadsBack
  BY <1>4, OtherHolds, OtherType, Zenon DEF ReadsBack
<1> QED
  BY <1>1, <1>2, <1>3, <1>4, Zenon DEF IInv, Source, ReadsBack

(* A packet that needs an identifier carries the one that was given out.   *)
LEMMA NumberedHolds ==
  ASSUME ShortBuffer, IInv
  PROVE  NumberedPackets
<1>1. ASSUME Built, Numbered, FromPublish
      PROVE  NumberedPackets
  BY <1>1, PublishHolds, PublishType, Zenon DEF NumberedPackets, WireId
<1>2. ASSUME Built, FromRequest
      PROVE  NumberedPackets
  BY <1>2, RequestHolds, RequestType, Zenon DEF NumberedPackets, WireId
<1>3. ASSUME Built, FromAck
      PROVE  NumberedPackets
  BY <1>3, AckHolds, AckType, Zenon DEF NumberedPackets, WireId
<1>4. ASSUME FromOther
      PROVE  NumberedPackets
  BY <1>4, OtherType, Zenon DEF NumberedPackets
<1> QED
  BY <1>1, <1>2, <1>3, <1>4, Zenon DEF IInv, Source, NumberedPackets

(* For every buffer length, topics, payloads and connect_info, the counter *)
(* and the reported identifier have 16 bits, and a packet is of bytes.     *)
THEOREM TypeCorrect == Spec => []TypeOK
<1>1. IInv => TypeOK
  BY DEF IInv
<1> QED
  BY <1>1, InitIInv, NextIInv, PTL DEF Spec

(* No packet, CONNECT with all its strings included, leaves the buffer.    *)
THEOREM PacketsFit == Spec => []FitsBuffer
  BY FitsHolds, InitIInv, NextIInv, PTL DEF Spec

(* With a buffer whose packets have lengths of at most two bytes, whatever *)
(* was built is read back: length, type, flags, topic and payload.         *)
THEOREM PacketsReadBack ==
  ASSUME ShortBuffer
  PROVE  Spec => []ReadsBack
<1>1. IInv => ReadsBack
  BY ReadsBackHolds
<1> QED
  BY <1>1, InitIInv, NextIInv, PTL DEF Spec

(* Then the identifiers are where MQTT has them, and never 0.              *)
THEOREM PacketsNumbered ==
  ASSUME ShortBuffer
  PROVE  Spec => []NumberedPackets
<1>1. IInv => NumberedPackets
  BY NumberedHolds
<1> QED
  BY <1>1, InitIInv, NextIInv, PTL DEF Spec

-----------------------------------------------------------------------------
(* The strings of a CONNECT *)

(* b goes on where a ends. *)
Extends(a, b) ==
  Len(a) <= Len(b) /\ \A k \in 1 .. Len(a) : b[k] = a[k]

(* The string s with its length, from index n of b on. *)
HasString(b, n, s) ==
  /\ n \in Nat /\ s \in String /\ n + 2 + Len(s) <= Len(b)
  /\ b[n + 1] * 256 + b[n + 2] = Len(s)
  /\ \A k \in 1 .. Len(s) : b[n + 2 + k] = s[k]

(* A body that was extended twice has been extended. *)
LEMMA ExtendsOn ==
  ASSUME NEW a \in String, NEW b \in String, NEW c \in String,
         Extends(a, b), Extends(b, c)
  PROVE  Extends(a, c)
<1>1. Len(a) \in Nat /\ Len(b) \in Nat /\ Len(c) \in Nat
  BY DEF String
<1>2. 1 .. Len(a) \subseteq 1 .. Len(b)
  BY <1>1 DEF Extends
<1> QED
  BY <1>1, <1>2 DEF Extends

(* A string stays where it is when the body is extended. *)
LEMMA StringStays ==
  ASSUME NEW b \in String, NEW c \in String, NEW n, NEW s, HasString(b, n, s), Extends(b, c)
  PROVE  HasString(c, n, s)
<1>1. Len(b) \in Nat /\ Len(c) \in Nat /\ n \in Nat /\ Len(s) \in Nat
      /\ n + 2 + Len(s) <= Len(b)
  BY DEF String, HasString
<1>2. /\ n + 1 \in 1 .. Len(b) /\ n + 2 \in 1 .. Len(b)
      /\ \A k \in 1 .. Len(s) : n + 2 + k \in 1 .. Len(b)
  BY <1>1
<1> QED
  BY <1>1, <1>2 DEF Extends, HasString

(* Something appended, something else before it: r is m with s behind it.  *)
Longer(r, m, s) ==
  /\ UnderConstruction(r) /\ Extends(m.body, r.body)
  /\ HasString(r.body, Len(m.body), s)
  /\ Len(r.body) = Len(m.body) + 2 + Len(s)

(* A string with its length, added to a body, is found behind it. *)
LEMMA AppendedField ==
  ASSUME NEW a \in Seq(Byte), NEW s \in Seq(Byte), NEW r, Len(s) \in 0 .. MaxId,
         r = a \o (Bytes16(Len(s)) \o s)
  PROVE  /\ Extends(a, r) /\ HasString(r, Len(a), s)
         /\ Len(r) = Len(a) + 2 + Len(s)
<1>1. PICK n \in Nat, l \in Nat : n = Len(a) /\ l = Len(s)
  OBVIOUS
<1>2. PICK f : f = Bytes16(Len(s)) \o s
  OBVIOUS
<1>3. /\ f \in Seq(Byte) /\ Len(f) = 2 + l /\ f[1] * 256 + f[2] = l
      /\ \A k \in 1 .. l : f[2 + k] = s[k]
  <2>1. FieldThen(f, Len(s), s)
    BY <1>2, FieldFirst DEF String
  <2> QED
    BY <1>1, <2>1 DEF FieldThen, String
<1>4. /\ r \in Seq(Byte) /\ Len(r) = n + (2 + l)
      /\ \A k \in 1 .. n : r[k] = a[k]
      /\ \A k \in 1 .. 2 + l : r[n + k] = f[k]
  <2>1. r = a \o f
    BY <1>2
  <2>2. a \in Seq(Byte) /\ f \in Seq(Byte)
    BY <1>3
  <2>3. /\ a \o f \in Seq(Byte) /\ Len(a \o f) = Len(a) + Len(f)
        /\ \A i \in 1 .. Len(a) : (a \o f)[i] = a[i]
        /\ \A i \in 1 .. Len(f) : (a \o f)[Len(a) + i] = f[i]
    BY ONLY <2>2
  <2> QED
    BY <1>1, <1>3, <2>1, <2>3
<1>5. Len(r) = n + 2 + l
  BY <1>4
<1>6. Extends(a, r)
  BY <1>1, <1>4 DEF Extends
<1>7. r[n + 1] = f[1] /\ r[n + 2] = f[2]
  <2>1. 1 \in 1 .. 2 + l /\ 2 \in 1 .. 2 + l
    OBVIOUS
  <2> QED
    BY <1>4, <2>1
<1>8. ASSUME NEW k \in 1 .. l PROVE r[n + 2 + k] = s[k]
  <2>1. 2 + k \in 1 .. 2 + l /\ n + (2 + k) = n + 2 + k
    OBVIOUS
  <2> QED
    BY <1>3, <1>4, <2>1, ZenonT(60)
<1>9. HasString(r, n, s)
  BY <1>1, <1>3, <1>5, <1>7, <1>8, SMTT(60) DEF HasString, String
<1> QED
  BY <1>1, <1>5, <1>6, <1>9

(* A string that fits the buffer has a length of 16 bits. *)
LEMMA FieldLength ==
  ASSUME NEW a \in Seq(Byte), NEW s \in Seq(Byte), NEW r, r = a \o (Bytes16(Len(s)) \o s),
         3 + Len(r) <= buffer_length
  PROVE  Len(s) \in 0 .. MaxId
<1>1. PICK x \in Seq(Byte) : x = Bytes16(Len(s)) /\ Len(x) = 2
  BY Bytes16Type DEF String
<1>2. PICK y : y = x \o s
  OBVIOUS
<1>3. y \in Seq(Byte) /\ Len(y) = Len(x) + Len(s)
  BY <1>2, ConcatIndex
<1>4. a \o y \in Seq(Byte) /\ Len(a \o y) = Len(a) + Len(y)
  BY <1>3, ConcatIndex
<1>5. Len(r) = Len(a) + (2 + Len(s))
  BY <1>1, <1>2, <1>3, <1>4
<1>6. PICK i \in Nat, j \in Nat, z \in Nat : i = Len(a) /\ j = Len(s) /\ z = MaxId
  BY MaxIdType
<1>7. 3 + (i + (2 + j)) <= z
  BY <1>5, <1>6, BufferLength DEF MaxId
<1>8. j \in 0 .. z
  BY <1>7, SMT
<1> QED
  BY <1>6, <1>8

(* append_string extends the body by the string. *)
LEMMA AppendedString ==
  ASSUME NEW m, UnderConstruction(m), NEW s \in String, append_string(m, s).ok
  PROVE  m.ok /\ Longer(append_string(m, s), m, s)
<1> DEFINE r == append_string(m, s)
<1>1. UnderConstruction(r) /\ m.ok /\ r.ok /\ r.body = m.body \o (Bytes16(Len(s)) \o s)
  BY AppendStringStays
<1> HIDE DEF r
<1>2. m.body \in Seq(Byte) /\ s \in Seq(Byte) /\ r.body \in Seq(Byte)
  BY <1>1 DEF String, UnderConstruction
<1>3. 3 + Len(r.body) <= buffer_length
  BY <1>1 DEF UnderConstruction, MQTT_MAX_FIXED_HEADER_SIZE
<1>4. Len(s) \in 0 .. MaxId
  BY <1>1, <1>2, <1>3, FieldLength
<1>5. /\ Extends(m.body, r.body) /\ HasString(r.body, Len(m.body), s)
      /\ Len(r.body) = Len(m.body) + 2 + Len(s)
  BY <1>1, <1>2, <1>4, AppendedField
<1> QED
  BY <1>1, <1>5 DEF Longer, r

(* What client_id becomes. *)
IdString(info) ==
  IF info.client_id = <<>> THEN <<0, info.after_id>> ELSE info.client_id

(* The smallest buffer has room for the two bytes of an empty client_id.   *)
LEMMA AppendedId ==
  ASSUME NEW m, UnderConstruction(m), NEW info \in Info,
         m.ok, PROTOCOL_NAMEv311 => Len(m.body) <= 12,
         AppendClientId(m, info).ok
  PROVE  Longer(AppendClientId(m, info), m, IdString(info))
<1> DEFINE r == AppendClientId(m, info)
<1>1. info.client_id \in String \cup {NULL} /\ info.after_id \in Byte
  BY DEF Info
<1>2. info.client_id # NULL
  <2> SUFFICES ASSUME info.client_id = NULL PROVE FALSE
    BY SMTT(60)
  <2>1. info.client_id # <<>>
    <3>1. <<>> \in String
      BY DEF String
    <3> QED
      BY <3>1, MsgAssumption DEF MsgAssumption
  <2>2. r = fail_message
    BY <2>1 DEF AppendClientId
  <2> QED
    BY <2>2 DEF fail_message
<1>3. CASE info.client_id = <<>>
  <2> DEFINE two == <<0, info.after_id>>
             with == append_string(m, two)
  <2>1. two \in String /\ Len(two) = 2
    BY <1>1, Prefix2 DEF String, Byte
  <2>2. r = IF ~PROTOCOL_NAMEv311 THEN fail_message ELSE IF with.ok THEN with ELSE m
    BY <1>2, <1>3 DEF AppendClientId
  <2>3. PROTOCOL_NAMEv311
    BY <2>2 DEF fail_message
  <2>4. with.ok
    <3> DEFINE f == Bytes16(Len(two)) \o two
    <3>1. f \in String /\ Len(f) = 4
      <4> HIDE DEF two
      <4>1. Bytes16(2) \in Seq(Byte) /\ Len(Bytes16(2)) = 2 /\ two \in Seq(Byte)
        BY <2>1, Bytes16Type DEF String
      <4>2. /\ Bytes16(2) \o two \in Seq(Byte)
            /\ Len(Bytes16(2) \o two) = Len(Bytes16(2)) + Len(two)
        BY <4>1, ConcatIndex
      <4>3. f = Bytes16(2) \o two
        BY <2>1
      <4> HIDE DEF f
      <4> QED
        BY <2>1, <4>1, <4>2, <4>3 DEF String
    <3>2. with = append(m, f)
      BY DEF append_string
    <3> HIDE DEF f, with
    <3>3. 3 + Len(m.body) + Len(f) <= buffer_length
      <4>1. Len(m.body) \in Nat /\ Len(m.body) <= 12
        BY <2>3 DEF UnderConstruction, String
      <4> QED
        BY <3>1, <4>1, BufferLength
    <3>4. with = [m EXCEPT !.body = @ \o f]
      BY <3>2, <3>3 DEF append, MQTT_MAX_FIXED_HEADER_SIZE
    <3> QED
      BY <3>4 DEF UnderConstruction
  <2>5. r = append_string(m, two)
    BY <2>2, <2>3, <2>4
  <2>6. IdString(info) = two
    BY <1>3 DEF IdString
  <2> HIDE DEF two, r, with
  <2> QED
    BY <2>1, <2>4, <2>5, <2>6, AppendedString DEF r, with
<1>4. CASE info.client_id # <<>>
  <2>1. r = append_string(m, info.client_id) /\ IdString(info) = info.client_id
    BY <1>2, <1>4 DEF AppendClientId, IdString
  <2> QED
    BY <1>1, <1>2, <2>1, AppendedString
<1> QED
  BY <1>3, <1>4

(* A string that is there only if it was given. *)
LEMMA AppendedIf ==
  ASSUME NEW m, UnderConstruction(m), NEW s \in String, NEW given \in BOOLEAN,
         AppendIf(given, m, s).ok
  PROVE  /\ m.ok /\ UnderConstruction(AppendIf(given, m, s))
         /\ Extends(m.body, AppendIf(given, m, s).body)
         /\ given => Longer(AppendIf(given, m, s), m, s)
         /\ ~given => AppendIf(given, m, s) = m
<1>1. CASE given
  BY <1>1, AppendedString DEF AppendIf, Longer
<1>2. CASE ~given
  BY <1>2 DEF AppendIf, Extends, UnderConstruction, String
<1> QED
  BY <1>1, <1>2

(* The strings of info in a packet's body b, from index n on. *)
ConnectStrings(b, n, info) ==
  \E i, j, k, l \in Nat :
    /\ HasString(b, n, IdString(info)) /\ i = n + 2 + Len(IdString(info))
    /\ IF info.will_topic # <<>>
         THEN /\ HasString(b, i, info.will_topic) /\ j = i + 2 + Len(info.will_topic)
              /\ HasString(b, j, info.will_message)
              /\ k = j + 2 + Len(info.will_message)
         ELSE k = i
    /\ IF info.username # <<>>
         THEN HasString(b, k, info.username) /\ l = k + 2 + Len(info.username)
         ELSE l = k
    /\ IF info.password # <<>>
         THEN HasString(b, l, info.password) /\ Len(b) = l + 2 + Len(info.password)
         ELSE Len(b) = l

(* The bytes before the client id in a CONNECT. *)
FixedLength == Len(Magic) + 6

(* The low sixteen bits. *)
Low(n) == n % 65536

(* The flags and the keep-alive time in front of them. *)
FixedPart(b, info) ==
  /\ b[FixedLength - 2] = ConnectFlags(info)
  /\ b[FixedLength - 1] * 256 + b[FixedLength] = Low(info.keepalive)

(* Those bytes: the protocol name and version, the flags, the keep-        *)
(* alive.                                                                  *)
FixedHeader(info) ==
  Bytes16(Len(Magic)) \o Magic \o <<IF PROTOCOL_NAMEv311 THEN 4 ELSE 3, ConnectFlags(info)>>
  \o Bytes16(info.keepalive)

(* There are ten of them for version 3.1.1. *)
LEMMA MagicLength ==
  /\ Len(Magic) \in Nat /\ (PROTOCOL_NAMEv311 => FixedLength = 10)
  /\ FixedLength \in Nat /\ FixedLength >= 6
<1>1. Len(<<77, 81, 84, 84>>) = 4 /\ Len(<<77, 81, 73, 115, 100, 112>>) = 6
  OBVIOUS
<1>2. Len(Magic) = IF PROTOCOL_NAMEv311 THEN 4 ELSE 6
  BY <1>1 DEF Magic
<1> QED
  BY <1>2 DEF FixedLength

(* Bytes16 keeps the low sixteen bits. *)
LEMMA Low16 ==
  ASSUME NEW n \in Nat
  PROVE  \E h, l \in Byte : Bytes16(n) = <<h, l>> /\ h * 256 + l = Low(n)
<1>1. ((n \div 256) % 256) * 256 + (n % 256) = n % 65536
  BY ONLY n \in Nat, SMT
<1>2. Low(n) = n % 65536
  BY SMT DEF Low
<1>3. (n \div 256) % 256 \in Byte /\ n % 256 \in Byte
  BY DivMod DEF Byte
<1>4. Bytes16(n) = <<(n \div 256) % 256, n % 256>>
  BY DEF Bytes16
<1>5. ((n \div 256) % 256) * 256 + (n % 256) = Low(n)
  BY <1>1, <1>2, SMT
<1> QED
  BY <1>3, <1>4, <1>5, ZenonT(60)

(* They are where a broker reads them. *)
LEMMA FixedHeaderShape ==
  ASSUME NEW info \in Info
  PROVE  /\ FixedHeader(info) \in Seq(Byte) /\ Len(FixedHeader(info)) = FixedLength
         /\ FixedPart(FixedHeader(info), info)
<1>1. PICK n \in Nat : n = Len(Magic)
  BY MagicLength
<1>2. PICK a \in Seq(Byte) : a = Bytes16(Len(Magic)) /\ Len(a) = 2
  BY <1>1, Bytes16Type DEF String
<1>3. PICK c : c = a \o Magic
  OBVIOUS
<1>4. c \in Seq(Byte) /\ Len(c) = 2 + n
  <2>1. Magic \in Seq(Byte)
    BY MagicType DEF String
  <2>2. a \o Magic \in Seq(Byte) /\ Len(a \o Magic) = Len(a) + Len(Magic)
    BY <2>1, ConcatIndex
  <2> QED
    BY <1>1, <1>2, <1>3, <2>2
<1>5. PICK v : v = IF PROTOCOL_NAMEv311 THEN 4 ELSE 3
  OBVIOUS
<1>6. PICK f : f = ConnectFlags(info)
  OBVIOUS
<1>7. v \in Byte /\ f \in Byte
  <2>1. v \in Byte
    BY <1>5 DEF Byte
  <2>2. f \in Byte
    BY <1>6, FlagsType
  <2> QED
    BY <2>1, <2>2
<1>8. PICK d : d = c \o <<v, f>>
  OBVIOUS
<1>9. d \in Seq(Byte) /\ Len(d) = (2 + n) + 2 /\ d[(2 + n) + 2] = f
  <2>1. <<v, f>> \in Seq(Byte) /\ Len(<<v, f>>) = 2 /\ <<v, f>>[2] = f /\ 2 \in 1 .. 2
    BY <1>7
  <2> QED
    BY <1>4, <1>8, <2>1, ConcatIndex
<1>10. PICK q \in Nat : q = info.keepalive
  BY DEF Info
<1>11. PICK h \in Byte, l \in Byte : Bytes16(q) = <<h, l>> /\ h * 256 + l = Low(q)
  BY Low16
<1>12. h \in Byte /\ l \in Byte
  OBVIOUS
<1>13. h * 256 + l = Low(info.keepalive)
  BY <1>10, <1>11
<1>14. PICK g : g = d \o <<h, l>>
  OBVIOUS
<1>15. /\ g \in Seq(Byte) /\ Len(g) = ((2 + n) + 2) + 2
       /\ g[((2 + n) + 2) + 1] = h /\ g[((2 + n) + 2) + 2] = l
       /\ \A i \in 1 .. (2 + n) + 2 : g[i] = d[i]
  <2>1. /\ <<h, l>> \in Seq(Byte) /\ Len(<<h, l>>) = 2 /\ <<h, l>>[1] = h /\ <<h, l>>[2] = l
        /\ 1 \in 1 .. 2 /\ 2 \in 1 .. 2
    BY <1>12
  <2> QED
    BY <1>9, <1>14, <2>1, ConcatIndex
<1>16. g[(2 + n) + 2] = f
  <2>1. (2 + n) + 2 \in 1 .. (2 + n) + 2
    OBVIOUS
  <2> QED
    BY <1>9, <1>15, <2>1
<1>17. /\ FixedLength = ((2 + n) + 2) + 2 /\ FixedLength - 2 = (2 + n) + 2
       /\ FixedLength - 1 = ((2 + n) + 2) + 1
  BY <1>1 DEF FixedLength
<1>18. FixedHeader(info) = g
  BY <1>2, <1>3, <1>5, <1>6, <1>8, <1>10, <1>11, <1>14, Zenon DEF FixedHeader
<1>19. /\ g[FixedLength - 2] = f /\ g[FixedLength - 1] = h /\ g[FixedLength] = l
       /\ Len(g) = FixedLength
  BY <1>15, <1>16, <1>17, Zenon
<1>20. FixedPart(g, info)
  <2>1. g[FixedLength - 2] = ConnectFlags(info)
    BY <1>6, <1>19
  <2>2. g[FixedLength - 1] * 256 + g[FixedLength] = h * 256 + l
    BY <1>19
  <2>3. g[FixedLength - 1] * 256 + g[FixedLength] = Low(info.keepalive)
    BY <1>13, <2>2, Zenon
  <2> QED
    BY <2>1, <2>3, Zenon DEF FixedPart
<1> QED
  BY <1>15, <1>18, <1>19, <1>20, Zenon

(* What mqtt_msg_connect builds has the flags and all the strings. *)
LEMMA ConnectBuilt ==
  ASSUME NEW info \in Info, mqtt_msg_connect(info) # <<>>
  PROVE  \E b : /\ b \in String
                /\ BuiltFrom(mqtt_msg_connect(info), b, FirstByte(CONNECT, 0, FALSE))
                /\ FixedLength <= Len(b) /\ FixedPart(b, info)
                /\ ConnectStrings(b, FixedLength, info)
<1> DEFINE fixed == append(init_message, FixedHeader(info))
           will == info.will_topic # <<>>
           id == AppendClientId(fixed, info)
           topic == AppendIf(will, id, info.will_topic)
           msg == AppendIf(will, topic, info.will_message)
           user == AppendIf(info.username # <<>>, msg, info.username)
           pass == AppendIf(info.password # <<>>, user, info.password)
<1>1. /\ info.will_topic \in String /\ info.will_message \in String
      /\ info.username \in String /\ info.password \in String
  BY DEF Info
<1>2. mqtt_msg_connect(info) = fini_message(pass, CONNECT, 0, FALSE)
  BY DEF mqtt_msg_connect, FixedHeader
<1>3. pass.ok
  <2> HIDE DEF pass
  <2> QED
    BY <1>2 DEF fini_message
<1>4. /\ UnderConstruction(fixed)
      /\ fixed.ok => fixed.body = <<>> \o FixedHeader(info)
  <2>1. FixedHeader(info) \in String
    BY FixedHeaderShape DEF String
  <2>2. init_message.body = <<>>
    BY DEF init_message
  <2> QED
    BY <2>1, <2>2, StartsEmpty, AppendStays
<1> HIDE DEF fixed
<1>5. UnderConstruction(id)
  BY <1>4, ClientIdStays
<1> HIDE DEF id
<1>6. UnderConstruction(topic)
  BY <1>1, <1>5, AppendIfStays
<1> HIDE DEF topic
<1>7. UnderConstruction(msg)
  BY <1>1, <1>6, AppendIfStays
<1> HIDE DEF msg
<1>8. UnderConstruction(user)
  BY <1>1, <1>7, AppendIfStays
<1> HIDE DEF user
<1>9. /\ UnderConstruction(pass) /\ user.ok /\ Extends(user.body, pass.body)
      /\ info.password # <<>> => Longer(pass, user, info.password)
      /\ info.password = <<>> => pass = user
  BY <1>1, <1>3, <1>8, AppendedIf
<1> HIDE DEF pass
<1>10. /\ msg.ok /\ Extends(msg.body, user.body)
       /\ info.username # <<>> => Longer(user, msg, info.username)
       /\ info.username = <<>> => user = msg
  BY <1>1, <1>7, <1>9, AppendedIf DEF user
<1>11. /\ topic.ok /\ Extends(topic.body, msg.body)
       /\ will => Longer(msg, topic, info.will_message)
       /\ ~will => msg = topic
  BY <1>1, <1>6, <1>10, AppendedIf DEF msg
<1>12. /\ id.ok /\ Extends(id.body, topic.body)
       /\ will => Longer(topic, id, info.will_topic)
       /\ ~will => topic = id
  BY <1>1, <1>5, <1>11, AppendedIf DEF topic
<1> HIDE DEF will
<1>13. fixed.ok
  <2>1. info.client_id \in String =>
          (append_string(fixed, info.client_id).ok => fixed.ok)
    BY <1>4, AppendStringStays
  <2>2. <<0, info.after_id>> \in String
    <3>1. info.after_id \in Byte /\ 0 \in Byte
      BY DEF Info, Byte
    <3> QED
      BY <3>1 DEF String
  <2>3. append_string(fixed, <<0, info.after_id>>).ok => fixed.ok
    BY <1>4, <2>2, AppendStringStays
  <2>4. info.client_id \in String \cup {NULL} /\ <<>> \in String
    BY DEF Info, String
  <2>5. info.client_id # NULL
    <3> SUFFICES ASSUME info.client_id = NULL PROVE FALSE
      OBVIOUS
    <3>1. info.client_id # <<>>
      BY <2>4, MsgAssumption DEF MsgAssumption
    <3>2. id = fail_message
      BY <3>1 DEF id, AppendClientId
    <3> QED
      BY <1>12, <3>2 DEF fail_message
  <2>6. CASE info.client_id = <<>>
    <3>1. id = IF ~PROTOCOL_NAMEv311 THEN fail_message
               ELSE IF append_string(fixed, <<0, info.after_id>>).ok
                 THEN append_string(fixed, <<0, info.after_id>>) ELSE fixed
      BY <2>5, <2>6 DEF id, AppendClientId
    <3> QED
      BY <1>12, <2>3, <3>1 DEF fail_message
  <2>7. CASE info.client_id # <<>>
    <3>1. id = append_string(fixed, info.client_id)
      BY <2>5, <2>7 DEF id, AppendClientId
    <3> QED
      BY <1>12, <2>1, <2>4, <2>5, <3>1
  <2> QED
    BY <2>6, <2>7
<1>14. fixed.body = FixedHeader(info) /\ Len(fixed.body) = FixedLength
       /\ FixedPart(fixed.body, info)
  <2>1. FixedHeader(info) \in Seq(Byte)
    BY FixedHeaderShape
  <2>2. <<>> \o FixedHeader(info) = FixedHeader(info)
    BY <2>1
  <2> QED
    BY <1>4, <1>13, <2>2, FixedHeaderShape
<1>15. Longer(id, fixed, IdString(info))
  <2>1. PROTOCOL_NAMEv311 => Len(fixed.body) <= 12
    BY <1>14, MagicLength
  <2> QED
    BY <1>4, <1>12, <1>13, <2>1, AppendedId DEF id
<1>16. PICK b : b = pass.body
  OBVIOUS
<1>17. /\ fixed.body \in String /\ id.body \in String /\ topic.body \in String
       /\ msg.body \in String /\ user.body \in String /\ b \in String
  BY <1>4, <1>5, <1>6, <1>7, <1>8, <1>9, <1>16 DEF UnderConstruction
<1>18. Extends(user.body, b) /\ Extends(msg.body, b) /\ Extends(topic.body, b)
       /\ Extends(id.body, b) /\ Extends(fixed.body, b)
  <2>1. Extends(user.body, b)
    BY <1>9, <1>16
  <2>2. Extends(msg.body, b)
    BY <1>10, <1>17, <2>1, ExtendsOn
  <2>3. Extends(topic.body, b)
    BY <1>11, <1>17, <2>2, ExtendsOn
  <2>4. Extends(id.body, b)
    BY <1>12, <1>17, <2>3, ExtendsOn
  <2>5. Extends(fixed.body, b)
    BY <1>15, <1>17, <2>4, ExtendsOn DEF Longer
  <2> QED
    BY <2>1, <2>2, <2>3, <2>4, <2>5
<1>19. FixedLength <= Len(b) /\ FixedPart(b, info)
  <2>1. FixedLength - 2 \in 1 .. FixedLength /\ FixedLength - 1 \in 1 .. FixedLength
        /\ FixedLength \in 1 .. FixedLength
    BY MagicLength
  <2> QED
    BY <1>14, <1>18, <2>1 DEF Extends, FixedPart
<1>20. ConnectStrings(b, FixedLength, info)
  <2>1. PICK i \in Nat, j \in Nat, k \in Nat, l \in Nat :
          i = Len(id.body) /\ j = Len(topic.body) /\ k = Len(msg.body) /\ l = Len(user.body)
    BY <1>17 DEF String
  <2>2. HasString(b, FixedLength, IdString(info)) /\ i = FixedLength + 2 + Len(IdString(info))
    <3>1. HasString(id.body, FixedLength, IdString(info))
      BY <1>14, <1>15 DEF Longer
    <3>2. HasString(b, FixedLength, IdString(info))
      BY <1>17, <1>18, <3>1, StringStays
    <3> QED
      BY <1>14, <1>15, <2>1, <3>2 DEF Longer
  <2>5. IF will
          THEN /\ HasString(b, i, info.will_topic) /\ j = i + 2 + Len(info.will_topic)
               /\ HasString(b, j, info.will_message)
               /\ k = j + 2 + Len(info.will_message)
          ELSE k = i
    <3>1. CASE will
      <4>1. HasString(topic.body, i, info.will_topic) /\ HasString(msg.body, j, info.will_message)
        BY <1>11, <1>12, <2>1, <3>1 DEF Longer
      <4>2. HasString(b, i, info.will_topic)
        BY <1>17, <1>18, <4>1, StringStays
      <4>3. HasString(b, j, info.will_message)
        BY <1>17, <1>18, <4>1, StringStays
      <4>4. j = i + 2 + Len(info.will_topic) /\ k = j + 2 + Len(info.will_message)
        BY <1>11, <1>12, <2>1, <3>1 DEF Longer
      <4> QED
        BY <3>1, <4>2, <4>3, <4>4
    <3>2. CASE ~will
      BY <1>11, <1>12, <2>1, <3>2
    <3> QED
      BY <3>1, <3>2
  <2>6. IF info.username # <<>>
          THEN HasString(b, k, info.username) /\ l = k + 2 + Len(info.username)
          ELSE l = k
    <3>1. CASE info.username # <<>>
      <4>1. HasString(user.body, k, info.username)
        BY <1>10, <2>1, <3>1 DEF Longer
      <4>2. HasString(b, k, info.username)
        BY <1>17, <1>18, <4>1, StringStays
      <4> QED
        BY <1>10, <2>1, <3>1, <4>2 DEF Longer
    <3>2. CASE info.username = <<>>
      BY <1>10, <2>1, <3>2
    <3> QED
      BY <3>1, <3>2
  <2>7. IF info.password # <<>>
          THEN HasString(b, l, info.password) /\ Len(b) = l + 2 + Len(info.password)
          ELSE Len(b) = l
    BY <1>9, <1>16, <2>1 DEF Longer
  <2> QED
    BY <2>2, <2>5, <2>6, <2>7 DEF ConnectStrings, will
<1>21. BuiltFrom(mqtt_msg_connect(info), b, FirstByte(CONNECT, 0, FALSE))
  <2>1. CONNECT \in 1 .. 14 /\ 0 \in 0 .. 2 /\ FALSE \in BOOLEAN
    BY DEF CONNECT
  <2> QED
    BY <1>2, <1>9, <1>16, <2>1, FiniBuilt, Zenon
<1> QED
  BY <1>17, <1>19, <1>20, <1>21

-----------------------------------------------------------------------------
(* What the reader of a CONNECT finds *)

(* The digits of a sum of the weights of the flags. *)
LEMMA Weights ==
  ASSUME NEW a \in 0 .. 1, NEW b \in 0 .. 1, NEW c \in 0 .. 1, NEW d \in 0 .. 2,
         NEW e \in 0 .. 1, NEW f \in 0 .. 1,
         NEW x, x = 128 * a + 64 * b + 32 * c + 8 * d + 4 * e + 2 * f
  PROVE  /\ (x \div 128) % 2 = a /\ (x \div 64) % 2 = b /\ (x \div 32) % 2 = c
         /\ (x \div 8) % 4 = d /\ (x \div 4) % 2 = e /\ (x \div 2) % 2 = f
         /\ (x \div 1) % 2 = 0
         /\ c = 0 /\ d = 0 => (x \div 8) % 8 = 0
<1>1. (x \div 128) % 2 = a
  OBVIOUS
<1>2. (x \div 64) % 2 = b
  OBVIOUS
<1>3. (x \div 32) % 2 = c
  OBVIOUS
<1>4. (x \div 8) % 4 = d
  OBVIOUS
<1>5. (x \div 4) % 2 = e
  OBVIOUS
<1>6. (x \div 2) % 2 = f
  OBVIOUS
<1>7. (x \div 1) % 2 = 0
  OBVIOUS
<1>8. c = 0 /\ d = 0 => (x \div 8) % 8 = 0
  <2>1. CASE b = 0
    BY <2>1
  <2>2. CASE b = 1
    BY <2>2
  <2> QED
    BY <2>1, <2>2
<1> QED
  BY <1>1, <1>2, <1>3, <1>4, <1>5, <1>6, <1>7, <1>8

(* 0 or 1 for a condition. *)
Bit(b) == Flag(b, 1)

(* The flags of info, read one by one. *)
LEMMA FlagsMean ==
  ASSUME NEW info \in Info, NEW x, x = ConnectFlags(info)
  PROVE  /\ (x \div 128) % 2 = 1 <=> info.username # <<>>
         /\ (x \div 64) % 2 = 1 <=> info.password # <<>>
         /\ (x \div 4) % 2 = 1 <=> info.will_topic # <<>>
         /\ (x \div 2) % 2 = 1 <=> info.clean_session
         /\ (x \div 1) % 2 # 1
         /\ info.will_topic # <<>> => (x \div 8) % 4 = info.will_qos
         /\ info.will_topic # <<>> => ((x \div 32) % 2 = 1 <=> info.will_retain)
         /\ info.will_topic = <<>> => (x \div 8) % 8 = 0
<1> DEFINE will == info.will_topic # <<>>
<1>1. info.will_qos \in 0 .. 2 /\ info.will_retain \in BOOLEAN /\ info.clean_session \in BOOLEAN
  BY DEF Info
<1>2. PICK a \in 0 .. 1, b \in 0 .. 1, c \in 0 .. 1, e \in 0 .. 1, f \in 0 .. 1 :
        /\ a = Bit(info.username # <<>>) /\ b = Bit(info.password # <<>>)
        /\ c = Bit(will /\ info.will_retain) /\ e = Bit(will) /\ f = Bit(info.clean_session)
  BY DEF Bit, Flag
<1>3. PICK d \in 0 .. 2 : d = IF will THEN info.will_qos ELSE 0
  BY <1>1
<1>4. /\ Flag(info.username # <<>>, 128) = 128 * a /\ Flag(info.password # <<>>, 64) = 64 * b
      /\ Flag(will /\ info.will_retain, 32) = 32 * c /\ Flag(will, info.will_qos * 8) = 8 * d
      /\ Flag(will, 4) = 4 * e /\ Flag(info.clean_session, 2) = 2 * f
  BY <1>1, <1>2, <1>3 DEF Bit, Flag
<1>5. x = 128 * a + 64 * b + 32 * c + 8 * d + 4 * e + 2 * f
  BY <1>4 DEF ConnectFlags
<1>6. /\ (x \div 128) % 2 = a /\ (x \div 64) % 2 = b /\ (x \div 32) % 2 = c
      /\ (x \div 8) % 4 = d /\ (x \div 4) % 2 = e /\ (x \div 2) % 2 = f
      /\ (x \div 1) % 2 = 0
      /\ c = 0 /\ d = 0 => (x \div 8) % 8 = 0
  BY <1>5, Weights
<1>7. /\ a = 1 <=> info.username # <<>> 
      /\ b = 1 <=> info.password # <<>>
      /\ e = 1 <=> will
      /\ f = 1 <=> info.clean_session
      /\ will => d = info.will_qos /\ (c = 1 <=> info.will_retain)
      /\ ~will => c = 0 /\ d = 0
  BY <1>2, <1>3 DEF Bit, Flag
<1>8. (x \div 1) % 2 # 1
  BY <1>6
<1> HIDE DEF will
<1>9. will <=> info.will_topic # <<>>
  BY DEF will
<1> QED
  BY <1>6, <1>7, <1>8, <1>9, Zenon

(* The packet has the body b from index e on. *)
Carries(b, e) ==
  /\ message \in Seq(Byte) /\ b \in Seq(Byte) /\ e \in Nat
  /\ Len(message) = e + Len(b)
  /\ \A i \in 1 .. Len(b) : message[e + i] = b[i]

(* A string of the body is read from the packet. *)
LEMMA StringRead ==
  ASSUME NEW b, NEW e, Carries(b, e), NEW n, NEW s, HasString(b, n, s)
  PROVE  StringAt(e + n) = s /\ Behind(e + n) = e + (n + 2 + Len(s))
<1>0. /\ message \in Seq(Byte) /\ b \in Seq(Byte) /\ e \in Nat
      /\ Len(message) = e + Len(b)
      /\ \A i \in 1 .. Len(b) : message[e + i] = b[i]
  BY DEF Carries
<1>1. /\ n \in Nat /\ s \in Seq(Byte) /\ n + 2 + Len(s) <= Len(b)
      /\ b[n + 1] * 256 + b[n + 2] = Len(s)
      /\ \A k \in 1 .. Len(s) : b[n + 2 + k] = s[k]
  BY DEF HasString, String
<1>2. PICK l \in Nat, z \in Nat : l = Len(s) /\ z = Len(b)
  BY <1>0, <1>1
<1>3. message[e + n + 1] = b[n + 1] /\ message[e + n + 2] = b[n + 2]
  <2>1. n + 1 \in 1 .. z /\ n + 2 \in 1 .. z
    BY <1>0, <1>1, <1>2
  <2>2. e + (n + 1) = e + n + 1 /\ e + (n + 2) = e + n + 2
    BY <1>0, <1>1
  <2> QED
    BY <1>0, <1>2, <2>1, <2>2
<1>4. Number(message, e + n) = l
  BY <1>0, <1>1, <1>2, <1>3 DEF Number
<1>5. ASSUME NEW k \in 1 .. l PROVE message[e + n + 2 + k] = s[k]
  <2>1. n + 2 + k \in 1 .. z /\ e + (n + 2 + k) = e + n + 2 + k
    BY <1>0, <1>1, <1>2
  <2> QED
    BY <1>0, <1>1, <1>2, <2>1
<1>6. Slice(message, e + n + 2, e + n + 2 + Len(s)) = s
  <2>1. e + n + 2 \in Nat /\ e + n + 2 + Len(s) <= Len(message)
    BY <1>0, <1>1, <1>2
  <2> QED
    BY <1>0, <1>1, <1>2, <1>5, <2>1, SliceIs
<1>7. StringAt(e + n) = s
  BY <1>0, <1>1, <1>2, <1>4, <1>6 DEF StringAt
<1>8. Behind(e + n) = e + (n + 2 + l)
  BY <1>0, <1>1, <1>4 DEF Behind
<1> QED
  BY <1>2, <1>7, <1>8

(* The same packet was built by mqtt_msg_connect from connect_info. *)
FromConnect ==
  Built /\ req.type = CONNECT => req.info \in Info /\ message = mqtt_msg_connect(req.info)

(* At first there is no CONNECT packet.                                    *)
LEMMA InitConnect == Init => FromConnect
  BY DEF Init, FromConnect, Built

(* Only mqtt_msg_connect builds one, and every other call replaces it.     *)
LEMMA NextConnect == FromConnect /\ [Next]_vars => FromConnect'
<1> SUFFICES ASSUME FromConnect, [Next]_vars
             PROVE  FromConnect'
  OBVIOUS
<1> USE DEF FromConnect
<1>1. CASE mqtt_msg_init
  BY <1>1 DEF mqtt_msg_init, Built
<1>2. ASSUME NEW info \in Infos, Connect(info)
      PROVE  FromConnect'
  <2>1. info \in Info
    BY ConnectionAssumption DEF ConnectionAssumption
  <2> QED
    BY <1>2, <2>1 DEF Connect
<1>3. ASSUME req'.type # CONNECT
      PROVE  FromConnect'
  BY <1>3
<1>4. ASSUME NEW t \in Topics, NEW d \in Payloads, NEW qos \in 0 .. 2,
             NEW retain \in BOOLEAN, Publish(t, d, qos, retain)
      PROVE  req'.type # CONNECT
  BY <1>4 DEF Publish, CONNECT, PUBLISH
<1>5. ASSUME NEW t \in Topics, NEW qos \in 0 .. 2, Subscribe(t, qos)
      PROVE  req'.type # CONNECT
  BY <1>5 DEF Subscribe, RequestTopic, CONNECT, SUBSCRIBE
<1>6. ASSUME NEW t \in Topics, Unsubscribe(t)
      PROVE  req'.type # CONNECT
  BY <1>6 DEF Unsubscribe, RequestTopic, CONNECT, UNSUBSCRIBE
<1>7. ASSUME NEW type \in {PUBACK, PUBREC, PUBREL, PUBCOMP}, NEW id \in AckIds,
             Ack(type, id)
      PROVE  req'.type # CONNECT
  BY <1>7 DEF Ack, CONNECT, PUBACK, PUBREC, PUBREL, PUBCOMP
<1>8. ASSUME NEW type \in {PINGREQ, PINGRESP, DISCONNECT}, Bare(type)
      PROVE  req'.type # CONNECT
  BY <1>8 DEF Bare, CONNECT, PINGREQ, PINGRESP, DISCONNECT
<1>9. CASE UNCHANGED vars
  BY <1>9 DEF vars, Built
<1> QED
  BY <1>1, <1>2, <1>3, <1>4, <1>5, <1>6, <1>7, <1>8, <1>9 DEF Next

(* What a broker reads in a CONNECT that was made from the description. *)
LEMMA ConnectParsesHolds ==
  ASSUME ShortBuffer, TypeOK, FromConnect, Built, req.type = CONNECT
  PROVE  ConnectParses
<1>1. PICK info \in Info : info = req.info
  BY DEF FromConnect
<1>2. message = mqtt_msg_connect(info)
  BY <1>1 DEF FromConnect
<1>3. PICK b \in String :
        /\ BuiltFrom(message, b, FirstByte(CONNECT, 0, FALSE))
        /\ FixedLength <= Len(b) /\ FixedPart(b, info)
        /\ ConnectStrings(b, FixedLength, info)
  <2>1. mqtt_msg_connect(info) # <<>>
    BY <1>2 DEF Built
  <2> QED
    BY <1>2, <2>1, ConnectBuilt, Zenon
<1>4. FirstByte(CONNECT, 0, FALSE) \in Byte
  <2>1. CONNECT \in 1 .. 14 /\ 0 \in 0 .. 2 /\ FALSE \in BOOLEAN
    BY DEF CONNECT
  <2> QED
    BY <2>1, FirstByteType
<1>5. PICK m : m.body = b /\ Decoded(message, m, FirstByte(CONNECT, 0, FALSE))
  BY <1>3, <1>4, BuiltDecoded, Zenon DEF Built
<1>6. PICK e \in Nat : e = LengthEnd(message, Len(message))
  BY <1>5 DEF Decoded
<1>7. /\ message \in Seq(Byte) /\ b \in Seq(Byte) /\ Len(message) = e + Len(b)
      /\ \A i \in 1 .. Len(b) : message[e + i] = b[i]
  BY <1>5, <1>6 DEF Decoded, String
<1>8. PICK g \in Nat : g = FixedLength /\ g >= 6
  BY MagicLength
<1>9. ClientIdAt = e + g
  <2>1. Len(Magic) \in Nat
    BY MagicLength
  <2> QED
    BY <1>6, <1>8, <2>1 DEF ClientIdAt, FixedLength
<1>10. PICK z \in Nat : z = Len(b) /\ g <= z
  BY <1>3, <1>7, <1>8
<1>11. /\ message[(e + g) - 2] = b[g - 2] /\ message[(e + g) - 1] = b[g - 1]
       /\ message[e + g] = b[g]
  <2>1. g - 2 \in 1 .. z /\ g - 1 \in 1 .. z /\ g \in 1 .. z
    BY <1>8, <1>10
  <2>2. e + (g - 2) = (e + g) - 2 /\ e + (g - 1) = (e + g) - 1
    BY <1>8
  <2> QED
    BY <1>7, <1>10, <2>1, <2>2
<1>12. Flags = ConnectFlags(info)
  BY <1>3, <1>8, <1>9, <1>11 DEF Flags, FixedPart
<1>13. Number(message, ClientIdAt - 2) = Low(info.keepalive)
  <2>1. ((e + g) - 2) + 1 = (e + g) - 1 /\ ((e + g) - 2) + 2 = e + g
    BY <1>8
  <2>2. Number(message, ClientIdAt - 2) = b[g - 1] * 256 + b[g]
    BY <1>9, <1>11, <2>1 DEF Number
  <2> QED
    BY <1>3, <1>8, <2>2 DEF FixedPart
<1>14. /\ IsSet(128) <=> info.username # <<>>
       /\ IsSet(64) <=> info.password # <<>>
       /\ IsSet(4) <=> info.will_topic # <<>>
       /\ IsSet(2) <=> info.clean_session
       /\ ~IsSet(1)
       /\ info.will_topic # <<>> => (Flags \div 8) % 4 = info.will_qos
       /\ info.will_topic # <<>> => (IsSet(32) <=> info.will_retain)
       /\ info.will_topic = <<>> => (Flags \div 8) % 8 = 0
  <2>1. PICK x : x = Flags /\ x = ConnectFlags(info)
    BY <1>12
  <2>2. /\ (x \div 128) % 2 = 1 <=> info.username # <<>>
        /\ (x \div 64) % 2 = 1 <=> info.password # <<>>
        /\ (x \div 4) % 2 = 1 <=> info.will_topic # <<>>
        /\ (x \div 2) % 2 = 1 <=> info.clean_session
        /\ (x \div 1) % 2 # 1
        /\ info.will_topic # <<>> => (x \div 8) % 4 = info.will_qos
        /\ info.will_topic # <<>> => ((x \div 32) % 2 = 1 <=> info.will_retain)
        /\ info.will_topic = <<>> => (x \div 8) % 8 = 0
    BY <2>1, FlagsMean, Zenon
  <2>3. \A w : IsSet(w) <=> (x \div w) % 2 = 1
    BY <2>1 DEF IsSet
  <2> QED
    BY <2>1, <2>2, <2>3, Zenon
<1>15. PICK i \in Nat, j \in Nat, k \in Nat, l \in Nat :
         /\ HasString(b, g, IdString(info)) /\ i = g + 2 + Len(IdString(info))
         /\ IF info.will_topic # <<>>
              THEN /\ HasString(b, i, info.will_topic) /\ j = i + 2 + Len(info.will_topic)
                   /\ HasString(b, j, info.will_message)
                   /\ k = j + 2 + Len(info.will_message)
              ELSE k = i
         /\ IF info.username # <<>>
              THEN HasString(b, k, info.username) /\ l = k + 2 + Len(info.username)
              ELSE l = k
         /\ IF info.password # <<>>
              THEN HasString(b, l, info.password) /\ z = l + 2 + Len(info.password)
              ELSE z = l
  <2>1. ConnectStrings(b, g, info)
    BY <1>3, <1>8
  <2> QED
    BY <1>10, <2>1, ZenonT(60) DEF ConnectStrings
<1>16. Carries(b, e)
  BY <1>7 DEF Carries
<1>17. StringAt(ClientIdAt) = IdString(info) /\ WillAt = e + i
  <2>1. HasString(b, g, IdString(info)) /\ i = g + 2 + Len(IdString(info))
    BY <1>15
  <2>2. /\ StringAt(e + g) = IdString(info)
        /\ Behind(e + g) = e + (g + 2 + Len(IdString(info)))
    BY <1>16, <2>1, StringRead
  <2> QED
    BY <1>9, <2>1, <2>2 DEF WillAt
<1>18. /\ IsSet(4) => /\ StringAt(WillAt) = info.will_topic
                      /\ StringAt(Behind(WillAt)) = info.will_message
       /\ UserAt = e + k
  <2>1. CASE IsSet(4)
    <3>1. StringAt(e + i) = info.will_topic /\ Behind(e + i) = e + j
      <4>1. HasString(b, i, info.will_topic) /\ j = i + 2 + Len(info.will_topic)
        BY <1>14, <1>15, <2>1
      <4> QED
        BY <1>16, <4>1, StringRead
    <3>2. StringAt(e + j) = info.will_message /\ Behind(e + j) = e + k
      <4>1. HasString(b, j, info.will_message) /\ k = j + 2 + Len(info.will_message)
        BY <1>14, <1>15, <2>1
      <4> QED
        BY <1>16, <4>1, StringRead
    <3> QED
      BY <1>17, <2>1, <3>1, <3>2 DEF UserAt
  <2>2. CASE ~IsSet(4)
    BY <1>14, <1>15, <1>17, <2>2 DEF UserAt
  <2> QED
    BY <2>1, <2>2
<1>19. (IsSet(128) => StringAt(UserAt) = info.username) /\ PassAt = e + l
  <2>1. CASE IsSet(128)
    <3>1. StringAt(e + k) = info.username /\ Behind(e + k) = e + l
      <4>1. HasString(b, k, info.username) /\ l = k + 2 + Len(info.username)
        BY <1>14, <1>15, <2>1
      <4> QED
        BY <1>16, <4>1, StringRead
    <3> QED
      BY <1>18, <2>1, <3>1 DEF PassAt
  <2>2. CASE ~IsSet(128)
    BY <1>14, <1>15, <1>18, <2>2, ZenonT(60) DEF PassAt
  <2> QED
    BY <2>1, <2>2
<1>20. (IsSet(64) => StringAt(PassAt) = info.password) /\ EndAt = e + z
  <2>1. CASE IsSet(64)
    <3>1. StringAt(e + l) = info.password /\ Behind(e + l) = e + z
      <4>1. HasString(b, l, info.password) /\ z = l + 2 + Len(info.password)
        BY <1>14, <1>15, <2>1
      <4> QED
        BY <1>16, <4>1, StringRead
    <3> QED
      BY <1>19, <2>1, <3>1 DEF EndAt
  <2>2. CASE ~IsSet(64)
    BY <1>14, <1>15, <1>19, <2>2, ZenonT(60) DEF EndAt
  <2> QED
    BY <2>1, <2>2
<1>21. EndAt = Len(message)
  BY <1>7, <1>10, <1>20
<1>22. /\ StringAt(ClientIdAt) = IF info.client_id = <<>> THEN <<0, info.after_id>>
                                                          ELSE info.client_id
       /\ IF IsSet(4)
            THEN /\ StringAt(WillAt) = info.will_topic
                 /\ StringAt(Behind(WillAt)) = info.will_message
                 /\ (Flags \div 8) % 4 = info.will_qos
                 /\ IsSet(32) <=> info.will_retain
            ELSE info.will_topic = <<>> /\ (Flags \div 8) % 8 = 0
       /\ IF IsSet(128) THEN StringAt(UserAt) = info.username ELSE info.username = <<>>
       /\ IF IsSet(64) THEN StringAt(PassAt) = info.password ELSE info.password = <<>>
  BY <1>14, <1>17, <1>18, <1>19, <1>20, ZenonT(60) DEF IdString
<1>23. Number(message, ClientIdAt - 2) = info.keepalive % 65536
  BY <1>13 DEF Low
<1> QED
  BY <1>1, <1>14, <1>21, <1>22, <1>23 DEF ConnectParses

(* With the same buffers, a CONNECT is read back as connect_info: its      *)
(* flags, its keep-alive time, and the strings they announce, which use the*)
(* packet up.                                                              *)
THEOREM ConnectReadsBack ==
  ASSUME ShortBuffer
  PROVE  Spec => []ConnectParses
<1> DEFINE CInv == IInv /\ FromConnect
<1>1. Init => CInv
  BY InitIInv, InitConnect
<1>2. CInv /\ [Next]_vars => CInv'
  BY NextIInv, NextConnect
<1>3. CInv => ConnectParses
  <2>1. IInv => TypeOK
    BY DEF IInv
  <2>2. ~(Built /\ req.type = CONNECT) => ConnectParses
    BY DEF ConnectParses
  <2> QED
    BY <2>1, <2>2, ConnectParsesHolds
<1> QED
  BY <1>1, <1>2, <1>3, PTL DEF Spec

=============================================================================
