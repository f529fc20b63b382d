--------------------------- MODULE ReceiveProofs ---------------------------
(***************************************************************************)
(* Proofs about the receive callback, for every size of buffer and queue,  *)
(* all packets of the broker and every way TCP cuts them.                  *)
(***************************************************************************)
EXTENDS Receive, SequenceFacts, TLAPS

(* The build's buffer holds at least one answer, and its length fits a     *)
(* 16-bit length field.                                                    *)
LEMMA BufferSize == MQTT_BUF_SIZE \in Nat /\ MQTT_BUF_SIZE >= 19 /\ MQTT_BUF_SIZE <= MaxId
  BY MsgAssumption, SMTT(60) DEF MsgAssumption, MQTT_BUF_SIZE, MaxId

-----------------------------------------------------------------------------
(* Numbers on the wire *)

(* The digit i of a remaining length s, as the readers take it. *)
Digit(s, i) == IF i <= Len(s) THEN s[i] % 128 ELSE 0

(* s is the remaining length n: only its last byte is below 128. *)
IsLength(s, n) ==
  /\ s \in Seq(Byte) /\ Len(s) \in 1 .. 3
  /\ s[Len(s)] < 128 /\ \A j \in 1 .. Len(s) - 1 : s[j] >= 128
  /\ Digit(s, 1) + 128 * Digit(s, 2) + 16384 * Digit(s, 3) = n

(* A remaining length below the limit is its three base-128 digits. *)
LEMMA ThreeDigits ==
  ASSUME NEW n \in Nat, n < LengthLimit,
         NEW a, NEW b, NEW c, a = n % 128, b = (n \div 128) % 128, c = n \div 16384
  PROVE  /\ a \in 0 .. 127 /\ b \in 0 .. 127 /\ c \in 0 .. 127
         /\ a + 128 * b + 16384 * c = n
<1>1. PICK q \in Nat, r \in 0 .. 127 : n = 128 * q + r
  <2>1. n \div 128 \in Nat /\ n % 128 \in 0 .. 127 /\ n = 128 * (n \div 128) + (n % 128)
    OBVIOUS
  <2> QED BY <2>1
<1>2. n % 128 = r /\ n \div 128 = q
  BY <1>1
<1>3. PICK d \in Nat, e \in 0 .. 127 : q = 128 * d + e
  <2>1. q \div 128 \in Nat /\ q % 128 \in 0 .. 127 /\ q = 128 * (q \div 128) + (q % 128)
    OBVIOUS
  <2> QED BY <2>1
<1>4. q % 128 = e /\ q \div 128 = d
  BY <1>3
<1>5. n \div 16384 = d
  BY <1>1, <1>3
<1>6. d < 128
  BY <1>1, <1>3 DEF LengthLimit
<1> QED
  BY <1>1, <1>2, <1>3, <1>4, <1>5, <1>6

(* The bytes a remaining length is encoded in are bytes that read back     *)
(* as it.                                                                  *)
LEMMA LengthBytesRead ==
  ASSUME NEW n \in Nat, n < LengthLimit
  PROVE  IsLength(LengthBytes(n), n)
<1>1. PICK a, b, c : a = n % 128 /\ b = (n \div 128) % 128 /\ c = n \div 16384
  OBVIOUS
<1>2. /\ a \in 0 .. 127 /\ b \in 0 .. 127 /\ c \in 0 .. 127
      /\ a + 128 * b + 16384 * c = n
  BY <1>1, ThreeDigits, SMTT(60)
<1>3. (128 + a) % 128 = a /\ (128 + b) % 128 = b /\ a % 128 = a /\ b % 128 = b /\ c % 128 = c
  BY <1>2
<1>4. CASE n < 128
  <2>1. n = a /\ b = 0 /\ c = 0
    BY <1>2, <1>4
  <2>2. LengthBytes(n) = <<a>>
    BY <1>4, <2>1 DEF LengthBytes
  <2>3. <<a>> \in Seq(Byte)
    BY <1>2 DEF Byte
  <2> QED
    BY <1>2, <1>3, <2>1, <2>2, <2>3 DEF IsLength, Digit
<1>5. CASE ~(n < 128) /\ n < 16384
  <2>1. c = 0 /\ n \div 128 = b
    BY <1>1, <1>2, <1>5
  <2>2. LengthBytes(n) = <<128 + a, b>>
    BY <1>1, <1>5, <2>1 DEF LengthBytes
  <2>3. <<128 + a, b>> \in Seq(Byte)
    BY <1>2 DEF Byte
  <2> QED
    BY <1>2, <1>3, <2>1, <2>2, <2>3 DEF IsLength, Digit
<1>6. CASE ~(n < 128) /\ ~(n < 16384)
  <2>2. LengthBytes(n) = <<128 + a, 128 + b, c>>
    BY <1>1, <1>6 DEF LengthBytes
  <2>3. <<128 + a, 128 + b, c>> \in Seq(Byte)
    BY <1>2 DEF Byte
  <2> QED
    BY <1>2, <1>3, <2>2, <2>3 DEF IsLength, Digit
<1> QED
  BY <1>4, <1>5, <1>6

-----------------------------------------------------------------------------
(* Packets on the wire *)

(* A packet the broker sends: one the protocol allows. *)
BrokerSends(p) == p \in BrokerPacket /\ WellFormed(p)

(* The first byte of a packet: its type, and the flags of a PUBLISH or a   *)
(* PUBREL.                                                                 *)
First(p) == p.type * 16 + (IF p.type \in {PUBLISH, PUBREL} THEN p.qos * 2 ELSE 0)

(* What the remaining length of p says. *)
Remaining(p) == Len(Body(p)) + p.more

(* There is a packet identifier. *)
LEMMA MaxIdType == MaxId \in Nat /\ MaxId >= 1
  BY DEF MaxId

(* A 16-bit field takes two bytes, which give the number back. *)
LEMMA Bytes16Type ==
  ASSUME NEW n \in Nat
  PROVE  /\ Bytes16(n) \in Seq(Byte) /\ Len(Bytes16(n)) = 2
         /\ n <= MaxId => Bytes16(n)[1] * 256 + Bytes16(n)[2] = n
<1>1. PICK h, l : h = (n \div 256) % 256 /\ l = n % 256
  OBVIOUS
<1>2. h \in Byte /\ l \in Byte
  BY <1>1, DivMod DEF Byte
<1>3. ASSUME n <= MaxId PROVE h * 256 + l = n
  <2>1. n < 65536
    BY <1>3 DEF MaxId
  <2>2. n \div 256 \in 0 .. 255
    BY <2>1, DivByte
  <2>3. (n \div 256) % 256 = n \div 256
    BY <2>2, ModSmall
  <2>4. (n \div 256) * 256 + (n % 256) = n
    OBVIOUS
  <2> QED
    BY <1>1, <2>3, <2>4
<1>4. Bytes16(n) = <<h, l>>
  BY <1>1 DEF Bytes16
<1> QED
  BY <1>2, <1>3, <1>4

(* The identifier field of a PUBLISH: two bytes when an answer is          *)
(* expected.                                                               *)
LEMMA IdFieldType ==
  ASSUME NEW p \in BrokerPacket
  PROVE  IdField(p) \in Seq(Byte) /\ Len(IdField(p)) = IF p.qos > 0 THEN 2 ELSE 0
<1>1. p.id \in Nat
  BY MaxIdType DEF BrokerPacket
<1>2. CASE p.qos > 0
  <2>1. IdField(p) = Bytes16(p.id)
    BY <1>2 DEF IdField
  <2> QED
    BY <1>1, <1>2, <2>1, Bytes16Type
<1>3. CASE ~(p.qos > 0)
  <2>1. IdField(p) = <<>>
    BY <1>3 DEF IdField
  <2> QED
    BY <1>3, <2>1
<1> QED
  BY <1>2, <1>3

(* Four fields one behind the other. *)
LEMMA FourFields ==
  ASSUME NEW S, NEW a \in Seq(S), NEW b \in Seq(S), NEW c \in Seq(S), NEW d \in Seq(S),
         NEW z, z = a \o b \o c \o d
  PROVE  /\ z \in Seq(S) /\ Len(z) = Len(a) + Len(b) + Len(c) + Len(d)
         /\ \A k \in 1 .. Len(a) : z[k] = a[k]
         /\ \A k \in 1 .. Len(b) : z[Len(a) + k] = b[k]
         /\ \A k \in 1 .. Len(c) : z[Len(a) + Len(b) + k] = c[k]
         /\ \A k \in 1 .. Len(d) : z[Len(a) + Len(b) + Len(c) + k] = d[k]
  OBVIOUS

(* From index i on, b has the bytes of s. *)
Holds(b, i, s) == \A k \in 1 .. Len(s) : b[i + k] = s[k]

(* The body of a PUBLISH: its length and its fields. *)
LEMMA PublishLayout ==
  ASSUME NEW p \in BrokerPacket, p.type = PUBLISH,
         NEW t, NEW i, t = Len(p.topic), i = Len(IdField(p))
  PROVE  /\ Body(p) \in Seq(Byte) /\ Len(Body(p)) = 2 + t + i + Len(p.data)
         /\ Holds(Body(p), 0, Bytes16(t)) /\ Holds(Body(p), 2, p.topic)
         /\ Holds(Body(p), 2 + t, IdField(p)) /\ Holds(Body(p), 2 + t + i, p.data)
<1>1. p.topic \in Seq(Byte) /\ p.data \in Seq(Byte) /\ t \in Nat
  BY DEF BrokerPacket, String
<1>2. /\ Bytes16(t) \in Seq(Byte) /\ Len(Bytes16(t)) = 2
      /\ IdField(p) \in Seq(Byte)
  BY <1>1, IdFieldType, Bytes16Type
<1>3. Body(p) = PublishBody(p)
  BY DEF Body, PUBLISH, CONNACK, PINGREQ, PINGRESP, SUBACK
<1>4. PICK f, topic, id, data, z :
        /\ f \in Seq(Byte) /\ topic \in Seq(Byte) /\ id \in Seq(Byte) /\ data \in Seq(Byte)
        /\ f = Bytes16(t) /\ topic = p.topic /\ id = IdField(p) /\ data = p.data
        /\ z = Body(p) /\ Len(f) = 2
  BY <1>1, <1>2
<1>5. z = f \o topic \o id \o data
  BY <1>3, <1>4 DEF PublishBody
<1>6. f \in Seq(Byte) /\ topic \in Seq(Byte) /\ id \in Seq(Byte) /\ data \in Seq(Byte)
  BY <1>4
<1>7. /\ z \in Seq(Byte) /\ Len(z) = Len(f) + Len(topic) + Len(id) + Len(data)
      /\ \A k \in 1 .. Len(f) : z[k] = f[k]
      /\ \A k \in 1 .. Len(topic) : z[Len(f) + k] = topic[k]
      /\ \A k \in 1 .. Len(id) : z[Len(f) + Len(topic) + k] = id[k]
      /\ \A k \in 1 .. Len(data) : z[Len(f) + Len(topic) + Len(id) + k] = data[k]
  BY <1>5, <1>6, FourFields, SMTT(60)
<1>8. /\ z \in Seq(Byte) /\ Len(z) = 2 + t + i + Len(data)
      /\ \A k \in 1 .. Len(f) : z[0 + k] = f[k]
      /\ Holds(z, 2, topic) /\ Holds(z, 2 + t, id) /\ Holds(z, 2 + t + i, data)
  <2>1. Len(f) = 2 /\ Len(topic) = t /\ Len(id) = i /\ Len(topic) \in Nat /\ Len(id) \in Nat
    BY <1>4
  <2>2. \A k \in 1 .. Len(f) : 0 + k = k
    BY <1>4
  <2> QED
    BY <1>7, <2>1, <2>2 DEF Holds
<1>9. Holds(z, 0, f)
  BY <1>8 DEF Holds
<1> QED
  BY <1>4, <1>8, <1>9

(* What follows the fixed header of a packet is bytes, of a length the     *)
(* fixed header can carry.                                                 *)
LEMMA BodyType ==
  ASSUME NEW p, BrokerSends(p)
  PROVE  Body(p) \in Seq(Byte) /\ Remaining(p) \in Nat /\ Remaining(p) < LengthLimit
<1>1. /\ p \in BrokerPacket /\ p.more \in Nat /\ p.id \in Nat /\ p.qos \in Byte /\ p.code \in Byte
      /\ p.topic \in Seq(Byte) /\ p.data \in Seq(Byte) /\ 0 \in Byte
  BY MaxIdType DEF BrokerSends, BrokerPacket, String, Byte
<1>2. 4 + Len(p.topic) + Len(p.data) + p.more < LengthLimit
  BY DEF BrokerSends, WellFormed
<1>a. LengthLimit \in Nat
  BY DEF LengthLimit
<1>3. Body(p) \in Seq(Byte) /\ Len(Body(p)) <= 4 + Len(p.topic) + Len(p.data)
  <2>1. CASE p.type = PUBLISH
    <3>1. PICK t, i, n : t = Len(p.topic) /\ i = Len(IdField(p)) /\ n = Len(p.data)
      OBVIOUS
    <3>2. Body(p) \in Seq(Byte) /\ Len(Body(p)) = 2 + t + i + n
      BY <1>1, <2>1, <3>1, PublishLayout
    <3>3. i \in 0 .. 2
      <4>1. Len(IdField(p)) = IF p.qos > 0 THEN 2 ELSE 0
        BY <1>1, IdFieldType
      <4>2. i = 2 \/ i = 0
        BY <3>1, <4>1
      <4> QED
        BY <4>2
    <3>4. t \in Nat /\ n \in Nat
      BY <1>1, <3>1
    <3>5. 2 + t + i + n <= 4 + t + n
      BY <3>3, <3>4
    <3> QED
      BY <3>1, <3>2, <3>5
  <2>2. CASE p.type # PUBLISH
    <3>1. PICK f \in Seq(Byte), g \in Seq(Byte), h \in Seq(Byte) :
            /\ f = Bytes16(p.id) /\ g = <<p.qos>> /\ h = <<0, p.code>>
            /\ Len(f) = 2 /\ Len(g) = 1 /\ Len(h) = 2
      <4>1. Bytes16(p.id) \in Seq(Byte) /\ Len(Bytes16(p.id)) = 2
        BY <1>1, Bytes16Type
      <4>2. <<p.qos>> \in Seq(Byte) /\ Len(<<p.qos>>) = 1
        BY ONLY <1>1
      <4>3. <<0, p.code>> \in Seq(Byte) /\ Len(<<0, p.code>>) = 2
        BY ONLY <1>1
      <4> QED
        BY <4>1, <4>2, <4>3
    <3>2. f \o g \in Seq(Byte) /\ Len(f \o g) = 3
      <4>1. f \o g \in Seq(Byte) /\ Len(f \o g) = Len(f) + Len(g)
        BY ConcatIndex
      <4> QED
        BY <3>1, <4>1
    <3>4. Body(p) \in {h, <<>>, f \o g, f}
      BY <2>2, <3>1 DEF Body
    <3>5. <<>> \in Seq(Byte) /\ Len(<<>>) = 0
      OBVIOUS
    <3>6. Body(p) \in Seq(Byte) /\ Len(Body(p)) <= 3
      <4>1. CASE Body(p) = h
        BY <3>1, <4>1
      <4>2. CASE Body(p) = <<>>
        BY <3>5, <4>2
      <4>3. CASE Body(p) = f \o g
        <5>1. PICK x : x = f \o g /\ x \in Seq(Byte) /\ Len(x) = 3
          BY <3>2
        <5> QED
          BY <4>3, <5>1
      <4>4. CASE Body(p) = f
        <5>1. f \in Seq(Byte) /\ Len(f) = 2
          BY <3>1
        <5> QED
          BY ONLY <4>4, <5>1
      <4> QED
        BY <3>4, <4>1, <4>2, <4>3, <4>4
    <3>7. PICK t \in Nat, d \in Nat, l \in Nat :
            t = Len(p.topic) /\ d = Len(p.data) /\ l = Len(Body(p))
      BY <1>1, <3>6
    <3>8. l <= 3
      BY <3>6, <3>7
    <3>9. l <= 4 + t + d
      BY <3>8
    <3> QED
      BY <3>6, <3>7, <3>9
  <2> QED
    BY <2>1, <2>2
<1> QED
  <2>1. PICK t \in Nat, d \in Nat, l \in Nat, m \in Nat :
          t = Len(p.topic) /\ d = Len(p.data) /\ l = Len(Body(p)) /\ m = p.more
    BY <1>1, <1>3
  <2>2. l + m \in Nat /\ l + m < LengthLimit
    <3>1. l <= 4 + t + d
      BY <1>3, <2>1
    <3>2. 4 + t + d + m < LengthLimit
      BY <1>2, <2>1
    <3> QED
      BY <1>a, <3>1, <3>2
  <2>3. Remaining(p) = l + m
    BY <2>1 DEF Remaining
  <2> QED
    BY <1>3, <2>2, <2>3

(* The fixed header: its first byte and the remaining length. *)
LEMMA HeaderLayout ==
  ASSUME NEW p, BrokerSends(p)
  PROVE  \E s \in Seq(Byte) :
           /\ IsLength(s, Remaining(p)) /\ Header(p) \in Seq(Byte)
           /\ Len(Header(p)) = 1 + Len(s) /\ Header(p)[1] = First(p)
           /\ Holds(Header(p), 1, s)
           /\ (Remaining(p) < 128 => s = <<Remaining(p)>>)
<1>1. Remaining(p) \in Nat /\ Remaining(p) < LengthLimit
  BY BodyType
<1>2. PICK s : s = LengthBytes(Remaining(p))
  OBVIOUS
<1>3. IsLength(s, Remaining(p)) /\ s \in Seq(Byte)
  BY <1>1, <1>2, LengthBytesRead DEF IsLength
<1>4. First(p) \in Byte
  <2>1. p.type \in 1 .. 14 /\ p.qos \in 0 .. 2
    BY DEF BrokerSends, BrokerPacket
  <2>2. p.type * 16 + p.qos * 2 \in 0 .. 255 /\ p.type * 16 + 0 \in 0 .. 255
    BY <2>1
  <2> QED
    BY <2>2 DEF First, Byte
<1>5. PICK f \in Byte : f = First(p)
  BY <1>4
<1>6. Header(p) = <<f>> \o s
  BY <1>2, <1>5 DEF Header, First, Remaining
<1>7. /\ <<f>> \o s \in Seq(Byte) /\ Len(<<f>> \o s) = 1 + Len(s)
      /\ (<<f>> \o s)[1] = f /\ \A k \in 1 .. Len(s) : (<<f>> \o s)[1 + k] = s[k]
  BY <1>3
<1>8. Remaining(p) < 128 => s = <<Remaining(p)>>
  BY <1>2 DEF LengthBytes
<1> QED
  BY <1>3, <1>5, <1>6, <1>7, <1>8 DEF Holds

(* b has a remaining length n that ends behind its byte h. *)
HasLength(b, h, n) ==
  /\ h \in 2 .. 4 /\ \A j \in 2 .. h : b[j] \in Byte
  /\ b[h] < 128 /\ \A j \in 2 .. h - 1 : b[j] >= 128
  /\ LET digit(i) == IF i < h THEN b[i + 1] % 128 ELSE 0
     IN  digit(1) + 128 * digit(2) + 16384 * digit(3) = n

(* The fixed header of p at the beginning of b. *)
LEMMA HeaderStarts ==
  ASSUME NEW p, BrokerSends(p), NEW b, Holds(b, 0, Header(p))
  PROVE  /\ HasLength(b, Len(Header(p)), Remaining(p))
         /\ b[1] = First(p)
<1>1. PICK s \in Seq(Byte) :
           /\ IsLength(s, Remaining(p)) /\ Header(p) \in Seq(Byte)
           /\ Len(Header(p)) = 1 + Len(s) /\ Header(p)[1] = First(p)
           /\ Holds(Header(p), 1, s)
  BY HeaderLayout
<1>2. PICK l \in 1 .. 3 : l = Len(s)
  BY <1>1 DEF IsLength
<1>3. Len(Header(p)) = 1 + l
  BY <1>1, <1>2
<1>4. \A k \in 1 .. l + 1 : b[k] = Header(p)[k]
  <2>1. \A k \in 1 .. 1 + l : b[0 + k] = Header(p)[k]
    BY <1>3 DEF Holds
  <2> QED
    BY <1>2, <2>1
<1>5. \A k \in 1 .. l : b[1 + k] = s[k]
  BY <1>1, <1>2, <1>4 DEF Holds
<1>6. \A k \in 1 .. l : b[1 + k] \in Byte
  BY <1>2, <1>5
<1>7. b[1 + l] < 128 /\ \A k \in 1 .. l - 1 : b[1 + k] >= 128
  <2>1. s[l] < 128 /\ \A k \in 1 .. l - 1 : s[k] >= 128
    BY <1>1, <1>2 DEF IsLength
  <2>2. l \in 1 .. l /\ \A k \in 1 .. l - 1 : k \in 1 .. l
    BY <1>2
  <2> QED
    BY <1>5, <2>1, <2>2
<1>8. \A i \in 1 .. 3 : Digit(s, i) = IF i < 1 + l THEN b[i + 1] % 128 ELSE 0
  BY <1>2, <1>5 DEF Digit
<1>9. \A j \in 2 .. 1 + l : j - 1 \in 1 .. l /\ j = 1 + (j - 1)
  BY <1>2
<1>10. \A j \in 2 .. (1 + l) - 1 : j - 1 \in 1 .. l - 1 /\ j = 1 + (j - 1)
  BY <1>2
<1>11. \A j \in 2 .. 1 + l : b[j] \in Byte
  BY <1>6, <1>9
<1>12. \A j \in 2 .. (1 + l) - 1 : b[j] >= 128
  BY <1>7, <1>10
<1>13. HasLength(b, 1 + l, Remaining(p))
  BY <1>1, <1>7, <1>8, <1>11, <1>12 DEF HasLength, IsLength
<1> QED
  BY <1>1, <1>3, <1>4, <1>13

(* Where the readers find the end of the length: behind it.                *)
LEMMA LengthEndRead ==
  ASSUME NEW b, NEW h, NEW n, HasLength(b, h, n), NEW length \in Nat, length >= h
  PROVE  LengthEnd(b, length) = h
<1> DEFINE Ends(i) == b[i + 1] < 128 /\ \A j \in 1 .. i - 1 : b[j + 1] >= 128
<1>1. h \in 2 .. 4 /\ b[h] < 128 /\ \A j \in 2 .. h : b[j] \in Byte
  BY DEF HasLength
<1>2. \A j \in 1 .. h - 2 : b[j + 1] >= 128 /\ ~(b[j + 1] < 128)
  <2>1. ASSUME NEW j \in 1 .. h - 2 PROVE b[j + 1] >= 128 /\ ~(b[j + 1] < 128)
    <3>1. j + 1 \in 2 .. h - 1 /\ j + 1 \in 2 .. h
      BY <1>1
    <3>2. b[j + 1] \in 0 .. 255 /\ b[j + 1] >= 128
      BY <3>1 DEF HasLength, Byte
    <3> QED
      BY <3>2
  <2> QED
    BY <2>1
<1>3. b[h] \in 0 .. 255 /\ ~(b[h] >= 128)
  <2>1. b[h] \in 0 .. 255
    BY <1>1 DEF Byte
  <2> QED
    BY <1>1, <2>1
<1>4. LengthEnd(b, length) = IF \E i \in 1 .. length - 1 : Ends(i)
                               THEN 1 + (CHOOSE i \in 1 .. length - 1 : Ends(i))
                               ELSE length
  BY DEF LengthEnd
<1>5. LengthEnd(b, length) = h
  <2>1. h - 1 \in 1 .. length - 1 /\ (h - 1) + 1 = h
    BY <1>1
  <2>2. Ends(h - 1)
    <3>1. (h - 1) - 1 = h - 2
      BY <1>1
    <3> QED
      BY <1>1, <1>2, <2>1, <3>1
  <2>3. ASSUME NEW i \in 1 .. length - 1, Ends(i) PROVE i = h - 1
    <3>1. CASE i < h - 1
      <4>1. i \in 1 .. h - 2
        BY <1>1, <3>1
      <4> QED
        BY <1>2, <2>3, <4>1
    <3>2. CASE i > h - 1
      <4>1. h - 1 \in 1 .. i - 1
        BY <1>1, <3>2
      <4> QED
        BY <1>3, <2>1, <2>3, <4>1
    <3> QED
      BY <1>1, <3>1, <3>2
  <2> HIDE DEF Ends
  <2>4. (CHOOSE i \in 1 .. length - 1 : Ends(i)) = h - 1
    BY <2>1, <2>2, <2>3
  <2>5. \E i \in 1 .. length - 1 : Ends(i)
    BY <2>1, <2>2
  <2> QED
    <3>1. 1 + (h - 1) = h
      BY <1>1
    <3> QED
      BY <1>4, <2>4, <2>5, <3>1
<1> QED
  BY <1>5

(* And where the bytes that have arrived end, if it goes on behind them.   *)
LEMMA LengthEndCut ==
  ASSUME NEW b, NEW length \in Nat, length >= 1,
         \A j \in 2 .. length : b[j] \in Byte /\ b[j] >= 128
  PROVE  LengthEnd(b, length) = length
<1> DEFINE Ends(i) == b[i + 1] < 128 /\ \A j \in 1 .. i - 1 : b[j + 1] >= 128
<1>1. ASSUME NEW i \in 1 .. length - 1 PROVE ~Ends(i)
  <2>1. i + 1 \in 2 .. length
    OBVIOUS
  <2>2. b[i + 1] \in 0 .. 255 /\ b[i + 1] >= 128
    BY <2>1 DEF Byte
  <2> QED
    BY <2>2
<1>2. LengthEnd(b, length) = IF \E i \in 1 .. length - 1 : Ends(i)
                               THEN 1 + (CHOOSE i \in 1 .. length - 1 : Ends(i))
                               ELSE length
  BY DEF LengthEnd
<1> HIDE DEF Ends
<1> QED
  BY <1>1, <1>2

(* The length of a packet, where its header has arrived. *)
LEMMA TotalRead ==
  ASSUME NEW b, NEW h, NEW n \in Nat, HasLength(b, h, n), NEW length \in Nat, length >= h
  PROVE  mqtt_get_total_length(b, length) = h + n
<1>1. LengthEnd(b, length) = h
  BY LengthEndRead
<1>2. h \in 2 .. 4
  BY DEF HasLength
<1>3. RemainingLength(b, h) = n
  <2> DEFINE digit(i) == IF i < h THEN b[i + 1] % 128 ELSE 0
  <2>1. digit(1) + 128 * digit(2) + 16384 * digit(3) = n /\ digit(4) = 0
    BY <1>2 DEF HasLength
  <2>2. RemainingLength(b, h) = digit(1) + 128 * digit(2) + 16384 * digit(3) + 2097152 * digit(4)
    BY SMT DEF RemainingLength
  <2> HIDE DEF digit
  <2> QED
    BY <2>1, <2>2
<1> QED
  BY <1>1, <1>2, <1>3 DEF mqtt_get_total_length

(* The length read depends on the bytes that have arrived alone. *)
LEMMA TotalAgrees ==
  ASSUME NEW b, NEW c, NEW length \in Nat, length >= 1, \A k \in 1 .. length : b[k] = c[k]
  PROVE  mqtt_get_total_length(b, length) = mqtt_get_total_length(c, length)
<1> DEFINE Ends(s, i) == s[i + 1] < 128 /\ \A j \in 1 .. i - 1 : s[j + 1] >= 128
<1>1. \A i \in 1 .. length - 1 : b[i + 1] = c[i + 1]
  OBVIOUS
<1>2. \A i \in 1 .. length - 1 : Ends(b, i) <=> Ends(c, i)
  <2>1. \A i \in 1 .. length - 1 : \A j \in 1 .. i - 1 : j \in 1 .. length - 1
    OBVIOUS
  <2> QED
    BY <1>1, <2>1
<1>3. \A s : LengthEnd(s, length) = IF \E i \in 1 .. length - 1 : Ends(s, i)
                               THEN 1 + (CHOOSE i \in 1 .. length - 1 : Ends(s, i))
                               ELSE length
  BY DEF LengthEnd
<1> HIDE DEF Ends
<1>4. (CHOOSE i \in 1 .. length - 1 : Ends(b, i)) = (CHOOSE i \in 1 .. length - 1 : Ends(c, i))
  BY <1>2
<1>5. PICK e : e = LengthEnd(b, length) /\ e = LengthEnd(c, length)
  BY <1>2, <1>3, <1>4
<1>6. e \in 1 .. length
  <2>1. CASE \E i \in 1 .. length - 1 : Ends(b, i)
    <3>1. (CHOOSE i \in 1 .. length - 1 : Ends(b, i)) \in 1 .. length - 1
      BY <2>1
    <3> QED
      BY <1>3, <1>5, <2>1, <3>1
  <2>2. CASE ~\E i \in 1 .. length - 1 : Ends(b, i)
    BY <1>3, <1>5, <2>2
  <2> QED
    BY <2>1, <2>2
<1>7. RemainingLength(b, e) = RemainingLength(c, e)
  <2>1. \A i \in 1 .. 4 : i < e => b[i + 1] = c[i + 1]
    BY <1>1, <1>6
  <2> QED
    BY <2>1, SMT DEF RemainingLength
<1> QED
  BY <1>5, <1>7 DEF mqtt_get_total_length

-----------------------------------------------------------------------------
(* Reading a PUBLISH *)

(* A packet on the wire is its fixed header of two to four bytes, then     *)
(* its body.                                                               *)
LEMMA WireLayout ==
  ASSUME NEW p, BrokerSends(p)
  PROVE  /\ Wire(p) \in Seq(Byte) /\ Len(Wire(p)) = Len(Header(p)) + Len(Body(p))
         /\ Holds(Wire(p), 0, Header(p)) /\ Holds(Wire(p), Len(Header(p)), Body(p))
         /\ Len(Header(p)) \in 2 .. 4
<1>1. Header(p) \in Seq(Byte) /\ Body(p) \in Seq(Byte) /\ Len(Header(p)) \in 2 .. 4
  <2>1. PICK s \in Seq(Byte) : /\ IsLength(s, Remaining(p)) /\ Header(p) \in Seq(Byte)
                               /\ Len(Header(p)) = 1 + Len(s)
    BY HeaderLayout
  <2>2. Len(s) \in 1 .. 3
    BY <2>1 DEF IsLength
  <2> QED
    <3>1. Len(Header(p)) = 1 + Len(s) /\ Header(p) \in Seq(Byte)
      BY <2>1
    <3>2. PICK l \in 1 .. 3 : l = Len(s)
      BY <2>2
    <3>3. Len(Header(p)) = 1 + l
      BY <3>1, <3>2
    <3>4. Len(Header(p)) \in 2 .. 4
      BY <3>3
    <3> QED
      BY <3>1, <3>4, BodyType
<1>2. PICK h, d, w : /\ h = Header(p) /\ d = Body(p) /\ w = Wire(p)
                     /\ h \in Seq(Byte) /\ d \in Seq(Byte)
  BY <1>1
<1>3. w = h \o d
  BY <1>2 DEF Wire
<1>4. h \in Seq(Byte) /\ d \in Seq(Byte)
  BY <1>2
<1>5. /\ w \in Seq(Byte) /\ Len(w) = Len(h) + Len(d)
      /\ \A k \in 1 .. Len(h) : w[k] = h[k]
      /\ \A k \in 1 .. Len(d) : w[Len(h) + k] = d[k]
  BY <1>3, <1>4, ConcatIndex
<1>6. \A k \in 1 .. Len(h) : 0 + k = k
  OBVIOUS
<1>7. Holds(w, 0, h) /\ Holds(w, Len(h), d)
  BY <1>5, <1>6 DEF Holds
<1> QED
  BY <1>1, <1>2, <1>5, <1>7

(* The first n bytes of b are as far as they go those of w. *)
Starts(b, n, w) == \A k \in 1 .. n : k <= Len(w) => b[k] = w[k]

(* A field of w that has arrived can be read from b. *)
LEMMA FieldArrived ==
  ASSUME NEW b, NEW n \in Nat, NEW w, Starts(b, n, w), NEW i \in Nat,
         NEW s, Len(s) \in Nat, Holds(w, i, s), Len(w) \in Nat,
         i + Len(s) <= Len(w), i + Len(s) <= n
  PROVE  Holds(b, i, s)
<1>1. \A k \in 1 .. Len(s) : i + k \in 1 .. n /\ i + k <= Len(w)
  OBVIOUS
<1> QED
  BY <1>1 DEF Starts, Holds

(* A field within a field. *)
LEMMA FieldWithin ==
  ASSUME NEW w, NEW i \in Nat, NEW s, Len(s) \in Nat, Holds(w, i, s),
         NEW j \in Nat, NEW u, Len(u) \in Nat, Holds(s, j, u), j + Len(u) <= Len(s)
  PROVE  Holds(w, i + j, u)
<1>1. \A k \in 1 .. Len(u) : j + k \in 1 .. Len(s) /\ i + (j + k) = (i + j) + k
  OBVIOUS
<1> QED
  BY <1>1 DEF Holds

(* Where the fields of a PUBLISH begin and end. *)
PublishAt(p, h, t, i, d) ==
  /\ h \in 2 .. 4 /\ t \in 1 .. MaxId /\ i \in {0, 2} /\ d \in Nat
  /\ h = Len(Header(p)) /\ t = Len(p.topic) /\ i = Len(IdField(p)) /\ d = Len(p.data)

(* Every PUBLISH has its fields somewhere. *)
LEMMA PublishExists ==
  ASSUME NEW p, BrokerSends(p), p.type = PUBLISH
  PROVE  \E h, t, i, d : PublishAt(p, h, t, i, d)
<1>1. /\ p \in BrokerPacket /\ p.topic \in Seq(Byte) /\ p.data \in Seq(Byte)
      /\ Len(p.topic) \in 1 .. MaxId
  BY DEF BrokerSends, BrokerPacket, WellFormed, String
<1>2. Len(Header(p)) \in 2 .. 4 /\ Len(p.data) \in Nat
  BY <1>1, WireLayout
<1>3. Len(IdField(p)) \in {0, 2}
  <2>1. Len(IdField(p)) = IF p.qos > 0 THEN 2 ELSE 0
    BY <1>1, IdFieldType
  <2> QED
    BY <2>1
<1> QED
  BY <1>1, <1>2, <1>3 DEF PublishAt

(* The fields of a PUBLISH are on the wire one behind the other. *)
LEMMA PublishFields ==
  ASSUME NEW p, BrokerSends(p), p.type = PUBLISH,
         NEW h, NEW t, NEW i, NEW d, PublishAt(p, h, t, i, d)
  PROVE  /\ Wire(p) \in Seq(Byte) /\ Len(Wire(p)) = h + 2 + t + i + d
         /\ Remaining(p) = 2 + t + i + d + p.more
         /\ Holds(Wire(p), 0, Header(p)) /\ Holds(Wire(p), h, Bytes16(t))
         /\ Holds(Wire(p), h + 2, p.topic)
         /\ Holds(Wire(p), h + 2 + t, IdField(p)) /\ Holds(Wire(p), h + 2 + t + i, p.data)
<1>a. h \in Nat /\ t \in Nat /\ i \in Nat /\ d \in Nat
  BY MaxIdType DEF PublishAt
<1>1. /\ h \in Nat /\ t \in Nat /\ i \in Nat /\ d \in Nat /\ p \in BrokerPacket
      /\ h = Len(Header(p)) /\ t = Len(p.topic) /\ i = Len(IdField(p)) /\ d = Len(p.data)
  BY MaxIdType DEF PublishAt, BrokerSends
<1>2. /\ Len(Body(p)) = 2 + t + i + d
      /\ Holds(Body(p), 0, Bytes16(t)) /\ Holds(Body(p), 2, p.topic)
      /\ Holds(Body(p), 2 + t, IdField(p)) /\ Holds(Body(p), 2 + t + i, p.data)
  BY <1>1, PublishLayout
<1>3. /\ Wire(p) \in Seq(Byte) /\ Len(Wire(p)) = h + Len(Body(p))
      /\ Holds(Wire(p), 0, Header(p)) /\ Holds(Wire(p), h, Body(p))
  BY <1>1, WireLayout
<1>4. Len(Bytes16(t)) = 2
  BY <1>1, Bytes16Type
<1>b. Len(Body(p)) = 2 + t + i + d
  BY <1>2
<1>5. Len(Body(p)) \in Nat
  BY <1>a, <1>b
<1>6. Holds(Wire(p), h + 0, Bytes16(t))
  <2>1. 0 + Len(Bytes16(t)) <= Len(Body(p)) /\ Len(Bytes16(t)) \in Nat /\ 0 \in Nat
    BY <1>a, <1>b, <1>4
  <2> QED
    BY <1>1, <1>2, <1>3, <1>5, <2>1, FieldWithin
<1>7. Holds(Wire(p), h + 2, p.topic)
  <2>1. 2 + t <= Len(Body(p)) /\ 2 \in Nat
    BY <1>a, <1>b
  <2> QED
    BY <1>1, <1>2, <1>3, <1>5, <2>1, FieldWithin
<1>8. Holds(Wire(p), h + (2 + t), IdField(p))
  <2>1. 2 + t + i <= Len(Body(p)) /\ 2 + t \in Nat
    BY <1>a, <1>b
  <2> QED
    BY <1>1, <1>2, <1>3, <1>5, <2>1, FieldWithin
<1>9. Holds(Wire(p), h + (2 + t + i), p.data)
  <2>1. 2 + t + i + d <= Len(Body(p)) /\ 2 + t + i \in Nat
    BY <1>a, <1>b
  <2> QED
    BY <1>1, <1>2, <1>3, <1>5, <2>1, FieldWithin
<1>10. /\ h + 0 = h /\ h + (2 + t) = h + 2 + t /\ h + (2 + t + i) = h + 2 + t + i
       /\ h + (2 + t + i + d) = h + 2 + t + i + d
  BY <1>a
<1> QED
  BY <1>2, <1>3, <1>6, <1>7, <1>8, <1>9, <1>10 DEF Remaining

(* The 16-bit number at index i. *)
LEMMA NumberRead ==
  ASSUME NEW b, NEW i, NEW n \in 0 .. MaxId, Holds(b, i, Bytes16(n))
  PROVE  Number(b, i) = n
<1>1. n \in Nat /\ n <= MaxId
  BY MaxIdType
<1>2. Len(Bytes16(n)) = 2 /\ Bytes16(n)[1] * 256 + Bytes16(n)[2] = n
  BY <1>1, Bytes16Type
<1>3. b[i + 1] = Bytes16(n)[1] /\ b[i + 2] = Bytes16(n)[2]
  BY <1>2 DEF Holds
<1> QED
  BY <1>2, <1>3 DEF Number

(* The kind and the quality of service of a packet. *)
LEMMA FirstRead ==
  ASSUME NEW p, BrokerSends(p), NEW b, b[1] = First(p)
  PROVE  /\ mqtt_get_type(b) = p.type
         /\ p.type = PUBLISH => mqtt_get_qos(b) = p.qos
<1>1. PICK k \in 1 .. 14, q \in 0 .. 2 : k = p.type /\ q = p.qos
  BY DEF BrokerSends, BrokerPacket
<1>2. (k * 16) \div 16 = k /\ (k * 16 + q * 2) \div 16 = k /\ (k * 16 + 0) \div 16 = k
  <2>1. \A m \in 0 .. 4 : (k * 16 + m) \div 16 = k
    OBVIOUS
  <2>2. q * 2 \in 0 .. 4 /\ 0 \in 0 .. 4 /\ k * 16 = k * 16 + 0
    OBVIOUS
  <2> QED
    BY <2>1, <2>2
<1>3. b[1] = k * 16 + q * 2 \/ (k # PUBLISH /\ b[1] = k * 16 + 0)
  BY <1>1 DEF First
<1>4. k = 3 => ((k * 16 + q * 2) \div 2) % 4 = q
  <2>1. ((3 * 16 + q * 2) \div 2) % 4 = q
    <3>1. q = 0 \/ q = 1 \/ q = 2
      BY <1>1
    <3>2. (48 \div 2) % 4 = 0 /\ (50 \div 2) % 4 = 1 /\ (52 \div 2) % 4 = 2
      OBVIOUS
    <3> QED
      BY <3>1, <3>2
  <2> QED
    BY <2>1
<1> QED
  BY <1>1, <1>2, <1>3, <1>4 DEF mqtt_get_type, mqtt_get_qos, PUBLISH

(* What has arrived of a PUBLISH p, n bytes of which b begins with: the    *)
(* header, the topic, the identifier.                                      *)
LEMMA PublishArrived ==
  ASSUME NEW p, BrokerSends(p), p.type = PUBLISH,
         NEW h, NEW t, NEW i, NEW d, PublishAt(p, h, t, i, d),
         NEW b, NEW n \in Nat, n >= 1, Starts(b, n, Wire(p))
  PROVE  /\ mqtt_get_type(b) = PUBLISH /\ mqtt_get_qos(b) = p.qos
         /\ n >= h => HasLength(b, h, Remaining(p))
         /\ n < h => LengthEnd(b, n) = n
         /\ n >= h + 2 => Number(b, h) = t
         /\ n >= h + 2 + t => Holds(b, h + 2, p.topic)
         /\ n >= h + 2 + t + i => Holds(b, h + 2 + t, IdField(p))
<1>a. h \in 2 .. 4 /\ t \in Nat /\ t \in 0 .. MaxId /\ i \in Nat /\ d \in Nat
  <2>1. h \in 2 .. 4 /\ t \in 1 .. MaxId /\ i \in {0, 2} /\ d \in Nat
    BY DEF PublishAt
  <2> QED
    BY <2>1, MaxIdType
<1>1. h = Len(Header(p)) /\ t = Len(p.topic) /\ i = Len(IdField(p))
  BY DEF PublishAt
<1>2. /\ Holds(Wire(p), 0, Header(p)) /\ Holds(Wire(p), h, Bytes16(t))
      /\ Holds(Wire(p), h + 2, p.topic) /\ Holds(Wire(p), h + 2 + t, IdField(p))
  BY PublishFields
<1>3. PICK l : l = Len(Wire(p)) /\ l = h + 2 + t + i + d
  BY PublishFields
<1>4. l \in Nat /\ l >= h + 2 + t + i
  BY <1>a, <1>3
<1>5. Holds(Header(p), 0, Header(p))
  BY <1>a, <1>1 DEF Holds
<1>6. HasLength(Header(p), h, Remaining(p)) /\ Header(p)[1] = First(p)
  BY <1>1, <1>5, HeaderStarts
<1>7. \A k \in 1 .. h : k <= n => b[k] = Header(p)[k]
  <2>1. ASSUME NEW k \in 1 .. h, k <= n PROVE b[k] = Header(p)[k]
    <3>1. k \in 1 .. n /\ k <= l /\ 0 + k = k
      BY <1>a, <1>4, <2>1
    <3>2. Wire(p)[0 + k] = Header(p)[k]
      BY <1>1, <1>2, <2>1 DEF Holds
    <3> QED
      BY <1>3, <3>1, <3>2 DEF Starts
  <2> QED
    BY <2>1
<1>8. b[1] = First(p)
  BY <1>a, <1>6, <1>7
<1>9. ASSUME n >= h PROVE HasLength(b, h, Remaining(p))
  <2>1. \A k \in 1 .. h : 0 + k = k /\ k <= n
    BY <1>a, <1>9
  <2>2. Holds(b, 0, Header(p))
    BY <1>1, <1>7, <2>1 DEF Holds
  <2> QED
    BY <1>1, <2>2, HeaderStarts
<1>10. ASSUME n < h PROVE LengthEnd(b, n) = n
  <2>1. ASSUME NEW j \in 2 .. n PROVE b[j] \in Byte /\ b[j] >= 128
    <3>1. j \in 1 .. h /\ j <= n /\ j \in 2 .. h /\ j \in 2 .. h - 1
      BY <1>a, <1>10, <2>1
    <3>2. Header(p)[j] \in Byte /\ Header(p)[j] >= 128
      BY <1>6, <3>1 DEF HasLength
    <3> QED
      BY <1>7, <3>1, <3>2
  <2> QED
    BY <2>1, LengthEndCut
<1>11. ASSUME n >= h + 2 PROVE Number(b, h) = t
  <2>1. Len(Bytes16(t)) = 2
    BY <1>a, Bytes16Type
  <2>2. h \in Nat /\ h + Len(Bytes16(t)) <= n /\ h + Len(Bytes16(t)) <= Len(Wire(p))
        /\ Len(Bytes16(t)) \in Nat /\ Len(Wire(p)) \in Nat
    BY <1>a, <1>3, <1>4, <1>11, <2>1
  <2>3. Holds(b, h, Bytes16(t))
    BY <1>2, <2>2, FieldArrived
  <2> QED
    BY <1>a, <2>3, NumberRead
<1>12. ASSUME n >= h + 2 + t PROVE Holds(b, h + 2, p.topic)
  <2>2. h + 2 \in Nat /\ h + 2 + t <= n /\ h + 2 + t <= l
    BY <1>a, <1>4, <1>12
  <2> QED
    BY <1>a, <1>1, <1>2, <1>3, <1>4, <2>2, FieldArrived
<1>13. ASSUME n >= h + 2 + t + i PROVE Holds(b, h + 2 + t, IdField(p))
  <2>2. h + 2 + t \in Nat /\ h + 2 + t + i <= n /\ h + 2 + t + i <= l
    BY <1>a, <1>4, <1>13
  <2> QED
    BY <1>a, <1>1, <1>2, <1>3, <1>4, <2>2, FieldArrived
<1> QED
  BY <1>8, <1>9, <1>10, <1>11, <1>12, <1>13, FirstRead

(* The same with the numbers it takes. *)
Arrived(p, h, t, i, d, b, n) ==
  /\ BrokerSends(p) /\ p.type = PUBLISH /\ PublishAt(p, h, t, i, d)
  /\ b \in Seq(Byte) /\ n \in Nat /\ n >= 1 /\ n <= Len(b) /\ Starts(b, n, Wire(p))

(* The lengths of a PUBLISH that has arrived, as numbers. *)
LEMMA ArrivedNumbers ==
  ASSUME NEW p, NEW h, NEW t, NEW i, NEW d, NEW b, NEW n, Arrived(p, h, t, i, d, b, n)
  PROVE  /\ h \in 2 .. 4 /\ t \in Nat /\ t >= 1 /\ i \in {0, 2} /\ d \in Nat /\ n \in Nat /\ n >= 1
         /\ i = IF p.qos > 0 THEN 2 ELSE 0
         /\ p.more \in Nat /\ Remaining(p) = 2 + t + i + d + p.more
         /\ Len(Wire(p)) = h + 2 + t + i + d
<1>1. h \in 2 .. 4 /\ t \in 1 .. MaxId /\ i \in {0, 2} /\ d \in Nat /\ i = Len(IdField(p))
  BY DEF Arrived, PublishAt
<1>2. t \in Nat /\ t >= 1
  BY <1>1, MaxIdType
<1>3. p \in BrokerPacket /\ p.more \in Nat
  BY DEF Arrived, BrokerSends, BrokerPacket
<1>4. i = IF p.qos > 0 THEN 2 ELSE 0
  BY <1>1, <1>3, IdFieldType
<1>5. Remaining(p) = 2 + t + i + d + p.more /\ Len(Wire(p)) = h + 2 + t + i + d
  BY PublishFields DEF Arrived
<1>6. n \in Nat /\ n >= 1
  BY DEF Arrived
<1> QED
  BY <1>1, <1>2, <1>3, <1>4, <1>5, <1>6

(* The readers of a PUBLISH find the end of the length where it is. *)
LEMMA ArrivedEnd ==
  ASSUME NEW p, NEW h, NEW t, NEW i, NEW d, NEW b, NEW n, Arrived(p, h, t, i, d, b, n)
  PROVE  /\ n >= h => LengthEnd(b, n) = h
         /\ n < h => LengthEnd(b, n) = n
         /\ n >= h + 2 => Number(b, h) = t
<1>1. n \in Nat
  BY ArrivedNumbers
<1> QED
  BY <1>1, PublishArrived, LengthEndRead DEF Arrived

(* The topic is read if all of it has arrived. *)
LEMMA TopicRead ==
  ASSUME NEW p, NEW h, NEW t, NEW i, NEW d, NEW b, NEW n, Arrived(p, h, t, i, d, b, n)
  PROVE  mqtt_get_publish_topic(b, n).text = IF n >= h + 2 + t THEN p.topic ELSE NULL
<1>1. h \in 2 .. 4 /\ t \in Nat /\ t >= 1 /\ n \in Nat /\ n >= 1
  BY ArrivedNumbers
<1>2. /\ n >= h => LengthEnd(b, n) = h
      /\ n < h => LengthEnd(b, n) = n
      /\ n >= h + 2 => Number(b, h) = t
  BY ArrivedEnd
<1> DEFINE short(e) == e + 2 >= n \/ e + 2 + Number(b, e) > n
<1>3. mqtt_get_publish_topic(b, n) =
        IF short(LengthEnd(b, n)) THEN Null(n)
        ELSE Text(Slice(b, LengthEnd(b, n) + 2, LengthEnd(b, n) + 2 + Number(b, LengthEnd(b, n))))
  BY DEF mqtt_get_publish_topic
<1>4. CASE n >= h + 2 + t
  <2>1. LengthEnd(b, n) = h /\ Number(b, h) = t
    BY <1>1, <1>2, <1>4
  <2>2. ~short(h)
    BY <1>1, <1>4, <2>1
  <2>3. Holds(b, h + 2, p.topic) /\ p.topic \in Seq(Byte) /\ Len(p.topic) = t
    BY <1>1, <1>4, PublishArrived DEF Arrived, PublishAt, BrokerSends, BrokerPacket, String
  <2>4. \A k \in 1 .. Len(p.topic) : b[h + 2 + k] = p.topic[k]
    BY <2>3 DEF Holds
  <2>5. h + 2 \in Nat /\ h + 2 + Len(p.topic) <= Len(b) /\ b \in Seq(Byte)
    <3>1. b \in Seq(Byte) /\ n <= Len(b) /\ Len(b) \in Nat
      BY DEF Arrived
    <3> QED
      BY <1>1, <1>4, <2>3, <3>1
  <2>6. SubSeq(b, h + 2 + 1, h + 2 + Len(p.topic)) = p.topic
    BY <2>3, <2>4, <2>5, SubSeqIs
  <2>7. Slice(b, h + 2, h + 2 + t) = p.topic
    BY <2>3, <2>6 DEF Slice
  <2> HIDE DEF short
  <2>8. mqtt_get_publish_topic(b, n) = Text(p.topic)
    BY <1>3, <2>1, <2>2, <2>7
  <2> QED
    BY <1>4, <2>8 DEF Text
<1>5. CASE ~(n >= h + 2 + t)
  <2>1. short(LengthEnd(b, n))
    <3>1. CASE n < h
      <4>1. LengthEnd(b, n) = n
        BY <1>2, <3>1
      <4> QED
        BY <1>1, <4>1
    <3>2. CASE n >= h
      <4>1. LengthEnd(b, n) = h
        BY <1>2, <3>2
      <4>2. n >= h + 2 => h + 2 + Number(b, h) > n
        BY <1>1, <1>2, <1>5
      <4> QED
        BY <1>1, <3>2, <4>1, <4>2
    <3> QED
      BY <1>1, <3>1, <3>2
  <2> HIDE DEF short
  <2>2. mqtt_get_publish_topic(b, n) = Null(n)
    BY <1>3, <2>1
  <2> QED
    BY <1>5, <2>2 DEF Null
<1> QED
  BY <1>4, <1>5

(* The payload is read as far as it has arrived, and not beyond its end. *)
LEMMA DataRead ==
  ASSUME NEW p, NEW h, NEW t, NEW i, NEW d, NEW b, NEW n, Arrived(p, h, t, i, d, b, n),
         n <= Len(Wire(p)) \/ p.more = 0
  PROVE  /\ IsPrefix(Present(mqtt_get_publish_data(b, n).text), p.data)
         /\ n >= Len(Wire(p)) => Present(mqtt_get_publish_data(b, n).text) = p.data
<1>1. /\ h \in 2 .. 4 /\ t \in Nat /\ t >= 1 /\ i \in {0, 2} /\ d \in Nat /\ n \in Nat /\ n >= 1
      /\ i = IF p.qos > 0 THEN 2 ELSE 0
      /\ p.more \in Nat /\ Remaining(p) = 2 + t + i + d + p.more
      /\ Len(Wire(p)) = h + 2 + t + i + d
  BY ArrivedNumbers
<1>n. h \in 2 .. 4 /\ t \in Nat /\ t >= 1 /\ i \in {0, 2} /\ d \in Nat /\ n \in Nat
  BY <1>1
<1>2. /\ n >= h => LengthEnd(b, n) = h
      /\ n < h => LengthEnd(b, n) = n
      /\ n >= h + 2 => Number(b, h) = t
  BY ArrivedEnd
<1>3. mqtt_get_qos(b) = p.qos
  BY <1>1, PublishArrived, SMTT(60) DEF Arrived
<1>4. p.data \in Seq(Byte) /\ Len(p.data) = d
  BY DEF Arrived, PublishAt, BrokerSends, BrokerPacket, String
<1>d. NULL \notin Seq(Byte) /\ <<>> \in Seq(Byte)
  BY MsgAssumption DEF MsgAssumption, String
<1>5. IsPrefix(<<>>, p.data)
  BY <1>4 DEF IsPrefix
<1> DEFINE has == LengthEnd(b, n) + 2 < n /\ BehindTopic(b, n) < n
           at == IF mqtt_get_qos(b) > 0 THEN BehindTopic(b, n) + 2 ELSE BehindTopic(b, n)
           total == mqtt_get_total_length(b, n)
<1>6. mqtt_get_publish_data(b, n) =
        IF ~has \/ at >= n \/ total < at THEN Null(0)
        ELSE Text(Slice(b, at, IF total <= n THEN total ELSE n))
  BY DEF mqtt_get_publish_data, HasBehindTopic
<1>7. CASE n >= h + 2 + t + i + 1
  <2>1. LengthEnd(b, n) = h /\ Number(b, h) = t
    BY <1>1, <1>2, <1>7
  <2>2. BehindTopic(b, n) = h + 2 + t
    BY <2>1 DEF BehindTopic
  <2>3. has
    <3>1. h + 2 < n /\ h + 2 + t < n
      BY <1>n, <1>7
    <3> QED
      BY <2>1, <2>2, <3>1
  <2>4. at = h + 2 + t + i
    BY <1>1, <1>3, <2>2
  <2>5. HasLength(b, h, Remaining(p))
    BY <1>1, <1>7, PublishArrived DEF Arrived
  <2>6. total = h + Remaining(p)
    <3>1. n >= h
      BY <1>n, <1>7
    <3>2. Remaining(p) \in Nat
      BY BodyType DEF Arrived
    <3> QED
      BY <1>n, <2>5, <3>1, <3>2, TotalRead
  <2>7. total = h + 2 + t + i + d + p.more
    BY <1>1, <2>6
  <2>8. PICK x, y : x = h + 2 + t + i /\ y = IF total <= n THEN total ELSE n
    OBVIOUS
  <2>9. mqtt_get_publish_data(b, n) = Text(Slice(b, x, y))
    <3> HIDE DEF has, at, total
    <3>1. PICK e, a, l : e = p.more /\ e \in Nat /\ a = at /\ l = total
      BY <1>1
    <3>2. a = h + 2 + t + i /\ l = h + 2 + t + i + d + e
      BY <2>4, <2>7, <3>1
    <3>3. e \in Nat
      BY <3>1
    <3>4. ~(a >= n) /\ ~(l < a)
      BY <1>n, <1>7, <3>2, <3>3
    <3>5. ~(at >= n) /\ ~(total < at)
      BY <3>1, <3>4
    <3> QED
      BY <1>6, <2>3, <2>4, <2>8, <3>5
  <2>10. /\ x \in Nat /\ y \in Nat /\ x <= y /\ y <= x + d /\ y <= n
         /\ n >= Len(Wire(p)) => y = x + d
    <3> HIDE DEF total
    <3>1. PICK l, e : l = Len(Wire(p)) /\ e = p.more
      OBVIOUS
    <3>2. /\ e \in Nat /\ l = h + 2 + t + i + d /\ total = h + 2 + t + i + d + e
          /\ (n <= l \/ e = 0)
      BY <1>1, <2>7, <3>1
    <3>3. /\ x \in Nat /\ y \in Nat /\ x <= y /\ y <= x + d /\ y <= n
          /\ n >= l => y = x + d
      BY <1>n, <1>7, <2>8, <3>2
    <3> QED
      BY <3>1, <3>3
  <2>11. PICK m \in Nat : y = x + m /\ m <= d /\ (n >= Len(Wire(p)) => m = d)
    <3>1. y - x \in Nat /\ y = x + (y - x) /\ y - x <= d /\ (n >= Len(Wire(p)) => y - x = d)
      BY <1>1, <2>10
    <3> QED
      BY <3>1
  <2>12. PICK s \in Seq(Byte) : s = SubSeq(p.data, 1, m) /\ Len(s) = m
                                /\ \A k \in 1 .. m : s[k] = p.data[k]
    <3>1. d \in Nat /\ m \in Nat /\ m <= d
      BY <1>n, <2>11
    <3>2. PICK z \in Seq(Byte) : z = p.data /\ Len(z) = d
      BY <1>4
    <3>3. /\ SubSeq(z, 1, m) \in Seq(Byte) /\ Len(SubSeq(z, 1, m)) = m
          /\ \A k \in 1 .. m : SubSeq(z, 1, m)[k] = z[k]
      BY <3>1, <3>2
    <3> QED
      BY <3>2, <3>3
  <2>13. \A k \in 1 .. d : x + k <= n => b[x + k] = p.data[k]
    <3>1. Holds(Wire(p), x, p.data)
      BY <2>8, PublishFields DEF Arrived
    <3>2. ASSUME NEW k \in 1 .. d, x + k <= n PROVE b[x + k] = p.data[k]
      <4>1. x + k \in 1 .. n /\ x + k <= Len(Wire(p))
        <5>1. x + k \in 1 .. n /\ x + k <= h + 2 + t + i + d
          BY <1>n, <2>8, <3>2
        <5> QED
          BY <1>1, <5>1
      <4>2. b[x + k] = Wire(p)[x + k]
        BY <4>1 DEF Arrived, Starts
      <4> QED
        BY <1>4, <3>1, <4>2 DEF Holds
    <3> QED
      BY <3>2
  <2>14. \A k \in 1 .. m : b[x + k] = s[k]
    <3>1. \A k \in 1 .. m : k \in 1 .. d /\ x + k <= n
      BY <1>1, <2>10, <2>11
    <3> QED
      BY <2>12, <2>13, <3>1
  <2>15. b \in Seq(Byte) /\ x + Len(s) <= Len(b)
    <3>1. b \in Seq(Byte) /\ n <= Len(b) /\ Len(b) \in Nat
      BY DEF Arrived
    <3> QED
      BY <1>1, <2>10, <2>11, <2>12, <3>1
  <2>16. SubSeq(b, x + 1, x + Len(s)) = s
    BY <2>10, <2>12, <2>14, <2>15, SubSeqIs
  <2>17. Slice(b, x, y) = s
    BY <2>11, <2>12, <2>16 DEF Slice
  <2>18. Present(mqtt_get_publish_data(b, n).text) = s
    BY <1>d, <2>9, <2>17 DEF Present, Text
  <2>19. IsPrefix(s, p.data)
    <3>1. SubSeq(s, 1, m) = s
      BY <2>12
    <3> QED
      BY <1>4, <2>11, <2>12, <3>1 DEF IsPrefix
  <2>20. m = d => s = p.data
    BY <1>4, <2>12
  <2> QED
    BY <2>11, <2>18, <2>19, <2>20
<1>8. CASE ~(n >= h + 2 + t + i + 1)
  <2>1. mqtt_get_publish_data(b, n) = Null(0)
    <3>1. CASE n < h
      <4>1. LengthEnd(b, n) = n
        BY <1>2, <3>1
      <4>2. ~has
        BY <1>1, <4>1
      <4> HIDE DEF has, at, total
      <4> QED
        BY <1>6, <4>2
    <3>2. CASE n >= h /\ ~(n >= h + 2 + t + 1)
      <4>1. LengthEnd(b, n) = h /\ BehindTopic(b, n) = h + 2 + Number(b, h)
        BY <1>2, <3>2 DEF BehindTopic
      <4>2. h + 2 < n => Number(b, h) = t
        BY <1>1, <1>2
      <4>3. ~has
        BY <1>1, <3>2, <4>1, <4>2
      <4> HIDE DEF has, at, total
      <4> QED
        BY <1>6, <4>3
    <3>3. CASE n >= h + 2 + t + 1
      <4>1. LengthEnd(b, n) = h /\ BehindTopic(b, n) = h + 2 + t
        BY <1>1, <1>2, <3>3 DEF BehindTopic
      <4>2. at >= n
        BY <1>1, <1>3, <1>8, <4>1
      <4> HIDE DEF has, at, total
      <4> QED
        BY <1>6, <4>2
    <3> QED
      BY <1>1, <3>1, <3>2, <3>3
  <2>2. Present(mqtt_get_publish_data(b, n).text) = <<>>
    BY <2>1 DEF Null, Present
  <2>3. n >= Len(Wire(p)) => p.data = <<>>
    BY <1>1, <1>4, <1>8
  <2> QED
    BY <1>5, <2>2, <2>3
<1> QED
  BY <1>7, <1>8

(* The identifier is read if it has arrived and the buffer goes on behind  *)
(* it.                                                                     *)
LEMMA IdRead ==
  ASSUME NEW p, NEW h, NEW t, NEW i, NEW d, NEW b, NEW n, Arrived(p, h, t, i, d, b, n),
         p.qos > 0, n >= h + 2 + t + 2, NEW l \in Nat, l > n
  PROVE  mqtt_get_id(b, l) = p.id
<1>1. /\ h \in 2 .. 4 /\ t \in Nat /\ t >= 1 /\ i \in {0, 2} /\ n \in Nat
      /\ i = IF p.qos > 0 THEN 2 ELSE 0
  BY ArrivedNumbers
<1>2. i = 2
  BY <1>1
<1>n. h \in 2 .. 4 /\ t \in Nat /\ t >= 1 /\ n \in Nat
  BY <1>1
<1>3. n >= h /\ n >= h + 2 /\ n >= h + 2 + t + i
  BY <1>n, <1>2
<1>4. /\ HasLength(b, h, Remaining(p)) /\ Number(b, h) = t
      /\ Holds(b, h + 2 + t, IdField(p)) /\ mqtt_get_type(b) = PUBLISH /\ mqtt_get_qos(b) = p.qos
  BY <1>n, <1>3, PublishArrived DEF Arrived
<1>5. LengthEnd(b, l) = h
  <2>1. l >= h
    BY <1>n, <1>3
  <2> QED
    BY <1>4, <2>1, LengthEndRead
<1>6. BehindTopic(b, l) = h + 2 + t
  BY <1>4, <1>5 DEF BehindTopic
<1>7. h + 2 < l /\ h + 2 + t < l /\ h + 2 + t + 2 < l /\ ~(l < 1)
  BY <1>n
<1>8. mqtt_get_id(b, l) = Number(b, h + 2 + t)
  BY <1>4, <1>5, <1>6, <1>7 DEF mqtt_get_id, HasBehindTopic
<1>9. IdField(p) = Bytes16(p.id) /\ p.id \in 0 .. MaxId
  BY DEF IdField, Arrived, BrokerSends, BrokerPacket
<1> QED
  BY <1>4, <1>8, <1>9, NumberRead

(* The length of a PUBLISH on the wire. *)
LEMMA PublishTotal ==
  ASSUME NEW p, NEW h, NEW t, NEW i, NEW d, NEW b, NEW n, Arrived(p, h, t, i, d, b, n),
         n >= h
  PROVE  mqtt_get_total_length(b, n) = Len(Wire(p)) + p.more
<1>1. /\ h \in 2 .. 4 /\ t \in Nat /\ i \in {0, 2} /\ d \in Nat /\ n \in Nat
      /\ p.more \in Nat /\ Remaining(p) = 2 + t + i + d + p.more
      /\ Len(Wire(p)) = h + 2 + t + i + d /\ n >= 1
  BY ArrivedNumbers
<1>2. Remaining(p) \in Nat
  BY BodyType DEF Arrived
<1>3. HasLength(b, h, Remaining(p))
  BY <1>1, PublishArrived DEF Arrived
<1>4. mqtt_get_total_length(b, n) = h + Remaining(p)
  BY <1>1, <1>2, <1>3, TotalRead
<1>5. PICK e, r, l : e = p.more /\ e \in Nat /\ r = Remaining(p) /\ l = Len(Wire(p))
  BY <1>1
<1>6. h + r = l + e
  <2>1. e = p.more /\ e \in Nat
    BY <1>5
  <2>2. h \in Nat /\ t \in Nat /\ i \in Nat /\ d \in Nat
    BY <1>1
  <2>3. r = 2 + t + i + d + e
    BY <1>1, <1>5
  <2>4. l = h + 2 + t + i + d
    BY <1>1, <1>5
  <2> QED
    BY <2>1, <2>2, <2>3, <2>4
<1> QED
  BY <1>4, <1>5, <1>6

-----------------------------------------------------------------------------
(* The answers *)

(* The answers that carry the identifier of what they answer. *)
Acks == {PUBACK, PUBREC, PUBREL, PUBCOMP}

(* An acknowledgement is four bytes in which its type and its identifier   *)
(* can be read.                                                            *)
LEMMA AckBuilt ==
  ASSUME NEW type \in Acks, NEW id \in 0 .. MaxId
  PROVE  /\ mqtt_msg_ack(type, id) \in String /\ Len(mqtt_msg_ack(type, id)) = 4
         /\ mqtt_get_type(mqtt_msg_ack(type, id)) = type
         /\ Number(mqtt_msg_ack(type, id), 2) = id
<1>1. id \in Nat /\ id <= MaxId
  BY MaxIdType
<1>2. PICK s \in Seq(Byte) : s = Bytes16(id) /\ Len(s) = 2 /\ s[1] * 256 + s[2] = id
  BY <1>1, Bytes16Type
<1>3. <<>> \o s = s
  OBVIOUS
<1>4. append_message_id(init_message, id) = [ok |-> TRUE, body |-> s]
  <2>1. 3 + 0 + 2 <= buffer_length
    BY BufferSize DEF MQTT_BUF_SIZE
  <2>2. Len(<<>>) = 0 /\ MQTT_MAX_FIXED_HEADER_SIZE = 3
    BY DEF MQTT_MAX_FIXED_HEADER_SIZE
  <2>3. MQTT_MAX_FIXED_HEADER_SIZE + Len(init_message.body) + Len(s) <= buffer_length
    BY <1>2, <2>1, <2>2 DEF init_message
  <2> QED
    BY <1>2, <1>3, <2>3 DEF append_message_id, append, init_message
<1>5. PICK f : f = type * 16 + (IF type = PUBREL THEN 1 ELSE 0) * 2 + Flag(FALSE, 1)
  OBVIOUS
<1>6. f \in Byte /\ f \div 16 = type
  <2>1. type \in 4 .. 7 /\ (type = PUBREL <=> type = 6)
    BY DEF Acks, PUBACK, PUBREC, PUBREL, PUBCOMP
  <2>2. f = IF type = 6 THEN type * 16 + 2 ELSE type * 16
    BY <1>5, <2>1 DEF Flag
  <2>3. type = 4 \/ type = 5 \/ type = 6 \/ type = 7
    BY <2>1
  <2> QED
    BY <2>2, <2>3 DEF Byte
<1>7. mqtt_msg_ack(type, id) = <<f, 2>> \o s
  <2>1. PICK m, q : m = append_message_id(init_message, id) /\ q = IF type = PUBREL THEN 1 ELSE 0
    OBVIOUS
  <2>2. m.ok /\ m.body = s /\ Len(m.body) = 2 /\ Len(m.body) <= 127 /\ ~(Len(m.body) > 127)
    <3>1. m.ok /\ m.body = s
      BY <1>4, <2>1
    <3>2. Len(m.body) = 2
      BY <1>2, <3>1
    <3> QED
      BY <3>1, <3>2
  <2>3. fini_message(m, type, q, FALSE)
          = <<type * 16 + q * 2 + Flag(FALSE, 1), Len(m.body)>> \o m.body
    BY <2>2 DEF fini_message
  <2>4. mqtt_msg_ack(type, id) = fini_message(m, type, q, FALSE)
    BY <2>1 DEF mqtt_msg_ack
  <2> QED
    BY <1>5, <2>1, <2>2, <2>3, <2>4
<1>8. 2 \in Byte
  BY DEF Byte
<1>9. PICK m : m = <<f, 2>> \o s
  OBVIOUS
<1>10. /\ m \in Seq(Byte) /\ Len(m) = 4 /\ m[1] = f
       /\ m[2 + 1] = s[1] /\ m[2 + 2] = s[2]
  <2>1. 1 \in 1 .. Len(s) /\ 2 \in 1 .. Len(s)
    BY <1>2
  <2>2. /\ m \in Seq(Byte) /\ Len(m) = 2 + Len(s) /\ m[1] = f
        /\ \A k \in 1 .. Len(s) : m[2 + k] = s[k]
    BY <1>6, <1>8, <1>9, Prefix2
  <2>3. Len(m) = 4
    BY <1>2, <2>2
  <2> QED
    BY <2>1, <2>2, <2>3
<1> QED
  BY <1>2, <1>6, <1>7, <1>9, <1>10 DEF mqtt_get_type, Number, String

(* A PINGRESP is two bytes. *)
LEMMA PingBuilt ==
  /\ mqtt_msg_bare(PINGRESP) \in String /\ Len(mqtt_msg_bare(PINGRESP)) = 2
  /\ mqtt_get_type(mqtt_msg_bare(PINGRESP)) = PINGRESP
<1>1. <<208, 0>> \o <<>> = <<208, 0>> /\ Len(<<>>) = 0
  OBVIOUS
<1>2. mqtt_msg_bare(PINGRESP) = <<208, 0>>
  BY <1>1 DEF mqtt_msg_bare, fini_message, init_message, PINGRESP, Flag
<1>3. <<208, 0>> \in Seq(Byte) /\ Len(<<208, 0>>) = 2 /\ <<208, 0>>[1] = 208
  BY DEF Byte
<1> QED
  <2>1. 208 \div 16 = 13
    OBVIOUS
  <2> QED
    BY <1>2, <1>3, <2>1, ZenonT(60) DEF mqtt_get_type, PINGRESP, String

-----------------------------------------------------------------------------
(* Types *)

(* A new packet identifier is never 0. *)
LEMMA NextIdType ==
  ASSUME NEW n \in 0 .. MaxId
  PROVE  NextId(n) \in 1 .. MaxId
  BY MaxIdType DEF NextId

(* A number read from bytes, and an identifier. *)
LEMMA NumberType ==
  ASSUME NEW b, NEW i, b[i + 1] \in Byte, b[i + 2] \in Byte
  PROVE  Number(b, i) \in Nat /\ Number(b, i) \in 0 .. MaxId
<1>1. b[i + 1] \in 0 .. 255 /\ b[i + 2] \in 0 .. 255
  BY DEF Byte
<1>3. PICK x, y : x = b[i + 1] /\ y = b[i + 2]
  OBVIOUS
<1>4. x \in 0 .. 255 /\ y \in 0 .. 255
  BY <1>1, <1>3
<1>2. x * 256 + y \in 0 .. MaxId
  <2>1. x * 256 + y \in Nat /\ x * 256 + y < 65536
    BY ONLY <1>4
  <2>2. \A n \in Nat : n < 65536 => n <= MaxId
    BY SMT DEF MaxId
  <2> QED
    BY <2>1, <2>2, MaxIdType
<1> QED
  <2>1. Number(b, i) \in 0 .. MaxId
    BY <1>2, <1>3 DEF Number
  <2> QED
    BY <2>1, MaxIdType

(* mqtt_get_total_length, and each function that skips the fixed header,   *)
(* stays inside the bytes it was given.                                    *)
LEMMA LengthEndType ==
  ASSUME NEW b, NEW n \in Nat, n >= 1
  PROVE  LengthEnd(b, n) \in 1 .. n
<1> DEFINE Ends(i) == b[i + 1] < 128 /\ \A j \in 1 .. i - 1 : b[j + 1] >= 128
<1>1. LengthEnd(b, n) = IF \E i \in 1 .. n - 1 : Ends(i)
                          THEN 1 + (CHOOSE i \in 1 .. n - 1 : Ends(i)) ELSE n
  BY DEF LengthEnd
<1> HIDE DEF Ends
<1>2. CASE \E i \in 1 .. n - 1 : Ends(i)
  <2>1. PICK i \in 1 .. n - 1 : i = CHOOSE j \in 1 .. n - 1 : Ends(j)
    BY <1>2
  <2>2. LengthEnd(b, n) = 1 + i
    BY <1>1, <1>2, <2>1
  <2> QED
    BY <2>2
<1>3. CASE ~\E i \in 1 .. n - 1 : Ends(i)
  BY <1>1, <1>3
<1> QED
  BY <1>2, <1>3

(* The place behind a topic is a number, whatever the bytes are. *)
LEMMA BehindTopicType ==
  ASSUME NEW b \in Seq(Byte), NEW n \in Nat, n >= 1, n <= Len(b), LengthEnd(b, n) + 2 < n
  PROVE  BehindTopic(b, n) \in Nat
<1>1. PICK e \in 1 .. n : e = LengthEnd(b, n)
  BY LengthEndType
<1>2. e + 1 \in 1 .. Len(b) /\ e + 2 \in 1 .. Len(b)
  <2>1. Len(b) \in Nat
    OBVIOUS
  <2> QED
    BY <1>1, <2>1
<1>3. b[e + 1] \in Byte /\ b[e + 2] \in Byte
  BY <1>2
<1>4. Number(b, e) \in Nat
  BY <1>3, NumberType
<1>5. BehindTopic(b, n) = e + 2 + Number(b, e)
  BY <1>1 DEF BehindTopic
<1> QED
  BY <1>4, <1>5

(* mqtt_get_id gives an identifier, or 0, whatever the bytes are. *)
LEMMA GetIdType ==
  ASSUME NEW b \in Seq(Byte), NEW n \in Nat, n <= Len(b)
  PROVE  mqtt_get_id(b, n) \in 0 .. MaxId
<1>0. 0 \in 0 .. MaxId /\ Len(b) \in Nat
  BY MaxIdType
<1>1. CASE n >= 1 /\ HasBehindTopic(b, n) /\ BehindTopic(b, n) + 2 < n
  <2>1. PICK k \in Nat : k = BehindTopic(b, n)
    BY <1>1, BehindTopicType DEF HasBehindTopic
  <2>2. k + 1 \in 1 .. Len(b) /\ k + 2 \in 1 .. Len(b)
    BY <1>0, <1>1, <2>1
  <2>3. b[k + 1] \in Byte /\ b[k + 2] \in Byte
    BY <2>2
  <2>4. Number(b, BehindTopic(b, n)) \in 0 .. MaxId
    BY <2>1, <2>3, NumberType
  <2>5. CASE n >= 4
    <3>1. 2 + 1 \in 1 .. Len(b) /\ 2 + 2 \in 1 .. Len(b)
      BY <1>0, <2>5
    <3>2. b[2 + 1] \in Byte /\ b[2 + 2] \in Byte
      BY <3>1
    <3>3. Number(b, 2) \in 0 .. MaxId
      BY <3>2, NumberType
    <3> QED
      BY <1>0, <2>4, <3>3 DEF mqtt_get_id
  <2>6. CASE ~(n >= 4)
    BY <1>0, <2>4, <2>6 DEF mqtt_get_id
  <2> QED
    BY <2>5, <2>6
<1>2. CASE ~(n >= 1 /\ HasBehindTopic(b, n) /\ BehindTopic(b, n) + 2 < n)
  <2>5. CASE n >= 4
    <3>1. 2 + 1 \in 1 .. Len(b) /\ 2 + 2 \in 1 .. Len(b)
      BY <1>0, <2>5
    <3>2. b[2 + 1] \in Byte /\ b[2 + 2] \in Byte
      BY <3>1
    <3>3. Number(b, 2) \in 0 .. MaxId
      BY <3>2, NumberType
    <3>4. n >= 1 /\ ~(n < 1)
      BY <2>5
    <3> QED
      BY <1>0, <1>2, <3>3, <3>4 DEF mqtt_get_id
  <2>6. CASE ~(n >= 4)
    <3>1. n < 1 \/ n >= 1
      OBVIOUS
    <3> QED
      BY <1>0, <1>2, <2>6, <3>1 DEF mqtt_get_id
  <2> QED
    BY <2>5, <2>6
<1> QED
  BY <1>1, <1>2

(* A part of a sequence of bytes. *)
LEMMA SliceType ==
  ASSUME NEW b \in Seq(Byte), NEW i \in Nat, NEW j \in Nat, j <= Len(b)
  PROVE  Slice(b, i, j) \in String
<1>1. \A k \in i + 1 .. j : b[k] \in Byte
  <2>1. \A k \in i + 1 .. j : k \in 1 .. Len(b)
    OBVIOUS
  <2> QED
    BY <2>1
<1> QED
  BY <1>1 DEF Slice, String

(* mqtt_get_publish_topic gives bytes of the buffer or NULL, whatever      *)
(* the bytes are.                                                          *)
LEMMA TopicType ==
  ASSUME NEW b \in Seq(Byte), NEW n \in Nat, n >= 1, n <= Len(b)
  PROVE  mqtt_get_publish_topic(b, n).text \in String \cup {NULL}
<1>1. PICK e \in 1 .. n : e = LengthEnd(b, n)
  BY LengthEndType
<1>2. CASE e + 2 >= n \/ e + 2 + Number(b, e) > n
  <2>1. mqtt_get_publish_topic(b, n) = Null(n)
    BY <1>1, <1>2 DEF mqtt_get_publish_topic
  <2> QED
    BY <2>1 DEF Null
<1>3. CASE ~(e + 2 >= n \/ e + 2 + Number(b, e) > n)
  <2>1. e + 1 \in 1 .. Len(b) /\ e + 2 \in 1 .. Len(b) /\ Len(b) \in Nat
    <3>1. Len(b) \in Nat
      OBVIOUS
    <3> QED
      BY <1>1, <1>3, <3>1
  <2>2. b[e + 1] \in Byte /\ b[e + 2] \in Byte
    BY <2>1
  <2>3. PICK t \in Nat : t = Number(b, e)
    BY <2>2, NumberType
  <2>4. e + 2 \in Nat /\ e + 2 + t \in Nat /\ e + 2 + t <= Len(b)
    <3>1. ~(e + 2 + t > n)
      BY <1>3, <2>3
    <3> QED
      BY <2>1, <3>1
  <2>5. Slice(b, e + 2, e + 2 + Number(b, e)) \in String
    BY <2>3, <2>4, SliceType
  <2>6. mqtt_get_publish_topic(b, n) = Text(Slice(b, e + 2, e + 2 + Number(b, e)))
    BY <1>1, <1>3 DEF mqtt_get_publish_topic
  <2> QED
    BY <2>5, <2>6 DEF Text
<1> QED
  BY <1>2, <1>3

(* mqtt_get_total_length gives a length, whatever the bytes are. *)
LEMMA TotalType ==
  ASSUME NEW b \in Seq(Byte), NEW n \in Nat, n >= 1, n <= Len(b)
  PROVE  mqtt_get_total_length(b, n) \in Nat
<1>1. PICK e \in 1 .. n : e = LengthEnd(b, n)
  BY LengthEndType
<1>2. ASSUME NEW j \in 1 .. 4 PROVE (IF j < e THEN b[j + 1] % 128 ELSE 0) \in Nat
  <2>1. CASE j < e
    <3>1. Len(b) \in Nat
      OBVIOUS
    <3>2. j + 1 \in 1 .. Len(b)
      BY <1>1, <2>1, <3>1
    <3>3. b[j + 1] \in Byte
      BY <3>2
    <3>4. PICK x \in 0 .. 255 : x = b[j + 1]
      BY <3>3 DEF Byte
    <3>5. x % 128 \in Nat
      OBVIOUS
    <3> QED
      BY <2>1, <3>4, <3>5
  <2>2. CASE ~(j < e)
    BY <2>2
  <2> QED
    BY <2>1, <2>2
<1> DEFINE digit(j) == IF j < e THEN b[j + 1] % 128 ELSE 0
<1>3. digit(1) \in Nat /\ digit(2) \in Nat /\ digit(3) \in Nat /\ digit(4) \in Nat
  BY <1>2
<1>4. RemainingLength(b, e) = digit(1) + 128 * digit(2) + 16384 * digit(3) + 2097152 * digit(4)
  BY SMT DEF RemainingLength
<1> HIDE DEF digit
<1>5. RemainingLength(b, e) \in Nat
  <2>1. PICK u \in Nat, v \in Nat, w \in Nat, x \in Nat :
          u = digit(1) /\ v = digit(2) /\ w = digit(3) /\ x = digit(4)
    BY <1>3
  <2>2. u + 128 * v + 16384 * w + 2097152 * x \in Nat
    BY SMT
  <2> QED
    BY <1>4, <2>1, <2>2, SMT
<1> QED
  BY <1>1, <1>5 DEF mqtt_get_total_length

(* mqtt_get_publish_data gives bytes of the buffer or NULL, whatever the   *)
(* bytes are.                                                              *)
LEMMA DataType ==
  ASSUME NEW b \in Seq(Byte), NEW n \in Nat, n >= 1, n <= Len(b)
  PROVE  mqtt_get_publish_data(b, n).text \in String \cup {NULL}
<1> DEFINE at == IF mqtt_get_qos(b) > 0 THEN BehindTopic(b, n) + 2 ELSE BehindTopic(b, n)
           total == mqtt_get_total_length(b, n)
<1>1. mqtt_get_publish_data(b, n) =
        IF ~HasBehindTopic(b, n) \/ at >= n \/ total < at THEN Null(0)
        ELSE Text(Slice(b, at, IF total <= n THEN total ELSE n))
  BY DEF mqtt_get_publish_data
<1>2. CASE ~HasBehindTopic(b, n) \/ at >= n \/ total < at
  <2> HIDE DEF at, total
  <2>1. mqtt_get_publish_data(b, n) = Null(0)
    BY <1>1, <1>2
  <2> QED
    BY <2>1 DEF Null
<1>3. CASE ~(~HasBehindTopic(b, n) \/ at >= n \/ total < at)
  <2>1. at \in Nat
    <3>1. BehindTopic(b, n) \in Nat
      BY <1>3, BehindTopicType DEF HasBehindTopic
    <3> QED
      BY <3>1
  <2>2. total \in Nat
    BY TotalType
  <2> HIDE DEF at, total
  <2>3. PICK y : y = IF total <= n THEN total ELSE n
    OBVIOUS
  <2>4. y \in Nat /\ y <= Len(b)
    <3>1. Len(b) \in Nat
      OBVIOUS
    <3> QED
      BY <2>2, <2>3, <3>1
  <2>5. Slice(b, at, y) \in String
    BY <2>1, <2>4, SliceType
  <2>6. mqtt_get_publish_data(b, n) = Text(Slice(b, at, y))
    BY <1>1, <1>3, <2>3
  <2> QED
    BY <2>5, <2>6 DEF Text
<1> QED
  BY <1>2, <1>3

-----------------------------------------------------------------------------
(* Bursts on the wire *)

(* A sequence of packets the broker sends. *)
Sends(ps) == ps \in Seq(BrokerPacket) /\ \A i \in 1 .. Len(ps) : BrokerSends(ps[i])

(* What the broker sends in one piece, in which only the last packet may   *)
(* be unfinished.                                                          *)
LEMMA BurstSends ==
  ASSUME NEW ps \in Bursts
  PROVE  Sends(ps) /\ ps # <<>> /\ \A i \in 1 .. Len(ps) : i < Len(ps) => ps[i].more = 0
<1>1. ps \in Seq(BrokerPacket) /\ ps # <<>>
  BY ReceiveAssumption DEF ReceiveAssumption
<1>2. \A i \in 1 .. Len(ps) : WellFormed(ps[i]) /\ (i < Len(ps) => ps[i].more = 0)
  BY ReceiveAssumption DEF ReceiveAssumption
<1>3. \A i \in 1 .. Len(ps) : ps[i] \in BrokerPacket
  BY <1>1
<1> QED
  BY <1>1, <1>2, <1>3 DEF Sends, BrokerSends

(* The packets of a burst, each as a sequence of bytes. *)
Wires(ps) == [i \in DOMAIN ps |-> Wire(ps[i])]

(* The packets of a burst as bytes, one sequence for each packet. *)
LEMMA WiresType ==
  ASSUME NEW ps, Sends(ps)
  PROVE  Wires(ps) \in Seq(Seq(Byte)) /\ Len(Wires(ps)) = Len(ps) /\ Len(ps) \in Nat
<1>1. PICK n \in Nat : n = Len(ps) /\ DOMAIN ps = 1 .. n
  BY DEF Sends
<1>2. \A i \in 1 .. n : Wire(ps[i]) \in Seq(Byte)
  BY <1>1, WireLayout DEF Sends
<1>3. Wires(ps) = [i \in 1 .. n |-> Wire(ps[i])]
  BY <1>1 DEF Wires
<1>4. Wires(ps) \in [1 .. n -> Seq(Byte)]
  BY <1>2, <1>3
<1>5. Wires(ps) \in Seq(Seq(Byte)) /\ Len(Wires(ps)) = n
  BY <1>4
<1> QED
  BY <1>1, <1>5

(* A burst on the wire is a sequence of bytes. *)
LEMMA EncodeType ==
  ASSUME NEW ps, Sends(ps)
  PROVE  Encode(ps) \in Seq(Byte)
<1>1. Encode(ps) = FlattenSeq(Wires(ps))
  BY DEF Encode, Wires
<1> QED
  BY <1>1, WiresType, FlattenType

(* Nothing is sent as no bytes. *)
LEMMA EncodeEmpty == Encode(<<>>) = <<>>
<1>1. [i \in DOMAIN <<>> |-> Wire(<<>>[i])] = <<>>
  OBVIOUS
<1> QED
  BY <1>1, FlattenEmpty DEF Encode

(* The first packet comes first. *)
LEMMA EncodeHead ==
  ASSUME NEW ps, Sends(ps), ps # <<>>
  PROVE  /\ Encode(ps) = Wire(ps[1]) \o Encode(Tail(ps))
         /\ Sends(Tail(ps)) /\ BrokerSends(ps[1])
<1>1. PICK n \in Nat : n = Len(ps) /\ DOMAIN ps = 1 .. n /\ n >= 1
  <2>1. ps \in Seq(BrokerPacket)
    BY DEF Sends
  <2> QED
    BY <2>1
<1>2. /\ Tail(ps) \in Seq(BrokerPacket) /\ Len(Tail(ps)) = n - 1
      /\ \A i \in 1 .. n - 1 : Tail(ps)[i] = ps[i + 1] /\ i + 1 \in 1 .. n
  <2>1. ps \in Seq(BrokerPacket)
    BY DEF Sends
  <2> QED
    BY <1>1, <2>1
<1>3. Sends(Tail(ps)) /\ BrokerSends(ps[1])
  BY <1>1, <1>2 DEF Sends
<1>4. /\ Wires(ps) \in Seq(Seq(Byte)) /\ Len(Wires(ps)) = n
      /\ Wires(Tail(ps)) \in Seq(Seq(Byte)) /\ Len(Wires(Tail(ps))) = n - 1
  BY <1>1, <1>2, <1>3, WiresType
<1>5. \A i \in 1 .. n : Wires(ps)[i] = Wire(ps[i])
  BY <1>1 DEF Wires
<1>6. \A i \in 1 .. n - 1 : Wires(Tail(ps))[i] = Wires(ps)[i + 1]
  <2>1. DOMAIN Tail(ps) = 1 .. n - 1
    BY <1>2
  <2> QED
    BY <1>2, <1>5, <2>1 DEF Wires
<1>7. Wires(ps) # <<>> /\ Head(Wires(ps)) = Wire(ps[1])
  BY <1>1, <1>4, <1>5
<1>8. Tail(Wires(ps)) = Wires(Tail(ps))
  <2>1. PICK a \in Seq(Seq(Byte)), c \in Seq(Seq(Byte)) :
          a = Wires(ps) /\ c = Wires(Tail(ps)) /\ Len(a) = n /\ Len(c) = n - 1
    BY <1>4
  <2>2. a # <<>>
    BY <1>7, <2>1
  <2>3. /\ Tail(a) \in Seq(Seq(Byte)) /\ Len(Tail(a)) = n - 1
        /\ \A i \in 1 .. n - 1 : Tail(a)[i] = a[i + 1]
    BY <1>1, <2>1, <2>2, HeadTailProperties
  <2>4. \A i \in 1 .. n - 1 : Tail(a)[i] = c[i]
    BY <1>6, <2>1, <2>3
  <2>5. Tail(a) = c
    BY <2>1, <2>3, <2>4, SeqEqual
  <2> QED
    BY <2>1, <2>5
<1>9. FlattenSeq(Wires(ps)) = Wire(ps[1]) \o FlattenSeq(Wires(Tail(ps)))
  BY <1>4, <1>7, <1>8, FlattenHead
<1>10. Encode(ps) = FlattenSeq(Wires(ps)) /\ Encode(Tail(ps)) = FlattenSeq(Wires(Tail(ps)))
  BY DEF Encode, Wires
<1> QED
  BY <1>3, <1>9, <1>10

(* Where the first packet of a burst lies. *)
LEMMA EncodeStarts ==
  ASSUME NEW ps, Sends(ps), ps # <<>>
  PROVE  /\ Encode(ps) \in Seq(Byte) /\ Wire(ps[1]) \in Seq(Byte) /\ Len(Wire(ps[1])) >= 2
         /\ Encode(Tail(ps)) \in Seq(Byte)
         /\ Len(Encode(ps)) = Len(Wire(ps[1])) + Len(Encode(Tail(ps)))
         /\ Holds(Encode(ps), 0, Wire(ps[1]))
         /\ Holds(Encode(ps), Len(Wire(ps[1])), Encode(Tail(ps)))
<1>1. PICK w \in Seq(Byte), r \in Seq(Byte), e \in Seq(Byte) :
        w = Wire(ps[1]) /\ r = Encode(Tail(ps)) /\ e = Encode(ps)
  BY EncodeHead, EncodeType, WireLayout
<1>2. e = w \o r
  BY <1>1, EncodeHead
<1>3. /\ Len(e) = Len(w) + Len(r) /\ \A k \in 1 .. Len(w) : e[k] = w[k]
      /\ \A k \in 1 .. Len(r) : e[Len(w) + k] = r[k]
  BY <1>2, ConcatIndex
<1>4. Len(w) >= 2
  <2>1. Len(Header(ps[1])) \in 2 .. 4 /\ Len(w) = Len(Header(ps[1])) + Len(Body(ps[1]))
    BY <1>1, EncodeHead, WireLayout
  <2>2. Body(ps[1]) \in Seq(Byte)
    BY EncodeHead, BodyType
  <2>3. PICK l \in Nat : l = Len(Body(ps[1]))
    BY <2>2
  <2>4. PICK h \in 2 .. 4 : h = Len(Header(ps[1]))
    BY <2>1
  <2>5. Len(w) = h + l
    BY <2>1, <2>3, <2>4
  <2> QED
    BY <2>5
<1>5. \A k \in 1 .. Len(w) : 0 + k = k
  OBVIOUS
<1>6. Holds(e, 0, w) /\ Holds(e, Len(w), r)
  BY <1>3, <1>5 DEF Holds
<1> QED
  BY <1>1, <1>3, <1>4, <1>6

-----------------------------------------------------------------------------
(* Types of the variables, and that the loop advances *)

(* What the handlers see: the segment, and older bytes behind it. *)
LEMMA CopiedType ==
  ASSUME TypeOK, Len(rest) < MQTT_BUF_SIZE
  PROVE  /\ Copied \in Seq(Byte) /\ Len(Copied) = MQTT_BUF_SIZE
         /\ \A k \in 1 .. Len(rest) : Copied[k] = rest[k]
         /\ Copied \in [1 .. MQTT_BUF_SIZE -> Byte]
<1>1. PICK n \in Nat : n = MQTT_BUF_SIZE
  BY BufferSize
<1>2. PICK r \in Seq(Byte) : r = rest /\ Len(r) < n
  BY <1>1 DEF TypeOK, String
<1>3. PICK b \in [1 .. n -> Byte] : b = in_buffer
  BY <1>1 DEF TypeOK
<1>4. b \in Seq(Byte) /\ Len(b) = n
  BY <1>3
<1>5. PICK u \in Seq(Byte) : u = SubSeq(b, Len(r) + 1, n) /\ Len(u) = n - Len(r)
  <2>1. Len(r) + 1 \in Nat /\ Len(r) + 1 >= 1 /\ Len(r) + 1 <= n + 1
    BY <1>2
  <2>2. SubSeq(b, Len(r) + 1, n) \in Seq(Byte)
        /\ Len(SubSeq(b, Len(r) + 1, n)) = n - Len(r)
    BY <1>2, <1>4, <2>1
  <2> QED
    BY <2>2
<1>6. PICK c : c = r \o u
  OBVIOUS
<1>7. /\ c \in Seq(Byte) /\ Len(c) = Len(r) + Len(u)
      /\ \A k \in 1 .. Len(r) : c[k] = r[k]
  BY <1>6, ConcatIndex
<1>8. Len(c) = n
  BY <1>2, <1>5, <1>7
<1>9. c \in [1 .. n -> Byte]
  BY <1>7, <1>8
<1>10. Copied = c
  BY <1>1, <1>2, <1>3, <1>5, <1>6 DEF Copied
<1> QED
  BY <1>1, <1>2, <1>7, <1>8, <1>9, <1>10

(* READPACKET answers with an acknowledgement, a PINGRESP or nothing. *)
LEMMA AnswerTypes ==
  ASSUME NEW type, NEW qos
  PROVE  AnswerType(type, qos) \in {0, PINGRESP} \cup Acks
  BY DEF AnswerType, Acks, PUBLISH, PUBREC, PUBREL, PINGREQ

(* The states the client starts receiving in are well typed. *)
LEMMA InitReceive == Init => TypeOK
<1> SUFFICES ASSUME Init PROVE TypeOK
  OBVIOUS
<1>1. in_buffer \in [1 .. MQTT_BUF_SIZE -> Byte]
  BY DEF Init, Byte
<1>2. <<>> \in String /\ <<>> \in Seq(String) /\ Len(<<>>) = 0
  BY DEF String
<1>3. QueueSize \in Nat /\ 0 \in 0 .. MaxId
  BY ReceiveAssumption, MaxIdType DEF ReceiveAssumption
<1> QED
  <2>1. event.topic = <<>> /\ event.data = <<>>
    BY DEF Init
  <2>2. connState \in {"MQTT_CONNECT_SENDING", "MQTT_DATA"} /\ closing \in BOOLEAN
    BY DEF Init
  <2>3. rest = <<>> /\ stream = <<>> /\ msgQueue = <<>> /\ message_id = 0
    BY DEF Init
  <2>4. rest \in String /\ stream \in String /\ msgQueue \in Seq(String)
    BY <1>2, <2>3
  <2>5. Len(msgQueue) <= QueueSize
    BY <1>2, <1>3, <2>3
  <2>6. event.topic \in String \cup {NULL} /\ event.data \in String \cup {NULL}
    BY <1>2, <2>1
  <2>7. message_id \in 0 .. MaxId
    BY <1>3, <2>3
  <2> QED
    BY <1>1, <2>2, <2>4, <2>5, <2>6, <2>7 DEF TypeOK

(* Queueing an answer keeps the queue within its size: one that does not   *)
(* fit is dropped.                                                         *)
LEMMA QueuedType ==
  ASSUME TypeOK, NEW m \in String
  PROVE  Queued(m) \in Seq(String) /\ Len(Queued(m)) <= QueueSize
<1>1. msgQueue \in Seq(String) /\ Len(msgQueue) <= QueueSize /\ QueueSize \in Nat
  BY ReceiveAssumption DEF TypeOK, ReceiveAssumption
<1>2. PICK q \in Seq(String) : q = msgQueue
  BY <1>1
<1>3. Append(q, m) \in Seq(String) /\ Len(Append(q, m)) = Len(q) + 1
  BY AppendProperties
<1>4. Len(q) \in Nat
  OBVIOUS
<1>5. CASE Len(q) < QueueSize
  <2>1. Len(q) + 1 <= QueueSize
    BY <1>1, <1>4, <1>5
  <2> QED
    BY <1>2, <1>3, <1>5, <2>1 DEF Queued
<1>6. CASE ~(Len(q) < QueueSize)
  BY <1>1, <1>2, <1>6 DEF Queued
<1> QED
  BY <1>5, <1>6

(* Answering a packet leaves a queue of messages and an identifier. *)
LEMMA AnswerQueues ==
  ASSUME TypeOK, NEW type \in {0, PINGRESP} \cup Acks, NEW id \in 0 .. MaxId, Answer(type, id)
  PROVE  /\ msgQueue' \in Seq(String) /\ Len(msgQueue') <= QueueSize
         /\ message_id' \in 0 .. MaxId
<1>1. /\ message_id \in 0 .. MaxId /\ NextId(message_id) \in 0 .. MaxId
      /\ msgQueue \in Seq(String) /\ Len(msgQueue) <= QueueSize
  <2>1. message_id \in 0 .. MaxId
    BY DEF TypeOK
  <2>2. NextId(message_id) \in 1 .. MaxId
    BY <2>1, NextIdType
  <2> QED
    BY <2>1, <2>2 DEF TypeOK
<1>2. message_id' \in 0 .. MaxId
  BY <1>1 DEF Answer
<1>3. PICK n \in 0 .. MaxId : n = IF id = 0 /\ type # PINGRESP THEN NextId(message_id) ELSE id
  BY <1>1
<1>4. CASE type = 0
  BY <1>1, <1>2, <1>4 DEF Answer
<1>5. CASE type = PINGRESP
  <2>1. msgQueue' = Queued(mqtt_msg_bare(PINGRESP))
    BY <1>5 DEF Answer, PINGRESP
  <2> QED
    BY <1>2, <2>1, PingBuilt, QueuedType
<1>6. CASE type \in Acks
  <2>1. type # 0 /\ type # PINGRESP
    BY <1>6 DEF Acks, PUBACK, PUBREC, PUBREL, PUBCOMP, PINGRESP
  <2>2. msgQueue' = Queued(mqtt_msg_ack(type, n))
    BY <1>3, <2>1 DEF Answer
  <2> QED
    BY <1>2, <1>6, <2>2, AckBuilt, QueuedType
<1> QED
  BY <1>4, <1>5, <1>6

(* A number in a uint16_t. *)
Low16(m) == m % 65536

(* The low 16 bits of a length are a number. *)
LEMMA Low16Type ==
  ASSUME NEW m \in Nat
  PROVE  Low16(m) \in Nat
  BY SMT DEF Low16

(* What is left behind a PUBLISH: the bytes from some place on, or none.   *)
LEMMA NextPacketIs ==
  ASSUME NEW r \in Seq(Byte), r = rest, NEW m \in Nat
  PROVE  /\ NextPacket(m) \in Seq(Byte)
         /\ NextPacket(m) = IF Low16(m) < Len(r) THEN SubSeq(r, Low16(m) + 1, Len(r)) ELSE <<>>
<1>1. PICK l \in Nat : l = Low16(m)
  BY Low16Type
<1>2. NextPacket(m) = IF l < Len(r) THEN SubSeq(r, l + 1, Len(r)) ELSE <<>>
  BY <1>1, SMT DEF NextPacket, Low16
<1>3. l < Len(r) => SubSeq(r, l + 1, Len(r)) \in Seq(Byte)
  OBVIOUS
<1> QED
  BY <1>1, <1>2, <1>3

(* The bytes of a segment and those that have not arrived. *)
LEMMA Split ==
  ASSUME NEW e \in Seq(Byte), NEW n \in Nat, n <= Len(e)
  PROVE  /\ SubSeq(e, 1, n) \in String /\ Len(SubSeq(e, 1, n)) = n
         /\ SubSeq(e, n + 1, Len(e)) \in String
         /\ Len(SubSeq(e, n + 1, Len(e))) = Len(e) - n
         /\ \A k \in 1 .. n : SubSeq(e, 1, n)[k] = e[k]
         /\ \A k \in 1 .. Len(e) - n : SubSeq(e, n + 1, Len(e))[k] = e[n + k]
  BY DEF String

(* What arrives: a number of bytes, of a new burst or of one under way.    *)
LEMMA Arrival ==
  ASSUME TypeOK, ArriveAny
  PROVE  \E ps, n, from :
           /\ Arrive(ps, n) /\ from = IF stream = <<>> THEN Encode(ps) ELSE stream
           /\ from \in Seq(Byte) /\ n \in Nat /\ n <= Len(from)
           /\ IF stream = <<>> THEN ps \in Bursts ELSE ps = burst
<1>1. PICK ps \in IF stream = <<>> THEN Bursts ELSE {burst} :
        \E n \in Cuts \cup {Len(IF stream = <<>> THEN Encode(ps) ELSE stream)} : Arrive(ps, n)
  BY DEF ArriveAny
<1>2. PICK from : from = IF stream = <<>> THEN Encode(ps) ELSE stream
  OBVIOUS
<1>3. PICK n \in Cuts \cup {Len(from)} : Arrive(ps, n)
  BY <1>1, <1>2
<1>4. from \in Seq(Byte)
  <2>1. CASE stream = <<>>
    BY <1>1, <1>2, <2>1, BurstSends, EncodeType
  <2>2. CASE stream # <<>>
    BY <1>2, <2>2 DEF TypeOK, String
  <2> QED
    BY <2>1, <2>2
<1>5. n \in Nat /\ n <= Len(from)
  <2>1. n <= Len(from)
    BY <1>2, <1>3 DEF Arrive
  <2>2. Len(from) \in Nat /\ Cuts \subseteq Nat
    BY <1>4, ReceiveAssumption DEF ReceiveAssumption
  <2> QED
    BY <1>3, <2>1, <2>2
<1> QED
  BY <1>1, <1>2, <1>3, <1>4, <1>5

(* RecvData, with the names of what it reads. *)
LEMMA Reads ==
  ASSUME TypeOK, rest # <<>>, Len(rest) < MQTT_BUF_SIZE
  PROVE  /\ Copied \in Seq(Byte) /\ Len(rest) \in Nat /\ Len(rest) >= 1
         /\ Len(rest) <= Len(Copied)
         /\ MQTT_BUF_SIZE \in Nat /\ MQTT_BUF_SIZE <= Len(Copied)
<1>1. PICK r \in Seq(Byte) : r = rest
  BY DEF TypeOK, String
<1>2. Len(r) \in Nat /\ Len(r) >= 1
  BY <1>1
<1>3. PICK n \in Nat : n = MQTT_BUF_SIZE
  BY BufferSize
<1>4. Copied \in Seq(Byte) /\ Len(Copied) = n
  BY <1>3, CopiedType
<1> QED
  BY <1>1, <1>2, <1>3, <1>4

(* Every step keeps the types. *)
LEMMA NextReceive == TypeOK /\ [Next]_vars => TypeOK'
<1> SUFFICES ASSUME TypeOK, [Next]_vars PROVE TypeOK'
  OBVIOUS
<1>1. ASSUME ArriveAny PROVE TypeOK'
  <2>1. PICK ps, n, from :
           /\ Arrive(ps, n) /\ from = IF stream = <<>> THEN Encode(ps) ELSE stream
           /\ from \in Seq(Byte) /\ n \in Nat /\ n <= Len(from)
    BY <1>1, Arrival
  <2>2. rest' = SubSeq(from, 1, n) /\ stream' = SubSeq(from, n + 1, Len(from))
    BY <2>1 DEF Arrive
  <2>3. rest' \in String /\ stream' \in String
    BY <2>1, <2>2, Split
  <2>4. UNCHANGED <<linkVars, in_buffer, msgQueue, message_id, event>>
    BY <2>1 DEF Arrive
  <2> QED
    BY <2>3, <2>4 DEF TypeOK, linkVars
<1>2. ASSUME rest # <<>>, RecvTooLong PROVE TypeOK'
  <2>1. rest' \in String
    BY <1>2 DEF RecvTooLong, String
  <2> QED
    BY <1>2, <2>1 DEF RecvTooLong, TypeOK, linkVars
<1>3. ASSUME rest # <<>>, RecvConnack PROVE TypeOK'
  <2>1. rest' \in String
    BY <1>3 DEF RecvConnack, String
  <2>2. in_buffer' \in [1 .. MQTT_BUF_SIZE -> Byte]
    BY <1>3, CopiedType DEF RecvConnack
  <2>3. connState' \in {"MQTT_CONNECT_SENDING", "MQTT_DATA"} /\ closing' \in BOOLEAN
    BY <1>3 DEF RecvConnack, TypeOK
  <2>4. UNCHANGED <<msgQueue, message_id, event, stream>>
    BY <1>3 DEF RecvConnack
  <2> QED
    BY <2>1, <2>2, <2>3, <2>4 DEF TypeOK
<1>4. ASSUME rest # <<>>, RecvData PROVE TypeOK'
  <2>1. Len(rest) < MQTT_BUF_SIZE
    BY <1>4 DEF RecvData
  <2>2. /\ Copied \in Seq(Byte) /\ Len(rest) \in Nat /\ Len(rest) >= 1
        /\ Len(rest) <= Len(Copied)
        /\ MQTT_BUF_SIZE \in Nat /\ MQTT_BUF_SIZE <= Len(Copied)
    BY <1>4, <2>1, Reads
  <2>3. in_buffer' \in [1 .. MQTT_BUF_SIZE -> Byte]
    BY <1>4, <2>1, CopiedType DEF RecvData
  <2>4. /\ msgQueue' \in Seq(String) /\ Len(msgQueue') <= QueueSize
        /\ message_id' \in 0 .. MaxId
    <3>1. PICK id : id = mqtt_get_id(Copied, MQTT_BUF_SIZE) /\ id \in 0 .. MaxId
      BY <2>2, GetIdType
    <3>2. PICK type : /\ type = AnswerType(mqtt_get_type(Copied), mqtt_get_qos(Copied))
                      /\ type \in {0, PINGRESP} \cup Acks
      BY AnswerTypes
    <3>3. Answer(type, id)
      BY <1>4, <3>1, <3>2 DEF RecvData
    <3> QED
      BY <3>1, <3>2, <3>3, AnswerQueues
  <2>5. event'.topic \in String \cup {NULL} /\ event'.data \in String \cup {NULL}
    <3>1. CASE mqtt_get_type(Copied) = PUBLISH
      <4>1. event' = deliver_publish(Copied, Len(rest))
        BY <1>4, <3>1 DEF RecvData
      <4>2. /\ event'.topic = mqtt_get_publish_topic(Copied, Len(rest)).text
            /\ event'.data = mqtt_get_publish_data(Copied, Len(rest)).text
        BY <4>1 DEF deliver_publish
      <4> QED
        BY <2>2, <4>2, TopicType, DataType
    <3>2. CASE mqtt_get_type(Copied) # PUBLISH
      BY <1>4, <3>2 DEF RecvData, TypeOK
    <3> QED
      BY <3>1, <3>2
  <2>6. rest' \in String
    <3>1. CASE mqtt_get_type(Copied) = PUBLISH
      <4>1. PICK m \in Nat : m = mqtt_get_total_length(Copied, Len(rest))
        BY <2>2, TotalType
      <4>2. rest' = NextPacket(m)
        BY <1>4, <3>1, <4>1 DEF RecvData
      <4> QED
        BY <4>2, NextPacketIs DEF TypeOK, String
    <3>2. CASE mqtt_get_type(Copied) # PUBLISH
      BY <1>4, <3>2 DEF RecvData, String
    <3> QED
      BY <3>1, <3>2
  <2>7. UNCHANGED <<linkVars, stream>>
    BY <1>4 DEF RecvData
  <2> QED
    BY <2>3, <2>4, <2>5, <2>6, <2>7 DEF TypeOK, linkVars
<1>5. ASSUME TaskSends PROVE TypeOK'
  <2>1. msgQueue \in Seq(String) /\ msgQueue # <<>> /\ msgQueue' = Tail(msgQueue)
        /\ Len(msgQueue) <= QueueSize /\ QueueSize \in Nat
    BY <1>5, ReceiveAssumption DEF TaskSends, TypeOK, ReceiveAssumption
  <2>2. PICK q \in Seq(String) : q = msgQueue /\ q # <<>>
    BY <2>1
  <2>3. Tail(q) \in Seq(String) /\ Len(Tail(q)) = Len(q) - 1 /\ Len(q) \in Nat
    BY <2>2, HeadTailProperties
  <2>4. msgQueue' \in Seq(String) /\ Len(msgQueue') <= QueueSize
    BY <2>1, <2>2, <2>3
  <2>5. UNCHANGED <<linkVars, in_buffer, rest, message_id, event, stream>>
    BY <1>5 DEF TaskSends
  <2> QED
    BY <2>4, <2>5 DEF TypeOK, linkVars
<1>6. ASSUME Reconnect PROVE TypeOK'
  <2>1. message_id' \in 0 .. MaxId /\ stream' \in String
    BY <1>6, MaxIdType DEF Reconnect, String
  <2> QED
    BY <1>6, <2>1 DEF Reconnect, TypeOK
<1>7. ASSUME UNCHANGED vars PROVE TypeOK'
  BY <1>7 DEF vars, TypeOK, linkVars
<1> QED
  BY <1>1, <1>2, <1>3, <1>4, <1>5, <1>6, <1>7 DEF Next, READPACKET

(* The variables have their types; in particular nothing is ever copied    *)
(* beyond the end of in_buffer, and msgQueue never holds more than fits.   *)
THEOREM TypeCorrect == Spec => []TypeOK
<1> QED
  BY InitReceive, NextReceive, PTL DEF Spec

(* A turn of READPACKET consumes bytes, unless the length it computed is   *)
(* 0 modulo 2^16.                                                          *)
LEMMA TurnAdvances ==
  ASSUME TypeOK, READPACKET
  PROVE  \/ Len(rest') < Len(rest)
         \/ mqtt_get_total_length(rest, Len(rest)) % 65536 = 0
<1>1. PICK r \in Seq(Byte) : r = rest /\ Len(r) \in Nat /\ Len(r) >= 1
  <2>1. rest \in Seq(Byte) /\ rest # <<>>
    BY DEF TypeOK, String, READPACKET
  <2> QED
    BY <2>1
<1>2. ASSUME rest' = <<>> PROVE Len(rest') < Len(rest)
  BY <1>1, <1>2
<1>3. CASE RecvTooLong \/ RecvConnack
  BY <1>2, <1>3 DEF RecvTooLong, RecvConnack
<1>4. CASE RecvData
  <2>1. Len(rest) < MQTT_BUF_SIZE
    BY <1>4 DEF RecvData
  <2>2. /\ Copied \in Seq(Byte) /\ Len(rest) <= Len(Copied)
        /\ \A k \in 1 .. Len(rest) : Copied[k] = rest[k]
    BY <2>1, CopiedType, Reads DEF READPACKET
  <2>3. CASE mqtt_get_type(Copied) = PUBLISH
    <3>1. PICK m \in Nat : m = mqtt_get_total_length(Copied, Len(rest))
      BY <1>1, <2>2, TotalType
    <3>2. m = mqtt_get_total_length(rest, Len(rest))
      BY <1>1, <2>2, <3>1, TotalAgrees
    <3>3. rest' = NextPacket(m)
      BY <1>4, <2>3, <3>1 DEF RecvData
    <3>4. PICK l \in Nat : l = Low16(m)
      BY Low16Type
    <3>5. NextPacket(m) = IF l < Len(r) THEN SubSeq(r, l + 1, Len(r)) ELSE <<>>
      BY <1>1, <3>4, NextPacketIs
    <3>6. CASE l # 0 /\ l < Len(r)
      <4>1. Len(SubSeq(r, l + 1, Len(r))) = Len(r) - l
        BY <1>1, <3>6
      <4>2. Len(r) - l < Len(r)
        BY <1>1, <3>6
      <4>3. rest' = SubSeq(r, l + 1, Len(r))
        BY <3>3, <3>5, <3>6
      <4>4. Len(rest') < Len(r)
        BY <4>1, <4>2, <4>3
      <4> QED
        BY <1>1, <4>4
    <3>7. CASE ~(l < Len(r))
      BY <1>2, <3>3, <3>5, <3>7
    <3>8. CASE l = 0
      BY <3>2, <3>4, <3>8 DEF Low16
    <3> QED
      BY <3>6, <3>7, <3>8
  <2>4. CASE mqtt_get_type(Copied) # PUBLISH
    BY <1>2, <1>4, <2>4 DEF RecvData
  <2> QED
    BY <2>3, <2>4
<1> QED
  BY <1>3, <1>4 DEF READPACKET

(* Every turn of the receive loop shortens what is left of the segment, so *)
(* that the callback returns, except at a PUBLISH whose length on the wire *)
(* is a multiple of 65536: whatever the broker sends, cut anywhere.        *)
THEOREM CallbackReturns == Spec => LoopAdvances
<1>1. TypeOK /\ [Next]_vars =>
        [READPACKET =>
           \/ Len(rest') < Len(rest)
           \/ mqtt_get_total_length(rest, Len(rest)) % 65536 = 0]_vars
  BY TurnAdvances
<1> QED
  BY <1>1, TypeCorrect, PTL DEF Spec, LoopAdvances

-----------------------------------------------------------------------------
(* A PUBLISH that TCP cuts *)

(* The segment and what has not arrived are the end of the burst.          *)
BurstIs ==
  \/ burst = <<>> /\ stream = <<>> /\ rest = <<>>
  \/ /\ burst \in Bursts
     /\ \E j \in Nat : /\ j + Len(stream) = Len(Encode(burst))
                       /\ Holds(Encode(burst), j, stream)
                       /\ \E i \in Nat : i + Len(rest) = j /\ Holds(Encode(burst), i, rest)

(* A piece cut from a piece that e holds. *)
LEMMA HoldsPiece ==
  ASSUME NEW e, NEW i \in Nat, NEW s, NEW l \in Nat, l = Len(s), Holds(e, i, s),
         NEW n \in Nat, NEW u, NEW m \in Nat, m = Len(u), n + m <= l,
         \A k \in 1 .. m : u[k] = s[n + k]
  PROVE  Holds(e, i + n, u)
<1>1. \A k \in 1 .. m : n + k \in 1 .. l /\ (i + n) + k = i + (n + k)
  OBVIOUS
<1> QED
  BY <1>1 DEF Holds

(* Nothing is found anywhere. *)
LEMMA HoldsNothing ==
  ASSUME NEW e, NEW i
  PROVE  Holds(e, i, <<>>)
  BY DEF Holds

(* When bytes are thrown away up to the end of the segment, or up to some  *)
(* place in it.                                                            *)
LEMMA BurstStays ==
  ASSUME TypeOK, BurstIs, UNCHANGED <<burst, stream>>,
         \/ rest' = <<>>
         \/ \E l \in Nat : l < Len(rest) /\ rest' = SubSeq(rest, l + 1, Len(rest))
  PROVE  BurstIs'
<1>1. CASE burst = <<>> /\ stream = <<>> /\ rest = <<>>
  <2>1. rest' = <<>>
    BY <1>1
  <2> QED
    BY <1>1, <2>1 DEF BurstIs
<1>2. CASE burst \in Bursts
  <2> DEFINE e == Encode(burst)
  <2>1. PICK j \in Nat : j + Len(stream) = Len(e) /\ Holds(e, j, stream)
                      /\ (\E i \in Nat : i + Len(rest) = j /\ Holds(e, i, rest))
    <3>1. CASE burst = <<>>
      BY <1>2, <3>1, BurstSends
    <3>2. CASE burst # <<>>
      BY <3>2 DEF BurstIs
    <3> QED
      BY <3>1, <3>2
  <2>2. PICK i \in Nat : i + Len(rest) = j /\ Holds(e, i, rest)
    BY <2>1
  <2> HIDE DEF e
  <2>3. \E i2 \in Nat : i2 + Len(rest') = j /\ Holds(e, i2, rest')
    <3>1. CASE rest' = <<>>
      <4>1. j + Len(rest') = j
        BY <3>1
      <4> QED
        BY <3>1, <4>1, HoldsNothing
    <3>2. CASE \E l \in Nat : l < Len(rest) /\ rest' = SubSeq(rest, l + 1, Len(rest))
      <4>1. PICK l \in Nat : l < Len(rest) /\ rest' = SubSeq(rest, l + 1, Len(rest))
        BY <3>2
      <4>2. PICK r \in Seq(Byte), n \in Nat : r = rest /\ n = Len(r)
        <5>1. rest \in Seq(Byte)
          BY DEF TypeOK, String
        <5>2. Len(rest) \in Nat
          BY <5>1
        <5> QED
          BY <5>1, <5>2
      <4>a. PICK u : u = SubSeq(r, l + 1, n)
        OBVIOUS
      <4>3. u = rest' /\ l < n /\ i + n = j /\ Holds(e, i, r)
        BY <2>2, <4>1, <4>2, <4>a
      <4>4. Len(u) = n - l /\ \A k \in 1 .. n - l : u[k] = r[l + k]
        <5>1. l \in Nat /\ l < n
          BY <4>3
        <5>2. r \in Seq(Byte) /\ n = Len(r)
          BY <4>2
        <5> QED
          BY ONLY <4>a, <5>1, <5>2, n \in Nat
      <4>5. Holds(e, i + l, u)
        <5>1. n - l \in Nat /\ l + (n - l) <= n
          BY <4>3
        <5> QED
          BY <4>2, <4>3, <4>4, <5>1, HoldsPiece
      <4>6. i + l + (n - l) = j /\ i + l \in Nat
        BY <4>3
      <4> QED
        BY <4>3, <4>4, <4>5, <4>6
    <3> QED
      BY <3>1, <3>2
  <2> QED
    BY <1>2, <2>1, <2>3 DEF BurstIs, e
<1> QED
  BY <1>1, <1>2 DEF BurstIs

(* A segment that arrives is the next part of the burst. *)
LEMMA BurstArrives ==
  ASSUME TypeOK, BurstIs, ArriveAny
  PROVE  BurstIs'
<1>1. PICK ps, n, from :
           /\ Arrive(ps, n) /\ from = IF stream = <<>> THEN Encode(ps) ELSE stream
           /\ from \in Seq(Byte) /\ n \in Nat /\ n <= Len(from)
           /\ IF stream = <<>> THEN ps \in Bursts ELSE ps = burst
  BY Arrival
<1>2. PICK a, c : a = SubSeq(from, 1, n) /\ c = SubSeq(from, n + 1, Len(from))
  OBVIOUS
<1>3. rest' = a /\ stream' = c /\ burst' = ps /\ rest = <<>>
  BY <1>1, <1>2 DEF Arrive
<1>4. PICK l \in Nat : l = Len(from) /\ n <= l
  BY <1>1
<1>5. /\ a \in Seq(Byte) /\ Len(a) = n /\ c \in Seq(Byte) /\ Len(c) = l - n
      /\ \A k \in 1 .. n : a[k] = from[k]
      /\ \A k \in 1 .. l - n : c[k] = from[n + k]
  BY <1>1, <1>2, <1>4, Split DEF String
<1>6. PICK e, i : /\ e = Encode(ps) /\ i \in Nat /\ i + l = Len(e) /\ Holds(e, i, from)
                  /\ ps \in Bursts
  <2>1. CASE stream = <<>>
    <3>1. from = Encode(ps) /\ ps \in Bursts
      BY <1>1, <2>1
    <3>2. Holds(from, 0, from)
      <4>1. \A k \in 1 .. Len(from) : 0 + k = k
        BY <1>4
      <4> QED
        BY <4>1 DEF Holds
    <3>3. 0 \in Nat /\ 0 + l = Len(from)
      BY <1>4
    <3> QED
      BY <3>1, <3>2, <3>3
  <2>2. CASE stream # <<>>
    <3>1. from = stream /\ ps = burst
      BY <1>1, <2>2
    <3>2. burst \in Bursts /\ \E j \in Nat : j + Len(stream) = Len(Encode(burst))
                                          /\ Holds(Encode(burst), j, stream)
      BY <2>2 DEF BurstIs
    <3> QED
      BY <1>4, <3>1, <3>2
  <2> QED
    BY <2>1, <2>2
<1>a. n \in Nat /\ l \in Nat /\ n <= l /\ i \in Nat
  BY <1>1, <1>4, <1>6
<1>7. Holds(e, i, a)
  <2>1. 0 + n <= l /\ i + 0 = i
    BY <1>a
  <2>2. \A k \in 1 .. n : a[k] = from[0 + k]
    BY <1>5
  <2>3. Holds(e, i + 0, a)
    BY <1>4, <1>5, <1>6, <1>a, <2>1, <2>2, HoldsPiece
  <2> QED
    BY <2>1, <2>3
<1>8. Holds(e, i + n, c)
  <2>1. n + (l - n) <= l /\ l - n \in Nat
    BY <1>a
  <2> QED
    BY <1>4, <1>5, <1>6, <1>a, <2>1, HoldsPiece
<1>9. i + n \in Nat /\ i + n + Len(c) = Len(e) /\ i + Len(a) = i + n
  <2>1. i + n \in Nat /\ i + n + (l - n) = i + l
    BY <1>a
  <2> QED
    BY <1>5, <1>6, <2>1
<1> QED
  BY <1>3, <1>6, <1>7, <1>8, <1>9 DEF BurstIs

(* What has not been handled yet is always the end of what the broker      *)
(* sent.                                                                   *)
LEMMA BurstIsHolds == Spec => []BurstIs
<1>1. Init => BurstIs
  BY DEF Init, BurstIs
<1>2. TypeOK /\ BurstIs /\ [Next]_vars => BurstIs'
  <2> SUFFICES ASSUME TypeOK, BurstIs, [Next]_vars PROVE BurstIs'
    OBVIOUS
  <2>1. CASE ArriveAny
    BY <2>1, BurstArrives
  <2>2. ASSUME RecvTooLong \/ RecvConnack PROVE BurstIs'
    <3>1. UNCHANGED <<burst, stream>> /\ rest' = <<>>
      BY <2>2 DEF RecvTooLong, RecvConnack
    <3> QED
      BY <3>1, BurstStays
  <2>3. ASSUME rest # <<>>, RecvData PROVE BurstIs'
    <3>1. UNCHANGED <<burst, stream>>
      BY <2>3 DEF RecvData
    <3>2. \/ rest' = <<>>
          \/ \E l \in Nat : l < Len(rest) /\ rest' = SubSeq(rest, l + 1, Len(rest))
      <4>1. CASE mqtt_get_type(Copied) = PUBLISH
        <5>1. PICK m \in Nat : m = mqtt_get_total_length(Copied, Len(rest))
          BY <2>3, Reads, TotalType DEF RecvData
        <5>2. rest' = NextPacket(m)
          BY <2>3, <4>1, <5>1 DEF RecvData
        <5>3. rest \in Seq(Byte)
          BY DEF TypeOK, String
        <5>4. NextPacket(m) = IF Low16(m) < Len(rest)
                                THEN SubSeq(rest, Low16(m) + 1, Len(rest)) ELSE <<>>
          BY <5>3, NextPacketIs
        <5> QED
          BY <5>2, <5>4, Low16Type
      <4>2. CASE mqtt_get_type(Copied) # PUBLISH
        BY <2>3, <4>2 DEF RecvData
      <4> QED
        BY <4>1, <4>2
    <3> QED
      BY <3>1, <3>2, BurstStays
  <2>4. CASE TaskSends
    BY <2>4 DEF TaskSends, BurstIs
  <2>5. CASE Reconnect
    BY <2>5 DEF Reconnect, BurstIs
  <2>6. CASE UNCHANGED vars
    BY <2>6 DEF vars, BurstIs
  <2> QED
    BY <2>1, <2>2, <2>3, <2>4, <2>5, <2>6 DEF Next, READPACKET
<1> QED
  BY <1>1, <1>2, TypeCorrect, PTL DEF Spec

(* The answer to a PUBLISH of some quality of service. *)
Answering(p) == IF p.qos = 1 THEN PUBACK ELSE PUBREC

(* What the handler makes of a PUBLISH that is first in the segment.       *)
LEMMA PublishHandled ==
  ASSUME TypeOK, RecvData, rest # <<>>,
         NEW p, NEW h, NEW t, NEW i, NEW d, Arrived(p, h, t, i, d, Copied, Len(rest)),
         Len(rest) <= Len(Wire(p)) \/ p.more = 0
  PROVE  /\ event'.topic = IF Len(rest) >= h + 2 + t THEN p.topic ELSE NULL
         /\ IsPrefix(Present(event'.data), p.data)
         /\ Len(rest) >= Len(Wire(p)) => Present(event'.data) = p.data
         /\ p.qos > 0 /\ Len(rest) >= h + 2 + t + 2 =>
              msgQueue' = Queued(mqtt_msg_ack(Answering(p), p.id))
         /\ p.qos = 0 => msgQueue' = msgQueue
<1>1. mqtt_get_type(Copied) = PUBLISH /\ mqtt_get_qos(Copied) = p.qos
  BY PublishArrived DEF Arrived
<1>2. event' = deliver_publish(Copied, Len(rest))
  BY <1>1 DEF RecvData
<1>3. /\ event'.topic = mqtt_get_publish_topic(Copied, Len(rest)).text
      /\ event'.data = mqtt_get_publish_data(Copied, Len(rest)).text
  BY <1>2 DEF deliver_publish
<1>4. PICK q \in 0 .. 2 : q = p.qos
  BY DEF Arrived, BrokerSends, BrokerPacket
<1>5. Answer(AnswerType(PUBLISH, q), mqtt_get_id(Copied, MQTT_BUF_SIZE))
  BY <1>1, <1>4 DEF RecvData
<1>6. ASSUME p.qos > 0, Len(rest) >= h + 2 + t + 2
      PROVE  msgQueue' = Queued(mqtt_msg_ack(Answering(p), p.id))
  <2>1. mqtt_get_id(Copied, MQTT_BUF_SIZE) = p.id
    <3>1. MQTT_BUF_SIZE \in Nat /\ MQTT_BUF_SIZE > Len(rest)
      BY BufferSize, Reads DEF RecvData
    <3> QED
      BY <1>6, <3>1, IdRead
  <2>2. p.id # 0
    BY <1>6 DEF Arrived, BrokerSends, WellFormed
  <2>3. q = 1 \/ q = 2
    BY <1>4, <1>6
  <2>4. AnswerType(PUBLISH, q) = Answering(p)
    BY <1>4, <2>3 DEF AnswerType, Answering, PUBLISH, PUBREC, PUBREL, PINGREQ
  <2>5. Answering(p) # 0 /\ Answering(p) # PINGRESP
    BY DEF Answering, PUBACK, PUBREC, PINGRESP
  <2> QED
    BY <1>5, <2>1, <2>2, <2>4, <2>5 DEF Answer
<1>7. ASSUME p.qos = 0 PROVE msgQueue' = msgQueue
  <2>1. AnswerType(PUBLISH, q) = 0
    BY <1>4, <1>7 DEF AnswerType, PUBLISH, PUBREC, PUBREL, PINGREQ
  <2> QED
    BY <1>5, <2>1 DEF Answer
<1> QED
  BY <1>3, <1>6, <1>7, TopicRead, DataRead

(* The first packet of the burst lies at the beginning of the segment.     *)
LEMMA FirstArrived ==
  ASSUME TypeOK, BurstIs, AtFirstPublish
  PROVE  \E h, t, i, d :
           /\ Arrived(burst[1], h, t, i, d, Copied, Len(rest))
           /\ PublishAt(burst[1], h, t, i, d)
           /\ Len(rest) <= Len(Wire(burst[1])) \/ burst[1].more = 0
<1>1. /\ burst # <<>> /\ burst[1].type = PUBLISH /\ rest # <<>>
      /\ Len(rest) < MQTT_BUF_SIZE /\ Len(rest) + Len(stream) = Len(Encode(burst))
  BY DEF AtFirstPublish
<1>2. burst \in Bursts
  BY <1>1 DEF BurstIs
<1>3. Sends(burst) /\ \A k \in 1 .. Len(burst) : k < Len(burst) => burst[k].more = 0
  BY <1>2, BurstSends
<1>4. PICK p, w, e, n : p = burst[1] /\ w = Wire(p) /\ e = Encode(burst) /\ n = Len(rest)
  OBVIOUS
<1>5. /\ BrokerSends(p) /\ p.type = PUBLISH
      /\ w \in Seq(Byte) /\ Len(e) = Len(w) + Len(Encode(Tail(burst))) /\ Holds(e, 0, w)
      /\ Encode(Tail(burst)) \in Seq(Byte)
  BY <1>1, <1>3, <1>4, EncodeHead, EncodeStarts
<1>6. n \in Nat /\ n >= 1 /\ Copied \in Seq(Byte) /\ n <= Len(Copied)
      /\ \A k \in 1 .. n : Copied[k] = rest[k]
  BY <1>1, <1>4, Reads, CopiedType
<1>7. \A k \in 1 .. n : rest[k] = e[0 + k]
  <2>1. PICK j \in Nat : j + Len(stream) = Len(e)
                         /\ \E i \in Nat : i + n = j /\ Holds(e, i, rest)
    BY <1>1, <1>4 DEF BurstIs
  <2>2. PICK i \in Nat : i + n = j /\ Holds(e, i, rest)
    BY <2>1
  <2>3. PICK s \in Nat : s = Len(stream)
    <3>1. stream \in Seq(Byte)
      BY DEF TypeOK, String
    <3> QED
      BY <3>1
  <2>4. n + s = Len(e) /\ j + s = Len(e)
    BY <1>1, <1>4, <2>1, <2>3
  <2>5. i = 0
    BY <1>6, <2>2, <2>4
  <2> QED
    BY <1>4, <2>2, <2>5 DEF Holds
<1>8. Starts(Copied, n, w)
  <2>1. ASSUME NEW k \in 1 .. n, k <= Len(w) PROVE Copied[k] = w[k]
    <3>1. k \in 1 .. Len(w) /\ 0 + k = k
      <4>1. Len(w) \in Nat
        BY <1>5
      <4> QED
        BY <2>1, <4>1
    <3> QED
      BY <1>5, <1>6, <1>7, <3>1 DEF Holds
  <2> QED
    BY <2>1 DEF Starts
<1>9. PICK h, t, i, d : PublishAt(p, h, t, i, d)
  BY <1>5, PublishExists
<1>10. n <= Len(w) \/ p.more = 0
  <2>a. PICK b \in Seq(BrokerPacket), l \in Nat : b = burst /\ l = Len(b)
    <3>1. burst \in Seq(BrokerPacket)
      BY <1>3 DEF Sends
    <3>2. Len(burst) \in Nat
      BY <3>1
    <3> QED
      BY <3>1, <3>2
  <2>1. CASE Len(burst) = 1
    <3>1. Tail(burst) = <<>>
      <4>1. Tail(b) \in Seq(BrokerPacket) /\ Len(Tail(b)) = 0
        BY <1>1, <2>1, <2>a, HeadTailProperties
      <4>2. Tail(b) = <<>>
        BY <4>1, EmptySeq
      <4> QED
        BY <2>a, <4>2
    <3>2. Len(Encode(Tail(burst))) = 0
      <4>1. Len(<<>>) = 0
        OBVIOUS
      <4> QED
        BY <3>1, <4>1, EncodeEmpty
    <3>3. PICK a \in Nat, s \in Nat : a = Len(w) /\ s = Len(stream)
      <4>1. stream \in Seq(Byte)
        BY DEF TypeOK, String
      <4> QED
        BY <1>5, <4>1
    <3>4. n + s = a + 0
      BY <1>1, <1>4, <1>5, <3>2, <3>3
    <3> QED
      BY <1>6, <3>3, <3>4
  <2>2. CASE Len(burst) # 1
    <3>1. 1 \in 1 .. Len(burst) /\ 1 < Len(burst)
      <4>1. l # 0
        BY <1>1, <2>a
      <4> QED
        BY <2>2, <2>a, <4>1
    <3> QED
      BY <1>3, <1>4, <3>1
  <2> QED
    BY <2>1, <2>2
<1> QED
  BY <1>4, <1>5, <1>6, <1>8, <1>9, <1>10 DEF Arrived

(* What the first segment of a PUBLISH gives to the data callback,         *)
(* however little of the packet has arrived: the topic or NULL, and a      *)
(* prefix of the payload; an answer has the packet's own identifier.       *)
LEMMA CutDelivered ==
  ASSUME TypeOK, BurstIs, RecvData, AtFirstPublish
  PROVE  LET p == burst[1]
             behind == Len(Header(p)) + 2 + Len(p.topic)
         IN  /\ event'.topic = IF Len(rest) >= behind THEN p.topic ELSE NULL
             /\ IsPrefix(Present(event'.data), p.data)
             /\ p.qos > 0 /\ Len(rest) >= behind + 2 /\ msgQueue' # msgQueue =>
                  Number(Last(msgQueue'), 2) = p.id
<1>1. PICK p : p = burst[1]
  OBVIOUS
<1>2. PICK h, t, i, d : /\ Arrived(p, h, t, i, d, Copied, Len(rest))
                        /\ PublishAt(p, h, t, i, d)
                        /\ Len(rest) <= Len(Wire(p)) \/ p.more = 0
  BY <1>1, FirstArrived
<1>3. Len(Header(p)) + 2 + Len(p.topic) = h + 2 + t
  BY <1>2 DEF PublishAt
<1>4. rest # <<>>
  BY DEF AtFirstPublish
<1>5. /\ event'.topic = IF Len(rest) >= h + 2 + t THEN p.topic ELSE NULL
      /\ IsPrefix(Present(event'.data), p.data)
      /\ p.qos > 0 /\ Len(rest) >= h + 2 + t + 2 =>
              msgQueue' = Queued(mqtt_msg_ack(Answering(p), p.id))
  BY <1>2, <1>4, PublishHandled
<1>6. ASSUME p.qos > 0, Len(rest) >= h + 2 + t + 2, msgQueue' # msgQueue
      PROVE  Number(Last(msgQueue'), 2) = p.id
  <2>1. p.id \in 0 .. MaxId
    BY <1>2 DEF Arrived, BrokerSends, BrokerPacket
  <2>2. Answering(p) \in Acks
    BY DEF Answering, Acks
  <2>3. PICK m \in String : m = mqtt_msg_ack(Answering(p), p.id) /\ Number(m, 2) = p.id
    BY <2>1, <2>2, AckBuilt
  <2>4. msgQueue' = Append(msgQueue, m)
    BY <1>5, <1>6, <2>3 DEF Queued
  <2>5. msgQueue \in Seq(String)
    BY DEF TypeOK
  <2>6. Last(msgQueue') = m
    <3>1. PICK q \in Seq(String) : q = msgQueue
      BY <2>5
    <3>2. PICK a : a = Append(q, m)
      OBVIOUS
    <3>3. Len(a) = Len(q) + 1 /\ a[Len(q) + 1] = m
      BY <3>2, AppendProperties
    <3> QED
      BY <2>4, <3>1, <3>2, <3>3 DEF Last
  <2> QED
    BY <2>3, <2>6
<1> QED
  BY <1>1, <1>3, <1>5, <1>6

(* A PUBLISH that TCP cuts is delivered as far as it has arrived: with its *)
(* topic exactly if that is there, a prefix of its payload and nothing of  *)
(* what an earlier segment left in in_buffer, and the identifier of the    *)
(* answer is its own if that has arrived.                                  *)
THEOREM CutDelivery == Spec => CutPublishDelivered
<1>1. TypeOK /\ BurstIs /\ [Next]_vars =>
        [RecvData /\ AtFirstPublish =>
           LET p == burst[1]
               behind == Len(Header(p)) + 2 + Len(p.topic)
           IN  /\ event'.topic = IF Len(rest) >= behind THEN p.topic ELSE NULL
               /\ IsPrefix(Present(event'.data), p.data)
               /\ p.qos > 0 /\ Len(rest) >= behind + 2 /\ msgQueue' # msgQueue =>
                    Number(Last(msgQueue'), 2) = p.id]_vars
  BY CutDelivered
<1> QED
  BY <1>1, TypeCorrect, BurstIsHolds, PTL DEF Spec, CutPublishDelivered

-----------------------------------------------------------------------------
(* Segments of whole packets *)

(* Every packet that the broker announces it sends. *)
WholePackets == \A s \in Bursts : \A i \in 1 .. Len(s) : s[i].more = 0

(* An answer as Delivery sees it. *)
AnswerIn(m) == [type |-> mqtt_get_type(m), id |-> IF Len(m) = 2 THEN 0 ELSE Number(m, 2)]

(* A message queued at the end is an answer waiting at the end. *)
LEMMA WaitingAppend ==
  ASSUME NEW q \in Seq(String), NEW m \in String
  PROVE  /\ Waiting(Append(q, m)) = Append(Waiting(q), AnswerIn(m))
         /\ Len(Waiting(q)) = Len(q)
<1>1. PICK a : a = Append(q, m)
  OBVIOUS
<1>2. PICK n \in Nat : n = Len(q) /\ DOMAIN q = 1 .. n
  OBVIOUS
<1>3. /\ DOMAIN a = 1 .. n + 1 /\ a[n + 1] = m /\ \A i \in 1 .. n : a[i] = q[i]
  BY <1>1, <1>2, AppendProperties
<1>4. PICK w, x : w = Waiting(q) /\ x = Waiting(a)
  OBVIOUS
<1>5. w = [i \in 1 .. n |-> AnswerIn(q[i])] /\ x = [i \in 1 .. n + 1 |-> AnswerIn(a[i])]
  BY <1>2, <1>3, <1>4 DEF Waiting, AnswerIn
<1> DEFINE S == {AnswerIn(s) : s \in String}
<1>6. w \in Seq(S) /\ Len(w) = n /\ AnswerIn(m) \in S
  <2>1. w \in [1 .. n -> S]
    BY <1>2, <1>5
  <2> HIDE DEF S
  <2>2. w \in Seq(S) /\ Len(w) = n
    BY <1>2, <2>1
  <2> QED
    BY <2>2 DEF S
<1> HIDE DEF S
<1>7. x = Append(w, AnswerIn(m))
  <2>1. PICK y : y = Append(w, AnswerIn(m))
    OBVIOUS
  <2>2. /\ y \in Seq(S) /\ Len(y) = n + 1 /\ y[n + 1] = AnswerIn(m)
        /\ \A i \in 1 .. n : y[i] = w[i]
    BY <1>2, <1>6, <2>1, AppendProperties
  <2>3. \A i \in 1 .. n + 1 : x[i] = AnswerIn(a[i])
    BY <1>5
  <2>4. \A i \in 1 .. n : w[i] = AnswerIn(a[i]) /\ i \in 1 .. n + 1
    BY <1>2, <1>3, <1>5
  <2>5. \A i \in 1 .. n + 1 : i \in 1 .. n \/ i = n + 1
    BY <1>2
  <2>6. \A i \in 1 .. n + 1 : x[i] = y[i]
    BY <1>3, <2>2, <2>3, <2>4, <2>5
  <2>7. \A i \in 1 .. n + 1 : y[i] \in S
    BY <2>2
  <2>8. x \in [1 .. n + 1 -> S]
    BY <1>5, <2>6, <2>7
  <2>9. x \in Seq(S) /\ Len(x) = n + 1
    BY <1>2, <2>8
  <2> QED
    BY <2>1, <2>2, <2>6, <2>9, SeqEqual
<1> QED
  BY <1>1, <1>2, <1>4, <1>6, <1>7

(* Sending the oldest message takes the oldest answer. *)
LEMMA WaitingTail ==
  ASSUME NEW q \in Seq(String), q # <<>>
  PROVE  /\ Waiting(Tail(q)) = Tail(Waiting(q)) /\ Waiting(q) # <<>>
<1>1. PICK a : a = Tail(q)
  OBVIOUS
<1>2. PICK n \in Nat : n = Len(q) /\ DOMAIN q = 1 .. n /\ n >= 1
  OBVIOUS
<1>3. /\ a \in Seq(String) /\ DOMAIN a = 1 .. n - 1 /\ \A i \in 1 .. n - 1 : a[i] = q[i + 1]
  BY <1>1, <1>2, HeadTailProperties
<1>4. PICK w, x : w = Waiting(q) /\ x = Waiting(a)
  OBVIOUS
<1>5. w = [i \in 1 .. n |-> AnswerIn(q[i])] /\ x = [i \in 1 .. n - 1 |-> AnswerIn(a[i])]
  BY <1>2, <1>3, <1>4 DEF Waiting, AnswerIn
<1> DEFINE S == {AnswerIn(s) : s \in String}
<1>6. w \in Seq(S) /\ Len(w) = n
  <2>1. w \in [1 .. n -> S]
    BY <1>2, <1>5
  <2> HIDE DEF S
  <2> QED
    BY <1>2, <2>1
<1>7. x \in Seq(S) /\ Len(x) = n - 1
  <2>1. x \in [1 .. n - 1 -> S]
    BY <1>2, <1>3, <1>5
  <2> HIDE DEF S
  <2> QED
    BY <1>2, <2>1
<1> HIDE DEF S
<1>8. w # <<>>
  BY <1>2, <1>6
<1>9. x = Tail(w)
  <2>1. PICK y : y = Tail(w)
    OBVIOUS
  <2>2. y \in Seq(S) /\ Len(y) = n - 1 /\ \A i \in 1 .. n - 1 : y[i] = w[i + 1]
    BY <1>2, <1>6, <1>8, <2>1, HeadTailProperties
  <2>3. \A i \in 1 .. n - 1 : i + 1 \in 1 .. n
    BY <1>2
  <2>4. \A i \in 1 .. n - 1 : x[i] = y[i]
    BY <1>3, <1>5, <2>2, <2>3
  <2> QED
    BY <1>7, <2>1, <2>2, <2>4, SeqEqual
<1> QED
  BY <1>1, <1>4, <1>8, <1>9

(* An answer is queued if there is room. *)
LEMMA WaitingQueued ==
  ASSUME TypeOK, NEW m \in String
  PROVE  Waiting(Queued(m)) = IF Len(Waiting(msgQueue)) < QueueSize
                                THEN Append(Waiting(msgQueue), AnswerIn(m))
                                ELSE Waiting(msgQueue)
<1>1. msgQueue \in Seq(String)
  BY DEF TypeOK
<1> QED
  BY <1>1, WaitingAppend DEF Queued

(* Each message READPACKET queues is the answer it stands for. *)
LEMMA AnswerBuilt ==
  /\ \A type \in Acks : \A id \in 0 .. MaxId :
       AnswerIn(mqtt_msg_ack(type, id)) = [type |-> type, id |-> id]
  /\ AnswerIn(mqtt_msg_bare(PINGRESP)) = [type |-> PINGRESP, id |-> 0]
<1>1. ASSUME NEW type \in Acks, NEW id \in 0 .. MaxId
      PROVE  AnswerIn(mqtt_msg_ack(type, id)) = [type |-> type, id |-> id]
  <2>1. PICK m : m = mqtt_msg_ack(type, id)
    OBVIOUS
  <2>2. Len(m) = 4 /\ mqtt_get_type(m) = type /\ Number(m, 2) = id
    BY <2>1, AckBuilt
  <2> QED
    BY <2>1, <2>2 DEF AnswerIn
<1>2. AnswerIn(mqtt_msg_bare(PINGRESP)) = [type |-> PINGRESP, id |-> 0]
  BY PingBuilt DEF AnswerIn
<1> QED
  BY <1>1, <1>2

(* The packets left of a whole segment are the bytes left of it.  What is  *)
(* too long for the buffer is a burst that has not been looked at yet.     *)
WholeSegment ==
  /\ Sends(todo) /\ \A i \in 1 .. Len(todo) : todo[i].more = 0
  /\ IF cut THEN todo = <<>> ELSE rest = Encode(todo)
  /\ cut \/ todo \in Bursts \/ Len(rest) < MQTT_BUF_SIZE

(* A burst has bytes. *)
LEMMA EncodeNonempty ==
  ASSUME NEW ps, Sends(ps)
  PROVE  Encode(ps) = <<>> <=> ps = <<>>
<1>1. CASE ps = <<>>
  BY <1>1, EncodeEmpty
<1>2. CASE ps # <<>>
  <2>1. PICK w \in Seq(Byte), r \in Seq(Byte), e \in Seq(Byte) :
          w = Wire(ps[1]) /\ r = Encode(Tail(ps)) /\ e = Encode(ps)
          /\ Len(w) >= 2 /\ Len(e) = Len(w) + Len(r)
    BY <1>2, EncodeStarts
  <2>2. Len(w) \in Nat /\ Len(r) \in Nat
    OBVIOUS
  <2>3. Len(e) # 0
    BY <2>1, <2>2
  <2>4. e # <<>>
    BY <2>3
  <2> QED
    BY <1>2, <2>1, <2>4
<1> QED
  BY <1>1, <1>2

(* Sending no packet is sending well-formed packets. *)
LEMMA NothingSent == Sends(<<>>) /\ \A i \in 1 .. Len(<<>>) : <<>>[i].more = 0
<1>1. <<>> \in Seq(BrokerPacket) /\ Len(<<>>) = 0
  OBVIOUS
<1> QED
  BY <1>1 DEF Sends

(* When a whole segment is looked at, its first packet is at the front.    *)
LEMMA WholeFirst ==
  ASSUME TypeOK, WholeSegment, ~cut, rest # <<>>, Len(rest) < MQTT_BUF_SIZE,
         NEW p, p = todo[1]
  PROVE  /\ todo # <<>> /\ BrokerSends(p) /\ p.more = 0
         /\ Len(Wire(p)) <= Len(rest) /\ Starts(Copied, Len(rest), Wire(p))
         /\ Copied[1] = First(p)
         /\ Holds(Copied, 0, Header(p)) /\ Holds(Copied, Len(Header(p)), Body(p))
<1>1. Sends(todo) /\ rest = Encode(todo)
  BY DEF WholeSegment
<1>2. todo # <<>>
  BY <1>1, EncodeEmpty
<1>3. BrokerSends(p) /\ p.more = 0
  <2>1. 1 \in 1 .. Len(todo)
    <3>1. todo \in Seq(BrokerPacket)
      BY <1>1 DEF Sends
    <3> QED
      BY <1>2, <3>1
  <2> QED
    BY <1>1, <2>1 DEF WholeSegment, Sends
<1>4. PICK w \in Seq(Byte), r \in Seq(Byte), e \in Seq(Byte), l \in Nat, n \in Nat :
        /\ w = Wire(p) /\ r = Encode(Tail(todo)) /\ e = rest /\ l = Len(w) /\ n = Len(e)
        /\ Len(e) = Len(w) + Len(r) /\ Holds(e, 0, w)
  <2>1. /\ Encode(todo) \in Seq(Byte) /\ Wire(p) \in Seq(Byte)
        /\ Encode(Tail(todo)) \in Seq(Byte)
        /\ Len(Encode(todo)) = Len(Wire(p)) + Len(Encode(Tail(todo)))
        /\ Holds(Encode(todo), 0, Wire(p))
    BY <1>1, <1>2, EncodeStarts
  <2>2. Len(Wire(p)) \in Nat /\ Len(Encode(todo)) \in Nat
    BY <2>1
  <2> QED
    BY <1>1, <2>1, <2>2
<1>5. l <= n
  <2>1. Len(r) \in Nat /\ n = l + Len(r)
    BY <1>4
  <2> QED
    BY <2>1
<1>6. \A k \in 1 .. n : Copied[k] = e[k]
  BY <1>4, CopiedType
<1>7. \A k \in 1 .. l : Copied[k] = w[k]
  <2>1. \A k \in 1 .. l : k \in 1 .. n /\ 0 + k = k
    BY <1>5
  <2> QED
    BY <1>4, <1>6, <2>1 DEF Holds
<1>8. Starts(Copied, n, w)
  <2>1. \A k \in 1 .. n : k <= l => k \in 1 .. l
    OBVIOUS
  <2> QED
    BY <1>4, <1>7, <2>1 DEF Starts
<1>9. /\ Holds(Copied, 0, Header(p)) /\ Holds(Copied, Len(Header(p)), Body(p))
  <2>1. PICK h \in Nat, b \in Nat : h = Len(Header(p)) /\ b = Len(Body(p)) /\ l = h + b
    <3>1. Len(Header(p)) \in 2 .. 4 /\ l = Len(Header(p)) + Len(Body(p))
      BY <1>3, <1>4, WireLayout
    <3>2. Body(p) \in Seq(Byte)
      BY <1>3, BodyType
    <3>3. Len(Body(p)) \in Nat
      BY <3>2
    <3>4. Len(Header(p)) \in Nat
      BY <3>1
    <3> QED
      BY <3>1, <3>3, <3>4
  <2>2. /\ \A k \in 1 .. h : 0 + k \in 1 .. l
        /\ \A k \in 1 .. b : h + k \in 1 .. l
    <3>1. l = h + b
      BY <2>1
    <3> QED
      BY <3>1
  <2>3. Holds(w, 0, Header(p)) /\ Holds(w, h, Body(p))
    BY <1>3, <1>4, <2>1, WireLayout
  <2> QED
    BY <1>7, <2>1, <2>2, <2>3 DEF Holds
<1>10. Copied[1] = First(p)
  BY <1>3, <1>9, HeaderStarts
<1> QED
  BY <1>2, <1>3, <1>4, <1>5, <1>8, <1>9, <1>10

(* Behind the first packet, a PUBLISH, the loop goes on with the next.     *)
LEMMA WholeNext ==
  ASSUME TypeOK, WholeSegment, ~cut, rest # <<>>, RecvData,
         NEW p, p = todo[1], p.type = PUBLISH
  PROVE  /\ rest' = Encode(Tail(todo)) /\ todo' = Tail(todo)
         /\ \E h, t, i, d : /\ Arrived(p, h, t, i, d, Copied, Len(rest))
                            /\ Len(Wire(p)) = h + 2 + t + i + d /\ t \in Nat /\ h \in Nat
                            /\ i = (IF p.qos > 0 THEN 2 ELSE 0) /\ d \in Nat
<1>1. Len(rest) < MQTT_BUF_SIZE
  BY DEF RecvData
<1>2. /\ todo # <<>> /\ BrokerSends(p) /\ p.more = 0
      /\ Len(Wire(p)) <= Len(rest) /\ Starts(Copied, Len(rest), Wire(p))
      /\ Copied[1] = First(p)
  BY <1>1, WholeFirst
<1>3. PICK h, t, i, d : PublishAt(p, h, t, i, d)
  BY <1>2, PublishExists
<1>4. Arrived(p, h, t, i, d, Copied, Len(rest))
  BY <1>1, <1>2, <1>3, Reads DEF Arrived
<1>5. /\ h \in 2 .. 4 /\ t \in Nat /\ i \in {0, 2} /\ d \in Nat
      /\ i = (IF p.qos > 0 THEN 2 ELSE 0) /\ Len(Wire(p)) = h + 2 + t + i + d
  BY <1>4, ArrivedNumbers
<1>6. PICK w \in Seq(Byte), r \in Seq(Byte), e \in Seq(Byte), l \in Nat, n \in Nat, c \in Nat :
        /\ w = Wire(p) /\ r = Encode(Tail(todo)) /\ e = rest /\ l = Len(w) /\ n = Len(e)
        /\ c = Len(r) /\ n = l + c /\ Holds(e, l, r)
  <2>1. Sends(todo) /\ rest = Encode(todo)
    BY DEF WholeSegment
  <2>2. /\ Encode(todo) \in Seq(Byte) /\ Wire(p) \in Seq(Byte)
        /\ Encode(Tail(todo)) \in Seq(Byte)
        /\ Len(Encode(todo)) = Len(Wire(p)) + Len(Encode(Tail(todo)))
        /\ Holds(Encode(todo), Len(Wire(p)), Encode(Tail(todo)))
    BY <1>2, <2>1, EncodeStarts
  <2>3. Len(Wire(p)) \in Nat /\ Len(Encode(todo)) \in Nat /\ Len(Encode(Tail(todo))) \in Nat
    BY <2>2
  <2> QED
    BY <2>1, <2>2, <2>3
<1>7. l = h + 2 + t + i + d /\ l <= n
  BY <1>5, <1>6
<1>8. mqtt_get_total_length(Copied, Len(rest)) = l
  <2>1. Len(rest) >= h
    <3>1. h \in Nat /\ t \in Nat /\ i \in Nat /\ d \in Nat
      BY <1>5
    <3>2. n >= h
      BY <1>7, <3>1
    <3> QED
      BY <1>6, <3>2
  <2>2. mqtt_get_total_length(Copied, Len(rest)) = Len(Wire(p)) + p.more
    BY <1>4, <2>1, PublishTotal
  <2>3. l + 0 = l
    OBVIOUS
  <2> QED
    BY <1>2, <1>6, <2>2, <2>3
<1>9. Low16(l) = l
  <2>1. n <= MaxId
    <3>1. n < MQTT_BUF_SIZE
      BY <1>1, <1>6
    <3> QED
      BY <3>1, BufferSize, MaxIdType
  <2>2. l <= MaxId
    BY <1>7, <2>1, MaxIdType
  <2>3. \A k \in Nat : k <= MaxId => Low16(k) = k
    BY SMT DEF MaxId, Low16
  <2> QED
    BY <2>2, <2>3
<1>10. rest' = NextPacket(l)
  <2>1. mqtt_get_type(Copied) = PUBLISH
    BY <1>2, FirstRead
  <2> QED
    BY <1>8, <2>1 DEF RecvData
<1>11. rest' = IF l < n THEN SubSeq(e, l + 1, n) ELSE <<>>
  BY <1>6, <1>9, <1>10, NextPacketIs
<1>12. rest' = r
  <2>1. CASE l < n
    <3>1. \A k \in 1 .. c : e[l + k] = r[k]
      BY <1>6 DEF Holds
    <3>2. SubSeq(e, l + 1, l + Len(r)) = r
      BY <1>6, <3>1, SubSeqIs
    <3> QED
      BY <1>6, <1>11, <2>1, <3>2
  <2>2. CASE ~(l < n)
    <3>1. c = 0
      BY <1>6, <2>2
    <3>2. r = <<>>
      BY <1>6, <3>1
    <3> QED
      BY <1>11, <2>2, <3>2
  <2> QED
    BY <2>1, <2>2
<1>13. todo' = Tail(todo)
  <2>1. todo' = IF rest' = <<>> \/ todo = <<>> THEN <<>> ELSE Tail(todo)
    BY DEF RecvData
  <2>2. rest' = <<>> => Tail(todo) = <<>>
    <3>1. Sends(Tail(todo))
      BY <1>2, EncodeHead DEF WholeSegment
    <3> QED
      BY <1>6, <1>12, <3>1, EncodeNonempty
  <2> QED
    BY <1>2, <2>1, <2>2
<1>14. h \in Nat
  BY <1>5
<1> QED
  BY <1>4, <1>5, <1>6, <1>12, <1>13, <1>14

(* A segment that arrives whole is a burst. *)
LEMMA WholeArrives ==
  ASSUME TypeOK, ArriveAny
  PROVE  ~cut' => \E ps \in Bursts : todo' = ps /\ rest' = Encode(ps) /\ rest = <<>>
                                     /\ UNCHANGED <<linkVars, msgQueue, event>>
<1> SUFFICES ASSUME ~cut'
             PROVE  \E ps \in Bursts : todo' = ps /\ rest' = Encode(ps) /\ rest = <<>>
                                       /\ UNCHANGED <<linkVars, msgQueue, event>>
  OBVIOUS
<1>1. PICK ps, n, from :
           /\ Arrive(ps, n) /\ from = IF stream = <<>> THEN Encode(ps) ELSE stream
           /\ from \in Seq(Byte) /\ n \in Nat /\ n <= Len(from)
           /\ IF stream = <<>> THEN ps \in Bursts ELSE ps = burst
  BY Arrival
<1>2. stream = <<>> /\ n = Len(from)
  BY <1>1 DEF Arrive
<1>3. rest' = SubSeq(from, 1, n) /\ todo' = ps /\ rest = <<>>
      /\ UNCHANGED <<linkVars, msgQueue, event>>
  BY <1>1 DEF Arrive
<1>4. SubSeq(from, 1, Len(from)) = from
  BY <1>1
<1> QED
  BY <1>1, <1>2, <1>3, <1>4

(* With whole packets, every step keeps segments whole. *)
LEMMA WholeStep ==
  ASSUME WholePackets, TypeOK, WholeSegment, [Next]_vars
  PROVE  WholeSegment'
<1>n. Sends(<<>>) /\ (\A i \in 1 .. Len(<<>>) : <<>>[i].more = 0) /\ Encode(<<>>) = <<>>
  BY NothingSent, EncodeEmpty
<1>s. Len(<<>>) < MQTT_BUF_SIZE
  BY BufferSize
<1>e. ASSUME todo' = <<>>, rest' = <<>> PROVE WholeSegment'
  BY <1>n, <1>s, <1>e DEF WholeSegment
<1>u. ASSUME UNCHANGED <<todo, rest, cut>> PROVE WholeSegment'
  BY <1>u DEF WholeSegment
<1>1. CASE ArriveAny
  <2>1. CASE cut'
    <3>1. todo' = <<>>
      BY <1>1, <2>1 DEF ArriveAny, Arrive
    <3> QED
      BY <1>n, <2>1, <3>1 DEF WholeSegment
  <2>2. CASE ~cut'
    <3>1. PICK ps \in Bursts : todo' = ps /\ rest' = Encode(ps)
      BY <1>1, <2>2, WholeArrives
    <3>2. Sends(ps) /\ \A i \in 1 .. Len(ps) : ps[i].more = 0
      BY BurstSends DEF WholePackets
    <3> QED
      BY <2>2, <3>1, <3>2 DEF WholeSegment
  <2> QED
    BY <2>1, <2>2
<1>2. CASE RecvTooLong \/ RecvConnack
  BY <1>2, <1>e DEF RecvTooLong, RecvConnack
<1>3. CASE rest # <<>> /\ RecvData
  <2>1. Len(rest) < MQTT_BUF_SIZE /\ UNCHANGED cut
    BY <1>3 DEF RecvData
  <2>2. CASE cut
    <3>1. todo = <<>>
      BY <2>2 DEF WholeSegment
    <3>2. todo' = <<>>
      BY <1>3, <3>1 DEF RecvData
    <3> QED
      BY <1>n, <2>1, <2>2, <3>2 DEF WholeSegment
  <2>3. CASE ~cut
    <3>1. PICK p : p = todo[1]
      OBVIOUS
    <3>2. todo # <<>> /\ BrokerSends(p) /\ Copied[1] = First(p)
      BY <1>3, <2>1, <2>3, <3>1, WholeFirst
    <3>3. CASE p.type = PUBLISH
      <4>1. rest' = Encode(Tail(todo)) /\ todo' = Tail(todo)
        BY <1>3, <2>3, <3>1, <3>3, WholeNext
      <4>2. Sends(todo) /\ Sends(Tail(todo))
        BY <3>2, EncodeHead DEF WholeSegment
      <4>3. \A i \in 1 .. Len(Tail(todo)) : Tail(todo)[i].more = 0
        <5>1. PICK q \in Seq(BrokerPacket) : q = todo /\ q # <<>>
          BY <3>2, <4>2 DEF Sends
        <5>2. \A i \in 1 .. Len(Tail(q)) : i + 1 \in 1 .. Len(q) /\ Tail(q)[i] = q[i + 1]
          BY <5>1, HeadTailProperties
        <5> QED
          BY <5>1, <5>2 DEF WholeSegment
      <4>4. Len(rest') < MQTT_BUF_SIZE
        <5>1. rest = Encode(todo)
          BY <2>3 DEF WholeSegment
        <5>2. PICK l \in Nat, n \in Nat, c \in Nat :
                l = Len(Wire(p)) /\ n = Len(rest) /\ c = Len(rest') /\ n = l + c
          <6>1. /\ Encode(todo) \in Seq(Byte) /\ Wire(p) \in Seq(Byte)
                /\ Encode(Tail(todo)) \in Seq(Byte)
                /\ Len(Encode(todo)) = Len(Wire(p)) + Len(Encode(Tail(todo)))
            BY <3>1, <3>2, <4>2, EncodeStarts
          <6>2. Len(Wire(p)) \in Nat /\ Len(Encode(todo)) \in Nat /\ Len(Encode(Tail(todo))) \in Nat
            BY <6>1
          <6> QED
            BY <4>1, <5>1, <6>1, <6>2
        <5>3. n < MQTT_BUF_SIZE /\ MQTT_BUF_SIZE \in Nat
          BY <2>1, <5>2, BufferSize
        <5>4. c < MQTT_BUF_SIZE
          BY <5>2, <5>3
        <5> QED
          BY <5>2, <5>4
      <4>5. ~cut'
        BY <2>1, <2>3
      <4> QED
        BY <4>1, <4>2, <4>3, <4>4, <4>5 DEF WholeSegment
    <3>4. CASE p.type # PUBLISH
      <4>1. mqtt_get_type(Copied) # PUBLISH
        BY <3>2, <3>4, FirstRead
      <4>2. rest' = <<>> /\ todo' = <<>>
        BY <1>3, <4>1 DEF RecvData
      <4> QED
        BY <1>e, <4>2
    <3> QED
      BY <3>3, <3>4
  <2> QED
    BY <2>2, <2>3
<1>4. CASE TaskSends \/ Reconnect \/ UNCHANGED vars
  BY <1>4, <1>u DEF TaskSends, Reconnect, vars
<1> QED
  BY <1>1, <1>2, <1>3, <1>4 DEF Next, READPACKET

(* With whole packets, what a segment still holds is always whole          *)
(* packets.                                                                *)
LEMMA WholeSegmentHolds ==
  ASSUME WholePackets
  PROVE  Spec => []WholeSegment
<1>1. Init => WholeSegment
  <2> SUFFICES ASSUME Init PROVE WholeSegment
    OBVIOUS
  <2>1. cut = FALSE /\ rest = <<>> /\ todo = <<>>
    BY DEF Init
  <2>2. Len(<<>>) < MQTT_BUF_SIZE
    BY BufferSize
  <2> QED
    BY <2>1, <2>2, NothingSent, EncodeEmpty DEF WholeSegment
<1>2. TypeOK /\ WholeSegment /\ [Next]_vars => WholeSegment'
  BY WholeStep
<1> QED
  BY <1>1, <1>2, TypeCorrect, PTL DEF Spec

-----------------------------------------------------------------------------
(* The steps of the callback are steps of Delivery, or change nothing of it *)

(* With whole packets, a segment that is used up has no packet left. *)
LEMMA NothingLeft ==
  ASSUME WholeSegment, rest = <<>>
  PROVE  todo = <<>>
<1>1. CASE cut
  BY <1>1 DEF WholeSegment
<1>2. CASE ~cut
  BY <1>2, EncodeNonempty DEF WholeSegment
<1> QED
  BY <1>1, <1>2

(* Receiving starts where the abstract delivery starts. *)
LEMMA DeliveryStarts == Init => D!Init
<1> SUFFICES ASSUME Init PROVE D!Init
  OBVIOUS
<1>1. Waiting(<<>>) = <<>>
  BY DEF Waiting
<1>2. <<>> # NULL
  <2>1. <<>> \in String /\ NULL \notin String
    BY MsgAssumption DEF MsgAssumption, String
  <2> QED
    BY <2>1, SMTT(60)
<1>3. Present(<<>>) = <<>>
  BY <1>2 DEF Present
<1>4. connState # "MQTT_DATA" /\ closing = FALSE /\ todo = <<>> /\ msgQueue = <<>>
      /\ event.topic = <<>> /\ event.data = <<>>
  BY DEF Init
<1> QED
  BY <1>1, <1>3, <1>4 DEF D!Init

(* A segment longer than the buffer is a drop of all its packets. *)
LEMMA TooLongDropped ==
  ASSUME TypeOK, WholeSegment, ~cut, rest # <<>>, RecvTooLong
  PROVE  D!Drop
<1>1. Len(rest) \in Nat /\ MQTT_BUF_SIZE \in Nat /\ Len(rest) >= MQTT_BUF_SIZE
  <2>1. rest \in Seq(Byte)
    BY DEF TypeOK, String
  <2>2. Len(rest) \in Nat
    BY <2>1
  <2> QED
    BY <2>2, BufferSize DEF RecvTooLong
<1>2. ~(Len(rest) < MQTT_BUF_SIZE)
  BY <1>1
<1>3. todo \in Bursts /\ rest = Encode(todo)
  BY <1>2 DEF WholeSegment
<1>4. todo \in {s \in Bursts : Len(Encode(s)) >= MQTT_BUF_SIZE}
  BY <1>1, <1>3
<1>5. todo' = <<>> /\ UNCHANGED <<connState, closing, msgQueue, event>>
  BY DEF RecvTooLong, linkVars
<1> QED
  BY <1>4, <1>5 DEF D!Drop

(* What fits the buffer is not too long. *)
LEMMA Fits ==
  ASSUME TypeOK, WholeSegment, ~cut, Len(rest) < MQTT_BUF_SIZE
  PROVE  todo \notin {s \in Bursts : Len(Encode(s)) >= MQTT_BUF_SIZE}
<1>1. PICK n \in Nat, m \in Nat : n = Len(rest) /\ m = MQTT_BUF_SIZE
  <2>1. rest \in Seq(Byte)
    BY DEF TypeOK, String
  <2>2. Len(rest) \in Nat
    BY <2>1
  <2> QED
    BY <2>2, BufferSize
<1>2. ~(n >= m)
  BY <1>1
<1> QED
  BY <1>1, <1>2 DEF WholeSegment

(* The segment that answers the CONNECT is one step of the abstract        *)
(* delivery.                                                               *)
LEMMA ConnackHandled ==
  ASSUME TypeOK, WholeSegment, ~cut, rest # <<>>, RecvConnack
  PROVE  D!Connack
<1>1. Len(rest) < MQTT_BUF_SIZE /\ connState = "MQTT_CONNECT_SENDING"
  BY DEF RecvConnack
<1>2. PICK p : p = todo[1]
  OBVIOUS
<1>3. /\ todo # <<>> /\ BrokerSends(p) /\ Copied[1] = First(p)
      /\ Holds(Copied, 0, Header(p)) /\ Holds(Copied, Len(Header(p)), Body(p))
  BY <1>1, <1>2, WholeFirst
<1>4. mqtt_get_type(Copied) = p.type
  BY <1>3, FirstRead
<1>5. ASSUME p.type = CONNACK PROVE mqtt_get_connect_return_code(Copied) = p.code
  <2>1. Body(p) = <<0, p.code>>
    BY <1>5 DEF Body, PUBLISH, CONNACK, PINGREQ, PINGRESP, SUBACK
  <2>2. Len(<<0, p.code>>) = 2 /\ <<0, p.code>>[2] = p.code
    OBVIOUS
  <2>3. p.more = 0
    BY <1>1, <1>2, WholeFirst
  <2>4. Remaining(p) = 2
    BY <2>1, <2>2, <2>3 DEF Remaining
  <2>5. Len(Header(p)) = 2
    <3>1. PICK s \in Seq(Byte) : /\ Len(Header(p)) = 1 + Len(s)
                                 /\ Remaining(p) < 128 => s = <<Remaining(p)>>
      BY <1>3, HeaderLayout
    <3>2. s = <<2>>
      BY <2>4, <3>1
    <3> QED
      BY <3>1, <3>2
  <2>6. Copied[2 + 2] = p.code
    BY <1>3, <2>1, <2>2, <2>5 DEF Holds
  <2> QED
    BY <2>6 DEF mqtt_get_connect_return_code
<1>6. /\ connState' = IF p.type = CONNACK /\ p.code = 0 THEN "MQTT_DATA" ELSE connState
      /\ closing' = (closing \/ (p.type = CONNACK /\ p.code # 0))
      /\ todo' = <<>> /\ UNCHANGED <<msgQueue, event>>
  BY <1>4, <1>5 DEF RecvConnack
<1>7. (connState' = "MQTT_DATA") = (p.type = CONNACK /\ p.code = 0)
  BY <1>1, <1>6
<1>8. Head(todo) = p
  BY <1>2, <1>3 DEF WholeSegment, Sends
<1>9. todo \notin {s \in Bursts : Len(Encode(s)) >= MQTT_BUF_SIZE}
  BY <1>1, Fits
<1> QED
  BY <1>1, <1>3, <1>6, <1>7, <1>8, <1>9 DEF D!Connack, D!Next1

(* MQTT_Task sending a message takes the oldest answer. *)
LEMMA SendTaken ==
  ASSUME TypeOK, WholeSegment, TaskSends
  PROVE  D!Take
<1>1. msgQueue \in Seq(String) /\ msgQueue # <<>> /\ msgQueue' = Tail(msgQueue)
  BY DEF TypeOK, TaskSends
<1>2. Waiting(msgQueue') = Tail(Waiting(msgQueue)) /\ Waiting(msgQueue) # <<>>
  BY <1>1, WaitingTail
<1>3. todo = <<>> /\ connState = "MQTT_DATA" /\ UNCHANGED <<connState, closing, todo, event>>
  BY NothingLeft DEF TaskSends, linkVars
<1> QED
  BY <1>2, <1>3 DEF D!Take

(* A PUBLISH of the segment is delivered and answered. *)
LEMMA PublishDelivered ==
  ASSUME TypeOK, WholeSegment, ~cut, rest # <<>>, RecvData,
         NEW p, p = todo[1], p.type = PUBLISH
  PROVE  D!Handle
<1>1. Len(rest) < MQTT_BUF_SIZE /\ connState = "MQTT_DATA"
      /\ UNCHANGED <<connState, closing>>
  BY DEF RecvData, linkVars
<1>2. /\ todo # <<>> /\ BrokerSends(p) /\ p.more = 0 /\ Len(Wire(p)) <= Len(rest)
  BY <1>1, WholeFirst
<1>3. todo' = Tail(todo)
  BY WholeNext
<1>4. PICK h, t, i, d : /\ Arrived(p, h, t, i, d, Copied, Len(rest))
                        /\ Len(Wire(p)) = h + 2 + t + i + d /\ t \in Nat /\ h \in Nat
                        /\ i = (IF p.qos > 0 THEN 2 ELSE 0) /\ d \in Nat
  BY WholeNext
<1>5. PICK n \in Nat : n = Len(rest)
  BY <1>1, Reads
<1>6. i \in Nat /\ h + 2 + t + i + d <= n
  BY <1>2, <1>4, <1>5
<1>7. n >= h + 2 + t /\ (i = 2 => n >= h + 2 + t + 2)
  BY <1>4, <1>6
<1>8. /\ event'.topic = p.topic /\ Present(event'.data) = p.data
      /\ p.qos > 0 => msgQueue' = Queued(mqtt_msg_ack(Answering(p), p.id))
      /\ p.qos = 0 => msgQueue' = msgQueue
  BY <1>2, <1>4, <1>5, <1>7, PublishHandled
<1>9. PICK q \in 0 .. 2 : q = p.qos
  BY <1>2 DEF BrokerSends, BrokerPacket
<1>10. p.id \in 0 .. MaxId
  BY <1>2 DEF BrokerSends, BrokerPacket
<1>11. Head(todo) = p
  BY <1>2 DEF WholeSegment, Sends
<1>12. CASE q = 0
  <2>1. D!Answers(p) = {}
    BY <1>9, <1>12 DEF D!Answers, PUBLISH, PUBREC, PUBREL, PINGREQ
  <2>2. msgQueue' = msgQueue
    BY <1>8, <1>9, <1>12
  <2>3. todo \notin {s \in Bursts : Len(Encode(s)) >= MQTT_BUF_SIZE}
    BY <1>1, Fits
  <2> QED
    BY <1>1, <1>2, <1>3, <1>8, <1>11, <2>1, <2>2, <2>3 DEF D!Handle, D!Next1
<1>13. CASE q # 0
  <2>1. q > 0 /\ (q = 1 \/ q = 2)
    BY <1>13
  <2>2. D!Answers(p) = {[type |-> Answering(p), id |-> p.id]}
    BY <1>9, <2>1 DEF D!Answers, Answering, PUBLISH, PUBREC, PUBREL, PINGREQ
  <2>3. Answering(p) \in Acks
    BY DEF Answering, Acks
  <2>4. PICK m \in String : m = mqtt_msg_ack(Answering(p), p.id)
    BY <1>10, <2>3, AckBuilt
  <2>5. AnswerIn(m) = [type |-> Answering(p), id |-> p.id]
    BY <1>10, <2>3, <2>4, AnswerBuilt
  <2>6. msgQueue' = Queued(m)
    BY <1>8, <1>9, <2>1, <2>4
  <2>7. Waiting(msgQueue') = IF Len(Waiting(msgQueue)) < QueueSize
                               THEN Append(Waiting(msgQueue), [type |-> Answering(p), id |-> p.id])
                               ELSE Waiting(msgQueue)
    BY <2>4, <2>5, <2>6, WaitingQueued
  <2>8. PICK a : a = [type |-> Answering(p), id |-> p.id]
    OBVIOUS
  <2>9. D!Answers(p) # {} /\ (CHOOSE x \in D!Answers(p) : TRUE) = a
    BY <2>2, <2>8
  <2>10. todo \notin {s \in Bursts : Len(Encode(s)) >= MQTT_BUF_SIZE}
    BY <1>1, Fits
  <2> QED
    BY <1>1, <1>2, <1>3, <1>8, <1>11, <2>7, <2>8, <2>9, <2>10 DEF D!Handle, D!Next1
<1> QED
  BY <1>12, <1>13

(* Any other packet is answered, and what follows it is lost. *)
LEMMA OtherAnswered ==
  ASSUME TypeOK, WholeSegment, ~cut, rest # <<>>, RecvData,
         NEW p, p = todo[1], p.type # PUBLISH
  PROVE  D!Handle
<1>1. Len(rest) < MQTT_BUF_SIZE /\ connState = "MQTT_DATA"
      /\ UNCHANGED <<connState, closing>>
  BY DEF RecvData, linkVars
<1>2. /\ todo # <<>> /\ BrokerSends(p) /\ p.more = 0 /\ Copied[1] = First(p)
      /\ Holds(Copied, 0, Header(p)) /\ Holds(Copied, Len(Header(p)), Body(p))
  BY <1>1, WholeFirst
<1>3. mqtt_get_type(Copied) = p.type
  BY <1>2, FirstRead
<1>4. todo' = <<>> /\ UNCHANGED event
  BY <1>3 DEF RecvData
<1>5. Head(todo) = p
  BY <1>2 DEF WholeSegment, Sends
<1>6. todo \notin {s \in Bursts : Len(Encode(s)) >= MQTT_BUF_SIZE}
  BY <1>1, Fits
<1>7. PICK q : q = mqtt_get_qos(Copied)
  OBVIOUS
<1>8. Answer(AnswerType(p.type, q), mqtt_get_id(Copied, MQTT_BUF_SIZE))
  BY <1>3, <1>7 DEF RecvData
<1>9. p.id \in 0 .. MaxId
  BY <1>2 DEF BrokerSends, BrokerPacket
<1>a. ASSUME NEW m \in String, msgQueue' = Queued(m), D!Answers(p) = {AnswerIn(m)}
      PROVE  D!Handle
  <2>1. PICK a : a = AnswerIn(m)
    OBVIOUS
  <2>2. Waiting(msgQueue') = IF Len(Waiting(msgQueue)) < QueueSize
                               THEN Append(Waiting(msgQueue), a) ELSE Waiting(msgQueue)
    BY <1>a, <2>1, WaitingQueued
  <2>3. D!Answers(p) # {} /\ (CHOOSE x \in D!Answers(p) : TRUE) = a
    BY <1>a, <2>1
  <2> QED
    BY <1>1, <1>2, <1>4, <1>5, <1>6, <2>2, <2>3 DEF D!Handle, D!Next1
<1>10. CASE p.type \in {PUBREC, PUBREL}
  <2>1. Body(p) = Bytes16(p.id)
    BY <1>10 DEF Body, PUBLISH, CONNACK, PINGREQ, PINGRESP, SUBACK, PUBREC, PUBREL
  <2>2. Len(Bytes16(p.id)) = 2
    <3>1. p.id \in Nat
      BY <1>9, MaxIdType
    <3> QED
      BY <3>1, Bytes16Type
  <2>3. Remaining(p) = 2
    BY <1>2, <2>1, <2>2 DEF Remaining
  <2>4. Len(Header(p)) = 2 /\ Header(p)[2] = 2
    <3>1. PICK s \in Seq(Byte) : /\ Len(Header(p)) = 1 + Len(s) /\ Holds(Header(p), 1, s)
                                 /\ (Remaining(p) < 128 => s = <<Remaining(p)>>)
      BY <1>2, HeaderLayout
    <3>2. s = <<2>>
      BY <2>3, <3>1
    <3>3. Len(s) = 1 /\ s[1] = 2
      BY <3>2
    <3>4. Header(p)[1 + 1] = s[1]
      BY <3>1, <3>3 DEF Holds
    <3> QED
      BY <3>1, <3>3, <3>4
  <2>5. Copied[2] = 2 /\ Number(Copied, 2) = p.id
    <3>1. Copied[0 + 2] = Header(p)[2]
      BY <1>2, <2>4 DEF Holds
    <3>2. Holds(Copied, 2, Bytes16(p.id))
      BY <1>2, <2>1, <2>4
    <3> QED
      BY <1>9, <2>4, <3>1, <3>2, NumberRead
  <2>6. mqtt_get_id(Copied, MQTT_BUF_SIZE) = p.id
    <3>1. MQTT_BUF_SIZE \in Nat /\ MQTT_BUF_SIZE >= 4 /\ ~(MQTT_BUF_SIZE < 1)
      BY BufferSize
    <3>2. p.type \in WithId
      BY <1>10 DEF WithId
    <3> QED
      BY <1>3, <2>5, <3>1, <3>2 DEF mqtt_get_id
  <2>7. p.id # 0
    BY <1>2, <1>10 DEF BrokerSends, WellFormed
  <2>8. PICK k : k = IF p.type = PUBREC THEN PUBREL ELSE PUBCOMP
    OBVIOUS
  <2>9. AnswerType(p.type, q) = k /\ k \in Acks /\ k # 0 /\ k # PINGRESP
    BY <1>10, <2>8 DEF AnswerType, Acks, PUBLISH, PUBREC, PUBREL, PUBCOMP, PINGRESP, PINGREQ, PUBACK
  <2>10. PICK m \in String : m = mqtt_msg_ack(k, p.id)
    BY <1>9, <2>9, AckBuilt
  <2>11. msgQueue' = Queued(m)
    BY <1>8, <2>6, <2>7, <2>9, <2>10 DEF Answer
  <2>12. AnswerIn(m) = [type |-> k, id |-> p.id]
    BY <1>9, <2>9, <2>10, AnswerBuilt
  <2>13. D!Answers(p) = {[type |-> k, id |-> p.id]}
    BY <1>10, <2>8 DEF D!Answers, PUBLISH, PUBREC, PUBREL, PINGREQ
  <2> QED
    BY <1>a, <2>11, <2>12, <2>13
<1>11. CASE p.type = PINGREQ
  <2>1. AnswerType(p.type, q) = PINGRESP
    BY <1>11 DEF AnswerType, PUBLISH, PUBREC, PUBREL, PINGREQ
  <2>2. PICK m \in String : m = mqtt_msg_bare(PINGRESP)
    BY PingBuilt
  <2>3. msgQueue' = Queued(m)
    BY <1>8, <2>1, <2>2 DEF Answer, PINGRESP
  <2>4. D!Answers(p) = {[type |-> PINGRESP, id |-> 0]}
    BY <1>11 DEF D!Answers, PUBLISH, PUBREC, PUBREL, PINGREQ
  <2> QED
    BY <1>a, <2>2, <2>3, <2>4, AnswerBuilt
<1>12. CASE p.type \notin {PUBREC, PUBREL, PINGREQ}
  <2>1. AnswerType(p.type, q) = 0
    BY <1>12 DEF AnswerType
  <2>2. msgQueue' = msgQueue
    BY <1>8, <2>1 DEF Answer
  <2>3. D!Answers(p) = {}
    BY <1>12 DEF D!Answers
  <2> QED
    BY <1>1, <1>2, <1>4, <1>5, <1>6, <2>2, <2>3 DEF D!Handle, D!Next1
<1> QED
  BY <1>10, <1>11, <1>12

(* Until a segment has been cut, every step is a step of the abstract      *)
(* delivery or leaves it alone.                                            *)
LEMMA StepDelivers ==
  ASSUME TypeOK, WholeSegment, [Next]_vars
  PROVE  [~cut' => D!Next \/ UNCHANGED D!vars]_vars
<1> SUFFICES ASSUME ~cut' PROVE D!Next \/ UNCHANGED D!vars \/ UNCHANGED vars
  OBVIOUS
<1>1. CASE ArriveAny
  <2>1. PICK ps \in Bursts : todo' = ps /\ rest = <<>> /\ UNCHANGED <<linkVars, msgQueue, event>>
    BY <1>1, WholeArrives
  <2>2. todo = <<>>
    BY <2>1, NothingLeft
  <2>3. D!Arrive(ps)
    BY <2>1, <2>2 DEF D!Arrive, linkVars
  <2> QED
    BY <2>3 DEF D!Next
<1>2. CASE rest # <<>> /\ RecvTooLong
  <2>1. ~cut
    BY <1>2 DEF RecvTooLong
  <2>2. D!Drop
    BY <1>2, <2>1, TooLongDropped
  <2> QED
    BY <2>2 DEF D!Next
<1>3. CASE rest # <<>> /\ RecvConnack
  <2>1. ~cut
    BY <1>3 DEF RecvConnack
  <2>2. D!Connack
    BY <1>3, <2>1, ConnackHandled
  <2> QED
    BY <2>2 DEF D!Next
<1>4. CASE rest # <<>> /\ RecvData
  <2>1. ~cut
    BY <1>4 DEF RecvData
  <2>2. PICK p : p = todo[1]
    OBVIOUS
  <2>3. D!Handle
    BY <1>4, <2>1, <2>2, PublishDelivered, OtherAnswered
  <2> QED
    BY <2>3 DEF D!Next
<1>5. CASE TaskSends
  BY <1>5, SendTaken DEF D!Next
<1>6. CASE Reconnect
  <2>1. D!Reconnect
    BY <1>6, NothingLeft DEF Reconnect, D!Reconnect
  <2> QED
    BY <2>1 DEF D!Next
<1>7. CASE UNCHANGED vars
  BY <1>7
<1> QED
  BY <1>1, <1>2, <1>3, <1>4, <1>5, <1>6, <1>7 DEF Next, READPACKET

(* To segments of whole packets the callback does what Delivery says: every*)
(* publish of one is delivered as it was sent and answered with its own    *)
(* identifier, in order, until a packet that is no publish has been        *)
(* handled, whatever cut segments before it left in in_buffer.             *)
THEOREM DeliversWhole ==
  ASSUME WholePackets
  PROVE  Spec => ImplementsDelivery
<1>1. TypeOK /\ WholeSegment /\ [Next]_vars => [~cut' => D!Next \/ UNCHANGED D!vars]_vars
  BY StepDelivers
<1>2. Init => D!Init
  BY DeliveryStarts
<1> QED
  BY <1>1, <1>2, TypeCorrect, WholeSegmentHolds, PTL DEF Spec, ImplementsDelivery

=============================================================================
