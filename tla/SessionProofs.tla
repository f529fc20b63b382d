--------------------------- MODULE SessionProofs ----------------------------
(***************************************************************************)
(* Theorems about Session for every set of messages, queue length and      *)
(* number of sends espconn accepts.                                        *)
(***************************************************************************)
EXTENDS Session, TLAPS

(* Without a timeout the one send under way is waited for, and it is the   *)
(* packet that pending_msg_type is about.                                  *)
Waiting ==
  /\ connState = "down" => unconfirmed = <<>> /\ toBroker = <<>>
  /\ ~late => Len(unconfirmed) <= 1
  /\ ~late /\ unconfirmed # <<>> =>
       sendTimeout /\ unconfirmed[1].type = pending_msg_type

Two(p) == p.type = "PUBLISH" /\ p.msg.qos = 2

(* The QoS 2 messages in s have identifiers of their own, none beyond n.   *)
Fresh(s, n) ==
  /\ \A i \in DOMAIN s : Two(s[i]) => s[i].id <= n
  /\ \A i, j \in DOMAIN s : i < j /\ Two(s[i]) /\ Two(s[j]) => s[i].id # s[j].id

(* No QoS 2 message in s has an identifier from ids. *)
Avoids(s, ids) == \A i \in DOMAIN s : Two(s[i]) => s[i].id \notin ids

TwoIds(s) == {s[i].id : i \in {j \in DOMAIN s : Two(s[j])}}
HeldIds == {h.id : h \in held}

(* A CONNECT is on its way on which the broker forgets what it holds. *)
ClearWaits == clean_session /\ toBroker # <<>> /\ toBroker[1].type = "CONNECT"

HeldApart ==
  /\ \A i \in HeldIds : i <= message_id
  /\ Avoids(msgQueue, HeldIds) /\ Avoids(toBroker, HeldIds)

(* On connections that began with an empty queue, the QoS 2 messages in    *)
(* the queue, on their way and held by the broker have identifiers of their*)
(* own.  What the broker holds from an earlier connection goes when it     *)
(* receives CONNECT, if the session is clean; if not, it held nothing when *)
(* the connection began.                                                   *)
Apart ==
  ~carried =>
    /\ Fresh(msgQueue, message_id) /\ Fresh(toBroker, message_id)
    /\ Avoids(msgQueue, TwoIds(toBroker))
    /\ connState # "down" /\ ~ClearWaits => HeldApart
    /\ swallowed = {}

-----------------------------------------------------------------------------
(* Sequences *)

(* What Tail and Append do to a sequence.                                  *)
LEMMA TailFacts ==
  ASSUME NEW S, NEW s \in Seq(S), s # <<>>
  PROVE  /\ Tail(s) \in Seq(S) /\ Len(Tail(s)) = Len(s) - 1
         /\ \A i \in DOMAIN Tail(s) : i + 1 \in DOMAIN s /\ Tail(s)[i] = s[i + 1]
         /\ Head(s) = s[1] /\ s[1] \in S /\ 1 \in DOMAIN s
  OBVIOUS

(* Append adds one at the end and moves nothing.                           *)
LEMMA AppendFacts ==
  ASSUME NEW S, NEW s \in Seq(S), NEW e \in S
  PROVE  /\ Append(s, e) \in Seq(S) /\ Len(Append(s, e)) = Len(s) + 1
         /\ DOMAIN Append(s, e) = DOMAIN s \cup {Len(s) + 1}
         /\ \A i \in DOMAIN s : Append(s, e)[i] = s[i] /\ i < Len(s) + 1
         /\ Append(s, e)[Len(s) + 1] = e
  OBVIOUS

(* Packets leave at the front. *)
LEMMA TailFresh ==
  ASSUME NEW s \in Seq(Packet), s # <<>>, NEW n, NEW ids
  PROVE  /\ Fresh(s, n) => Fresh(Tail(s), n)
         /\ Avoids(s, ids) => Avoids(Tail(s), ids)
         /\ TwoIds(Tail(s)) \subseteq TwoIds(s)
  BY TailFacts DEF Fresh, Avoids, TwoIds

(* A packet that is no QoS 2 message, or has an identifier of its own,     *)
(* enters at the end.                                                      *)
LEMMA AppendFresh ==
  ASSUME NEW s \in Seq(Packet), NEW e \in Packet, NEW n \in Nat, NEW ids,
         Two(e) => e.id <= n /\ e.id \notin TwoIds(s) /\ e.id \notin ids
  PROVE  /\ Fresh(s, n) => Fresh(Append(s, e), n)
         /\ Avoids(s, ids) => Avoids(Append(s, e), ids)
         /\ TwoIds(Append(s, e)) \subseteq
              TwoIds(s) \cup (IF Two(e) THEN {e.id} ELSE {})
  <1>1. DOMAIN Append(s, e) = DOMAIN s \cup {Len(s) + 1} /\ Len(s) + 1 \notin DOMAIN s
    BY AppendFacts
  <1>2. \A i \in DOMAIN s : Append(s, e)[i] = s[i] /\ i < Len(s) + 1
    BY AppendFacts
  <1>3. Append(s, e)[Len(s) + 1] = e
    BY AppendFacts
  <1>4. ASSUME Fresh(s, n) PROVE Fresh(Append(s, e), n)
    <2>1. \A i \in DOMAIN Append(s, e) :
            Two(Append(s, e)[i]) => Append(s, e)[i].id <= n
      BY <1>1, <1>2, <1>3, <1>4 DEF Fresh
    <2>2. ASSUME NEW i \in DOMAIN Append(s, e), NEW j \in DOMAIN Append(s, e), i < j,
                 Two(Append(s, e)[i]), Two(Append(s, e)[j])
          PROVE  Append(s, e)[i].id # Append(s, e)[j].id
      <3>1. i \in DOMAIN s
        BY <1>1, <2>2
      <3>2. CASE j \in DOMAIN s
        BY <1>2, <1>4, <2>2, <3>1, <3>2 DEF Fresh
      <3>3. CASE j = Len(s) + 1
        BY <1>2, <1>3, <2>2, <3>1, <3>3 DEF TwoIds
      <3> QED BY <1>1, <3>2, <3>3
    <2> QED BY <2>1, <2>2 DEF Fresh
  <1>5. Avoids(s, ids) => Avoids(Append(s, e), ids)
    BY <1>1, <1>2, <1>3 DEF Avoids
  <1>6. TwoIds(Append(s, e)) \subseteq TwoIds(s) \cup (IF Two(e) THEN {e.id} ELSE {})
    BY <1>1, <1>2, <1>3 DEF TwoIds
  <1> QED BY <1>4, <1>5, <1>6

-----------------------------------------------------------------------------
(* Types *)

(* Packets are packets.                                                    *)
LEMMA PktType ==
  ASSUME NEW t \in PacketType, NEW id \in 0 .. MaxMessageId,
         NEW m \in Messages \cup {None}
  PROVE  Pkt(t, id, m) \in Packet
BY DEF Pkt, Packet

(* Packets without an identifier have identifier 0.                        *)
LEMMA ZeroId == 0 \in 0 .. MaxMessageId
BY SessionAssumption

(* The shortest sequences.                                                 *)
LEMMA EmptyType == ASSUME NEW S PROVE <<>> \in Seq(S) /\ \A e \in S : <<e>> \in Seq(S)
OBVIOUS

(* A sequence of length 0 is empty.                                        *)
LEMMA EmptyLength ==
  ASSUME NEW S, NEW s \in Seq(S), Len(s) = 0
  PROVE  s = <<>>
OBVIOUS

(* What is sent is appended or refused. *)
LEMMA SendType ==
  ASSUME TypeOK, NEW p \in Packet, espconn_send(p)
  PROVE  unconfirmed' \in Seq(Packet) /\ toBroker' \in Seq(Packet)
BY AppendFacts DEF TypeOK, espconn_send

(* There is room once it has been made.                                    *)
LEMMA RoomType ==
  ASSUME TypeOK
  PROVE  MakeRoom \in Seq(Packet) /\ Len(MakeRoom) < QueueSize
<1>1. msgQueue \in Seq(Packet) /\ Len(msgQueue) <= QueueSize /\ QueueSize \in Nat \ {0}
  BY SessionAssumption DEF TypeOK
<1>2. CASE Len(msgQueue) < QueueSize
  BY <1>1, <1>2 DEF MakeRoom
<1>3. CASE ~(Len(msgQueue) < QueueSize)
  BY <1>1, <1>3, TailFacts DEF MakeRoom
<1> QED BY <1>2, <1>3

(* What is cut are messages the broker holds.                              *)
LEMMA CutType ==
  ASSUME TypeOK, NEW ms, CutWith(ms)
  PROVE  cut' \subseteq Messages \cup {None}
BY DEF TypeOK, CutWith, HeldMessages

(* The rest of a sequence. *)
LEMMA RestType ==
  ASSUME NEW S, NEW s \in Seq(S), NEW n \in 1 .. Len(s)
  PROVE  SubSeq(s, n + 1, Len(s)) \in Seq(S) /\ s[1] \in S
OBVIOUS

(* At most a PUBREL joins the queue when a segment arrives, if there is    *)
(* room.                                                                   *)
LEMMA ReceivedQueue ==
  ASSUME TypeOK, mqtt_tcpclient_recv
  PROVE  \E e \in Packet :
           /\ e.type = "PUBREL"
           /\ msgQueue' = msgQueue \/ (msgQueue' = Append(msgQueue, e) /\ Len(msgQueue) < QueueSize)
<1> DEFINE p == toClient[1]
           e == Pkt("PUBREL", p.id, p.msg)
<1>1. PICK n \in 1 .. Len(toClient) : mqtt_tcpclient_recv!(n)
  BY DEF mqtt_tcpclient_recv
<1>2. p \in Packet
  BY <1>1, RestType DEF TypeOK
<1>3. e \in Packet /\ e.type = "PUBREL"
  BY <1>2, PktType DEF Packet, PacketType, Pkt
<1>4. msgQueue' = msgQueue \/ (msgQueue' = Append(msgQueue, e) /\ Len(msgQueue) < QueueSize)
  BY <1>1
<1> HIDE DEF e
<1> QED BY <1>3, <1>4

(* The rest of it stays as it is, but for the answers and the state.       *)
LEMMA Received ==
  ASSUME TypeOK, mqtt_tcpclient_recv
  PROVE  /\ toClient' \in Seq(Packet) /\ cut' \subseteq Messages \cup {None}
         /\ connState' \in {connState, "MQTT_DATA"}
         /\ (connState' # "down" <=> connState # "down")
         /\ UNCHANGED <<clean_session, message_id, pending_msg_type, sendTimeout,
                        unconfirmed, toBroker, brokerVars, order, carried, late>>
<1>1. PICK n \in 1 .. Len(toClient) : mqtt_tcpclient_recv!(n)
  BY DEF mqtt_tcpclient_recv
<1>2. toClient' \in Seq(Packet)
  BY <1>1, RestType DEF TypeOK
<1>3. cut' \subseteq Messages \cup {None}
  BY <1>1, CutType
<1> QED BY <1>1, <1>2, <1>3

(* Every step keeps the types.                                             *)
LEMMA TypeNext == ASSUME TypeOK, [Next]_vars PROVE TypeOK'
<1> USE DEF TypeOK
<1>1. ASSUME NEW m \in Messages, Send(m) PROVE TypeOK'
  <2> DEFINE id == IF Numbered(m) THEN message_id' ELSE 0
  <2>1. message_id' \in 0 .. MaxMessageId
    BY <1>1, SessionAssumption DEF Send
  <2>2. m.type \in PacketType
    BY SessionAssumption DEF PacketType
  <2>3. Pkt(m.type, id, m) \in Packet
    BY <2>1, <2>2, ZeroId, PktType
  <2>4. msgQueue' = Append(MakeRoom, Pkt(m.type, id, m))
    BY <1>1 DEF Send
  <2>5. msgQueue' \in Seq(Packet) /\ Len(msgQueue') = Len(MakeRoom) + 1
    BY <2>3, <2>4, RoomType, AppendFacts
  <2>6. Len(msgQueue') <= QueueSize
    BY <2>5, RoomType, SessionAssumption
  <2>7. cut' \subseteq Messages \cup {None}
    BY <1>1, CutType DEF Send
  <2>8. order' \in Seq(Messages)
    BY <1>1, AppendFacts DEF Send
  <2> QED BY <1>1, <2>1, <2>5, <2>6, <2>7, <2>8 DEF Send, netVars, brokerVars
<1>2. ASSUME mqtt_tcpclient_connect_cb PROVE TypeOK'
  <2>1. Pkt("CONNECT", 0, None) \in Packet
    BY ZeroId, PktType DEF PacketType
  <2>2. unconfirmed' \in Seq(Packet) /\ toBroker' \in Seq(Packet)
    BY <1>2, <2>1, SendType DEF mqtt_tcpclient_connect_cb
  <2> QED BY <1>2, <2>2, ZeroId DEF mqtt_tcpclient_connect_cb, brokerVars, PacketType
<1>3. ASSUME ConnectionEnds PROVE TypeOK'
  BY <1>3, EmptyType, CutType DEF ConnectionEnds, brokerVars
<1>4. ASSUME mqtt_tcpclient_sent_cb PROVE TypeOK'
  <2>1. unconfirmed # <<>>
    BY <1>4 DEF mqtt_tcpclient_sent_cb
  <2>2. unconfirmed' \in Seq(Packet)
    BY <1>4, <2>1, TailFacts DEF mqtt_tcpclient_sent_cb
  <2> QED BY <1>4, <2>2 DEF mqtt_tcpclient_sent_cb, brokerVars, histVars
<1>5. ASSUME mqtt_tcpclient_recv PROVE TypeOK'
  <2>1. PICK e \in Packet :
          /\ e.type = "PUBREL"
          /\ msgQueue' = msgQueue \/ (msgQueue' = Append(msgQueue, e) /\ Len(msgQueue) < QueueSize)
    BY <1>5, ReceivedQueue
  <2>2. msgQueue' \in Seq(Packet) /\ Len(msgQueue') <= QueueSize
    <3>1. CASE msgQueue' = msgQueue
      BY <3>1
    <3>2. CASE msgQueue' # msgQueue
      <4>1. msgQueue' = Append(msgQueue, e) /\ e \in Packet
        BY <2>1, <3>2, Zenon
      <4>2. msgQueue' \in Seq(Packet) /\ Len(msgQueue') = Len(msgQueue) + 1
        BY <4>1, AppendFacts
      <4>3. Len(msgQueue) < QueueSize /\ Len(msgQueue) \in Nat /\ QueueSize \in Nat
        BY <2>1, <3>2, SessionAssumption
      <4> QED BY <4>2, <4>3
    <3> QED BY <3>1, <3>2
  <2> QED BY <1>5, <2>2, Received DEF brokerVars
<1>6. ASSUME SendTimesOut PROVE TypeOK'
  <2>1. late' \in BOOLEAN
    BY <1>6 DEF SendTimesOut
  <2> QED BY <1>6, <2>1 DEF SendTimesOut, netVars, brokerVars
<1>7. ASSUME TaskData PROVE TypeOK'
  <2>1. /\ Head(msgQueue) \in Packet /\ msgQueue' \in Seq(Packet)
        /\ Len(msgQueue') <= QueueSize
    <3>1. msgQueue \in Seq(Packet) /\ msgQueue # <<>> /\ msgQueue' = Tail(msgQueue)
      BY <1>7 DEF TaskData
    <3>2. /\ Head(msgQueue) \in Packet /\ msgQueue' \in Seq(Packet)
          /\ Len(msgQueue') = Len(msgQueue) - 1
      BY <3>1, TailFacts
    <3>3. Len(msgQueue) \in Nat /\ Len(msgQueue) <= QueueSize /\ QueueSize \in Nat
      BY SessionAssumption
    <3> QED BY <3>2, <3>3
  <2>2. unconfirmed' \in Seq(Packet) /\ toBroker' \in Seq(Packet)
    BY <1>7, <2>1, SendType DEF TaskData
  <2>3. Head(msgQueue).type \in PacketType
    BY <2>1 DEF Packet
  <2>4. cut' \subseteq Messages \cup {None}
    BY <1>7, CutType DEF TaskData
  <2> QED BY <1>7, <2>1, <2>2, <2>3, <2>4 DEF TaskData, brokerVars
<1>8. ASSUME TaskKeepAlive PROVE TypeOK'
  <2>1. Pkt("PINGREQ", 0, None) \in Packet
    BY ZeroId, PktType DEF PacketType
  <2>2. unconfirmed' \in Seq(Packet) /\ toBroker' \in Seq(Packet)
    BY <1>8, <2>1, SendType DEF TaskKeepAlive
  <2> QED BY <1>8, <2>2 DEF TaskKeepAlive, brokerVars, histVars, PacketType
<1>9. ASSUME BrokerReceives PROVE TypeOK'
  <2> DEFINE p == Head(toBroker)
  <2>1. p \in Packet /\ toBroker' \in Seq(Packet)
    BY <1>9, TailFacts DEF BrokerReceives
  <2>2. p.id \in 0 .. MaxMessageId /\ p.msg \in Messages \cup {None}
    BY <2>1 DEF Packet
  <2> HIDE DEF p
  <2>3. BrokerAnswer(p) \in Seq(Packet)
    <3>1. \A t \in PacketType : <<Pkt(t, p.id, p.msg)>> \in Seq(Packet)
      BY <2>2, PktType, EmptyType
    <3>2. \A t \in PacketType : <<Pkt(t, 0, None)>> \in Seq(Packet)
      BY ZeroId, PktType, EmptyType
    <3> QED BY <3>1, <3>2, EmptyType DEF BrokerAnswer, PacketType
  <2>4. toClient' \in Seq(Packet)
    BY <1>9, <2>3 DEF BrokerReceives, p
  <2>5. /\ held' \subseteq held \cup {[id |-> p.id, msg |-> p.msg]}
        /\ accepted' \in {accepted, Append(accepted, p.msg)}
        /\ swallowed' \in {swallowed, swallowed \cup {p.msg}}
    BY <1>9 DEF BrokerReceives, p
  <2>6. held' \subseteq [id : 0 .. MaxMessageId, msg : Messages \cup {None}]
    BY <2>2, <2>5
  <2>7. accepted' \in Seq(Messages \cup {None})
    <3>1. Append(accepted, p.msg) \in Seq(Messages \cup {None})
      BY <2>2, AppendFacts
    <3> QED BY <2>5, <3>1
  <2>8. swallowed' \subseteq Messages \cup {None}
    BY <2>2, <2>5
  <2>9. cut' \subseteq Messages \cup {None}
    BY <1>9 DEF BrokerReceives
  <2> QED BY <1>9, <2>1, <2>4, <2>6, <2>7, <2>8, <2>9 DEF BrokerReceives, clientVars
<1>10. CASE UNCHANGED vars
  BY <1>10 DEF vars, clientVars, netVars, brokerVars, histVars
<1> QED BY <1>1, <1>2, <1>3, <1>4, <1>5, <1>6, <1>7, <1>8, <1>9, <1>10 DEF Next

(* The initial state has them.                                             *)
LEMMA TypeInit == Init => TypeOK
<1> SUFFICES ASSUME Init PROVE TypeOK
  OBVIOUS
<1> USE DEF Init
<1>1. msgQueue \in Seq(Packet) /\ unconfirmed \in Seq(Packet)
      /\ toBroker \in Seq(Packet) /\ toClient \in Seq(Packet)
  BY EmptyType
<1>2. accepted \in Seq(Messages \cup {None}) /\ order \in Seq(Messages)
  BY EmptyType
<1>3. Len(msgQueue) <= QueueSize
  BY SessionAssumption
<1>4. message_id \in 0 .. MaxMessageId
  BY ZeroId
<1>5. clean_session \in BOOLEAN
  BY SessionAssumption
<1> QED BY <1>1, <1>2, <1>3, <1>4, <1>5 DEF TypeOK

(* TypeOK is kept: in particular the queue never outgrows its buffer. *)
THEOREM TypeCorrect == Spec => []TypeOK
BY TypeInit, TypeNext, PTL DEF Spec

-----------------------------------------------------------------------------
(* One send at a time *)

WaitInv == TypeOK /\ Waiting

(* A send is accepted when nothing is under way. *)
LEMMA SendAlone ==
  ASSUME TypeOK, NEW p \in Packet, espconn_send(p), unconfirmed = <<>>
  PROVE  unconfirmed' = <<p>>
<1>1. Len(unconfirmed) < MaxInflight
  BY SessionAssumption
<1> QED BY <1>1 DEF espconn_send, Accepts

(* Before a send without an earlier timeout nothing is under way. *)
LEMMA NothingUnderWay ==
  ASSUME WaitInv, ~late, ~sendTimeout
  PROVE  unconfirmed = <<>>
BY DEF WaitInv, Waiting

(* The send of p, recorded in pending_msg_type and sendTimeout, keeps what *)
(* Waiting says.                                                           *)
LEMMA SendWaits ==
  ASSUME WaitInv, NEW p \in Packet, espconn_send(p), ~sendTimeout,
         late' = late, sendTimeout' = TRUE, pending_msg_type' = p.type,
         connState # "down", connState' # "down"
  PROVE  Waiting'
<1>1. CASE late
  BY <1>1 DEF Waiting
<1>2. CASE ~late
  <2>1. unconfirmed' = <<p>>
    BY <1>2, NothingUnderWay, SendAlone DEF WaitInv
  <2> QED BY <2>1 DEF Waiting
<1> QED BY <1>1, <1>2

(* Every step keeps the one send the client waits for.                     *)
LEMMA WaitingNext == ASSUME WaitInv, [Next]_vars PROVE Waiting'
<1>0. TypeOK /\ Waiting
  BY DEF WaitInv
<1>1. ASSUME NEW m \in Messages, Send(m) PROVE Waiting'
  BY <1>0, <1>1 DEF Send, Waiting, netVars
<1>2. ASSUME mqtt_tcpclient_connect_cb PROVE Waiting'
  <2>1. Pkt("CONNECT", 0, None) \in Packet
    BY ZeroId, PktType DEF PacketType
  <2>2. unconfirmed = <<>> /\ espconn_send(Pkt("CONNECT", 0, None))
    BY <1>0, <1>2 DEF mqtt_tcpclient_connect_cb, Waiting
  <2>3. unconfirmed' = <<Pkt("CONNECT", 0, None)>>
    BY <1>0, <2>1, <2>2, SendAlone
  <2> QED BY <1>2, <2>3 DEF mqtt_tcpclient_connect_cb, Waiting, Pkt
<1>3. ASSUME ConnectionEnds PROVE Waiting'
  BY <1>3 DEF ConnectionEnds, Waiting
<1>4. ASSUME mqtt_tcpclient_sent_cb PROVE Waiting'
  <2>1. unconfirmed # <<>> /\ unconfirmed' = Tail(unconfirmed)
    BY <1>0, <1>4 DEF mqtt_tcpclient_sent_cb, TypeOK
  <2>2. Len(unconfirmed') = Len(unconfirmed) - 1 /\ unconfirmed' \in Seq(Packet)
    BY <1>0, <2>1, TailFacts DEF TypeOK
  <2>3. connState' # "down"
    BY <1>0, <1>4, <2>1 DEF mqtt_tcpclient_sent_cb, Waiting
  <2>4. ~late' => Len(unconfirmed') = 0
    BY <1>0, <1>4, <2>1, <2>2 DEF mqtt_tcpclient_sent_cb, histVars, Waiting, TypeOK
  <2>5. ~late' => unconfirmed' = <<>>
    BY <2>2, <2>4, EmptyLength
  <2> QED BY <2>3, <2>4, <2>5 DEF Waiting
<1>5. ASSUME mqtt_tcpclient_recv PROVE Waiting'
  BY <1>0, <1>5, Received DEF Waiting
<1>6. ASSUME SendTimesOut PROVE Waiting'
  BY <1>0, <1>6 DEF SendTimesOut, Waiting, netVars
<1>7. ASSUME TaskData PROVE Waiting'
  <2>1. Head(msgQueue) \in Packet
    BY <1>0, <1>7, TailFacts DEF TaskData, TypeOK
  <2> QED BY <1>7, <2>1, SendWaits DEF TaskData
<1>8. ASSUME TaskKeepAlive PROVE Waiting'
  <2>1. Pkt("PINGREQ", 0, None) \in Packet
    BY ZeroId, PktType DEF PacketType
  <2>2. Pkt("PINGREQ", 0, None).type = "PINGREQ"
    BY DEF Pkt
  <2>3. late' = late /\ connState' # "down"
    BY <1>8 DEF TaskKeepAlive, histVars
  <2> QED BY <1>8, <2>1, <2>2, <2>3, SendWaits DEF TaskKeepAlive
<1>9. ASSUME BrokerReceives PROVE Waiting'
  BY <1>0, <1>9 DEF BrokerReceives, Waiting, clientVars
<1>10. CASE UNCHANGED vars
  BY <1>0, <1>10 DEF vars, clientVars, netVars, histVars, Waiting
<1> QED BY <1>1, <1>2, <1>3, <1>4, <1>5, <1>6, <1>7, <1>8, <1>9, <1>10 DEF Next

(* At first it waits for none.                                             *)
LEMMA WaitInit == Init => WaitInv
BY TypeInit DEF Init, WaitInv, Waiting

(* The invariant is inductive.                                             *)
LEMMA WaitNext == WaitInv /\ [Next]_vars => WaitInv'
BY TypeNext, WaitingNext DEF WaitInv

(* The client has one send under way at a time, unless one of this         *)
(* connection timed out: the sendTimeout counter of MQTT_Task, the sent    *)
(* callback and the keep-alive together see to it.                         *)
THEOREM SendsApart == Spec => []OneSendAtATime
<1>1. WaitInv => OneSendAtATime
  BY DEF WaitInv, Waiting, OneSendAtATime
<1> QED BY <1>1, WaitInit, WaitNext, PTL DEF Spec

(* publishedCb is called exactly for the confirmation of a PUBLISH, unless *)
(* a send of this connection timed out.                                    *)
THEOREM CallbackRight == Spec => PublishedCbRight
<1> DEFINE Right ==
      mqtt_tcpclient_sent_cb /\ ~late =>
        (CallsPublishedCb <=> unconfirmed[1].type = "PUBLISH" /\ connState = "MQTT_DATA")
<1>1. ASSUME WaitInv PROVE Right
  <2>1. SUFFICES ASSUME mqtt_tcpclient_sent_cb, ~late
                 PROVE  CallsPublishedCb <=>
                          unconfirmed[1].type = "PUBLISH" /\ connState = "MQTT_DATA"
    OBVIOUS
  <2>2. unconfirmed # <<>>
    BY <1>1, <2>1 DEF mqtt_tcpclient_sent_cb, WaitInv, TypeOK
  <2>3. unconfirmed[1].type = pending_msg_type
    BY <1>1, <2>1, <2>2 DEF WaitInv, Waiting
  <2> QED BY <2>3 DEF CallsPublishedCb
<1>2. WaitInv => [Right]_vars
  BY <1>1
<1> HIDE DEF Right
<1>3. Spec => [][Right]_vars
  BY <1>2, WaitInit, WaitNext, PTL DEF Spec
<1> QED BY <1>3 DEF Right, PublishedCbRight

-----------------------------------------------------------------------------
(* Identifiers *)

(* Identifiers not above n are not above a larger number.                  *)
LEMMA FreshMore ==
  ASSUME NEW s \in Seq(Packet), NEW n \in Nat, NEW k \in Nat, n <= k, Fresh(s, n)
  PROVE  Fresh(s, k)
<1>1. ASSUME NEW i \in DOMAIN s, Two(s[i]) PROVE s[i].id <= k
  <2>1. s[i] \in Packet
    OBVIOUS
  <2>2. s[i].id \in Nat
    BY <2>1, SessionAssumption DEF Packet
  <2> QED BY <1>1, <2>2 DEF Fresh
<1> QED BY <1>1 DEF Fresh

(* What avoids some identifiers avoids fewer of them.                      *)
LEMMA AvoidsLess ==
  ASSUME NEW s, NEW ids, NEW less, less \subseteq ids, Avoids(s, ids)
  PROVE  Avoids(s, less)
BY DEF Avoids

(* An empty queue holds no identifier.                                     *)
LEMMA EmptyFresh ==
  ASSUME NEW n, NEW ids
  PROVE  Fresh(<<>>, n) /\ Avoids(<<>>, ids) /\ TwoIds(<<>>) = {}
BY DEF Fresh, Avoids, TwoIds

(* Neither does one with a single packet that is not of QoS 2.             *)
LEMMA OneFresh ==
  ASSUME NEW p, ~Two(p), NEW n, NEW ids
  PROVE  Fresh(<<p>>, n) /\ Avoids(<<p>>, ids) /\ TwoIds(<<p>>) = {}
BY DEF Fresh, Avoids, TwoIds

(* Only a PUBLISH is of QoS 2.                                             *)
LEMMA NotTwo ==
  ASSUME NEW t, NEW id, NEW m, t # "PUBLISH"
  PROVE  ~Two(Pkt(t, id, m))
BY DEF Two, Pkt

(* The identifier of the first packet is not that of a later one.          *)
LEMMA FirstTwo ==
  ASSUME NEW s \in Seq(Packet), s # <<>>, Two(Head(s)), NEW n, Fresh(s, n)
  PROVE  Head(s).id \in TwoIds(s) /\ Head(s).id <= n /\ Avoids(Tail(s), {Head(s).id})
<1>1. 1 \in DOMAIN s /\ Head(s) = s[1]
  BY TailFacts
<1>2. \A i \in DOMAIN Tail(s) : i + 1 \in DOMAIN s /\ Tail(s)[i] = s[i + 1] /\ 1 < i + 1
  BY TailFacts
<1>3. Head(s).id \in TwoIds(s) /\ Head(s).id <= n
  BY <1>1 DEF TwoIds, Fresh
<1>4. Avoids(Tail(s), {Head(s).id})
  BY <1>1, <1>2 DEF Avoids, Fresh
<1> QED BY <1>3, <1>4

ApartInv == WaitInv /\ Apart

(* The types the identifiers need.                                         *)
LEMMA ApartTypes ==
  ASSUME TypeOK
  PROVE  msgQueue \in Seq(Packet) /\ toBroker \in Seq(Packet) /\ message_id \in Nat
BY SessionAssumption DEF TypeOK

(* A new packet has the next identifier. *)
LEMMA ApartSend ==
  ASSUME ApartInv, NEW m \in Messages, Send(m)
  PROVE  Apart'
<1> DEFINE id == IF Numbered(m) THEN message_id' ELSE 0
           e == Pkt(m.type, id, m)
           s == MakeRoom
<1>1. TypeOK /\ TypeOK'
  BY TypeNext DEF ApartInv, WaitInv, Next
<1>2. message_id \in Nat /\ message_id' \in Nat /\ message_id <= message_id'
  BY <1>1, ApartTypes, SessionAssumption, SMTT(60) DEF Send, TypeOK
<1>3. msgQueue' = Append(s, e)
  BY DEF Send
<1>4. e \in Packet
  <2>1. m.type \in PacketType
    BY SessionAssumption DEF PacketType
  <2>2. id \in 0 .. MaxMessageId
    BY <1>1, ZeroId DEF TypeOK
  <2> QED BY <2>1, <2>2, PktType
<1>5. Two(e) => e.id = message_id' /\ message_id' = message_id + 1
  <2>1. Two(e) => m.qos = 2
    BY DEF Two, Pkt
  <2>2. m.qos = 2 => Numbered(m)
    BY DEF Numbered
  <2> QED BY <2>1, <2>2 DEF Send, Pkt
<1>6. s \in Seq(Packet)
  BY <1>1, RoomType
<1>7. s = msgQueue \/ (msgQueue # <<>> /\ s = Tail(msgQueue))
  BY <1>1, SessionAssumption DEF MakeRoom, TypeOK
<1> HIDE DEF e, s
<1>8. toBroker' = toBroker /\ held' = held /\ connState' = connState
      /\ swallowed' = swallowed /\ carried' = carried /\ clean_session' = clean_session
  BY DEF Send, netVars, brokerVars
<1> SUFFICES ASSUME ~carried' PROVE Apart'
  BY DEF Apart
<1>9. Fresh(msgQueue, message_id) /\ Fresh(toBroker, message_id)
      /\ Avoids(msgQueue, TwoIds(toBroker)) /\ swallowed = {}
  BY <1>8 DEF ApartInv, Apart
<1>10. \A ids : Avoids(msgQueue, ids) => Avoids(s, ids)
  BY <1>1, <1>7, ApartTypes, TailFresh
<1>11. Fresh(s, message_id) /\ Fresh(s, message_id') /\ Fresh(toBroker, message_id')
  <2>1. Fresh(s, message_id)
    BY <1>1, <1>7, <1>9, ApartTypes, TailFresh
  <2> QED BY <1>1, <1>2, <1>6, <1>9, <2>1, ApartTypes, FreshMore
<1>12. \A ids : Avoids(s, ids) /\ (\A x \in ids : x <= message_id)
                  => Avoids(Append(s, e), ids)
  <2>1. SUFFICES ASSUME NEW ids, Avoids(s, ids), \A x \in ids : x <= message_id
                 PROVE  Avoids(Append(s, e), ids)
    OBVIOUS
  <2>2. Two(e) => e.id <= message_id' /\ e.id \notin TwoIds(s) /\ e.id \notin ids
    <3>1. \A x \in TwoIds(s) : x <= message_id
      BY <1>11 DEF TwoIds, Fresh
    <3> QED BY <1>2, <1>5, <2>1, <3>1
  <2> QED BY <1>2, <1>4, <1>6, <2>1, <2>2, AppendFresh
<1>13. Fresh(msgQueue', message_id')
  <2>1. \A x \in TwoIds(s) : x <= message_id
    BY <1>11 DEF TwoIds, Fresh
  <2>2. Two(e) => e.id <= message_id' /\ e.id \notin TwoIds(s) /\ e.id \notin {}
    BY <1>2, <1>5, <2>1
  <2> QED BY <1>2, <1>3, <1>4, <1>6, <1>11, <2>2, AppendFresh
<1>14. Avoids(msgQueue', TwoIds(toBroker))
  <2>1. \A x \in TwoIds(toBroker) : x <= message_id
    BY <1>9 DEF TwoIds, Fresh
  <2> QED BY <1>3, <1>9, <1>10, <1>12, <2>1
<1>15. HeldApart => HeldApart'
  <2>1. HeldIds' = HeldIds
    BY <1>8 DEF HeldIds
  <2>2. SUFFICES ASSUME HeldApart PROVE HeldApart'
    OBVIOUS
  <2>3. Avoids(msgQueue', HeldIds)
    BY <1>3, <1>10, <1>12, <2>2 DEF HeldApart
  <2>4. \A i \in HeldIds : i <= message_id'
    <3>1. ASSUME NEW i \in HeldIds PROVE i <= message_id'
      <4>1. i \in Nat
        BY <1>1, SessionAssumption, SMTT(60) DEF HeldIds, TypeOK
      <4> QED BY <1>2, <2>2, <4>1 DEF HeldApart
    <3> QED BY <3>1
  <2> QED BY <1>8, <2>1, <2>2, <2>3, <2>4 DEF HeldApart
<1>16. ClearWaits' = ClearWaits
  BY <1>8 DEF ClearWaits
<1> QED BY <1>8, <1>9, <1>11, <1>13, <1>14, <1>15, <1>16 DEF Apart, ApartInv

(* A packet that is no QoS 2 message enters the queue or is sent. *)
LEMMA ApartOther ==
  ASSUME ApartInv, TypeOK', NEW e \in Packet, ~Two(e),
         msgQueue' \in {msgQueue, Append(msgQueue, e)},
         toBroker' \in {toBroker, Append(toBroker, e)},
         message_id' = message_id, held' = held, swallowed' = swallowed,
         carried' = carried, clean_session' = clean_session,
         connState' # "down" => connState # "down"
  PROVE  Apart'
<1>1. msgQueue \in Seq(Packet) /\ toBroker \in Seq(Packet) /\ message_id \in Nat
  BY ApartTypes DEF ApartInv, WaitInv
<1> SUFFICES ASSUME ~carried' PROVE Apart'
  BY DEF Apart
<1>2. Fresh(msgQueue', message_id) /\ Fresh(toBroker', message_id)
  BY <1>1, AppendFresh DEF ApartInv, Apart
<1>3. \A ids : /\ Avoids(msgQueue, ids) => Avoids(msgQueue', ids)
               /\ Avoids(toBroker, ids) => Avoids(toBroker', ids)
  BY <1>1, AppendFresh
<1>4. TwoIds(toBroker') \subseteq TwoIds(toBroker)
  BY <1>1, AppendFresh
<1>5. Avoids(msgQueue', TwoIds(toBroker'))
  BY <1>3, <1>4, AvoidsLess DEF ApartInv, Apart
<1>6. HeldApart => HeldApart'
  BY <1>3 DEF HeldApart, HeldIds
<1>7. ClearWaits => ClearWaits'
  <2>1. SUFFICES ASSUME ClearWaits PROVE ClearWaits'
    OBVIOUS
  <2>2. toBroker' # <<>> /\ toBroker'[1] = toBroker[1]
    BY <1>1, <2>1 DEF ClearWaits
  <2> QED BY <2>1, <2>2 DEF ClearWaits
<1> QED BY <1>2, <1>5, <1>6, <1>7 DEF Apart, ApartInv

(* The oldest packet moves from the queue to the connection, or is lost. *)
LEMMA ApartTaskData ==
  ASSUME ApartInv, TaskData
  PROVE  Apart'
<1> DEFINE h == Head(msgQueue)
<1>1. msgQueue \in Seq(Packet) /\ toBroker \in Seq(Packet) /\ message_id \in Nat
  BY ApartTypes DEF ApartInv, WaitInv
<1>2. msgQueue # <<>> /\ msgQueue' = Tail(msgQueue) /\ connState # "down"
      /\ toBroker' \in {toBroker, Append(toBroker, h)}
      /\ message_id' = message_id /\ held' = held /\ swallowed' = swallowed
      /\ carried' = carried /\ connState' = connState /\ clean_session' = clean_session
  BY DEF TaskData, espconn_send, brokerVars
<1>3. h \in Packet
  BY <1>1, <1>2, TailFacts
<1> SUFFICES ASSUME ~carried' PROVE Apart'
  BY DEF Apart
<1>4. Fresh(msgQueue, message_id) /\ Fresh(toBroker, message_id)
      /\ Avoids(msgQueue, TwoIds(toBroker)) /\ swallowed = {}
      /\ (~ClearWaits => HeldApart)
  BY <1>2 DEF ApartInv, Apart
<1>5. Two(h) => h.id <= message_id /\ Avoids(Tail(msgQueue), {h.id})
  BY <1>1, <1>2, <1>4, FirstTwo
<1>6. \A ids : Avoids(msgQueue, ids) =>
               Avoids(Tail(msgQueue), ids) /\ (Two(h) => h.id \notin ids)
  BY <1>1, <1>2, TailFresh, TailFacts DEF Avoids
<1>7. Fresh(msgQueue', message_id)
  BY <1>1, <1>2, <1>4, TailFresh
<1> HIDE DEF h
<1>8. Fresh(toBroker', message_id)
  <2>1. Two(h) => h.id <= message_id /\ h.id \notin TwoIds(toBroker) /\ h.id \notin {}
    BY <1>4, <1>5, <1>6
  <2> QED BY <1>1, <1>2, <1>3, <1>4, <2>1, AppendFresh
<1>9. Avoids(msgQueue', TwoIds(toBroker'))
  <2>1. TwoIds(toBroker') \subseteq TwoIds(toBroker) \cup (IF Two(h) THEN {h.id} ELSE {})
    <3>1. Two(h) => h.id <= message_id /\ h.id \notin TwoIds(toBroker) /\ h.id \notin {}
      BY <1>4, <1>5, <1>6
    <3> QED BY <1>1, <1>2, <1>3, <3>1, AppendFresh
  <2>2. Avoids(msgQueue', TwoIds(toBroker))
    BY <1>2, <1>4, <1>6
  <2> QED BY <1>2, <1>5, <2>1, <2>2 DEF Avoids
<1>10. HeldApart => HeldApart'
  <2>1. SUFFICES ASSUME HeldApart PROVE HeldApart'
    OBVIOUS
  <2>2. HeldIds' = HeldIds
    BY <1>2 DEF HeldIds
  <2>3. Avoids(msgQueue', HeldIds) /\ (Two(h) => h.id \notin HeldIds)
    BY <1>2, <1>6, <2>1 DEF HeldApart
  <2>4. Avoids(toBroker', HeldIds)
    <3>1. Two(h) => h.id <= message_id /\ h.id \notin TwoIds(toBroker) /\ h.id \notin HeldIds
      BY <1>4, <1>5, <1>6, <2>3
    <3> QED BY <1>1, <1>2, <1>3, <2>1, <3>1, AppendFresh DEF HeldApart
  <2> QED BY <1>2, <2>1, <2>2, <2>3, <2>4 DEF HeldApart
<1>11. ClearWaits => ClearWaits'
  <2>1. SUFFICES ASSUME ClearWaits PROVE ClearWaits'
    OBVIOUS
  <2>2. 1 \in DOMAIN toBroker /\ toBroker # <<>>
    BY <1>1, <2>1, TailFacts DEF ClearWaits
  <2>3. Append(toBroker, h) # <<>> /\ Append(toBroker, h)[1] = toBroker[1]
    BY <1>1, <1>3, <2>2, AppendFacts
  <2>4. toBroker' # <<>> /\ toBroker'[1] = toBroker[1]
    BY <1>2, <2>2, <2>3
  <2> QED BY <1>2, <2>1, <2>4 DEF ClearWaits
<1> QED BY <1>2, <1>4, <1>7, <1>8, <1>9, <1>10, <1>11 DEF Apart

(* What the broker receives goes from the connection to what it holds, and *)
(* CONNECT clears that.                                                    *)
LEMMA ApartBroker ==
  ASSUME ApartInv, BrokerReceives
  PROVE  Apart'
<1> DEFINE p == Head(toBroker)
           qos2 == p.type = "PUBLISH" /\ p.msg.qos = 2
           duplicate == qos2 /\ \E h \in held : h.id = p.id
<1>1. msgQueue \in Seq(Packet) /\ toBroker \in Seq(Packet) /\ message_id \in Nat
  BY ApartTypes DEF ApartInv, WaitInv
<1>2. toBroker # <<>> /\ toBroker' = Tail(toBroker) /\ msgQueue' = msgQueue
      /\ message_id' = message_id /\ connState' = connState /\ carried' = carried
      /\ clean_session' = clean_session
  BY DEF BrokerReceives, clientVars
<1>3. /\ held' = CASE qos2 /\ ~duplicate -> held \cup {[id |-> p.id, msg |-> p.msg]}
                   [] p.type = "PUBREL" -> {h \in held : h.id # p.id}
                   [] p.type = "CONNECT" /\ clean_session -> {}
                   [] OTHER -> held
      /\ swallowed' = IF duplicate THEN swallowed \cup {p.msg} ELSE swallowed
  BY DEF BrokerReceives
<1>4. p = toBroker[1] /\ (ClearWaits <=> p.type = "CONNECT" /\ clean_session) /\ (qos2 <=> Two(p))
  BY <1>1, <1>2, TailFacts DEF ClearWaits, Two
<1>5. connState # "down"
  BY <1>2 DEF ApartInv, WaitInv, Waiting
<1> SUFFICES ASSUME ~carried' PROVE Apart'
  BY DEF Apart
<1>6. Fresh(msgQueue, message_id) /\ Fresh(toBroker, message_id)
      /\ Avoids(msgQueue, TwoIds(toBroker)) /\ swallowed = {}
      /\ (~ClearWaits => HeldApart)
  BY <1>2, <1>5 DEF ApartInv, Apart
<1>7. Fresh(toBroker', message_id) /\ Avoids(msgQueue, TwoIds(toBroker'))
  BY <1>1, <1>2, <1>6, TailFresh, AvoidsLess
<1>8. CASE p.type = "CONNECT" /\ clean_session
  <2>1. ~qos2 /\ ~duplicate /\ held' = {} /\ swallowed' = {}
    BY <1>3, <1>6, <1>8
  <2>2. HeldIds' = {}
    BY <2>1 DEF HeldIds
  <2>3. HeldApart'
    BY <2>2 DEF HeldApart, Avoids
  <2> QED BY <1>2, <1>6, <1>7, <2>1, <2>3 DEF Apart
<1>9. CASE ~(p.type = "CONNECT" /\ clean_session)
  <2>1. HeldApart
    BY <1>4, <1>6, <1>9
  <2>2. ~duplicate
    <3>1. Two(p) => p.id \notin HeldIds
      BY <1>1, <1>2, <1>4, <2>1, TailFacts DEF HeldApart, Avoids
    <3> QED BY <1>4, <3>1 DEF HeldIds
  <2>3. HeldIds' \subseteq HeldIds \cup (IF Two(p) THEN {p.id} ELSE {})
    <3>1. held' \subseteq held \cup (IF qos2 THEN {[id |-> p.id, msg |-> p.msg]} ELSE {})
      BY <1>3
    <3> HIDE DEF qos2, p
    <3> QED BY <1>4, <3>1 DEF HeldIds
  <2>4. Two(p) => /\ p.id <= message_id /\ p.id \in TwoIds(toBroker)
                  /\ Avoids(toBroker', {p.id}) /\ Avoids(msgQueue, {p.id})
    <3>1. Two(p) => /\ p.id <= message_id /\ p.id \in TwoIds(toBroker)
                    /\ Avoids(toBroker', {p.id})
      BY <1>1, <1>2, <1>6, FirstTwo
    <3> QED BY <1>6, <3>1 DEF Avoids
  <2>5. Avoids(toBroker', HeldIds)
    BY <1>1, <1>2, <2>1, TailFresh DEF HeldApart
  <2> HIDE DEF p
  <2>6. HeldApart'
    <3>1. \A i \in HeldIds' : i <= message_id
      BY <2>1, <2>3, <2>4 DEF HeldApart
    <3>2. Avoids(msgQueue, HeldIds')
      BY <2>1, <2>3, <2>4 DEF HeldApart, Avoids
    <3>3. Avoids(toBroker', HeldIds')
      BY <2>3, <2>4, <2>5 DEF Avoids
    <3> QED BY <1>2, <3>1, <3>2, <3>3 DEF HeldApart
  <2>7. swallowed' = {}
    BY <1>3, <1>6, <2>2
  <2> QED BY <1>2, <1>6, <1>7, <2>6, <2>7 DEF Apart
<1> QED BY <1>8, <1>9

(* Every step keeps the identifiers in use apart.                          *)
LEMMA ApartNext ==
  ASSUME ApartInv, [Next]_vars
  PROVE  Apart'
<1>0. TypeOK /\ TypeOK' /\ Waiting /\ Apart
  BY TypeNext DEF ApartInv, WaitInv
<1>1. ASSUME NEW m \in Messages, Send(m) PROVE Apart'
  BY <1>1, ApartSend
<1>2. ASSUME mqtt_tcpclient_connect_cb PROVE Apart'
  <2> DEFINE e == Pkt("CONNECT", 0, None)
  <2>1. e \in Packet /\ ~Two(e)
    BY ZeroId, PktType, NotTwo DEF PacketType
  <2>2. message_id' = 0 /\ msgQueue' = msgQueue /\ swallowed' = swallowed
        /\ held' = held /\ clean_session' = clean_session
        /\ (~carried' => ~carried /\ msgQueue = <<>> /\ (clean_session \/ held = {}))
    BY <1>2 DEF mqtt_tcpclient_connect_cb, brokerVars
  <2>3. toBroker' = <<e>>
    <3>1. unconfirmed = <<>> /\ toBroker = <<>>
      BY <1>0, <1>2 DEF mqtt_tcpclient_connect_cb, Waiting
    <3>2. Accepts
      BY <3>1, SessionAssumption DEF Accepts
    <3> QED BY <1>2, <3>1, <3>2 DEF mqtt_tcpclient_connect_cb, espconn_send
  <2>4. clean_session => ClearWaits'
    BY <2>2, <2>3 DEF ClearWaits, Pkt
  <2>5. held = {} => HeldApart'
    BY <2>2 DEF HeldApart, HeldIds, Avoids
  <2> HIDE DEF e
  <2>6. ~carried' => Fresh(msgQueue', message_id') /\ Avoids(msgQueue', TwoIds(toBroker'))
    BY <2>2, EmptyFresh
  <2>7. Fresh(toBroker', message_id')
    BY <2>1, <2>3, OneFresh
  <2> QED BY <1>0, <2>2, <2>4, <2>5, <2>6, <2>7 DEF Apart
<1>3. ASSUME ConnectionEnds PROVE Apart'
  <2>1. toBroker' = <<>> /\ message_id' = message_id /\ msgQueue' = msgQueue
        /\ swallowed' = swallowed /\ carried' = carried /\ connState' = "down"
    BY <1>3 DEF ConnectionEnds, brokerVars
  <2>2. Avoids(msgQueue, {}) /\ TwoIds(<<>>) = {} /\ Fresh(<<>>, message_id)
    BY EmptyFresh DEF Avoids
  <2> QED BY <1>0, <2>1, <2>2 DEF Apart
<1>4. ASSUME mqtt_tcpclient_sent_cb PROVE Apart'
  BY <1>0, <1>4 DEF mqtt_tcpclient_sent_cb, brokerVars, histVars, Apart, HeldApart, HeldIds,
                    ClearWaits
<1>5. ASSUME mqtt_tcpclient_recv PROVE Apart'
  <2>1. PICK e \in Packet :
          /\ e.type = "PUBREL"
          /\ msgQueue' = msgQueue \/ (msgQueue' = Append(msgQueue, e) /\ Len(msgQueue) < QueueSize)
    BY <1>0, <1>5, ReceivedQueue
  <2>2. ~Two(e)
    BY <2>1 DEF Two
  <2> QED BY <1>0, <1>5, <2>1, <2>2, ApartOther, Received DEF brokerVars
<1>6. ASSUME SendTimesOut PROVE Apart'
  BY <1>0, <1>6 DEF SendTimesOut, netVars, brokerVars, Apart, HeldApart, HeldIds,
                    ClearWaits
<1>7. ASSUME TaskData PROVE Apart'
  BY <1>7, ApartTaskData
<1>8. ASSUME TaskKeepAlive PROVE Apart'
  <2> DEFINE e == Pkt("PINGREQ", 0, None)
  <2>1. e \in Packet /\ ~Two(e)
    BY ZeroId, PktType, NotTwo DEF PacketType
  <2>2. /\ toBroker' \in {toBroker, Append(toBroker, e)}
        /\ msgQueue' = msgQueue /\ message_id' = message_id /\ held' = held
        /\ swallowed' = swallowed /\ carried' = carried /\ connState # "down"
        /\ clean_session' = clean_session
    BY <1>8 DEF TaskKeepAlive, espconn_send, brokerVars, histVars
  <2> HIDE DEF e
  <2> QED BY <1>0, <2>1, <2>2, ApartOther
<1>9. ASSUME BrokerReceives PROVE Apart'
  BY <1>9, ApartBroker
<1>10. CASE UNCHANGED vars
  BY <1>0, <1>10 DEF vars, clientVars, netVars, brokerVars, histVars, Apart, HeldApart,
                     HeldIds, ClearWaits
<1> QED BY <1>1, <1>2, <1>3, <1>4, <1>5, <1>6, <1>7, <1>8, <1>9, <1>10 DEF Next

(* At first none is in use.                                                *)
LEMMA ApartInit == Init => ApartInv
<1> SUFFICES ASSUME Init PROVE ApartInv
  OBVIOUS
<1>1. TwoIds(<<>>) = {} /\ Fresh(<<>>, 0) /\ Avoids(<<>>, TwoIds(<<>>))
  BY EmptyFresh
<1>2. Apart
  BY <1>1 DEF Init, Apart
<1> QED BY <1>2, WaitInit DEF ApartInv

(* On connections that all began with an empty queue, and with nothing     *)
(* held by the broker unless the session is clean, the broker never takes a*)
(* QoS 2 message for a duplicate of another: then mqtt_msg_init may start  *)
(* the identifiers over.                                                   *)
THEOREM NoneTakenForAnother == Spec => []NoneSwallowedUncarried
<1>1. ApartInv /\ [Next]_vars => ApartInv'
  BY WaitNext, ApartNext DEF ApartInv
<1>2. ApartInv => NoneSwallowedUncarried
  BY DEF ApartInv, Apart, NoneSwallowedUncarried
<1> QED BY <1>1, <1>2, ApartInit, PTL DEF Spec

-----------------------------------------------------------------------------
(* Messages keep their order *)

(* In o, a message that equals a comes before one that equals b. *)
Before(a, b, o) == \E k, n \in DOMAIN o : k < n /\ o[k] = a /\ o[n] = b

Pub(p) == p.type = "PUBLISH"

(* The messages published by the packets of s were all asked for, are in   *)
(* order, and come before those of t.                                      *)
AllAsked(s, o) == \A i \in DOMAIN s : Pub(s[i]) => \E k \in DOMAIN o : o[k] = s[i].msg
Sorted(s, o) ==
  \A i, j \in DOMAIN s :
    i < j /\ Pub(s[i]) /\ Pub(s[j]) => Before(s[i].msg, s[j].msg, o)
Ahead(s, t, o) ==
  \A i \in DOMAIN s, j \in DOMAIN t :
    Pub(s[i]) /\ Pub(t[j]) => Before(s[i].msg, t[j].msg, o)

(* What the broker took, as packets. *)
Taken == [i \in DOMAIN accepted |-> Pkt("PUBLISH", 0, accepted[i])]

(* What the broker took, what is on its way to it and what is queued are   *)
(* in the order of the application, one after another.                     *)
Line ==
  /\ AllAsked(Taken, order) /\ AllAsked(toBroker, order) /\ AllAsked(msgQueue, order)
  /\ Sorted(Taken, order) /\ Sorted(toBroker, order) /\ Sorted(msgQueue, order)
  /\ Ahead(Taken, toBroker, order) /\ Ahead(Taken, msgQueue, order)
  /\ Ahead(toBroker, msgQueue, order)

LineInv == TypeOK /\ Line

(* The order grows at its end, which disturbs nothing. *)
LEMMA LineMore ==
  ASSUME NEW S, NEW o \in Seq(S), NEW m \in S, NEW s, NEW t
  PROVE  /\ AllAsked(s, o) => AllAsked(s, Append(o, m))
         /\ Sorted(s, o) => Sorted(s, Append(o, m))
         /\ Ahead(s, t, o) => Ahead(s, t, Append(o, m))
<1>1. /\ DOMAIN o \subseteq DOMAIN Append(o, m)
      /\ \A i \in DOMAIN o : Append(o, m)[i] = o[i]
  BY AppendFacts
<1>2. \A a, b : Before(a, b, o) => Before(a, b, Append(o, m))
  BY <1>1 DEF Before
<1> QED BY <1>1, <1>2 DEF AllAsked, Sorted, Ahead

(* The front packet goes. *)
LEMMA LineTail ==
  ASSUME NEW S, NEW s \in Seq(S), s # <<>>, NEW t, NEW o
  PROVE  /\ AllAsked(s, o) => AllAsked(Tail(s), o)
         /\ Sorted(s, o) => Sorted(Tail(s), o)
         /\ Ahead(s, t, o) => Ahead(Tail(s), t, o)
         /\ Ahead(t, s, o) => Ahead(t, Tail(s), o)
<1>1. \A i \in DOMAIN Tail(s) : i + 1 \in DOMAIN s /\ Tail(s)[i] = s[i + 1]
  BY TailFacts
<1>2. \A i, j \in DOMAIN Tail(s) : i < j => i + 1 < j + 1
  BY TailFacts
<1> QED BY <1>1, <1>2 DEF AllAsked, Sorted, Ahead

(* A packet enters at the back: what it publishes, if anything, is asked   *)
(* for and comes after what is before it.                                  *)
LEMMA LineAppend ==
  ASSUME NEW S, NEW s \in Seq(S), NEW e \in S, NEW t, NEW o
  PROVE  /\ AllAsked(s, o) /\ (Pub(e) => \E k \in DOMAIN o : o[k] = e.msg)
              => AllAsked(Append(s, e), o)
         /\ Sorted(s, o)
              /\ (Pub(e) => \A i \in DOMAIN s : Pub(s[i]) => Before(s[i].msg, e.msg, o))
              => Sorted(Append(s, e), o)
         /\ Ahead(t, s, o)
              /\ (Pub(e) => \A i \in DOMAIN t : Pub(t[i]) => Before(t[i].msg, e.msg, o))
              => Ahead(t, Append(s, e), o)
         /\ Ahead(s, t, o)
              /\ (Pub(e) => \A i \in DOMAIN t : Pub(t[i]) => Before(e.msg, t[i].msg, o))
              => Ahead(Append(s, e), t, o)
<1>1. /\ DOMAIN Append(s, e) = DOMAIN s \cup {Len(s) + 1}
      /\ \A i \in DOMAIN s : Append(s, e)[i] = s[i] /\ i < Len(s) + 1
      /\ Append(s, e)[Len(s) + 1] = e
  BY AppendFacts
<1>2. \A i \in DOMAIN s : i \in Nat /\ ~(Len(s) + 1 < i) /\ ~(Len(s) + 1 < Len(s) + 1)
  OBVIOUS
<1> QED BY <1>1, <1>2 DEF AllAsked, Sorted, Ahead

(* A message asked for now comes after all that were. *)
LEMMA LineNew ==
  ASSUME NEW S, NEW o \in Seq(S), NEW m \in S, NEW s, AllAsked(s, o)
  PROVE  /\ \A i \in DOMAIN s : Pub(s[i]) => Before(s[i].msg, m, Append(o, m))
         /\ \E k \in DOMAIN Append(o, m) : Append(o, m)[k] = m
<1>1. /\ DOMAIN Append(o, m) = DOMAIN o \cup {Len(o) + 1}
      /\ \A i \in DOMAIN o : Append(o, m)[i] = o[i] /\ i < Len(o) + 1
      /\ Append(o, m)[Len(o) + 1] = m
  BY AppendFacts
<1> QED BY <1>1 DEF AllAsked, Before

(* A sequence whose packets publish nothing new, or fewer. *)
LEMMA LineEmpty ==
  ASSUME NEW t, NEW o
  PROVE  AllAsked(<<>>, o) /\ Sorted(<<>>, o) /\ Ahead(<<>>, t, o) /\ Ahead(t, <<>>, o)
<1>1. DOMAIN <<>> = {}
  OBVIOUS
<1> QED BY <1>1 DEF AllAsked, Sorted, Ahead

(* Taking a message appends it to Taken. *)
LEMMA TakenAppend ==
  ASSUME TypeOK, NEW p \in Packet, Pub(p), accepted' = Append(accepted, p.msg)
  PROVE  /\ Taken \in Seq(Packet) /\ Taken' = Append(Taken, Pkt("PUBLISH", 0, p.msg))
         /\ Pkt("PUBLISH", 0, p.msg) \in Packet
<1> DEFINE M == Messages \cup {None}
           e == Pkt("PUBLISH", 0, p.msg)
<1>1. accepted \in Seq(M) /\ p.msg \in M
  BY DEF TypeOK, Packet
<1>2. \A m \in M : Pkt("PUBLISH", 0, m) \in Packet
  BY ZeroId, PktType DEF PacketType
<1>3. Taken \in Seq(Packet) /\ Len(Taken) = Len(accepted)
  <2>1. \A i \in 1 .. Len(accepted) : accepted[i] \in M
    BY <1>1
  <2>2. Taken = [i \in 1 .. Len(accepted) |-> Pkt("PUBLISH", 0, accepted[i])]
    BY <1>1 DEF Taken
  <2> HIDE DEF M
  <2> QED BY <1>1, <1>2, <2>1, <2>2
<1>4. /\ DOMAIN accepted' = DOMAIN accepted \cup {Len(accepted) + 1}
      /\ \A i \in DOMAIN accepted : accepted'[i] = accepted[i] /\ i < Len(accepted) + 1
      /\ accepted'[Len(accepted) + 1] = p.msg
  BY <1>1, AppendFacts
<1>5. e \in Packet
  BY <1>1, <1>2
<1> HIDE DEF e, M
<1>6. /\ DOMAIN Append(Taken, e) = DOMAIN Taken \cup {Len(Taken) + 1}
      /\ \A i \in DOMAIN Taken : Append(Taken, e)[i] = Taken[i] /\ i < Len(Taken) + 1
      /\ Append(Taken, e)[Len(Taken) + 1] = e
      /\ Append(Taken, e) \in Seq(Packet)
  BY <1>3, <1>5, AppendFacts
<1>7. DOMAIN Taken = DOMAIN accepted /\ DOMAIN Taken' = DOMAIN accepted'
  BY DEF Taken
<1>8. ASSUME NEW i \in DOMAIN Taken' PROVE Taken'[i] = Append(Taken, e)[i]
  <2>1. Taken'[i] = Pkt("PUBLISH", 0, accepted'[i])
    BY <1>8 DEF Taken
  <2>2. CASE i \in DOMAIN accepted
    <3>1. Taken[i] = Pkt("PUBLISH", 0, accepted[i])
      BY <2>2 DEF Taken
    <3> QED BY <1>4, <1>6, <1>7, <2>1, <2>2, <3>1
  <2>3. CASE i = Len(accepted) + 1
    BY <1>3, <1>4, <1>6, <2>1, <2>3 DEF e
  <2> QED BY <1>4, <1>7, <2>2, <2>3
<1>9. Taken' = [i \in DOMAIN Taken' |-> Taken'[i]]
  BY DEF Taken
<1>10. Append(Taken, e) = [i \in DOMAIN Append(Taken, e) |-> Append(Taken, e)[i]]
  <2>1. \A t \in Seq(Packet) : t = [i \in DOMAIN t |-> t[i]]
    OBVIOUS
  <2> HIDE DEF Taken
  <2> QED BY <1>6, <2>1
<1>11. DOMAIN Taken' = DOMAIN Append(Taken, e)
  BY <1>3, <1>4, <1>6, <1>7
<1>12. Taken' = Append(Taken, e)
  BY <1>8, <1>9, <1>10, <1>11
<1> QED BY <1>3, <1>5, <1>12 DEF e

(* A packet that publishes nothing joins the queue or what is on its way. *)
LEMMA LineOther ==
  ASSUME LineInv, NEW e \in Packet, ~Pub(e), order' = order, accepted' = accepted,
         \/ toBroker' \in {toBroker, Append(toBroker, e)} /\ msgQueue' = msgQueue
         \/ toBroker' = toBroker /\ msgQueue' \in {msgQueue, Append(msgQueue, e)}
  PROVE  Line'
<1>1. toBroker \in Seq(Packet) /\ msgQueue \in Seq(Packet) /\ Taken' = Taken
  BY DEF LineInv, TypeOK, Taken
<1>2. CASE toBroker' = Append(toBroker, e) /\ msgQueue' = msgQueue
  <2>1. /\ AllAsked(toBroker', order) /\ Sorted(toBroker', order)
        /\ Ahead(Taken, toBroker', order) /\ Ahead(toBroker', msgQueue, order)
    BY <1>1, <1>2, LineAppend DEF LineInv, Line
  <2> QED BY <1>1, <1>2, <2>1 DEF LineInv, Line
<1>3. CASE msgQueue' = Append(msgQueue, e) /\ toBroker' = toBroker
  <2>1. /\ AllAsked(msgQueue', order) /\ Sorted(msgQueue', order)
        /\ Ahead(Taken, msgQueue', order) /\ Ahead(toBroker, msgQueue', order)
    BY <1>1, <1>3, LineAppend DEF LineInv, Line
  <2> QED BY <1>1, <1>3, <2>1 DEF LineInv, Line
<1>4. CASE toBroker' = toBroker /\ msgQueue' = msgQueue
  BY <1>1, <1>4 DEF LineInv, Line
<1> QED BY <1>2, <1>3, <1>4

(* Send: the newest message comes after all others. *)
LEMMA LineSend ==
  ASSUME LineInv, NEW m \in Messages, Send(m)
  PROVE  Line'
<1> DEFINE e == Pkt(m.type, IF Numbered(m) THEN message_id' ELSE 0, m)
           o == Append(order, m)
           q == MakeRoom
<1>1. /\ order' = o /\ msgQueue' = Append(q, e) /\ toBroker' = toBroker
      /\ accepted' = accepted /\ Taken' = Taken
  BY DEF Send, netVars, brokerVars, Taken
<1>2. /\ order \in Seq(Messages) /\ msgQueue \in Seq(Packet) /\ q \in Seq(Packet)
  BY RoomType DEF LineInv, TypeOK
<1>3. e \in Packet /\ e.msg = m
  <2>1. message_id' \in 0 .. MaxMessageId
    BY SessionAssumption DEF LineInv, TypeOK, Send
  <2>2. m.type \in PacketType
    BY SessionAssumption DEF PacketType
  <2> QED BY <2>1, <2>2, ZeroId, PktType DEF Pkt
<1> HIDE DEF e
<1>4. /\ AllAsked(q, order) /\ Sorted(q, order)
      /\ Ahead(Taken, q, order) /\ Ahead(toBroker, q, order)
  <2>1. CASE Len(msgQueue) < QueueSize
    BY <2>1 DEF LineInv, Line, MakeRoom
  <2>2. CASE ~(Len(msgQueue) < QueueSize)
    <3>1. q = Tail(msgQueue) /\ msgQueue # <<>>
      BY <2>2, SessionAssumption DEF MakeRoom
    <3> QED BY <1>2, <3>1, LineTail DEF LineInv, Line
  <2> QED BY <2>1, <2>2
<1>5. /\ AllAsked(Taken, order) /\ AllAsked(toBroker, order)
  BY DEF LineInv, Line
<1> HIDE DEF q
<1>6. /\ AllAsked(Taken, o) /\ AllAsked(toBroker, o) /\ AllAsked(q, o)
      /\ Sorted(Taken, o) /\ Sorted(toBroker, o) /\ Sorted(q, o)
      /\ Ahead(Taken, toBroker, o) /\ Ahead(Taken, q, o) /\ Ahead(toBroker, q, o)
  BY <1>2, <1>4, LineMore DEF LineInv, Line
<1>7. /\ \A i \in DOMAIN Taken : Pub(Taken[i]) => Before(Taken[i].msg, m, o)
      /\ \A i \in DOMAIN toBroker : Pub(toBroker[i]) => Before(toBroker[i].msg, m, o)
      /\ \A i \in DOMAIN q : Pub(q[i]) => Before(q[i].msg, m, o)
      /\ \E k \in DOMAIN o : o[k] = m
  BY <1>2, <1>4, <1>5, LineNew
<1> HIDE DEF o
<1>8. /\ AllAsked(Append(q, e), o) /\ Sorted(Append(q, e), o)
      /\ Ahead(Taken, Append(q, e), o) /\ Ahead(toBroker, Append(q, e), o)
  BY <1>2, <1>3, <1>6, <1>7, LineAppend
<1> QED BY <1>1, <1>6, <1>8 DEF Line

(* TaskData: the oldest packet of the queue goes after those on their way. *)
LEMMA LineTaskData ==
  ASSUME LineInv, TaskData
  PROVE  Line'
<1> DEFINE e == Head(msgQueue)
           q == Tail(msgQueue)
<1>1. /\ msgQueue' = q /\ toBroker' \in {toBroker, Append(toBroker, e)}
      /\ order' = order /\ Taken' = Taken
  BY DEF TaskData, espconn_send, brokerVars, Taken
<1>2. /\ msgQueue \in Seq(Packet) /\ msgQueue # <<>> /\ toBroker \in Seq(Packet)
      /\ e \in Packet /\ e = msgQueue[1] /\ 1 \in DOMAIN msgQueue
      /\ \A i \in DOMAIN q : i + 1 \in DOMAIN msgQueue /\ q[i] = msgQueue[i + 1] /\ 1 < i + 1
  <2>1. msgQueue \in Seq(Packet) /\ msgQueue # <<>> /\ toBroker \in Seq(Packet)
    BY DEF LineInv, TypeOK, TaskData
  <2> QED BY <2>1, TailFacts
<1>3. /\ AllAsked(q, order) /\ Sorted(q, order)
      /\ Ahead(Taken, q, order) /\ Ahead(toBroker, q, order)
  BY <1>2, LineTail DEF LineInv, Line
<1>4. /\ Pub(e) => \E k \in DOMAIN order : order[k] = e.msg
      /\ Pub(e) => \A i \in DOMAIN toBroker :
                     Pub(toBroker[i]) => Before(toBroker[i].msg, e.msg, order)
      /\ Pub(e) => \A i \in DOMAIN Taken :
                     Pub(Taken[i]) => Before(Taken[i].msg, e.msg, order)
      /\ Pub(e) => \A i \in DOMAIN q : Pub(q[i]) => Before(e.msg, q[i].msg, order)
  BY <1>2 DEF LineInv, Line, AllAsked, Ahead, Sorted
<1> HIDE DEF e, q
<1>5. /\ AllAsked(Append(toBroker, e), order) /\ Sorted(Append(toBroker, e), order)
      /\ Ahead(Taken, Append(toBroker, e), order) /\ Ahead(Append(toBroker, e), q, order)
  BY <1>2, <1>3, <1>4, LineAppend DEF LineInv, Line
<1> QED BY <1>1, <1>3, <1>5 DEF LineInv, Line

(* The broker takes the first message on its way, or leaves it. *)
LEMMA LineBroker ==
  ASSUME LineInv, BrokerReceives
  PROVE  Line'
<1> DEFINE p == Head(toBroker)
           b == Tail(toBroker)
           e == Pkt("PUBLISH", 0, p.msg)
<1>1. /\ toBroker' = b /\ order' = order /\ msgQueue' = msgQueue
      /\ accepted' = accepted \/ (Pub(p) /\ accepted' = Append(accepted, p.msg))
  BY DEF BrokerReceives, clientVars, Pub
<1>2. /\ toBroker \in Seq(Packet) /\ toBroker # <<>> /\ p \in Packet
      /\ p = toBroker[1] /\ 1 \in DOMAIN toBroker
      /\ \A i \in DOMAIN b : i + 1 \in DOMAIN toBroker /\ b[i] = toBroker[i + 1] /\ 1 < i + 1
  <2>1. toBroker \in Seq(Packet) /\ toBroker # <<>>
    BY DEF LineInv, TypeOK, BrokerReceives
  <2> QED BY <2>1, TailFacts
<1>3. /\ AllAsked(b, order) /\ Sorted(b, order)
      /\ Ahead(Taken, b, order) /\ Ahead(b, msgQueue, order)
  BY <1>2, LineTail DEF LineInv, Line
<1>4. CASE accepted' = accepted
  <2>1. Taken' = Taken
    BY <1>4 DEF Taken
  <2> HIDE DEF b
  <2> QED BY <1>1, <1>3, <2>1 DEF LineInv, Line
<1>5. CASE Pub(p) /\ accepted' = Append(accepted, p.msg)
  <2>1. Taken \in Seq(Packet) /\ Taken' = Append(Taken, e) /\ e \in Packet /\ e.msg = p.msg
    BY <1>2, <1>5, TakenAppend DEF LineInv, Pkt
  <2>2. /\ \E k \in DOMAIN order : order[k] = p.msg
        /\ \A i \in DOMAIN Taken : Pub(Taken[i]) => Before(Taken[i].msg, p.msg, order)
        /\ \A i \in DOMAIN b : Pub(b[i]) => Before(p.msg, b[i].msg, order)
        /\ \A i \in DOMAIN msgQueue :
             Pub(msgQueue[i]) => Before(p.msg, msgQueue[i].msg, order)
    BY <1>2, <1>5 DEF LineInv, Line, AllAsked, Ahead, Sorted
  <2> HIDE DEF e, b, p
  <2>3. /\ AllAsked(Append(Taken, e), order) /\ Sorted(Append(Taken, e), order)
        /\ Ahead(Append(Taken, e), b, order) /\ Ahead(Append(Taken, e), msgQueue, order)
    BY <1>3, <2>1, <2>2, LineAppend DEF LineInv, Line
  <2> QED BY <1>1, <1>3, <2>1, <2>3 DEF LineInv, Line
<1> QED BY <1>1, <1>4, <1>5

(* Every step keeps the messages in line.                                  *)
LEMMA LineNext == ASSUME LineInv, [Next]_vars PROVE Line'
<1>0. TypeOK /\ Line
  BY DEF LineInv
<1>1. ASSUME NEW m \in Messages, Send(m) PROVE Line'
  BY <1>1, LineSend
<1>2. ASSUME mqtt_tcpclient_connect_cb PROVE Line'
  <2> DEFINE e == Pkt("CONNECT", 0, None)
  <2>1. e \in Packet /\ ~Pub(e)
    BY ZeroId, PktType DEF PacketType, Pub, Pkt
  <2>2. /\ toBroker' \in {toBroker, Append(toBroker, e)}
        /\ msgQueue' = msgQueue /\ order' = order /\ accepted' = accepted
    BY <1>2 DEF mqtt_tcpclient_connect_cb, espconn_send, brokerVars
  <2> HIDE DEF e
  <2> QED BY <2>1, <2>2, LineOther
<1>3. ASSUME ConnectionEnds PROVE Line'
  <2>1. /\ toBroker' = <<>> /\ msgQueue' = msgQueue /\ order' = order /\ Taken' = Taken
    BY <1>3 DEF ConnectionEnds, brokerVars, Taken
  <2> QED BY <1>0, <2>1, LineEmpty DEF Line
<1>4. ASSUME mqtt_tcpclient_sent_cb PROVE Line'
  BY <1>0, <1>4 DEF mqtt_tcpclient_sent_cb, brokerVars, histVars, Line, Taken
<1>5. ASSUME mqtt_tcpclient_recv PROVE Line'
  <2>1. PICK e \in Packet :
          /\ e.type = "PUBREL"
          /\ msgQueue' = msgQueue \/ (msgQueue' = Append(msgQueue, e) /\ Len(msgQueue) < QueueSize)
    BY <1>0, <1>5, ReceivedQueue
  <2>2. ~Pub(e)
    BY <2>1 DEF Pub
  <2> QED BY <1>0, <1>5, <2>1, <2>2, LineOther, Received DEF brokerVars
<1>6. ASSUME SendTimesOut PROVE Line'
  BY <1>0, <1>6 DEF SendTimesOut, netVars, brokerVars, Line, Taken
<1>7. ASSUME TaskData PROVE Line'
  BY <1>7, LineTaskData
<1>8. ASSUME TaskKeepAlive PROVE Line'
  <2> DEFINE e == Pkt("PINGREQ", 0, None)
  <2>1. e \in Packet /\ ~Pub(e)
    BY ZeroId, PktType DEF PacketType, Pub, Pkt
  <2>2. /\ toBroker' \in {toBroker, Append(toBroker, e)}
        /\ msgQueue' = msgQueue /\ order' = order /\ accepted' = accepted
    BY <1>8 DEF TaskKeepAlive, espconn_send, brokerVars, histVars
  <2> HIDE DEF e
  <2> QED BY <2>1, <2>2, LineOther
<1>9. ASSUME BrokerReceives PROVE Line'
  BY <1>9, LineBroker
<1>10. CASE UNCHANGED vars
  BY <1>0, <1>10 DEF vars, clientVars, netVars, brokerVars, histVars, Line, Taken
<1> QED BY <1>1, <1>2, <1>3, <1>4, <1>5, <1>6, <1>7, <1>8, <1>9, <1>10 DEF Next

(* At first the line is empty.                                             *)
LEMMA LineInit == Init => LineInv
<1> SUFFICES ASSUME Init PROVE LineInv
  OBVIOUS
<1>1. Taken = <<>> /\ toBroker = <<>> /\ msgQueue = <<>>
  BY DEF Init, Taken
<1>2. Line
  BY <1>1, LineEmpty DEF Line
<1> QED BY <1>2, TypeInit DEF LineInv

(* What the broker takes comes in the order the application sent it. *)
LEMMA LineOrder == LineInv => OrderKept
<1> SUFFICES ASSUME LineInv, NEW i \in DOMAIN accepted, NEW j \in DOMAIN accepted, i < j
             PROVE  Before(accepted[i], accepted[j], order)
  BY DEF OrderKept, Before
<1>1. /\ i \in DOMAIN Taken /\ Taken[i].msg = accepted[i] /\ Pub(Taken[i])
      /\ j \in DOMAIN Taken /\ Taken[j].msg = accepted[j] /\ Pub(Taken[j])
  BY DEF Taken, Pkt, Pub
<1> QED BY <1>1 DEF LineInv, Line, Sorted

(* So they always are.                                                     *)
LEMMA AlwaysLine == Spec => []LineInv
<1>1. LineInv /\ [Next]_vars => LineInv'
  BY TypeNext, LineNext DEF LineInv
<1> QED BY <1>1, LineInit, PTL DEF Spec

(* MQTT_Publish, the queue, MQTT_Task and the connection keep messages in  *)
(* order: the broker never gets one before an earlier one, whatever is     *)
(* dropped on the way and however often the connection ends.               *)
THEOREM OrderRight == Spec => []OrderKept
BY AlwaysLine, LineOrder, PTL

(* No message is asked for twice in a run, so none is taken twice. *)
AskedOnce == \A k, n \in DOMAIN order : order[k] = order[n] => k = n
TakenOnce == \A i, j \in DOMAIN accepted : accepted[i] = accepted[j] => i = j

(* At first nothing has been asked for.                                    *)
LEMMA AskedInit == Init => AskedOnce
<1>1. DOMAIN <<>> = {}
  OBVIOUS
<1> QED BY <1>1 DEF Init, AskedOnce

(* A message is asked for once.                                            *)
LEMMA AskedNext == TypeOK /\ AskedOnce /\ [Next]_vars => AskedOnce'
<1> SUFFICES ASSUME TypeOK, AskedOnce, [Next]_vars PROVE AskedOnce'
  OBVIOUS
<1>1. ASSUME NEW m \in Messages, Send(m) PROVE AskedOnce'
  <2>1. order' = Append(order, m) /\ \A k \in DOMAIN order : order[k] # m
    BY <1>1 DEF Send, Range
  <2>2. /\ DOMAIN order' = DOMAIN order \cup {Len(order) + 1}
        /\ \A k \in DOMAIN order : order'[k] = order[k]
        /\ order'[Len(order) + 1] = m
    BY <2>1, AppendFacts DEF TypeOK
  <2> QED BY <2>1, <2>2 DEF AskedOnce
<1>2. CASE UNCHANGED order
  BY <1>2 DEF AskedOnce
<1>3. ASSUME ~\E m \in Messages : Send(m) PROVE UNCHANGED order
  BY <1>3 DEF Next, mqtt_tcpclient_connect_cb, ConnectionEnds, mqtt_tcpclient_sent_cb,
    mqtt_tcpclient_recv, SendTimesOut, TaskData, TaskKeepAlive, BrokerReceives, vars, histVars
<1> QED BY <1>1, <1>2, <1>3

(* The broker takes no message twice. *)
THEOREM NoneTwice == Spec => []TakenOnce
<1>1. Spec => []AskedOnce
  BY TypeCorrect, AskedInit, AskedNext, PTL DEF Spec
<1>2. TypeOK /\ OrderKept /\ AskedOnce => TakenOnce
  <2> SUFFICES ASSUME TypeOK, OrderKept, AskedOnce PROVE TakenOnce
    OBVIOUS
  <2>1. ASSUME NEW i \in DOMAIN accepted, NEW j \in DOMAIN accepted, i < j
        PROVE  accepted[i] # accepted[j]
    <3>1. PICK k \in DOMAIN order, n \in DOMAIN order :
            k < n /\ order[k] = accepted[i] /\ order[n] = accepted[j]
      BY <2>1 DEF OrderKept
    <3>2. order[k] = order[n] => k = n
      BY DEF AskedOnce
    <3>3. k \in Nat
      BY DEF TypeOK
    <3> QED BY <3>1, <3>2, <3>3
  <2>2. \A i, j \in DOMAIN accepted : i < j \/ j < i \/ i = j
    BY DEF TypeOK
  <2> QED BY <2>1, <2>2 DEF TakenOnce
<1> QED BY <1>1, <1>2, TypeCorrect, OrderRight, PTL

=============================================================================
