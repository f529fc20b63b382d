-------------------------- MODULE MqttClientProofs --------------------------
(***************************************************************************)
(* Proofs about the connection state machine of one client, for every      *)
(* value of the constants.  The invariants build on each other: types,     *)
(* then who owns memory and timer, then the session, then the wake-ups.    *)
(* At the end, the same client under the application of Application.       *)
(***************************************************************************)
EXTENDS Application, SequenceFacts, FiniteSetTheorems

-----------------------------------------------------------------------------

(* Sequences of one element and of none. *)
LEMMA SingletonType ==
  ASSUME NEW S, NEW x \in S
  PROVE  <<x>> \in Seq(S) /\ <<>> \in Seq(S)
OBVIOUS

(* Dropping the oldest packets leaves a sequence of packets. *)
LEMMA EvictType ==
  ASSUME NEW q \in Seq(Packet), NEW p \in Packet
  PROVE  Evict(q, p) \in Seq(Packet)
<1> DEFINE S == {m \in 0 .. Len(q) : StillFull(q, p, m)}
<1>1. IsFiniteSet(S)
  <2>1. IsFiniteSet(0 .. Len(q))
    BY FS_Interval, Len(q) \in Int
  <2>2. S \subseteq 0 .. Len(q)
    OBVIOUS
  <2> HIDE DEF S
  <2> QED BY <2>1, <2>2, FS_Subset
<1>2. Cardinality(S) \in Nat
  BY <1>1, FS_CardinalityType
<1> HIDE DEF S
<1>3. Evict(q, p) = SubSeq(q, Cardinality(S) + 1, Len(q))
  BY DEF Evict, S
<1> QED BY <1>2, <1>3

-----------------------------------------------------------------------------
(* Types *)

(* What the application queues keeps the types. *)
LEMMA EnqueueType ==
  ASSUME StateTypes, NEW p \in Packet, EnqueueEvicting(p)
  PROVE  msgQueue' \in Seq(Packet) /\ events' \in 0 .. TASK_QUEUE_SIZE
<1> DEFINE q == Evict(msgQueue, p)
<1>1. q \in Seq(Packet)
  BY EvictType DEF StateTypes
<1>2. /\ msgQueue' = q \/ msgQueue' = Append(q, p)
      /\ events' \in {events, Posted(events)}
  BY DEF EnqueueEvicting, Post
<1> HIDE DEF q
<1>3. Posted(events) \in 0 .. TASK_QUEUE_SIZE
  BY ClientAssumption DEF Posted, StateTypes
<1>4. Append(q, p) \in Seq(Packet)
  BY <1>1
<1> QED BY <1>1, <1>2, <1>3, <1>4 DEF StateTypes

(* One packet of a received segment keeps the types. *)
LEMMA ReceiveType ==
  ASSUME TypeOK, NEW p \in Received, NEW rest \in Seq(Received), Receive(p, rest)
  PROVE  TypeOK'
<1>1. /\ UNCHANGED <<pCon, greeted, inflight, dns, timeVars, pending_msg_type, appVars,
                    fault>>
      /\ rx' \in {rest, <<>>}
      /\ events' \in {events, Posted(events)}
  BY DEF Receive, ReceiveConnack, ReceiveInSession, ReceiveOutsideSession,
         ReceiveRest, Post
<1>2. /\ connState' \in {connState, "MQTT_DATA"}
      /\ link' \in {"none", "connecting", "up", "closing"}
  BY DEF Receive, ReceiveConnack, ReceiveInSession, ReceiveOutsideSession,
         espconn_disconnect, TypeOK, StateTypes
<1>3. accepted' \in {accepted, TRUE} /\ outbound' \in {outbound, TRUE}
  BY DEF Receive, ReceiveConnack, ReceiveInSession, ReceiveOutsideSession
<1>4. msgQueue' \in Seq(Packet)
  <2> DEFINE r == [type |-> Reply(p), size |-> 1]
  <2>1. r \in Packet
    BY DEF Reply, Packet, SentType, ReplyType
  <2>2. msgQueue' = msgQueue \/ msgQueue' = Append(msgQueue, r)
    BY DEF Receive, ReceiveConnack, ReceiveInSession, ReceiveOutsideSession
  <2> HIDE DEF r
  <2>3. msgQueue \in Seq(Packet)
    BY DEF TypeOK, StateTypes
  <2>4. Append(msgQueue, r) \in Seq(Packet)
    BY <2>1, <2>3
  <2> QED BY <2>2, <2>3, <2>4
<1>5. events' \in 0 .. TASK_QUEUE_SIZE /\ rx' \in Seq(Received)
  <2>1. Posted(events) \in 0 .. TASK_QUEUE_SIZE
    BY ClientAssumption DEF Posted, TypeOK, StateTypes
  <2>2. <<>> \in Seq(Received)
    OBVIOUS
  <2> QED BY <1>1, <2>1, <2>2 DEF TypeOK, StateTypes
<1>6. FlagTypes'
  BY <1>1, <1>3 DEF TypeOK, FlagTypes, timeVars, appVars
<1>7. StateTypes'
  BY <1>1, <1>2, <1>4, <1>5
     DEF TypeOK, StateTypes, ConnState, timeVars, appVars
<1> QED BY <1>6, <1>7 DEF TypeOK

(* Types of packets the client sends without being asked. *)
LEMMA OwnTypes == {"NONE", "CONNECT", "PINGREQ"} \cup LongType \subseteq SentType
  BY DEF SentType, RequestType, LongType

(* Looking a name up keeps the lookups a count for each espconn. *)
LEMMA LookupType ==
  ASSUME StateTypes, NEW c \in Conns, espconn_gethostbyname(c)
  PROVE  dns' \in [Conns -> 0 .. MaxDns]
<1>1. dns \in [Conns -> 0 .. MaxDns]
  BY DEF StateTypes
<1>2. CASE dns[c] < MaxDns /\ dns' = [dns EXCEPT ![c] = @ + 1]
  <2>1. dns[c] \in 0 .. MaxDns /\ MaxDns \in Nat
    BY <1>1, ClientAssumption
  <2>2. dns[c] + 1 \in 0 .. MaxDns
    BY <1>2, <2>1
  <2> QED BY <1>1, <1>2, <2>2
<1>3. CASE UNCHANGED dns
  BY <1>1, <1>3
<1> QED BY <1>2, <1>3 DEF espconn_gethostbyname

(* Every step of the client keeps the types. *)
LEMMA TypeStep == TypeOK /\ [Next]_vars => TypeOK'
<1> USE ClientAssumption
<1> SUFFICES ASSUME TypeOK, [Next]_vars PROVE TypeOK'
  OBVIOUS
<1>1. CASE MQTT_Init
  <2>1. FlagTypes'
    BY <1>1 DEF MQTT_Init, TypeOK, FlagTypes, netVars
  <2>2. StateTypes'
    BY <1>1, OwnTypes
       DEF MQTT_Init, Post, Posted, TypeOK, StateTypes, ConnState, netVars
  <2> QED BY <2>1, <2>2 DEF TypeOK
<1>2. CASE MQTT_Connect
  <2>1. FlagTypes'
    BY <1>2 DEF MQTT_Connect, Connect, Forgotten, TypeOK, FlagTypes, dataVars
  <2>2. dns' \in [Conns -> 0 .. MaxDns]
    BY <1>2, LookupType DEF MQTT_Connect, Connect, TypeOK, StateTypes
  <2>3. StateTypes'
    BY <1>2, <2>2, OwnTypes
       DEF MQTT_Connect, Connect, Forgotten, TypeOK, StateTypes, ConnState, dataVars
  <2> QED BY <2>1, <2>3 DEF TypeOK
<1>3. CASE MQTT_Disconnect
  <2>1. FlagTypes'
    BY <1>3 DEF MQTT_Disconnect, TypeOK, FlagTypes, netVars, dataVars
  <2>2. StateTypes'
    BY <1>3
       DEF MQTT_Disconnect, Post, Posted, TypeOK, StateTypes, ConnState,
           netVars, dataVars
  <2> QED BY <2>1, <2>2 DEF TypeOK
<1>4. CASE MQTT_DeleteClient
  <2>1. FlagTypes'
    BY <1>4 DEF MQTT_DeleteClient, TypeOK, FlagTypes, netVars, dataVars
  <2>2. StateTypes'
    BY <1>4
       DEF MQTT_DeleteClient, Post, Posted, TypeOK, StateTypes, ConnState,
           netVars, dataVars
  <2> QED BY <2>1, <2>2 DEF TypeOK
<1>5. ASSUME NEW r \in Requests, MQTT_Publish(r)
      PROVE  TypeOK'
  <2>1. /\ outbound' = TRUE
        /\ UNCHANGED <<connState, pCon, netVars, dns, timeVars, pending_msg_type,
                       rx, appVars, fault>>
    BY <1>5 DEF MQTT_Publish
  <2>2. msgQueue' \in Seq(Packet) /\ events' \in 0 .. TASK_QUEUE_SIZE
    <3> DEFINE p == [type |-> r.type, size |-> r.size]
    <3>1. p \in Packet
      BY <1>5 DEF Packet, SentType
    <3>2. EnqueueEvicting(p) \/ UNCHANGED <<msgQueue, events>>
      BY <1>5 DEF MQTT_Publish
    <3> HIDE DEF p
    <3> QED BY <3>1, <3>2, EnqueueType DEF TypeOK, StateTypes
  <2>3. FlagTypes'
    BY <2>1 DEF TypeOK, FlagTypes, netVars, timeVars, appVars
  <2>4. StateTypes'
    BY <2>1, <2>2 DEF TypeOK, StateTypes, netVars, timeVars, appVars
  <2> QED BY <2>3, <2>4 DEF TypeOK
<1>6. ASSUME NEW r \in Requests, MQTT_Subscribe(r)
      PROVE  TypeOK'
  <2>1. /\ outbound' = TRUE
        /\ UNCHANGED <<connState, pCon, netVars, dns, timeVars, pending_msg_type,
                       rx, appVars, fault>>
    BY <1>6 DEF MQTT_Subscribe
  <2>2. msgQueue' \in Seq(Packet) /\ events' \in 0 .. TASK_QUEUE_SIZE
    <3> DEFINE p == IF r.built THEN [type |-> r.type, size |-> r.size]
                               ELSE [type |-> "NONE", size |-> 1]
    <3>1. p \in Packet
      BY <1>6 DEF Packet, SentType
    <3>2. EnqueueEvicting(p)
      BY <1>6 DEF MQTT_Subscribe
    <3> HIDE DEF p
    <3> QED BY <3>1, <3>2, EnqueueType DEF TypeOK
  <2>3. FlagTypes'
    BY <2>1 DEF TypeOK, FlagTypes, netVars, timeVars, appVars
  <2>4. StateTypes'
    BY <2>1, <2>2 DEF TypeOK, StateTypes, netVars, timeVars, appVars
  <2> QED BY <2>3, <2>4 DEF TypeOK
<1>7. ASSUME NEW c \in Conns, NEW answer \in {"null", "addr0", "addr"},
             mqtt_dns_found(c, answer)
      PROVE  TypeOK'
  <2>1. FlagTypes'
    BY <1>7 DEF mqtt_dns_found, TypeOK, FlagTypes, timeVars, dataVars, appVars
  <2>2. StateTypes'
    BY <1>7, SMTT(60)
       DEF mqtt_dns_found, espconn_connect, Post, Posted, TypeOK, StateTypes,
           ConnState, timeVars, dataVars, appVars
  <2> QED BY <2>1, <2>2 DEF TypeOK
<1>8. CASE mqtt_tcpclient_connect_cb
  <2>1. FlagTypes'
    BY <1>8 DEF mqtt_tcpclient_connect_cb, TypeOK, FlagTypes, appVars
  <2>2. StateTypes'
    <3>1. inflight' = <<"CONNECT">> \/ inflight' = <<>>
      BY <1>8 DEF mqtt_tcpclient_connect_cb
    <3>2. inflight' \in Seq(SentType)
      BY <3>1, OwnTypes, SingletonType
    <3>3. events' \in 0 .. TASK_QUEUE_SIZE
      BY <1>8 DEF mqtt_tcpclient_connect_cb, Post, Posted, TypeOK, StateTypes
    <3> QED BY <1>8, <3>2, <3>3, OwnTypes
               DEF mqtt_tcpclient_connect_cb, TypeOK, StateTypes, ConnState,
                   appVars
  <2> QED BY <2>1, <2>2 DEF TypeOK
<1>9. CASE mqtt_tcpclient_recon_cb
  <2>1. FlagTypes'
    BY <1>9
       DEF mqtt_tcpclient_recon_cb, LinkGone, Forgotten, TypeOK, FlagTypes, timeVars,
           dataVars, appVars
  <2>2. StateTypes'
    BY <1>9
       DEF mqtt_tcpclient_recon_cb, LinkGone, Forgotten, Post, Posted, TypeOK, StateTypes,
           ConnState, timeVars, dataVars, appVars
  <2> QED BY <2>1, <2>2 DEF TypeOK
<1>10. CASE mqtt_tcpclient_discon_cb
  <2>1. FlagTypes'
    BY <1>10
       DEF mqtt_tcpclient_discon_cb, LinkGone, Forgotten, TypeOK, FlagTypes, timeVars,
           dataVars, appVars
  <2>2. StateTypes'
    BY <1>10, OwnTypes, SMTT(60)
       DEF mqtt_tcpclient_discon_cb, LinkGone, Forgotten, Post, Posted, Established,
           TypeOK, StateTypes, ConnState, timeVars, dataVars, appVars
  <2> QED BY <2>1, <2>2 DEF TypeOK
<1>11. CASE mqtt_tcpclient_sent_cb
  <2>1. FlagTypes'
    BY <1>11 DEF mqtt_tcpclient_sent_cb, TypeOK, FlagTypes, dataVars, appVars
  <2>2. StateTypes'
    BY <1>11
       DEF mqtt_tcpclient_sent_cb, Post, Posted, TypeOK, StateTypes, dataVars,
           appVars
  <2> QED BY <2>1, <2>2 DEF TypeOK
<1>12. ASSUME NEW s \in Segments, mqtt_tcpclient_recv(s)
      PROVE  TypeOK'
  <2>1. Head(s) \in Received /\ Tail(s) \in Seq(Received)
    BY <1>12 DEF mqtt_tcpclient_recv
  <2> QED BY <1>12, <2>1, ReceiveType DEF mqtt_tcpclient_recv
<1>13. ASSUME NEW s \in Segments, mqtt_tcpclient_recv_bad_length(s)
      PROVE  TypeOK'
  <2>1. FlagTypes'
    BY <1>13
       DEF mqtt_tcpclient_recv_bad_length, TypeOK, FlagTypes, netVars,
           timeVars, dataVars, appVars
  <2>2. StateTypes'
    BY <1>13
       DEF mqtt_tcpclient_recv_bad_length, Post, Posted, TypeOK, StateTypes,
           netVars, timeVars, dataVars, appVars
  <2> QED BY <2>1, <2>2 DEF TypeOK
<1>14. CASE READPACKET
  <2>1. Head(rx) \in Received /\ Tail(rx) \in Seq(Received)
    BY <1>14 DEF READPACKET, TypeOK, StateTypes
  <2> QED BY <1>14, <2>1, ReceiveType DEF READPACKET
<1>15. CASE mqtt_timer
  <2>1. FlagTypes'
    BY <1>15 DEF mqtt_timer, TypeOK, FlagTypes, netVars, dataVars, appVars
  <2>2. StateTypes'
    <3>1. /\ keepAliveTick' \in Nat
          /\ reconnectTick' \in 0 .. MQTT_RECONNECT_TIMEOUT
          /\ sendTimeout' \in 0 .. MQTT_SEND_TIMOUT
      BY <1>15 DEF mqtt_timer, TypeOK, StateTypes
    <3>2. connState' \in ConnState
      BY <1>15 DEF mqtt_timer, TypeOK, StateTypes, ConnState
    <3>3. events' \in 0 .. TASK_QUEUE_SIZE
      BY <1>15 DEF mqtt_timer, Post, Posted, TypeOK, StateTypes
    <3>4. UNCHANGED <<pCon, netVars, dns, armed, dataVars, rx, appVars, fault>>
      BY <1>15 DEF mqtt_timer
    <3> QED BY <3>1, <3>2, <3>3, <3>4
               DEF TypeOK, StateTypes, netVars, dataVars, appVars
  <2> QED BY <2>1, <2>2 DEF TypeOK
<1>16. CASE TaskReconnect
  <2>1. FlagTypes'
    BY <1>16 DEF TaskReconnect, Connect, Forgotten, TypeOK, FlagTypes, dataVars, appVars
  <2>2. dns' \in [Conns -> 0 .. MaxDns]
    BY <1>16, LookupType DEF TaskReconnect, Connect, TypeOK, StateTypes
  <2>3. StateTypes'
    BY <1>16, <2>2, OwnTypes
       DEF TaskReconnect, TakeEvent, Connect, Forgotten, TypeOK, StateTypes, ConnState,
           dataVars, appVars
  <2> QED BY <2>1, <2>3 DEF TypeOK
<1>17. CASE TaskDisconnect
  <2>1. FlagTypes'
    BY <1>17
       DEF TaskDisconnect, Forgotten, TypeOK, FlagTypes, timeVars, dataVars, appVars
  <2>2. StateTypes'
    <3>1. link' \in {"none", "connecting", "up", "closing"}
      BY <1>17 DEF TaskDisconnect, espconn_disconnect, TypeOK, StateTypes
    <3>2. inflight' \in Seq(SentType)
      <4>1. inflight \in Seq(SentType) /\ <<>> \in Seq(SentType)
        BY DEF TypeOK, StateTypes
      <4> QED BY <1>17, <4>1 DEF TaskDisconnect, Forgotten
    <3>3. events' \in 0 .. TASK_QUEUE_SIZE
      BY <1>17 DEF TaskDisconnect, TakeEvent, TypeOK, StateTypes
    <3>4. UNCHANGED <<connState, pCon, dns, timeVars, dataVars, rx, appVars, fault>>
      BY <1>17 DEF TaskDisconnect
    <3> QED BY <3>1, <3>2, <3>3, <3>4
               DEF TypeOK, StateTypes, timeVars, dataVars, appVars
  <2> QED BY <2>1, <2>2 DEF TypeOK
<1>18. CASE TaskDisconnected
  <2>1. FlagTypes'
    BY <1>18
       DEF TaskDisconnected, LinkGone, Forgotten, TypeOK, FlagTypes, timeVars, dataVars,
           appVars
  <2>2. StateTypes'
    BY <1>18
       DEF TaskDisconnected, TakeEvent, LinkGone, Forgotten, TypeOK, StateTypes, timeVars,
           dataVars, appVars
  <2> QED BY <2>1, <2>2 DEF TypeOK
<1>19. CASE TaskDeleted
  <2>1. FlagTypes'
    BY <1>19 DEF TaskDeleted, LinkGone, Forgotten, TypeOK, FlagTypes, timeVars
  <2>2. StateTypes'
    BY <1>19
       DEF TaskDeleted, TakeEvent, LinkGone, Forgotten, TypeOK, StateTypes, ConnState,
           timeVars
  <2> QED BY <2>1, <2>2 DEF TypeOK
<1>20. CASE TaskKeepAlive
  <2>1. FlagTypes'
    BY <1>20 DEF TaskKeepAlive, TypeOK, FlagTypes, appVars
  <2>2. StateTypes'
    <3>1. inflight' = inflight \/ inflight' = Append(inflight, "PINGREQ")
      BY <1>20 DEF TaskKeepAlive, SendAccepted, SendRefused
    <3>2. inflight' \in Seq(SentType)
      <4>1. inflight \in Seq(SentType) /\ "PINGREQ" \in SentType
        BY OwnTypes DEF TypeOK, StateTypes
      <4>2. Append(inflight, "PINGREQ") \in Seq(SentType)
        BY <4>1
      <4> QED BY <3>1, <4>1, <4>2
    <3>3. events' \in 0 .. TASK_QUEUE_SIZE
      BY <1>20 DEF TaskKeepAlive, Posted, TypeOK, StateTypes
    <3>4. /\ connState' \in {"MQTT_DATA", "TCP_RECONNECT_DISCONNECTING"}
          /\ keepAliveTick' \in {0, keepAliveTick}
          /\ pending_msg_type' = "PINGREQ"
          /\ sendTimeout' = MQTT_SEND_TIMOUT
          /\ UNCHANGED <<pCon, link, accepted, dns, armed, reconnectTick, msgQueue,
                         rx, appVars, fault>>
      BY <1>20 DEF TaskKeepAlive
    <3> QED BY <3>2, <3>3, <3>4, OwnTypes
               DEF TypeOK, StateTypes, ConnState, appVars
  <2> QED BY <2>1, <2>2 DEF TypeOK
<1>21. CASE TaskData
  <2>1. FlagTypes'
    BY <1>21 DEF TaskData, TypeOK, FlagTypes, appVars
  <2>2. StateTypes'
    <3> DEFINE t == Head(msgQueue).type
    <3>1. t \in SentType /\ Tail(msgQueue) \in Seq(Packet)
      <4>1. msgQueue \in Seq(Packet) /\ msgQueue # <<>>
        BY <1>21 DEF TaskData, TypeOK, StateTypes
      <4>2. Head(msgQueue) \in Packet /\ Tail(msgQueue) \in Seq(Packet)
        BY <4>1
      <4> QED BY <4>2 DEF Packet
    <3>2. /\ inflight' = inflight \/ inflight' = Append(inflight, t)
          /\ pending_msg_type' = t \/ pending_msg_type' \in SentType
      BY <1>21 DEF TaskData, espconn_send, SendAccepted, SendRefused
    <3>3. /\ events' = events - 1 /\ events > 0
          /\ msgQueue' = Tail(msgQueue)
          /\ keepAliveTick' = 0
          /\ sendTimeout' = MQTT_SEND_TIMOUT
          /\ UNCHANGED <<connState, pCon, link, accepted, dns, armed, reconnectTick,
                         rx, appVars, fault>>
      BY <1>21 DEF TaskData, TakeEvent
    <3> HIDE DEF t
    <3>4. inflight' \in Seq(SentType) /\ pending_msg_type' \in SentType
      <4>1. inflight \in Seq(SentType)
        BY DEF TypeOK, StateTypes
      <4>2. Append(inflight, t) \in Seq(SentType)
        BY <3>1, <4>1
      <4> QED BY <3>1, <3>2, <4>1, <4>2
    <3> QED BY <3>1, <3>3, <3>4 DEF TypeOK, StateTypes, appVars
  <2> QED BY <2>1, <2>2 DEF TypeOK
<1>22. CASE TaskIdle
  <2>1. FlagTypes'
    BY <1>22
       DEF TaskIdle, TypeOK, FlagTypes, netVars, timeVars, dataVars, appVars
  <2>2. StateTypes'
    BY <1>22
       DEF TaskIdle, TakeEvent, TypeOK, StateTypes, netVars, timeVars,
           dataVars, appVars
  <2> QED BY <2>1, <2>2 DEF TypeOK
<1>23. CASE UNCHANGED vars
  BY <1>23
     DEF vars, TypeOK, FlagTypes, StateTypes, netVars, timeVars, dataVars,
         appVars
<1> QED BY <1>1, <1>2, <1>3, <1>4, <1>5, <1>6, <1>7, <1>8, <1>9, <1>10, <1>11,
           <1>12, <1>13, <1>14, <1>15, <1>16, <1>17, <1>18, <1>19, <1>20,
           <1>21, <1>22, <1>23 DEF Next, App, Network, MQTT_Task

(* The initial state has the types.                                        *)
LEMMA InitType == Init => TypeOK
<1> SUFFICES ASSUME Init PROVE TypeOK
  OBVIOUS
<1>1. FlagTypes
  BY DEF Init, FlagTypes
<1>2. <<>> \in Seq(Packet) /\ <<>> \in Seq(SentType) /\ <<>> \in Seq(Received)
  OBVIOUS
<1>3. StateTypes
  BY <1>2, ClientAssumption, OwnTypes DEF Init, StateTypes, ConnState
<1> QED BY <1>1, <1>3 DEF TypeOK

(* The client's variables always have their types. *)
THEOREM TypeCorrect == Spec => []TypeOK
BY InitType, TypeStep, PTL DEF Spec

-----------------------------------------------------------------------------
(* Who may hold memory, and whose request a state stands for *)

(* Everything but a client without memory has been initialised, and a      *)
(* connection has an espconn.                                              *)
Allocated ==
  /\ ~inited => asked = "none" /\ connState = "WIFI_INIT" /\ pCon = NULL
  /\ link # "none" => pCon # NULL

(* The timer runs exactly while the application asks for a connection; a   *)
(* reconnect is ordered only then, and a delete only when asked for.       *)
Ownership ==
  /\ Allocated
  /\ armed <=> asked = "up"
  /\ connState = "TCP_RECONNECT" => asked = "up"
  /\ connState = "MQTT_DELETED" => asked = "delete"
  /\ connState # "MQTT_DELETING"

(* Receiving changes neither memory nor ownership. *)
LEMMA ReceiveOwnership ==
  ASSUME Ownership, NEW p, NEW rest, Receive(p, rest)
  PROVE  Ownership'
<1>1. UNCHANGED <<pCon, inited, asked, armed>>
  BY DEF Receive, timeVars, appVars
<1>2. connState' = connState \/ (connState = "MQTT_CONNECT_SENDING" /\ connState' = "MQTT_DATA")
  BY DEF Receive, ReceiveConnack, ReceiveInSession, ReceiveOutsideSession
<1>3. link' # "none" => link # "none"
  BY DEF Receive, ReceiveConnack, ReceiveInSession, ReceiveOutsideSession,
         espconn_disconnect
<1> QED BY <1>1, <1>2, <1>3 DEF Ownership, Allocated

(* Every step keeps to the owner of a connection.                          *)
LEMMA OwnershipStep == Ownership /\ [Next]_vars => Ownership'
<1> SUFFICES ASSUME Ownership, [Next]_vars PROVE Ownership'
  OBVIOUS
<1>1. CASE MQTT_Init
  BY <1>1 DEF MQTT_Init, Ownership, Allocated, netVars
<1>2. CASE MQTT_Connect
  BY <1>2, ClientAssumption
     DEF MQTT_Connect, Connect, AppMayCall, Ownership, Allocated
<1>3. CASE MQTT_Disconnect
  BY <1>3 DEF MQTT_Disconnect, AppMayCall, Ownership, Allocated, netVars
<1>4. CASE MQTT_DeleteClient
  BY <1>4 DEF MQTT_DeleteClient, AppMayCall, Ownership, Allocated, netVars
<1>5. ASSUME NEW r \in Requests, MQTT_Publish(r)
      PROVE  Ownership'
  BY <1>5 DEF MQTT_Publish, Ownership, Allocated, netVars, timeVars, appVars
<1>6. ASSUME NEW r \in Requests, MQTT_Subscribe(r)
      PROVE  Ownership'
  BY <1>6 DEF MQTT_Subscribe, Ownership, Allocated, netVars, timeVars, appVars
<1>7. ASSUME NEW c \in Conns, NEW answer \in {"null", "addr0", "addr"},
             mqtt_dns_found(c, answer)
      PROVE  Ownership'
  BY <1>7, ClientAssumption
     DEF mqtt_dns_found, Ownership, Allocated, timeVars, appVars
<1>8. CASE mqtt_tcpclient_connect_cb
  BY <1>8 DEF mqtt_tcpclient_connect_cb, Ownership, Allocated, appVars
<1>9. CASE mqtt_tcpclient_recon_cb
  BY <1>9 DEF mqtt_tcpclient_recon_cb, Ownership, Allocated, timeVars, appVars
<1>10. CASE mqtt_tcpclient_discon_cb
  BY <1>10
     DEF mqtt_tcpclient_discon_cb, Ownership, Allocated, Established, timeVars,
         appVars
<1>11. CASE mqtt_tcpclient_sent_cb
  BY <1>11 DEF mqtt_tcpclient_sent_cb, Ownership, Allocated, appVars
<1>12. ASSUME NEW s \in Segments, mqtt_tcpclient_recv(s)
      PROVE  Ownership'
  BY <1>12, ReceiveOwnership DEF mqtt_tcpclient_recv
<1>13. ASSUME NEW s \in Segments, mqtt_tcpclient_recv_bad_length(s)
      PROVE  Ownership'
  BY <1>13
     DEF mqtt_tcpclient_recv_bad_length, Ownership, Allocated, netVars,
         timeVars, appVars
<1>14. CASE READPACKET
  BY <1>14, ReceiveOwnership DEF READPACKET
<1>15. CASE mqtt_timer
  BY <1>15 DEF mqtt_timer, Ownership, Allocated, netVars, appVars
<1>16. CASE TaskReconnect
  BY <1>16, ClientAssumption
     DEF TaskReconnect, Connect, Ownership, Allocated, appVars
<1>17. CASE TaskDisconnect
  BY <1>17
     DEF TaskDisconnect, espconn_disconnect, Ownership, Allocated, timeVars,
         appVars
<1>18. CASE TaskDisconnected
  BY <1>18
     DEF TaskDisconnected, LinkGone, Forgotten, Ownership, Allocated, timeVars, appVars
<1>19. CASE TaskDeleted
  BY <1>19 DEF TaskDeleted, LinkGone, Forgotten, Ownership, Allocated, timeVars
<1>20. CASE TaskKeepAlive
  BY <1>20 DEF TaskKeepAlive, Ownership, Allocated, appVars
<1>21. CASE TaskData
  BY <1>21 DEF TaskData, Ownership, Allocated, appVars
<1>22. CASE TaskIdle
  BY <1>22 DEF TaskIdle, Ownership, Allocated, netVars, timeVars, appVars
<1>23. CASE UNCHANGED vars
  BY <1>23 DEF vars, Ownership, Allocated, netVars, timeVars, appVars
<1> QED BY <1>1, <1>2, <1>3, <1>4, <1>5, <1>6, <1>7, <1>8, <1>9, <1>10, <1>11,
           <1>12, <1>13, <1>14, <1>15, <1>16, <1>17, <1>18, <1>19, <1>20,
           <1>21, <1>22, <1>23 DEF Next, App, Network, MQTT_Task

-----------------------------------------------------------------------------
(* A session has a live connection *)

(* One packet received keeps the session on its connection. *)
LEMMA ReceiveSession ==
  ASSUME SessionOnLiveLink, NEW p, NEW rest, Receive(p, rest)
  PROVE  SessionOnLiveLink'
<1>1. UNCHANGED <<pCon, greeted, inited, pending_msg_type>>
  BY DEF Receive, appVars
<1>2. \/ UNCHANGED <<connState, accepted>>
      \/ /\ connState = "MQTT_CONNECT_SENDING" /\ connState' = "MQTT_DATA"
         /\ accepted' = TRUE /\ link' = link
  BY DEF Receive, ReceiveConnack, ReceiveInSession, ReceiveOutsideSession
<1>3. Established => Established'
  BY DEF Receive, ReceiveConnack, ReceiveInSession, ReceiveOutsideSession,
         espconn_disconnect, Established
<1>4. link' # "none" => link # "none"
  BY DEF Receive, ReceiveConnack, ReceiveInSession, ReceiveOutsideSession,
         espconn_disconnect
<1> QED BY <1>1, <1>2, <1>3, <1>4 DEF SessionOnLiveLink, InSession

(* A session state is entered on a live link and left before the link      *)
(* goes.                                                                   *)
LEMMA SessionStep == Allocated /\ SessionOnLiveLink /\ [Next]_vars => SessionOnLiveLink'
<1> SUFFICES ASSUME Allocated, SessionOnLiveLink, [Next]_vars
             PROVE  SessionOnLiveLink'
  OBVIOUS
<1>1. CASE MQTT_Init
  BY <1>1 DEF MQTT_Init, SessionOnLiveLink, InSession, netVars
<1>2. CASE MQTT_Connect
  BY <1>2, ClientAssumption
     DEF MQTT_Connect, Connect, AppMayCall, SessionOnLiveLink, InSession
<1>3. CASE MQTT_Disconnect
  BY <1>3 DEF MQTT_Disconnect, SessionOnLiveLink, InSession, netVars
<1>4. CASE MQTT_DeleteClient
  BY <1>4 DEF MQTT_DeleteClient, SessionOnLiveLink, InSession, netVars
<1>5. ASSUME NEW r \in Requests, MQTT_Publish(r)
      PROVE  SessionOnLiveLink'
  BY <1>5
     DEF MQTT_Publish, SessionOnLiveLink, InSession, Established, netVars,
         appVars
<1>6. ASSUME NEW r \in Requests, MQTT_Subscribe(r)
      PROVE  SessionOnLiveLink'
  BY <1>6
     DEF MQTT_Subscribe, SessionOnLiveLink, InSession, Established, netVars,
         appVars
<1>7. ASSUME NEW c \in Conns, NEW answer \in {"null", "addr0", "addr"},
             mqtt_dns_found(c, answer)
      PROVE  SessionOnLiveLink'
  BY <1>7, ClientAssumption
     DEF mqtt_dns_found, SessionOnLiveLink, InSession, Allocated, Established,
         dataVars, appVars
<1>8. CASE mqtt_tcpclient_connect_cb
  BY <1>8
     DEF mqtt_tcpclient_connect_cb, SessionOnLiveLink, InSession, Established,
         appVars
<1>9. CASE mqtt_tcpclient_recon_cb
  BY <1>9 DEF mqtt_tcpclient_recon_cb, SessionOnLiveLink, InSession, appVars
<1>10. CASE mqtt_tcpclient_discon_cb
  BY <1>10
     DEF mqtt_tcpclient_discon_cb, SessionOnLiveLink, InSession, Established,
         appVars
<1>11. CASE mqtt_tcpclient_sent_cb
  BY <1>11
     DEF mqtt_tcpclient_sent_cb, SessionOnLiveLink, InSession, Established,
         dataVars, appVars
<1>12. ASSUME NEW s \in Segments, mqtt_tcpclient_recv(s)
      PROVE  SessionOnLiveLink'
  BY <1>12, ReceiveSession DEF mqtt_tcpclient_recv
<1>13. ASSUME NEW s \in Segments, mqtt_tcpclient_recv_bad_length(s)
      PROVE  SessionOnLiveLink'
  BY <1>13
     DEF mqtt_tcpclient_recv_bad_length, SessionOnLiveLink, InSession,
         Established, netVars, dataVars, appVars
<1>14. CASE READPACKET
  BY <1>14, ReceiveSession DEF READPACKET
<1>15. CASE mqtt_timer
  BY <1>15
     DEF mqtt_timer, SessionOnLiveLink, InSession, Established, netVars,
         dataVars, appVars
<1>16. CASE TaskReconnect
  BY <1>16, ClientAssumption
     DEF TaskReconnect, Connect, SessionOnLiveLink, InSession, Allocated,
         appVars
<1>17. CASE TaskDisconnect
  BY <1>17
     DEF TaskDisconnect, espconn_disconnect, SessionOnLiveLink, InSession,
         appVars
<1>18. CASE TaskDisconnected
  BY <1>18 DEF TaskDisconnected, LinkGone, Forgotten, SessionOnLiveLink, InSession
<1>19. CASE TaskDeleted
  BY <1>19 DEF TaskDeleted, LinkGone, Forgotten, SessionOnLiveLink, InSession
<1>20. CASE TaskKeepAlive
  BY <1>20
     DEF TaskKeepAlive, SessionOnLiveLink, InSession, Established, appVars
<1>21. CASE TaskData
  BY <1>21 DEF TaskData, SessionOnLiveLink, InSession, Established, appVars
<1>22. CASE TaskIdle
  BY <1>22
     DEF TaskIdle, SessionOnLiveLink, InSession, Established, netVars,
         dataVars, appVars
<1>23. CASE UNCHANGED vars
  BY <1>23
     DEF vars, SessionOnLiveLink, InSession, Established, netVars, dataVars,
         appVars
<1> QED BY <1>1, <1>2, <1>3, <1>4, <1>5, <1>6, <1>7, <1>8, <1>9, <1>10, <1>11,
           <1>12, <1>13, <1>14, <1>15, <1>16, <1>17, <1>18, <1>19, <1>20,
           <1>21, <1>22, <1>23 DEF Next, App, Network, MQTT_Task

-----------------------------------------------------------------------------
(* Nothing is forgotten *)

(* A post leaves an event, and loses none that is there. *)
LEMMA PostWakes ==
  ASSUME NEW n \in Nat
  PROVE  Posted(n) > 0 /\ Posted(n) >= n
BY ClientAssumption DEF Posted

(* What NoLostWakeup rests on: a connection that has to be closed before   *)
(* reconnecting is still there.                                            *)
Wakeups ==
  /\ NoLostWakeup
  /\ connState = "TCP_RECONNECT_DISCONNECTING" => Established

(* One packet received loses no wake-up. *)
LEMMA ReceiveWakeups ==
  ASSUME StateTypes, Ownership, Wakeups, NEW p, NEW rest, Receive(p, rest)
  PROVE  Wakeups'
<1>1. UNCHANGED <<pCon, armed, asked>>
  BY DEF Receive, timeVars, appVars
<1>2. \/ connState' = connState
      \/ connState = "MQTT_CONNECT_SENDING" /\ connState' = "MQTT_DATA"
  BY DEF Receive, ReceiveConnack, ReceiveInSession, ReceiveOutsideSession
<1>3. link' = link \/ connState' = "MQTT_CONNECT_SENDING"
  BY DEF Receive, ReceiveConnack, ReceiveInSession, ReceiveOutsideSession
<1>4. events' >= events
  <2>1. events' = events \/ events' = Posted(events)
    BY DEF Receive, ReceiveConnack, ReceiveInSession, ReceiveOutsideSession,
           ReceiveRest, Post
  <2>2. events \in Nat
    BY DEF StateTypes
  <2> QED BY <2>1, <2>2, PostWakes
<1>5. events \in Nat /\ events' \in Nat
  <2>1. events' = events \/ events' = Posted(events)
    BY DEF Receive, ReceiveConnack, ReceiveInSession, ReceiveOutsideSession,
           ReceiveRest, Post
  <2> QED BY <2>1 DEF Posted, StateTypes
<1> QED BY <1>1, <1>2, <1>3, <1>4, <1>5
           DEF Wakeups, NoLostWakeup, Ownership, Established

(* Every step that leaves work behind posts for it.                        *)
LEMMA WakeupsStep ==
  StateTypes /\ Ownership /\ SessionOnLiveLink /\ Wakeups /\ [Next]_vars => Wakeups'
<1> SUFFICES ASSUME StateTypes, Ownership, SessionOnLiveLink, Wakeups, [Next]_vars
             PROVE  Wakeups'
  OBVIOUS
<1> events \in Nat
  BY DEF StateTypes
<1>1. CASE MQTT_Init
  BY <1>1 DEF MQTT_Init, Wakeups, NoLostWakeup
<1>2. CASE MQTT_Connect
  BY <1>2 DEF MQTT_Connect, Connect, Wakeups, NoLostWakeup
<1>3. CASE MQTT_Disconnect
  BY <1>3, ClientAssumption
     DEF MQTT_Disconnect, Post, Posted, Wakeups, NoLostWakeup
<1>4. CASE MQTT_DeleteClient
  BY <1>4, ClientAssumption
     DEF MQTT_DeleteClient, Post, Posted, Wakeups, NoLostWakeup
<1>5. ASSUME NEW r \in Requests, MQTT_Publish(r)
      PROVE  Wakeups'
  BY <1>5
     DEF MQTT_Publish, EnqueueEvicting, Post, Posted, Wakeups, NoLostWakeup,
         Established, netVars, timeVars, appVars
<1>6. ASSUME NEW r \in Requests, MQTT_Subscribe(r)
      PROVE  Wakeups'
  BY <1>6
     DEF MQTT_Subscribe, EnqueueEvicting, Post, Posted, Wakeups, NoLostWakeup,
         Established, netVars, timeVars, appVars
<1>7. ASSUME NEW c \in Conns, NEW answer \in {"null", "addr0", "addr"},
             mqtt_dns_found(c, answer)
      PROVE  Wakeups'
  BY <1>7
     DEF mqtt_dns_found, Post, Posted, Wakeups, NoLostWakeup, Ownership,
         Established, timeVars, appVars
<1>8. CASE mqtt_tcpclient_connect_cb
  BY <1>8 DEF mqtt_tcpclient_connect_cb, Wakeups, NoLostWakeup
<1>9. CASE mqtt_tcpclient_recon_cb
  BY <1>9
     DEF mqtt_tcpclient_recon_cb, Wakeups, NoLostWakeup, Ownership, timeVars,
         appVars
<1>10. CASE mqtt_tcpclient_discon_cb
  BY <1>10, ClientAssumption
     DEF mqtt_tcpclient_discon_cb, Post, Posted, Wakeups, NoLostWakeup,
         Ownership, timeVars, appVars
<1>11. CASE mqtt_tcpclient_sent_cb
  BY <1>11
     DEF mqtt_tcpclient_sent_cb, Post, Posted, Wakeups, NoLostWakeup,
         Established, appVars
<1>12. ASSUME NEW s \in Segments, mqtt_tcpclient_recv(s)
      PROVE  Wakeups'
  BY <1>12, ReceiveWakeups DEF mqtt_tcpclient_recv
<1>13. ASSUME NEW s \in Segments, mqtt_tcpclient_recv_bad_length(s)
      PROVE  Wakeups'
  BY <1>13
     DEF mqtt_tcpclient_recv_bad_length, Post, Posted, Wakeups, NoLostWakeup,
         Established, netVars, timeVars, appVars
<1>14. CASE READPACKET
  BY <1>14, ReceiveWakeups DEF READPACKET
<1>15. CASE mqtt_timer
  BY <1>15, ClientAssumption
     DEF mqtt_timer, Post, Posted, Wakeups, NoLostWakeup, Established, netVars
<1>16. CASE TaskReconnect
  BY <1>16 DEF TaskReconnect, Connect, Wakeups, NoLostWakeup
<1>17. CASE TaskDisconnect
  BY <1>17
     DEF TaskDisconnect, espconn_disconnect, Wakeups, NoLostWakeup, Established
<1>18. CASE TaskDisconnected
  BY <1>18 DEF TaskDisconnected, Wakeups, NoLostWakeup
<1>19. CASE TaskDeleted
  BY <1>19 DEF TaskDeleted, Wakeups, NoLostWakeup
<1>20. CASE TaskKeepAlive
  BY <1>20, ClientAssumption
     DEF TaskKeepAlive, Posted, Wakeups, NoLostWakeup, SessionOnLiveLink,
         InSession, Ownership, Established, appVars
<1>21. CASE TaskData
  BY <1>21 DEF TaskData, Wakeups, NoLostWakeup, appVars
<1>22. CASE TaskIdle
  BY <1>22 DEF TaskIdle, Wakeups, NoLostWakeup, timeVars, appVars
<1>23. CASE UNCHANGED vars
  BY <1>23
     DEF vars, Wakeups, NoLostWakeup, Established, netVars, timeVars, appVars
<1> QED BY <1>1, <1>2, <1>3, <1>4, <1>5, <1>6, <1>7, <1>8, <1>9, <1>10, <1>11,
           <1>12, <1>13, <1>14, <1>15, <1>16, <1>17, <1>18, <1>19, <1>20,
           <1>21, <1>22, <1>23 DEF Next, App, Network, MQTT_Task


(* The invariants together. *)
IInv == TypeOK /\ Ownership /\ SessionOnLiveLink /\ Wakeups

(* The inductive invariant of the client holds for every value of the      *)
(* constants.                                                              *)
THEOREM Invariance == Spec => []IInv
<1>1. Init => IInv
  <2> SUFFICES ASSUME Init PROVE Ownership /\ SessionOnLiveLink /\ Wakeups
    BY InitType DEF IInv
  <2>1. Ownership
    BY DEF Init, Ownership, Allocated
  <2>2. SessionOnLiveLink
    BY DEF Init, SessionOnLiveLink, InSession
  <2>3. Wakeups
    BY DEF Init, Wakeups, NoLostWakeup
  <2> QED BY <2>1, <2>2, <2>3
<1>2. IInv /\ [Next]_vars => IInv'
  <2> SUFFICES ASSUME IInv, [Next]_vars PROVE IInv'
    OBVIOUS
  <2>1. TypeOK' /\ Ownership'
    BY TypeStep, OwnershipStep DEF IInv
  <2>2. SessionOnLiveLink'
    BY SessionStep DEF IInv, Ownership
  <2>3. Wakeups'
    BY WakeupsStep DEF IInv, TypeOK
  <2> QED BY <2>1, <2>2, <2>3 DEF IInv
<1> QED BY <1>1, <1>2, PTL DEF Spec

(* The client is in a session, or waits for CONNACK, only on a connection  *)
(* that is there: a callback that takes the connection away takes the      *)
(* client out of the session in the same step.                             *)
THEOREM SessionHasLink == Spec => []SessionOnLiveLink
<1>1. IInv => SessionOnLiveLink
  BY DEF IInv
<1> QED BY <1>1, Invariance, PTL

(* Whatever connState asks for, somebody will do: no post is lost for good *)
(* although the task's queue holds one event and no result is looked at.   *)
THEOREM WakeupsKept == Spec => []NoLostWakeup
<1>1. IInv => NoLostWakeup
  BY DEF IInv, Wakeups
<1> QED BY <1>1, Invariance, PTL

-----------------------------------------------------------------------------
(* No connection that was not asked for *)

(* A client whose host is an address looks nothing up. *)
NoLookups == \A c \in Conns : dns[c] = 0

(* No handler starts a lookup for a host that is an address.               *)
LEMMA NoLookupsStep ==
  ASSUME HostIsIP, NoLookups, [Next]_vars
  PROVE  NoLookups' /\ dns' = dns
<1>1. dns' = dns
  <2>1. CASE MQTT_Init
    BY <2>1 DEF MQTT_Init
  <2>2. CASE MQTT_Connect
    BY <2>2 DEF MQTT_Connect, Connect
  <2>3. CASE MQTT_Disconnect
    BY <2>3 DEF MQTT_Disconnect
  <2>4. CASE MQTT_DeleteClient
    BY <2>4 DEF MQTT_DeleteClient
  <2>5. ASSUME NEW r \in Requests, MQTT_Publish(r)
        PROVE  dns' = dns
    BY <2>5 DEF MQTT_Publish
  <2>6. ASSUME NEW r \in Requests, MQTT_Subscribe(r)
        PROVE  dns' = dns
    BY <2>6 DEF MQTT_Subscribe
  <2>7. ASSUME NEW c \in Conns, NEW answer \in {"null", "addr0", "addr"},
               mqtt_dns_found(c, answer)
        PROVE  dns' = dns
    BY <2>7 DEF mqtt_dns_found, NoLookups
  <2>8. CASE mqtt_tcpclient_connect_cb
    BY <2>8 DEF mqtt_tcpclient_connect_cb
  <2>9. CASE mqtt_tcpclient_recon_cb
    BY <2>9 DEF mqtt_tcpclient_recon_cb
  <2>10. CASE mqtt_tcpclient_discon_cb
    BY <2>10 DEF mqtt_tcpclient_discon_cb
  <2>11. CASE mqtt_tcpclient_sent_cb
    BY <2>11 DEF mqtt_tcpclient_sent_cb
  <2>12. ASSUME NEW s \in Segments, mqtt_tcpclient_recv(s)
        PROVE  dns' = dns
    BY <2>12 DEF mqtt_tcpclient_recv, Receive
  <2>13. ASSUME NEW s \in Segments, mqtt_tcpclient_recv_bad_length(s)
        PROVE  dns' = dns
    BY <2>13 DEF mqtt_tcpclient_recv_bad_length
  <2>14. CASE READPACKET
    BY <2>14 DEF READPACKET, Receive
  <2>15. CASE mqtt_timer
    BY <2>15 DEF mqtt_timer
  <2>16. CASE TaskReconnect
    BY <2>16 DEF TaskReconnect, Connect
  <2>17. CASE TaskDisconnect
    BY <2>17 DEF TaskDisconnect
  <2>18. CASE TaskDisconnected
    BY <2>18 DEF TaskDisconnected
  <2>19. CASE TaskDeleted
    BY <2>19 DEF TaskDeleted
  <2>20. CASE TaskKeepAlive
    BY <2>20 DEF TaskKeepAlive
  <2>21. CASE TaskData
    BY <2>21 DEF TaskData
  <2>22. CASE TaskIdle
    BY <2>22 DEF TaskIdle
  <2>23. CASE UNCHANGED vars
    BY <2>23 DEF vars
  <2> QED BY <2>1, <2>2, <2>3, <2>4, <2>5, <2>6, <2>7, <2>8, <2>9, <2>10,
             <2>11, <2>12, <2>13, <2>14, <2>15, <2>16, <2>17, <2>18, <2>19,
             <2>20, <2>21, <2>22, <2>23 DEF Next, App, Network, MQTT_Task
<1> QED BY <1>1 DEF NoLookups

(* A step that starts a connection is MQTT_Connect or a reconnect.         *)
LEMMA OpensOnlyWhenAsked ==
  ASSUME HostIsIP, NoLookups, Ownership, [Next]_vars,
         link = "none", link' = "connecting"
  PROVE  asked' = "up"
<1>1. CASE MQTT_Init
  BY <1>1 DEF MQTT_Init, netVars
<1>2. CASE MQTT_Connect
  BY <1>2 DEF MQTT_Connect
<1>3. CASE MQTT_Disconnect
  BY <1>3 DEF MQTT_Disconnect, netVars
<1>4. CASE MQTT_DeleteClient
  BY <1>4 DEF MQTT_DeleteClient, netVars
<1>5. ASSUME NEW r \in Requests, MQTT_Publish(r)
      PROVE  asked' = "up"
  BY <1>5 DEF MQTT_Publish, netVars
<1>6. ASSUME NEW r \in Requests, MQTT_Subscribe(r)
      PROVE  asked' = "up"
  BY <1>6 DEF MQTT_Subscribe, netVars
<1>7. ASSUME NEW c \in Conns, NEW answer \in {"null", "addr0", "addr"},
             mqtt_dns_found(c, answer)
      PROVE  asked' = "up"
  BY <1>7 DEF mqtt_dns_found, NoLookups
<1>8. CASE mqtt_tcpclient_connect_cb
  BY <1>8 DEF mqtt_tcpclient_connect_cb
<1>9. CASE mqtt_tcpclient_recon_cb
  BY <1>9 DEF mqtt_tcpclient_recon_cb
<1>10. CASE mqtt_tcpclient_discon_cb
  BY <1>10 DEF mqtt_tcpclient_discon_cb, Established
<1>11. CASE mqtt_tcpclient_sent_cb
  BY <1>11 DEF mqtt_tcpclient_sent_cb
<1>12. ASSUME NEW s \in Segments, mqtt_tcpclient_recv(s)
      PROVE  asked' = "up"
  BY <1>12 DEF mqtt_tcpclient_recv, Established
<1>13. ASSUME NEW s \in Segments, mqtt_tcpclient_recv_bad_length(s)
      PROVE  asked' = "up"
  BY <1>13 DEF mqtt_tcpclient_recv_bad_length, netVars
<1>14. CASE READPACKET
  BY <1>14
     DEF READPACKET, Receive, ReceiveConnack, ReceiveInSession,
         ReceiveOutsideSession, espconn_disconnect
<1>15. CASE mqtt_timer
  BY <1>15 DEF mqtt_timer, netVars
<1>16. CASE TaskReconnect
  BY <1>16 DEF TaskReconnect, Ownership, appVars
<1>17. CASE TaskDisconnect
  BY <1>17 DEF TaskDisconnect, espconn_disconnect
<1>18. CASE TaskDisconnected
  BY <1>18 DEF TaskDisconnected, LinkGone, Forgotten
<1>19. CASE TaskDeleted
  BY <1>19 DEF TaskDeleted, LinkGone, Forgotten
<1>20. CASE TaskKeepAlive
  BY <1>20 DEF TaskKeepAlive
<1>21. CASE TaskData
  BY <1>21 DEF TaskData
<1>22. CASE TaskIdle
  BY <1>22 DEF TaskIdle, netVars
<1>23. CASE UNCHANGED vars
  BY <1>23 DEF vars, netVars
<1> QED BY <1>1, <1>2, <1>3, <1>4, <1>5, <1>6, <1>7, <1>8, <1>9, <1>10, <1>11,
           <1>12, <1>13, <1>14, <1>15, <1>16, <1>17, <1>18, <1>19, <1>20,
           <1>21, <1>22, <1>23 DEF Next, App, Network, MQTT_Task

(* With a host given as an address, a TCP connection is opened only for an *)
(* application whose last word was MQTT_Connect.                           *)
THEOREM NeverConnectsUnasked == HostIsIP /\ Spec => NoUnaskedConnect
<1>1. SUFFICES ASSUME HostIsIP PROVE Spec => NoUnaskedConnect
  OBVIOUS
<1>2. Init => NoLookups
  BY DEF Init, NoLookups
<1>3. NoLookups /\ [Next]_vars => NoLookups'
  BY <1>1, NoLookupsStep
<1>4. IInv /\ NoLookups /\ [Next]_vars =>
        [link = "none" /\ link' = "connecting" => asked' = "up"]_vars
  BY <1>1, OpensOnlyWhenAsked DEF IInv
<1> QED BY <1>2, <1>3, <1>4, Invariance, PTL DEF Spec, NoUnaskedConnect

-----------------------------------------------------------------------------
(* Pings and sends *)

(* A send timeout still running leaves the keep-alive clock that much      *)
(* behind, and a connection starts with the clock at zero.                 *)
Spacing ==
  /\ KeepAliveNotOverlapping
  /\ link = "connecting" \/ connState = "MQTT_CONNECT_SENDING" => keepAliveTick = 0
  /\ connState = "MQTT_DATA" /\ sendTimeout > 0 =>
       keepAliveTick + sendTimeout <= MQTT_SEND_TIMOUT

(* A packet that was received moves neither of the clocks.                 *)
LEMMA ReceiveSpacing ==
  ASSUME StateTypes, Spacing, NEW p, NEW rest, Receive(p, rest)
  PROVE  Spacing'
<1>1. UNCHANGED <<keepAliveTick, sendTimeout>>
  BY DEF Receive, timeVars
<1>2. \/ connState' = connState
      \/ connState = "MQTT_CONNECT_SENDING" /\ connState' = "MQTT_DATA"
  BY DEF Receive, ReceiveConnack, ReceiveInSession, ReceiveOutsideSession
<1>3. link' = "connecting" => link = "connecting"
  BY DEF Receive, ReceiveConnack, ReceiveInSession, ReceiveOutsideSession,
         espconn_disconnect
<1> QED BY <1>1, <1>2, <1>3 DEF Spacing, KeepAliveNotOverlapping, StateTypes

(* Every step keeps the clocks that far apart.                             *)
LEMMA SpacingStep ==
  ASSUME HostIsIP, MQTT_SEND_TIMOUT <= KEEPALIVE \div 2 + 1,
         StateTypes, NoLookups, SessionOnLiveLink, Spacing, [Next]_vars
  PROVE  Spacing'
<1>1. CASE MQTT_Init
  BY <1>1 DEF MQTT_Init, Spacing, KeepAliveNotOverlapping
<1>2. CASE MQTT_Connect
  BY <1>2 DEF MQTT_Connect, Connect, Spacing, KeepAliveNotOverlapping
<1>3. CASE MQTT_Disconnect
  BY <1>3 DEF MQTT_Disconnect, Spacing, KeepAliveNotOverlapping, netVars
<1>4. CASE MQTT_DeleteClient
  BY <1>4 DEF MQTT_DeleteClient, Spacing, KeepAliveNotOverlapping, netVars
<1>5. ASSUME NEW r \in Requests, MQTT_Publish(r)
      PROVE  Spacing'
  BY <1>5 DEF MQTT_Publish, Spacing, KeepAliveNotOverlapping, netVars, timeVars
<1>6. ASSUME NEW r \in Requests, MQTT_Subscribe(r)
      PROVE  Spacing'
  BY <1>6
     DEF MQTT_Subscribe, Spacing, KeepAliveNotOverlapping, netVars, timeVars
<1>7. ASSUME NEW c \in Conns, NEW answer \in {"null", "addr0", "addr"},
             mqtt_dns_found(c, answer)
      PROVE  Spacing'
  BY <1>7 DEF mqtt_dns_found, NoLookups
<1>8. CASE mqtt_tcpclient_connect_cb
  BY <1>8 DEF mqtt_tcpclient_connect_cb, Spacing, KeepAliveNotOverlapping
<1>9. CASE mqtt_tcpclient_recon_cb
  BY <1>9
     DEF mqtt_tcpclient_recon_cb, LinkGone, Forgotten, Spacing, KeepAliveNotOverlapping
<1>10. CASE mqtt_tcpclient_discon_cb
  BY <1>10
     DEF mqtt_tcpclient_discon_cb, LinkGone, Forgotten, Spacing, KeepAliveNotOverlapping
<1>11. CASE mqtt_tcpclient_sent_cb
  BY <1>11 DEF mqtt_tcpclient_sent_cb, Spacing, KeepAliveNotOverlapping
<1>12. ASSUME NEW s \in Segments, mqtt_tcpclient_recv(s)
      PROVE  Spacing'
  BY <1>12, ReceiveSpacing DEF mqtt_tcpclient_recv
<1>13. ASSUME NEW s \in Segments, mqtt_tcpclient_recv_bad_length(s)
      PROVE  Spacing'
  BY <1>13
     DEF mqtt_tcpclient_recv_bad_length, Spacing, KeepAliveNotOverlapping,
         netVars, timeVars
<1>14. CASE READPACKET
  BY <1>14, ReceiveSpacing DEF READPACKET
<1>15. CASE mqtt_timer
  BY <1>15, ClientAssumption
     DEF mqtt_timer, Spacing, KeepAliveNotOverlapping, SessionOnLiveLink,
         InSession, StateTypes, Established, netVars
<1>16. CASE TaskReconnect
  BY <1>16 DEF TaskReconnect, Connect, Spacing, KeepAliveNotOverlapping
<1>17. CASE TaskDisconnect
  BY <1>17
     DEF TaskDisconnect, espconn_disconnect, Spacing, KeepAliveNotOverlapping,
         timeVars
<1>18. CASE TaskDisconnected
  BY <1>18 DEF TaskDisconnected, LinkGone, Forgotten, Spacing, KeepAliveNotOverlapping
<1>19. CASE TaskDeleted
  BY <1>19 DEF TaskDeleted, LinkGone, Forgotten, Spacing, KeepAliveNotOverlapping
<1>20. CASE TaskKeepAlive
  BY <1>20, ClientAssumption
     DEF TaskKeepAlive, Spacing, KeepAliveNotOverlapping
<1>21. CASE TaskData
  BY <1>21, ClientAssumption DEF TaskData, Spacing, KeepAliveNotOverlapping
<1>22. CASE TaskIdle
  BY <1>22 DEF TaskIdle, Spacing, KeepAliveNotOverlapping, netVars, timeVars
<1>23. CASE UNCHANGED vars
  BY <1>23 DEF vars, Spacing, KeepAliveNotOverlapping, netVars, timeVars
<1> QED BY <1>1, <1>2, <1>3, <1>4, <1>5, <1>6, <1>7, <1>8, <1>9, <1>10, <1>11,
           <1>12, <1>13, <1>14, <1>15, <1>16, <1>17, <1>18, <1>19, <1>20,
           <1>21, <1>22, <1>23 DEF Next, App, Network, MQTT_Task

(* When the send timeout is at most half the keep-alive time and a second, *)
(* and the host is an address, no ping is sent while a send waits to be    *)
(* confirmed.                                                              *)
THEOREM PingsApart ==
  HostIsIP /\ MQTT_SEND_TIMOUT <= KEEPALIVE \div 2 + 1 /\ Spec => []KeepAliveNotOverlapping
<1>1. SUFFICES ASSUME HostIsIP, MQTT_SEND_TIMOUT <= KEEPALIVE \div 2 + 1
               PROVE  Spec => []KeepAliveNotOverlapping
  OBVIOUS
<1>2. Init => NoLookups /\ Spacing
  BY DEF Init, NoLookups, Spacing, KeepAliveNotOverlapping
<1>3. NoLookups /\ [Next]_vars => NoLookups'
  BY <1>1, NoLookupsStep
<1>4. IInv /\ NoLookups /\ Spacing /\ [Next]_vars => Spacing'
  BY <1>1, SpacingStep DEF IInv, TypeOK
<1>5. Spacing => KeepAliveNotOverlapping
  BY DEF Spacing
<1> QED BY <1>2, <1>3, <1>4, <1>5, Invariance, PTL DEF Spec

-----------------------------------------------------------------------------
(* The queue's order *)

(* Making room drops packets from the old end only. *)
LEMMA EvictDropsOldest ==
  ASSUME NEW q \in Seq(Packet), NEW p \in Packet
  PROVE  \E n \in 0 .. Len(q) : Evict(q, p) = SubSeq(q, n + 1, Len(q))
<1> DEFINE S == {m \in 0 .. Len(q) : StillFull(q, p, m)}
           n == Cardinality(S)
<1>1. n \in 0 .. Len(q) + 1
  <2>1. IsFiniteSet(0 .. Len(q)) /\ Cardinality(0 .. Len(q)) = Len(q) + 1
    BY FS_Interval, Len(q) \in Nat
  <2>2. S \subseteq 0 .. Len(q)
    OBVIOUS
  <2> HIDE DEF S
  <2>3. IsFiniteSet(S) /\ Cardinality(S) <= Len(q) + 1
    BY <2>1, <2>2, FS_Subset
  <2> QED BY <2>3, FS_CardinalityType
<1>2. Evict(q, p) = SubSeq(q, n + 1, Len(q))
  BY DEF Evict
<1> HIDE DEF n
<1>3. CASE n \in 0 .. Len(q)
  BY <1>2, <1>3
<1>4. CASE n = Len(q) + 1
  <2>1. SubSeq(q, n + 1, Len(q)) = SubSeq(q, Len(q) + 1, Len(q))
    BY <1>4
  <2> QED BY <1>2, <2>1, Len(q) \in 0 .. Len(q)
<1> QED BY <1>1, <1>3, <1>4

(* The ways a step may change the queue. *)
LEMMA OrderCases ==
  ASSUME NEW q \in Seq(Packet)
  PROVE  /\ KeepsOrder(q, q)
         /\ q # <<>> => KeepsOrder(q, Tail(q))
         /\ \A p \in Packet : KeepsOrder(q, Append(q, p))
         /\ \A p \in Packet : /\ KeepsOrder(q, Evict(q, p))
                              /\ KeepsOrder(q, Append(Evict(q, p), p))
<1>1. q = SubSeq(q, 0 + 1, Len(q)) /\ 0 \in 0 .. Len(q)
  OBVIOUS
<1>2. \A r \in Seq(Packet), p \in Packet : Append(r, p) # <<>> /\ Front(Append(r, p)) = r
  BY DEF Front
<1>3. KeepsOrder(q, q) /\ \A p \in Packet : KeepsOrder(q, Append(q, p))
  BY <1>1, <1>2 DEF KeepsOrder
<1>4. q # <<>> => KeepsOrder(q, Tail(q))
  <2> SUFFICES ASSUME q # <<>> PROVE KeepsOrder(q, Tail(q))
    OBVIOUS
  <2>1. Tail(q) = SubSeq(q, 1 + 1, Len(q)) /\ 1 \in 0 .. Len(q)
    OBVIOUS
  <2> QED BY <2>1 DEF KeepsOrder
<1>5. ASSUME NEW p \in Packet
      PROVE  KeepsOrder(q, Evict(q, p)) /\ KeepsOrder(q, Append(Evict(q, p), p))
  <2>1. Evict(q, p) \in Seq(Packet)
    BY EvictType
  <2> QED BY <1>2, <2>1, EvictDropsOldest DEF KeepsOrder
<1> QED BY <1>3, <1>4, <1>5

(* What the application queues keeps the order. *)
LEMMA EnqueueOrder ==
  ASSUME StateTypes, NEW p \in Packet, EnqueueEvicting(p)
  PROVE  KeepsOrder(msgQueue, msgQueue')
<1>1. msgQueue \in Seq(Packet)
  BY DEF StateTypes
<1>2. msgQueue' = Evict(msgQueue, p) \/ msgQueue' = Append(Evict(msgQueue, p), p)
  BY DEF EnqueueEvicting
<1> QED BY <1>1, <1>2, OrderCases

(* What a received packet queues keeps the order. *)
LEMMA ReceiveOrder ==
  ASSUME StateTypes, NEW p, NEW rest, Receive(p, rest)
  PROVE  KeepsOrder(msgQueue, msgQueue')
<1> DEFINE r == [type |-> Reply(p), size |-> 1]
<1>1. r \in Packet
  BY DEF Reply, Packet, SentType, ReplyType
<1>2. msgQueue' = msgQueue \/ msgQueue' = Append(msgQueue, r)
  BY DEF Receive, ReceiveConnack, ReceiveInSession, ReceiveOutsideSession
<1>3. msgQueue \in Seq(Packet)
  BY DEF StateTypes
<1> HIDE DEF r
<1> QED BY <1>1, <1>2, <1>3, OrderCases

(* Every step drops from the old end of the queue and adds at the new one. *)
LEMMA OrderStep ==
  ASSUME StateTypes, [Next]_vars, inited, inited'
  PROVE  KeepsOrder(msgQueue, msgQueue')
<1>0. msgQueue' = msgQueue => KeepsOrder(msgQueue, msgQueue')
  BY OrderCases DEF StateTypes
<1>1. ASSUME NEW r \in Requests, MQTT_Publish(r)
      PROVE  KeepsOrder(msgQueue, msgQueue')
  <2> DEFINE p == [type |-> r.type, size |-> r.size]
  <2>1. p \in Packet
    BY <1>1, ClientAssumption DEF Packet, SentType
  <2>2. EnqueueEvicting(p) \/ msgQueue' = msgQueue
    BY <1>1 DEF MQTT_Publish
  <2> HIDE DEF p
  <2> QED BY <1>0, <2>1, <2>2, EnqueueOrder
<1>2. ASSUME NEW r \in Requests, MQTT_Subscribe(r)
      PROVE  KeepsOrder(msgQueue, msgQueue')
  <2> DEFINE p == IF r.built THEN [type |-> r.type, size |-> r.size]
                             ELSE [type |-> "NONE", size |-> 1]
  <2>1. p \in Packet
    BY <1>2, ClientAssumption DEF Packet, SentType
  <2>2. EnqueueEvicting(p)
    BY <1>2 DEF MQTT_Subscribe
  <2> HIDE DEF p
  <2> QED BY <2>1, <2>2, EnqueueOrder
<1>3. ASSUME NEW s \in Segments, mqtt_tcpclient_recv(s)
      PROVE  KeepsOrder(msgQueue, msgQueue')
  BY <1>3, ReceiveOrder DEF mqtt_tcpclient_recv
<1>4. CASE READPACKET
  BY <1>4, ReceiveOrder DEF READPACKET
<1>5. CASE TaskData
  BY <1>5, OrderCases DEF TaskData, StateTypes
<1>6. CASE MQTT_Init \/ TaskDeleted
  BY <1>6 DEF MQTT_Init, TaskDeleted
<1>7. CASE MQTT_Connect \/ MQTT_Disconnect \/ MQTT_DeleteClient
  BY <1>0, <1>7 DEF MQTT_Connect, MQTT_Disconnect, MQTT_DeleteClient, dataVars
<1>8. ASSUME NEW c \in Conns, NEW answer \in {"null", "addr0", "addr"},
             mqtt_dns_found(c, answer)
      PROVE  KeepsOrder(msgQueue, msgQueue')
  BY <1>0, <1>8 DEF mqtt_dns_found, dataVars
<1>9. CASE \/ mqtt_tcpclient_connect_cb \/ mqtt_tcpclient_recon_cb
           \/ mqtt_tcpclient_discon_cb \/ mqtt_tcpclient_sent_cb
  BY <1>0, <1>9
     DEF mqtt_tcpclient_connect_cb, mqtt_tcpclient_recon_cb,
         mqtt_tcpclient_discon_cb, mqtt_tcpclient_sent_cb, dataVars
<1>10. ASSUME NEW s \in Segments, mqtt_tcpclient_recv_bad_length(s)
       PROVE  KeepsOrder(msgQueue, msgQueue')
  BY <1>0, <1>10 DEF mqtt_tcpclient_recv_bad_length, dataVars
<1>11. CASE \/ mqtt_timer \/ TaskReconnect \/ TaskDisconnect \/ TaskDisconnected
            \/ TaskKeepAlive \/ TaskIdle
  BY <1>0, <1>11 DEF mqtt_timer, TaskReconnect, TaskDisconnect, TaskDisconnected,
         TaskKeepAlive, TaskIdle, dataVars
<1>12. CASE UNCHANGED vars
  BY <1>0, <1>12 DEF vars, dataVars
<1> QED BY <1>1, <1>2, <1>3, <1>4, <1>5, <1>6, <1>7, <1>8, <1>9, <1>10, <1>11,
       <1>12
       DEF Next, App, Network, MQTT_Task

(* Packets are sent in the order they were queued in, for every size of    *)
(* queue and every set of packets: making room and receiving included.     *)
THEOREM OrderKept == Spec => QueueOrderKept
<1>1. IInv /\ [Next]_vars =>
        [inited /\ inited' => KeepsOrder(msgQueue, msgQueue')]_vars
  BY OrderStep DEF IInv, TypeOK
<1> QED BY <1>1, Invariance, PTL DEF Spec, QueueOrderKept

-----------------------------------------------------------------------------
(* The application uses the client as MqttClient lets it, so the theorems  *)
(* above hold of it, and with them one about the Wi-Fi station.            *)

(* What is left to ask for is the client's to ask, and a connection is     *)
(* asked for only if the last poll found one.                              *)
Follows ==
  /\ todo \in Seq(Requests)
  /\ asked = "up" => lastWifiStatus = "STATION_GOT_IP"

(* asked is set by the calls of wifiConnectCb alone. *)
LEMMA ClientKeepsAsked ==
  ASSUME mqtt_timer \/ MQTT_Task \/ NetworkStep
  PROVE  asked' \in {asked, "none"}
<1> USE DEF appVars
<1>1. CASE mqtt_timer
  BY <1>1 DEF mqtt_timer
<1>2. CASE MQTT_Task
  BY <1>2 DEF MQTT_Task, TaskReconnect, TaskDisconnect, TaskDisconnected, TaskDeleted,
              TaskKeepAlive, TaskData, TaskIdle
<1>3. CASE NetworkStep
  BY <1>3 DEF NetworkStep, mqtt_tcpclient_recon_cb, mqtt_tcpclient_discon_cb,
              mqtt_tcpclient_connect_cb, mqtt_tcpclient_sent_cb, mqtt_tcpclient_recv,
              mqtt_tcpclient_recv_bad_length, READPACKET, Receive
<1> QED BY <1>1, <1>2, <1>3

(* The network of the application is that of MqttClient, at some times     *)
(* only.                                                                   *)
LEMMA NetworkIsNetwork == ASSUME NetworkStep PROVE Network
BY DEF NetworkStep, Network

(* What is left of the first packets are requests.                         *)
LEMMA TodoTail ==
  ASSUME todo \in Seq(Requests), todo # <<>>
  PROVE  Head(todo) \in Requests /\ Tail(todo) \in Seq(Requests)
OBVIOUS

(* A step of the application is a step of the client, or none.             *)
LEMMA SystemStep ==
  ASSUME Follows, [SystemNext]_systemVars
  PROVE  [Next]_vars /\ Follows'
<1>0. todo \in Seq(Requests) /\ FirstPackets \in Seq(Requests) /\ <<>> \in Seq(Requests)
  BY ApplicationAssumption DEF Follows
<1>1. ASSUME app_init PROVE [Next]_vars /\ Follows'
  <2>1. MQTT_Init /\ todo' = todo
    BY <1>1 DEF app_init
  <2>2. Next
    BY <2>1 DEF Next, App
  <2>3. asked' = "none"
    BY <2>1 DEF MQTT_Init
  <2> QED BY <1>0, <2>1, <2>2, <2>3 DEF Follows
<1>2. ASSUME wifi_check_ip PROVE [Next]_vars /\ Follows'
  <2>1. todo' = todo /\ lastWifiStatus' = station
        /\ (IF station # lastWifiStatus THEN wifiConnectCb(station) ELSE UNCHANGED vars)
    BY <1>2 DEF wifi_check_ip
  <2>2. CASE station = lastWifiStatus
    BY <2>1, <2>2 DEF Follows, vars, appVars
  <2>3. CASE station # lastWifiStatus /\ station = "STATION_GOT_IP"
    <3>1. MQTT_Connect
      BY <2>1, <2>3 DEF wifiConnectCb
    <3>2. Next
      BY <3>1, ApplicationAssumption DEF Next, App
    <3> QED BY <1>0, <2>1, <2>3, <3>2 DEF Follows
  <2>4. CASE station # lastWifiStatus /\ station # "STATION_GOT_IP"
    <3>1. MQTT_Disconnect
      BY <2>1, <2>4 DEF wifiConnectCb
    <3>2. Next
      BY <3>1, ApplicationAssumption DEF Next, App
    <3>3. asked' = "down"
      BY <3>1 DEF MQTT_Disconnect
    <3> QED BY <1>0, <2>1, <3>2, <3>3 DEF Follows
  <2> QED BY <2>2, <2>3, <2>4
<1>3. ASSUME mqttConnectedCb PROVE [Next]_vars /\ Follows'
  <2>1. Head(todo) \in Requests /\ todo' \in Seq(Requests) /\ lastWifiStatus' = lastWifiStatus
    BY <1>0, <1>3, TodoTail DEF mqttConnectedCb, wifiVars
  <2>2. MQTT_Publish(Head(todo)) \/ MQTT_Subscribe(Head(todo))
    BY <1>3 DEF mqttConnectedCb
  <2>3. Next
    BY <2>1, <2>2 DEF Next, App
  <2>4. asked' = asked
    BY <2>2 DEF MQTT_Publish, MQTT_Subscribe, appVars
  <2> QED BY <2>1, <2>3, <2>4 DEF Follows
<1>4. ASSUME StationJoins PROVE [Next]_vars /\ Follows'
  BY <1>4 DEF StationJoins, Follows, vars, appVars
<1>5. ASSUME ClientStep(NetworkStep) \/ ClientStep(mqtt_timer \/ MQTT_Task)
      PROVE  [Next]_vars /\ Follows'
  <2>1. todo' \in {FirstPackets, <<>>} /\ lastWifiStatus' = lastWifiStatus
        /\ (NetworkStep \/ mqtt_timer \/ MQTT_Task)
    BY <1>5 DEF ClientStep, wifiVars
  <2>2. Next
    BY <2>1, NetworkIsNetwork DEF Next
  <2>3. asked' \in {asked, "none"}
    BY <2>1, ClientKeepsAsked
  <2> QED BY <1>0, <2>1, <2>2, <2>3 DEF Follows
<1>6. CASE UNCHANGED systemVars
  BY <1>6 DEF systemVars, wifiVars, vars, appVars, Follows
<1> QED BY <1>1, <1>2, <1>3, <1>4, <1>5, <1>6 DEF SystemNext

(* At first nothing has been asked of the client.                          *)
LEMMA FollowsInit == SystemInit => Init /\ Follows
BY DEF SystemInit, Init, Follows

(* Seen from the client, the application is one of those that MqttClient   *)
(* allows: it calls nothing while another handler runs, and its first      *)
(* packets are queued within the receive callback.                         *)
THEOREM UsesClient == SystemSpec => Spec
<1>1. Follows /\ [SystemNext]_systemVars => [Next]_vars /\ Follows'
  BY SystemStep
<1> QED BY <1>1, FollowsInit, PTL DEF SystemSpec, Spec

(* So the client's theorems hold here; one for all: the session it uses is *)
(* live and its wake-ups are kept.                                         *)
THEOREM ClientInvariants == SystemSpec => [](SessionOnLiveLink /\ NoLostWakeup)
BY UsesClient, SessionHasLink, WakeupsKept, PTL

(* A connection is opened only while the station had an address when it    *)
(* was last polled.                                                        *)
THEOREM NoAttemptOffline == SystemSpec => OpensOnlyWithNetwork
<1> DEFINE Opens == link = "none" /\ link' = "connecting"
<1>1. Follows /\ [SystemNext]_systemVars => Follows'
  BY SystemStep
<1>2. SystemSpec => [][Opens => asked' = "up"]_vars
  BY UsesClient, NeverConnectsUnasked, ApplicationAssumption DEF NoUnaskedConnect
<1>3. Follows' /\ [Opens => asked' = "up"]_vars =>
        [Opens => lastWifiStatus' = "STATION_GOT_IP"]_systemVars
  BY DEF Follows, vars, netVars
<1> HIDE DEF Opens
<1>4. SystemSpec => [][Opens => lastWifiStatus' = "STATION_GOT_IP"]_systemVars
  BY <1>1, <1>2, <1>3, FollowsInit, PTL DEF SystemSpec
<1> QED BY <1>4 DEF Opens, OpensOnlyWithNetwork

-----------------------------------------------------------------------------
(* The first packets stay together: making room keeps the newest packets   *)
(* that fit with the new one.                                              *)

Sizes(q) == [i \in 1 .. Len(q) |-> q[i].size]

HasSizes(q) == Len(q) \in Nat /\ \A i \in 1 .. Len(q) : q[i].size \in Nat

(* f is the table that Used is computed by. *)
UsedTo(f, q, k) ==
  f = [n \in 0 .. k |-> IF n = 0 THEN 0 ELSE f[n - 1] + q[n].size]

(* Used is the total of the sizes. *)
LEMMA UsedTotals ==
  ASSUME NEW q, HasSizes(q)
  PROVE  \E f : Totals(f, Sizes(q), Len(q)) /\ Used(q) = f[Len(q)]
<1>1. PICK w, k : w = Sizes(q) /\ k = Len(q)
  OBVIOUS
<1>2. k \in Nat /\ \A n \in 1 .. k : w[n] = q[n].size /\ w[n] \in Nat
  BY <1>1 DEF Sizes, HasSizes
<1>3. ASSUME NEW f PROVE IsTotal(f, w, k) <=> UsedTo(f, q, k)
  <2>1. \A n \in 0 .. k : n # 0 => n \in 1 .. k
    BY <1>2
  <2>2. [n \in 0 .. k |-> IF n = 0 THEN 0 ELSE f[n - 1] + w[n]] =
          [n \in 0 .. k |-> IF n = 0 THEN 0 ELSE f[n - 1] + q[n].size]
    BY <1>2, <2>1
  <2> QED BY <2>2 DEF IsTotal, UsedTo
<1> DEFINE f == CHOOSE f : UsedTo(f, q, Len(q))
<1>4. UsedTo(f, q, Len(q))
  <2>1. \E g : IsTotal(g, w, k)
    BY <1>2, TotalExists
  <2>2. \E g : UsedTo(g, q, Len(q))
    BY <1>1, <1>3, <2>1
  <2> QED BY <2>2
<1>5. Used(q) = f[Len(q)]
  BY DEF Used, UsedTo
<1> HIDE DEF f
<1>6. Totals(f, w, k)
  BY <1>1, <1>2, <1>3, <1>4, TotalSteps
<1> QED BY <1>1, <1>5, <1>6

(* Packets have sizes. *)
LEMMA PacketSizes ==
  ASSUME NEW q \in Seq(Packet)
  PROVE  HasSizes(q)
<1>1. Len(q) \in Nat /\ \A i \in 1 .. Len(q) : q[i] \in Packet
  OBVIOUS
<1>2. \A p \in Packet : p.size \in Nat
  BY DEF Packet
<1> QED BY <1>1, <1>2 DEF HasSizes

(* What is left without the oldest packets. *)
LEMMA WithoutOldest ==
  ASSUME NEW q \in Seq(Packet), NEW m \in 0 .. Len(q),
         NEW r, r = SubSeq(q, m + 1, Len(q))
  PROVE  /\ r \in Seq(Packet) /\ Len(r) = Len(q) - m
         /\ \A i \in 1 .. Len(q) - m : r[i] = q[m + i]
  OBVIOUS

(* What is used without the oldest packets. *)
LEMMA UsedWithout ==
  ASSUME NEW q \in Seq(Packet), NEW g, Totals(g, Sizes(q), Len(q)), NEW m \in 0 .. Len(q)
  PROVE  /\ Used(SubSeq(q, m + 1, Len(q))) \in Nat
         /\ g[Len(q)] = g[m] + Used(SubSeq(q, m + 1, Len(q)))
<1>1. PICK r, l, k : r = SubSeq(q, m + 1, Len(q)) /\ l = Len(q) /\ k = l - m
  OBVIOUS
<1>2. /\ r \in Seq(Packet) /\ Len(r) = k /\ k \in Nat /\ l \in Nat /\ m + k = l
      /\ \A i \in 1 .. k : r[i] = q[m + i] /\ m + i \in 1 .. l
  BY <1>1
<1>3. PICK f : Totals(f, Sizes(r), Len(r)) /\ Used(r) = f[Len(r)]
  BY <1>2, PacketSizes, UsedTotals
<1>4. From(Sizes(r), k, Sizes(q), l, m)
  <2>1. \A i \in 1 .. k : Sizes(q)[m + i] = Sizes(r)[i]
    BY <1>1, <1>2 DEF Sizes
  <2> QED BY <1>2, <2>1 DEF From
<1>5. \A n \in 0 .. k : g[m + n] = g[m] + f[n]
  BY <1>1, <1>2, <1>3, <1>4, TotalsOn
<1>6. k \in 0 .. k /\ f[k] \in Nat
  BY <1>2, <1>3 DEF Totals
<1> QED BY <1>1, <1>2, <1>3, <1>5, <1>6

(* If dropping m packets does not make room, then dropping fewer does not. *)
LEMMA FullBefore ==
  ASSUME NEW q \in Seq(Packet), NEW p \in Packet,
         NEW n \in 0 .. Len(q), NEW m \in 0 .. n, StillFull(q, p, n)
  PROVE  StillFull(q, p, m)
<1>1. PICK g : Totals(g, Sizes(q), Len(q))
  BY PacketSizes, UsedTotals
<1>2. PICK x, y, a, b, t :
        /\ x = Used(SubSeq(q, m + 1, Len(q))) /\ y = Used(SubSeq(q, n + 1, Len(q)))
        /\ a = g[m] /\ b = g[n] /\ t = g[Len(q)]
  OBVIOUS
<1>3. m \in 0 .. Len(q) /\ n \in m .. Len(q)
  OBVIOUS
<1>4. x \in Nat /\ y \in Nat /\ t = a + x /\ t = b + y
  BY <1>1, <1>2, <1>3, UsedWithout
<1>5. a \in Nat /\ b \in Nat /\ a <= b
  BY <1>1, <1>2, <1>3, TotalsGrow
<1>6. p.size \in Nat /\ QueueSize \in Nat /\ ~(y + p.size <= QueueSize)
  BY <1>2, ClientAssumption DEF StillFull, Fits, Packet
<1>7. ~(x + p.size <= QueueSize)
  BY ONLY <1>4, <1>5, <1>6
<1> QED BY <1>2, <1>7 DEF StillFull, Fits

(* Making room drops no more packets than needed. *)
LEMMA EvictKeeps ==
  ASSUME NEW q \in Seq(Packet), NEW p \in Packet,
         NEW d \in 0 .. Len(q), ~StillFull(q, p, d)
  PROVE  \E n \in 0 .. d : Evict(q, p) = SubSeq(q, n + 1, Len(q)) /\ Fits(Evict(q, p), p)
<1> DEFINE S == {m \in 0 .. Len(q) : StillFull(q, p, m)}
<1>1. S \subseteq 0 .. Len(q) /\ \A m \in S : \A i \in 0 .. m : i \in S
  BY FullBefore
<1>2. d \notin S /\ d \in Nat /\ Len(q) \in Nat
  OBVIOUS
<1>3. Evict(q, p) = SubSeq(q, Cardinality(S) + 1, Len(q))
  BY DEF Evict
<1>4. \A m \in 0 .. Len(q) : m \notin S => Fits(SubSeq(q, m + 1, Len(q)), p)
  BY DEF StillFull
<1> HIDE DEF S
<1>5. S \subseteq 0 .. d - 1
  <2> SUFFICES ASSUME NEW m \in S, m >= d PROVE FALSE
    BY <1>1, <1>2
  <2>1. m \in Nat
    BY <1>1
  <2>2. d \in 0 .. m
    BY <1>2, <2>1
  <2> QED BY <1>1, <1>2, <2>2
<1>6. IsFiniteSet(0 .. d - 1) /\ Cardinality(0 .. d - 1) = d
  <2>1. 0 \in Int /\ d - 1 \in Int
    BY <1>2
  <2>2. /\ IsFiniteSet(0 .. d - 1)
        /\ Cardinality(0 .. d - 1) = IF 0 > d - 1 THEN 0 ELSE (d - 1) - 0 + 1
    BY <2>1, FS_Interval
  <2> QED BY <1>2, <2>2
<1>7. IsFiniteSet(S) /\ Cardinality(S) <= d
  BY <1>5, <1>6, FS_Subset, ZenonT(60)
<1>8. PICK n : n = Cardinality(S)
  OBVIOUS
<1>9. n \in 0 .. d /\ n \in 0 .. Len(q)
  BY <1>2, <1>7, <1>8, FS_CardinalityType
<1>10. n \notin S
  <2> SUFFICES ASSUME n \in S PROVE FALSE
    OBVIOUS
  <2>1. 0 .. n \subseteq S
    BY <1>1
  <2>2. Cardinality(0 .. n) = n + 1
    BY <1>9, FS_Interval
  <2>3. Cardinality(0 .. n) <= Cardinality(S)
    BY <1>7, <2>1, FS_Subset
  <2> QED BY <1>8, <1>9, <2>2, <2>3
<1> QED BY <1>3, <1>4, <1>8, <1>9, <1>10

(* The first k of the first packets are the newest ones of q. *)
Newest(q, k) ==
  /\ k \in 0 .. Len(FirstPackets) /\ k <= Len(q)
  /\ \A i \in 1 .. k : /\ q[Len(q) - k + i].type = FirstPackets[i].type
                       /\ q[Len(q) - k + i].size = FirstPackets[i].size

(* The first packets are requests. *)
LEMMA FirstSizes ==
  /\ FirstPackets \in Seq(Requests) /\ HasSizes(FirstPackets)
  /\ \A i \in 1 .. Len(FirstPackets) :
       [type |-> FirstPackets[i].type, size |-> FirstPackets[i].size] \in Packet
<1>1. FirstPackets \in Seq(Requests)
  BY ApplicationAssumption
<1>2. Len(FirstPackets) \in Nat /\ \A i \in 1 .. Len(FirstPackets) : FirstPackets[i] \in Requests
  BY <1>1
<1>3. \A r \in Requests : r.type \in SentType /\ r.size \in Nat
  BY ClientAssumption DEF SentType
<1> QED BY <1>1, <1>2, <1>3 DEF HasSizes, Packet

(* The packets before one of them leave room for it. *)
LEMMA NewestFit ==
  ASSUME FirstPacketsFit, NEW q \in Seq(Packet), NEW k, Newest(q, k),
         k < Len(FirstPackets), NEW p \in Packet, p.size = FirstPackets[k + 1].size
  PROVE  Len(q) - k \in 0 .. Len(q) /\ ~StillFull(q, p, Len(q) - k)
<1>1. PICK l, d, r, L : /\ l = Len(q) /\ d = l - k /\ r = SubSeq(q, d + 1, l)
                        /\ L = Len(FirstPackets)
  OBVIOUS
<1>2. /\ k \in Nat /\ l \in Nat /\ L \in Nat /\ k < L /\ k + 1 \in 1 .. L
      /\ d \in 0 .. l /\ d + k = l
  BY <1>1, FirstSizes DEF Newest, HasSizes
<1>3. r \in Seq(Packet) /\ Len(r) = k /\ \A i \in 1 .. k : r[i] = q[d + i]
  <2>1. l - d = k
    BY <1>2
  <2> QED BY <1>1, <1>2, <2>1, WithoutOldest
<1>4. \A i \in 1 .. k : r[i].size = FirstPackets[i].size
  BY <1>1, <1>3 DEF Newest
<1>5. PICK f : Totals(f, Sizes(FirstPackets), L) /\ Used(FirstPackets) = f[L]
  BY <1>1, FirstSizes, UsedTotals
<1>6. PICK g : Totals(g, Sizes(r), k) /\ Used(r) = g[k]
  BY <1>3, PacketSizes, UsedTotals
<1>7. From(Sizes(r), k, Sizes(FirstPackets), L, 0)
  <2>1. \A i \in 1 .. k : 0 + i = i /\ i \in 1 .. L
    BY <1>2
  <2>2. \A i \in 1 .. k : Sizes(FirstPackets)[0 + i] = Sizes(r)[i]
    BY <1>1, <1>3, <1>4, <2>1 DEF Sizes
  <2>3. 0 \in Nat /\ 0 + k <= L
    BY <1>2
  <2> QED BY <1>2, <2>2, <2>3 DEF From
<1>8. f[0 + k] = f[0] + g[k]
  BY <1>2, <1>5, <1>6, <1>7, TotalsOn, k \in 0 .. k
<1>9. f[k] = Used(r)
  <2>1. f[0] = 0 /\ g[k] \in Nat /\ 0 + k = k
    BY <1>2, <1>5, <1>6 DEF Totals
  <2> QED BY <1>6, <1>8, <2>1
<1>10. f[k + 1] = f[k] + p.size
  <2>1. (k + 1) - 1 = k
    BY <1>2
  <2>2. f[k + 1] = f[k] + Sizes(FirstPackets)[k + 1]
    BY <1>2, <1>5, <2>1 DEF Totals
  <2> QED BY <1>1, <1>2, <2>2 DEF Sizes
<1>11. f[k + 1] <= f[L] /\ f[L] \in Nat /\ f[k + 1] \in Nat
  <2>1. k + 1 \in 0 .. L /\ L \in (k + 1) .. L
    BY <1>2
  <2> QED BY <1>5, <2>1, TotalsGrow
<1>12. f[L] <= QueueSize /\ QueueSize \in Nat
  BY <1>5, ClientAssumption DEF FirstPacketsFit
<1>13. Used(r) + p.size <= QueueSize
  <2>1. f[k + 1] <= QueueSize
    BY <1>11, <1>12
  <2> QED BY <1>9, <1>10, <2>1
<1> QED BY <1>1, <1>2, <1>13 DEF StillFull, Fits

(* The next of them is queued behind them. *)
LEMMA NewestGrow ==
  ASSUME FirstPacketsFit, msgQueue \in Seq(Packet), NEW k, Newest(msgQueue, k),
         k < Len(FirstPackets), NEW p \in Packet, p.size = FirstPackets[k + 1].size,
         p.type = FirstPackets[k + 1].type, EnqueueEvicting(p)
  PROVE  Newest(msgQueue', k + 1)
<1>1. PICK q, l, d, L : q = msgQueue /\ l = Len(q) /\ d = l - k /\ L = Len(FirstPackets)
  OBVIOUS
<1>2. d \in 0 .. l /\ ~StillFull(q, p, d)
  BY <1>1, NewestFit
<1>3. PICK n \in 0 .. d : Evict(q, p) = SubSeq(q, n + 1, l) /\ Fits(Evict(q, p), p)
  BY <1>1, <1>2, EvictKeeps
<1>4. /\ k \in Nat /\ l \in Nat /\ L \in Nat /\ d \in Nat /\ n \in Nat
      /\ k < L /\ d + k = l /\ n <= d /\ n \in 0 .. l /\ k + 1 \in 0 .. L
      /\ \A i \in 1 .. k : /\ q[d + i].type = FirstPackets[i].type
                           /\ q[d + i].size = FirstPackets[i].size
  <2>1. k \in Nat /\ l \in Nat /\ L \in Nat /\ k <= l /\ k < L
    BY <1>1, FirstSizes DEF Newest, HasSizes
  <2>2. d \in Nat /\ d + k = l /\ n \in Nat /\ n <= d /\ n \in 0 .. l /\ k + 1 \in 0 .. L
    <3>1. d = l - k /\ d \in 0 .. l /\ n \in 0 .. d
      BY <1>1, <1>2, <1>3
    <3> QED BY ONLY <2>1, <3>1
  <2>3. \A i \in 1 .. k : /\ q[d + i].type = FirstPackets[i].type
                          /\ q[d + i].size = FirstPackets[i].size
    BY <1>1 DEF Newest
  <2> QED BY <2>1, <2>2, <2>3
<1>5. PICK e, s : e = SubSeq(q, n + 1, l) /\ s = Append(e, p)
  OBVIOUS
<1>6. msgQueue' = s
  BY <1>1, <1>3, <1>5 DEF EnqueueEvicting
<1>7. e \in Seq(Packet) /\ Len(e) = l - n /\ \A i \in 1 .. l - n : e[i] = q[n + i]
  BY <1>1, <1>4, <1>5, WithoutOldest
<1>8. /\ Len(s) = (l - n) + 1 /\ s[(l - n) + 1] = p
      /\ \A i \in 1 .. l - n : s[i] = e[i]
  <2>1. PICK h : h = l - n
    OBVIOUS
  <2>2. h \in Nat /\ Len(e) = h
    BY <1>4, <1>7, <2>1
  <2>3. /\ Len(s) = h + 1 /\ s[h + 1] = p
        /\ \A i \in 1 .. h : s[i] = e[i]
    BY <1>5, <1>7, <2>2, AppendProperties
  <2> QED BY <2>1, <2>3
<1>9. PICK m : m = Len(s)
  OBVIOUS
<1>10. m = (l - n) + 1 /\ k + 1 <= m /\ m \in Nat
  <2>1. m = (l - n) + 1
    BY <1>8, <1>9
  <2> QED BY <1>4, <2>1
<1>11. ASSUME NEW i \in 1 .. k + 1
       PROVE  /\ s[m - (k + 1) + i].type = FirstPackets[i].type
              /\ s[m - (k + 1) + i].size = FirstPackets[i].size
  <2>1. CASE i = k + 1
    <3>1. m - (k + 1) + i = (l - n) + 1
      BY <1>4, <1>10, <2>1
    <3> QED BY <1>8, <2>1, <3>1
  <2>2. CASE i # k + 1
    <3>1. i \in 1 .. k
      <4>1. k \in Nat
        BY <1>4
      <4> QED BY ONLY <2>2, <4>1, i \in 1 .. k + 1
    <3>2. PICK j : j = m - (k + 1) + i
      OBVIOUS
    <3>3. j \in 1 .. l - n /\ n + j = d + i
      <4>1. /\ k \in Nat /\ l \in Nat /\ d \in Nat /\ n \in Nat /\ n <= d
            /\ d + k = l /\ m = (l - n) + 1
        BY <1>4, <1>10
      <4> QED BY ONLY <3>1, <3>2, <4>1
    <3>4. s[j] = q[d + i]
      BY <1>7, <1>8, <3>3
    <3> QED BY <1>4, <3>1, <3>2, <3>4
  <2> QED BY <2>1, <2>2
<1> QED BY <1>1, <1>4, <1>6, <1>9, <1>10, <1>11 DEF Newest

(* mqttConnectedCb runs on a client that is there, and what it has asked   *)
(* for so far is at the new end of the queue.                              *)
Asked ==
  /\ inited => polling
  /\ todo # <<>> => /\ polling
                    /\ \E k \in 0 .. Len(FirstPackets) - 1 :
                         /\ todo = SubSeq(FirstPackets, k + 1, Len(FirstPackets))
                         /\ Newest(msgQueue, k)

(* The rest of a sequence. *)
LEMMA RestOf ==
  ASSUME NEW S, NEW s \in Seq(S), NEW k \in 0 .. Len(s) - 1
  PROVE  LET t == SubSeq(s, k + 1, Len(s))
         IN  /\ t # <<>> /\ Head(t) = s[k + 1]
             /\ Tail(t) = SubSeq(s, (k + 1) + 1, Len(s))
             /\ Tail(t) = <<>> <=> k + 1 = Len(s)
<1>1. PICK t, u, l : t = SubSeq(s, k + 1, l) /\ u = SubSeq(s, (k + 1) + 1, l) /\ l = Len(s)
  OBVIOUS
<1>2. /\ t \in Seq(S) /\ Len(t) = l - k /\ \A i \in 1 .. l - k : t[i] = s[k + i]
      /\ l \in Nat /\ k \in Nat /\ k < l
  BY <1>1
<1>3. /\ u \in Seq(S) /\ Len(u) = l - (k + 1)
      /\ \A i \in 1 .. l - (k + 1) : u[i] = s[(k + 1) + i]
  BY <1>1
<1>4. t # <<>> /\ Head(t) = s[k + 1]
  <2>1. 1 \in 1 .. l - k
    BY <1>2
  <2>2. t # <<>>
    BY <1>2, <2>1, EmptySeq
  <2> QED BY <1>2, <2>1, <2>2
<1>5. Tail(t) = u
  <2>1. /\ Tail(t) \in Seq(S) /\ Len(Tail(t)) = (l - k) - 1
        /\ \A i \in 1 .. (l - k) - 1 : Tail(t)[i] = t[i + 1]
    BY <1>2, <1>4, HeadTailProperties
  <2>2. PICK v : v = Tail(t)
    OBVIOUS
  <2>3. (l - k) - 1 = l - (k + 1)
    BY <1>2
  <2>4. \A i \in 1 .. l - (k + 1) : v[i] = u[i]
    <3> TAKE i \in 1 .. l - (k + 1)
    <3>1. i + 1 \in 1 .. l - k /\ k + (i + 1) = (k + 1) + i
      BY <1>2
    <3> QED BY <1>2, <1>3, <2>1, <2>2, <2>3, <3>1
  <2> QED BY <1>3, <2>1, <2>2, <2>3, <2>4, SeqEqual
<1>6. u = <<>> <=> k + 1 = l
  <2>1. u = <<>> <=> Len(u) = 0
    BY <1>3, EmptySeq
  <2> QED BY <1>2, <1>3, <2>1
<1> QED BY <1>1, <1>4, <1>5, <1>6

(* A call of mqttConnectedCb. *)
LEMMA AsksNext ==
  ASSUME FirstPacketsFit, Asked, StateTypes, mqttConnectedCb
  PROVE  /\ Asked'
         /\ todo' = <<>> => Newest(msgQueue', Len(FirstPackets))
<1>1. /\ todo # <<>> /\ todo' = Tail(todo) /\ polling' = polling /\ polling
      /\ MQTT_Publish(Head(todo)) \/ MQTT_Subscribe(Head(todo))
      /\ msgQueue \in Seq(Packet)
  BY DEF mqttConnectedCb, wifiVars, Asked, StateTypes
<1>2. PICK k \in 0 .. Len(FirstPackets) - 1 :
        /\ todo = SubSeq(FirstPackets, k + 1, Len(FirstPackets))
        /\ Newest(msgQueue, k)
  BY <1>1 DEF Asked
<1>3. PICK L : L = Len(FirstPackets)
  OBVIOUS
<1>4. L \in Nat /\ k \in Nat /\ k < L /\ k + 1 \in 1 .. L
  BY <1>2, <1>3, FirstSizes DEF HasSizes
<1>5. /\ Head(todo) = FirstPackets[k + 1]
      /\ todo' = SubSeq(FirstPackets, (k + 1) + 1, L)
      /\ todo' = <<>> <=> k + 1 = L
  BY <1>1, <1>2, <1>3, FirstSizes, RestOf
<1>6. PICK r : r = Head(todo)
  OBVIOUS
<1>7. r = FirstPackets[k + 1] /\ r.built
  BY <1>3, <1>4, <1>5, <1>6, FirstSizes DEF FirstPacketsFit
<1>8. PICK p : p = [type |-> r.type, size |-> r.size]
  OBVIOUS
<1>9. p \in Packet /\ p.type = r.type /\ p.size = r.size
  BY <1>3, <1>4, <1>7, <1>8, FirstSizes
<1>10. EnqueueEvicting(p)
  BY <1>1, <1>6, <1>7, <1>8 DEF MQTT_Publish, MQTT_Subscribe
<1>11. Newest(msgQueue', k + 1)
  BY <1>1, <1>2, <1>3, <1>4, <1>7, <1>9, <1>10, NewestGrow
<1>12. ASSUME todo' # <<>>
       PROVE  \E j \in 0 .. Len(FirstPackets) - 1 :
                /\ todo' = SubSeq(FirstPackets, j + 1, Len(FirstPackets))
                /\ Newest(msgQueue', j)
  <2>1. k + 1 # L /\ k + 1 \in 0 .. L - 1
    BY <1>4, <1>5, <1>12
  <2> QED BY <1>3, <1>5, <1>11, <2>1
<1>13. Asked'
  BY <1>1, <1>12 DEF Asked, Newest
<1> QED BY <1>3, <1>5, <1>11, <1>13

(* A session begins on a client that is there. *)
LEMMA AcceptsInSession ==
  ASSUME SessionOnLiveLink, mqtt_timer \/ MQTT_Task \/ NetworkStep
  PROVE  /\ inited' => inited
         /\ accepted' /\ ~accepted => inited
<1> USE DEF appVars, netVars, LinkGone, Forgotten
<1>1. CASE mqtt_timer
  BY <1>1 DEF mqtt_timer
<1>2. CASE MQTT_Task
  BY <1>2 DEF MQTT_Task, TaskReconnect, TaskDisconnect, TaskDisconnected, TaskDeleted,
              TaskKeepAlive, TaskData, TaskIdle, Connect
<1>3. ASSUME NEW p, NEW rest, Receive(p, rest)
      PROVE  /\ inited' = inited
             /\ accepted' /\ ~accepted => connState = "MQTT_CONNECT_SENDING"
  BY <1>3 DEF Receive, ReceiveConnack, ReceiveInSession, ReceiveOutsideSession
<1>4. connState = "MQTT_CONNECT_SENDING" => inited
  BY DEF SessionOnLiveLink, Established
<1>5. CASE NetworkStep
  BY <1>3, <1>4, <1>5 DEF NetworkStep, mqtt_tcpclient_recon_cb, mqtt_tcpclient_discon_cb,
              mqtt_tcpclient_connect_cb, mqtt_tcpclient_sent_cb, mqtt_tcpclient_recv,
              mqtt_tcpclient_recv_bad_length, READPACKET
<1> QED BY <1>1, <1>2, <1>5

(* What a step leaves of that, and what the last call has done. *)
LEMMA AskedStep ==
  ASSUME FirstPacketsFit, Asked, IInv, IInv', [SystemNext]_systemVars
  PROVE  /\ Asked'
         /\ todo # <<>> /\ todo' = <<>> => Newest(msgQueue', Len(FirstPackets))
<1> USE DEF appVars, dataVars
<1>0. FirstPackets \in Seq(Requests) /\ StateTypes /\ SessionOnLiveLink
  BY ApplicationAssumption DEF IInv, TypeOK
<1>1. CASE app_init
  <2>1. ~polling /\ polling' /\ todo' = todo
    BY <1>1 DEF app_init, WIFI_Connect
  <2>2. todo = <<>>
    BY <2>1 DEF Asked
  <2> QED BY <2>1, <2>2 DEF Asked
<1>2. CASE wifi_check_ip
  BY <1>2 DEF wifi_check_ip, Asked
<1>3. CASE mqttConnectedCb
  BY <1>0, <1>3, AsksNext
<1>4. CASE StationJoins
  BY <1>4 DEF StationJoins, Asked, Newest, vars
<1>5. CASE ClientStep(NetworkStep) \/ ClientStep(mqtt_timer \/ MQTT_Task)
  <2>1. /\ todo = <<>> /\ polling' = polling
        /\ todo' = IF accepted' /\ ~accepted THEN FirstPackets ELSE <<>>
        /\ mqtt_timer \/ MQTT_Task \/ NetworkStep
    BY <1>5 DEF ClientStep, wifiVars
  <2>2. (inited' => inited) /\ (accepted' /\ ~accepted => inited)
    BY <1>0, <2>1, AcceptsInSession
  <2>3. ASSUME todo' # <<>>
        PROVE  polling' /\ \E k \in 0 .. Len(FirstPackets) - 1 :
                             /\ todo' = SubSeq(FirstPackets, k + 1, Len(FirstPackets))
                             /\ Newest(msgQueue', k)
    <3>1. todo' = FirstPackets /\ polling'
      BY <2>1, <2>2, <2>3 DEF Asked
    <3>2. PICK L : L = Len(FirstPackets)
      OBVIOUS
    <3>3. L \in Nat /\ L # 0
      BY <1>0, <2>3, <3>1, <3>2, EmptySeq
    <3>4. 0 \in 0 .. L - 1 /\ 0 \in 0 .. L
      BY <3>3
    <3>5. SubSeq(FirstPackets, 0 + 1, L) = FirstPackets
      BY <1>0, <3>2
    <3>6. Newest(msgQueue', 0)
      <4>1. msgQueue' \in Seq(Packet)
        BY DEF IInv, TypeOK, StateTypes
      <4>2. 0 <= Len(msgQueue')
        BY <4>1
      <4> QED BY <3>2, <3>4, <4>2 DEF Newest
    <3> QED BY <3>1, <3>2, <3>4, <3>5, <3>6
  <2> QED BY <2>1, <2>2, <2>3 DEF Asked, Newest
<1>6. CASE UNCHANGED systemVars
  BY <1>6 DEF systemVars, wifiVars, vars, Asked, Newest
<1> QED BY <1>1, <1>2, <1>3, <1>4, <1>5, <1>6 DEF SystemNext

(* mqttConnectedCb leaves its packets at the end of the queue, in their    *)
(* order and whole, whatever an earlier session left in it: if they fit    *)
(* the buffer together, MQTT_Publish evicts none of them for another.      *)
THEOREM FirstPacketsTogether ==
  ASSUME FirstPacketsFit PROVE SystemSpec => FirstPacketsQueued
<1> DEFINE Body == todo # <<>> /\ todo' = <<>> =>
             /\ Len(msgQueue') >= Len(FirstPackets)
             /\ \A i \in DOMAIN FirstPackets :
                  msgQueue'[Len(msgQueue') - Len(FirstPackets) + i].type = FirstPackets[i].type
<1>1. SystemInit => Asked
  BY DEF SystemInit, Init, Asked
<1>2. Asked /\ IInv /\ IInv' /\ [SystemNext]_systemVars => Asked'
  BY AskedStep
<1>3. ASSUME Asked, IInv, IInv', [SystemNext]_systemVars PROVE [Body]_systemVars
  <2>1. todo # <<>> /\ todo' = <<>> => Newest(msgQueue', Len(FirstPackets))
    BY <1>3, AskedStep
  <2>2. DOMAIN FirstPackets = 1 .. Len(FirstPackets)
    BY ApplicationAssumption
  <2>3. Newest(msgQueue', Len(FirstPackets)) =>
          /\ Len(msgQueue') >= Len(FirstPackets)
          /\ \A i \in DOMAIN FirstPackets :
               msgQueue'[Len(msgQueue') - Len(FirstPackets) + i].type = FirstPackets[i].type
    BY <2>2 DEF Newest
  <2> QED BY <2>1, <2>3
<1>4. SystemSpec => []IInv
  BY UsesClient, Invariance, PTL
<1> QED BY <1>1, <1>2, <1>3, <1>4, PTL DEF SystemSpec, FirstPacketsQueued

=============================================================================
