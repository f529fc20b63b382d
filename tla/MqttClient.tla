----------------------------- MODULE MqttClient -----------------------------
(***************************************************************************)
(* One MQTT client of mqtt.c: the connection state machine, the timer that *)
(* reconnects and keeps alive, the outbound queue and the task that drains *)
(* it.                                                                     *)
(*                                                                         *)
(* The program runs on the cooperative scheduler of the ESP8266 SDK: the   *)
(* network stack's callbacks, the software timer, MQTT_Task and the        *)
(* application each run to completion, in any order.  A handler that wants *)
(* work done posts an event to MQTT_Task's queue of TASK_QUEUE_SIZE events *)
(* and nobody looks at the result of system_os_post, so a request is only  *)
(* a value in connState until MQTT_Task gets to run.                       *)
(*                                                                         *)
(* The message queue is PacketFifo's sequence of packets (module Queue is  *)
(* its bytes).  Packet identifiers are left out: they only decide what is  *)
(* logged.  The SSL variants of the espconn calls have the same shape.     *)
(***************************************************************************)
EXTENDS Integers, Sequences, FiniteSets, SequencesExt

CONSTANTS
  Conns,                    \* addresses a struct espconn may be allocated at
  NULL,                     \* the null pointer
  HostIsIP,                 \* TRUE: the host is a dotted quad; FALSE: a name
  KEEPALIVE,                \* connect_info.keepalive, in ticks of the timer
  MQTT_RECONNECT_TIMEOUT,
  MQTT_SEND_TIMOUT,
  TASK_QUEUE_SIZE,          \* MQTT_TASK_QUEUE_SIZE, 1 in mqtt.c
  QueueSize,                \* room in msgQueue, in units of packet size
  Requests,                 \* packets the application asks to send
  Segments,                 \* what one receive callback may deliver
  Calls,                    \* the lifecycle functions the application uses
  MaxInflight,              \* sends espconn accepts before a sent callback
  MaxDns,                   \* lookups the SDK keeps pending for one espconn
  ConnectMayBeEmpty,        \* mqtt_msg_connect may fail (result not looked at)
  ConnectMayFail,           \* so may espconn_connect and espconn_gethostbyname
  SendMayFail               \* espconn_send may refuse below MaxInflight

(* A request is a packet to build: its type, the room its frame takes and  *)
(* whether it fits the output buffer.  A segment is the sequence of packets*)
(* the broker put in it; the empty one stands for a length the receive     *)
(* callback refuses.  arg is a PUBLISH's QoS or a CONNACK's return code.   *)
RequestType == {"PUBLISH", "SUBSCRIBE", "UNSUBSCRIBE", "PINGREQ"}
ReplyType == {"PUBACK", "PUBREC", "PUBREL", "PUBCOMP", "PINGRESP"}
SentType == RequestType \cup ReplyType \cup {"CONNECT", "NONE"}
Packet == [type : SentType, size : Nat]
Received == [type : STRING, arg : Nat]

ASSUME ClientAssumption ==
  /\ NULL \notin Conns
  /\ HostIsIP \in BOOLEAN /\ ConnectMayBeEmpty \in BOOLEAN
  /\ ConnectMayFail \in BOOLEAN /\ SendMayFail \in BOOLEAN
  /\ KEEPALIVE \in Nat /\ MQTT_RECONNECT_TIMEOUT \in Nat /\ MQTT_SEND_TIMOUT \in Nat
  /\ TASK_QUEUE_SIZE \in Nat \ {0}
  /\ QueueSize \in Nat /\ MaxInflight \in Nat /\ MaxDns \in Nat
  /\ \A r \in Requests : /\ r.type \in RequestType
                         /\ r.size \in Nat \ {0}
                         /\ r.built \in BOOLEAN
  /\ \A s \in Segments : s \in Seq(Received)

VARIABLES
  connState,        \* tConnState
  pCon,             \* the espconn the client owns, or NULL
  link,             \* SDK: what the espconn's connection is doing
  greeted,          \* history: this connection's CONNECT went to espconn
  accepted,         \* history: this connection saw an accepting CONNACK
  dns,              \* SDK: lookups not answered yet, per espconn address
  armed,            \* mqttTimer is armed
  keepAliveTick,
  reconnectTick,
  sendTimeout,
  events,           \* posts waiting for MQTT_Task
  msgQueue,         \* the packets queued, oldest first
  pending_msg_type, \* type of the packet last sent
  outbound,         \* outbound_message # NULL
  inflight,         \* SDK: types sent and not yet confirmed, oldest first
  rx,               \* the rest of a segment while mqtt_tcpclient_recv loops
  inited,           \* the client's memory is allocated
  asked,            \* history: what the application last asked for
  fault             \* a use of freed memory that ends the run, or "none"

netVars == <<link, greeted, accepted, inflight>>
timeVars == <<armed, keepAliveTick, reconnectTick, sendTimeout>>
dataVars == <<msgQueue, pending_msg_type, outbound>>
appVars == <<inited, asked>>
vars == <<connState, pCon, netVars, dns, timeVars, events, dataVars, rx,
          appVars, fault>>

ConnState ==
  {"WIFI_INIT", "TCP_DISCONNECTING", "TCP_DISCONNECTED",
   "TCP_RECONNECT_DISCONNECTING", "TCP_RECONNECT_REQ", "TCP_RECONNECT",
   "TCP_CONNECTING", "MQTT_CONNECT_SENDING", "MQTT_DATA",
   "MQTT_KEEPALIVE_SEND", "MQTT_DELETING", "MQTT_DELETED"}

FlagTypes ==
  /\ greeted \in BOOLEAN /\ accepted \in BOOLEAN /\ armed \in BOOLEAN
  /\ outbound \in BOOLEAN /\ inited \in BOOLEAN

StateTypes ==
  /\ connState \in ConnState
  /\ pCon \in Conns \cup {NULL}
  /\ link \in {"none", "connecting", "up", "closing"}
  /\ dns \in [Conns -> 0 .. MaxDns]
  /\ keepAliveTick \in Nat /\ reconnectTick \in 0 .. MQTT_RECONNECT_TIMEOUT
  /\ sendTimeout \in 0 .. MQTT_SEND_TIMOUT
  /\ events \in 0 .. TASK_QUEUE_SIZE
  /\ msgQueue \in Seq(Packet)
  /\ pending_msg_type \in SentType
  /\ inflight \in Seq(SentType)
  /\ rx \in Seq(Received)
  /\ asked \in {"none", "up", "down", "delete"}
  /\ fault \in {"none", "useAfterFree", "badFree"}

TypeOK == FlagTypes /\ StateTypes

Init ==
  /\ connState = "WIFI_INIT"
  /\ pCon = NULL
  /\ link = "none" /\ greeted = FALSE /\ accepted = FALSE /\ inflight = <<>>
  /\ dns = [c \in Conns |-> 0]
  /\ armed = FALSE
  /\ keepAliveTick = 0 /\ reconnectTick = 0 /\ sendTimeout = 0
  /\ events = 0
  /\ msgQueue = <<>> /\ pending_msg_type = "NONE" /\ outbound = FALSE
  /\ rx = <<>>
  /\ inited = FALSE /\ asked = "none"
  /\ fault = "none"

-----------------------------------------------------------------------------
(* The SDK, as mqtt.c uses it *)

(* The number of events after a post to a queue that holds n. *)
Posted(n) == IF n < TASK_QUEUE_SIZE THEN n + 1 ELSE n

Post == events' = Posted(events)

(* No handler is running: the scheduler may start one. *)
Idle == fault = "none" /\ rx = <<>>

Established == link \in {"up", "closing"}

(* espconn_connect on the client's espconn. *)
espconn_connect ==
  IF link = "none"
    THEN link' \in {"connecting"} \cup IF ConnectMayFail THEN {"none"} ELSE {}
    ELSE link' = link

(* espconn_gethostbyname for the espconn at c.  No lookup is started by a  *)
(* call that is refused, or that finds the name in the resolver's cache.   *)
espconn_gethostbyname(c) ==
  \/ dns[c] < MaxDns /\ dns' = [dns EXCEPT ![c] = @ + 1]
  \/ (ConnectMayFail \/ dns[c] >= MaxDns) /\ UNCHANGED dns

(* espconn_disconnect starts to close a connection; whether it stops one   *)
(* that is still being opened is up to the SDK.                            *)
espconn_disconnect ==
  CASE link = "up" -> link' = "closing"
    [] link = "connecting" -> link' \in {"connecting", "closing", "none"}
    [] OTHER -> link' = link

(* espconn_send: the types in flight after it, by result. *)
SendAccepted(t) ==
  link = "up" /\ Len(inflight) < MaxInflight /\ inflight' = Append(inflight, t)

SendRefused ==
  /\ SendMayFail \/ link # "up" \/ Len(inflight) >= MaxInflight
  /\ inflight' = inflight

espconn_send(t) == SendAccepted(t) \/ SendRefused

(* A connection is gone, with what was in flight on it. *)
Forgotten == greeted' = FALSE /\ accepted' = FALSE /\ inflight' = <<>>

LinkGone == link' = "none" /\ Forgotten

-----------------------------------------------------------------------------
(* The message queue, and the application's calls *)

Used(q) ==
  LET used[n \in 0 .. Len(q)] == IF n = 0 THEN 0 ELSE used[n - 1] + q[n].size
  IN  used[Len(q)]

Fits(q, p) == Used(q) + p.size <= QueueSize

(* Dropping the n oldest packets does not make room for p. *)
StillFull(q, p, n) == ~Fits(SubSeq(q, n + 1, Len(q)), p)

(* Mutant: makes room at the wrong end. *)
EvictNewest(q, p) == IF Fits(q, p) \/ q = <<>> THEN q ELSE Front(q)

(* The packets left when the oldest are dropped until p fits: none if even *)
(* the empty queue has no room for it.                                     *)
Evict(q, p) ==
  LET n == Cardinality({m \in 0 .. Len(q) : StillFull(q, p, m)})
  IN  SubSeq(q, n + 1, Len(q))

(* The loop of MQTT_Publish and its like: TRUE and a post if p was queued. *)
EnqueueEvicting(p) ==
  LET q == Evict(msgQueue, p)
  IN  IF Fits(q, p) THEN msgQueue' = Append(q, p) /\ Post
                    ELSE msgQueue' = q /\ UNCHANGED events

AppMayCall == fault = "none" /\ inited /\ asked # "delete"

(* MQTT_Publish and MQTT_Ping give up on a packet that was not built. *)
MQTT_Publish(r) ==
  /\ AppMayCall
  /\ r.type \in {"PUBLISH", "PINGREQ"}
  /\ outbound' = TRUE
  /\ IF r.built THEN EnqueueEvicting([type |-> r.type, size |-> r.size])
                ELSE UNCHANGED <<msgQueue, events>>
  /\ UNCHANGED <<connState, pCon, netVars, dns, timeVars, pending_msg_type, rx,
                 appVars, fault>>

(* MQTT_Subscribe and MQTT_UnSubscribe queue what they got: an empty frame *)
(* if the packet was not built.                                            *)
MQTT_Subscribe(r) ==
  /\ AppMayCall
  /\ r.type \in {"SUBSCRIBE", "UNSUBSCRIBE"}
  /\ outbound' = TRUE
  /\ EnqueueEvicting(IF r.built THEN [type |-> r.type, size |-> r.size]
                                ELSE [type |-> "NONE", size |-> 1])
  /\ UNCHANGED <<connState, pCon, netVars, dns, timeVars, pending_msg_type, rx,
                 appVars, fault>>

(* MQTT_InitConnection and MQTT_InitClient on a client with no memory. *)
MQTT_Init ==
  /\ Idle /\ ~inited
  /\ inited' = TRUE /\ asked' = "none"
  /\ connState' = "WIFI_INIT"
  /\ pCon' = NULL
  /\ keepAliveTick' = 0 /\ reconnectTick' = 0 /\ sendTimeout' = 0
  /\ msgQueue' = <<>> /\ pending_msg_type' = "NONE" /\ outbound' = FALSE
  /\ Post
  /\ UNCHANGED <<netVars, dns, armed, rx, fault>>

(* The body of MQTT_Connect, mqtt_tcpclient_delete of the old connection   *)
(* included: lookups of the old espconn stay pending.                      *)
Connect ==
  /\ pCon' \in Conns
  /\ Forgotten
  /\ keepAliveTick' = 0 /\ reconnectTick' = 0
  /\ armed' = TRUE
  /\ IF HostIsIP
       THEN /\ link' \in {"connecting"} \cup IF ConnectMayFail THEN {"none"} ELSE {}
            /\ UNCHANGED dns
       ELSE link' = "none" /\ espconn_gethostbyname(pCon')
  /\ connState' = "TCP_CONNECTING"

MQTT_Connect ==
  /\ AppMayCall /\ rx = <<>>
  /\ Connect
  /\ asked' = "up"
  /\ UNCHANGED <<sendTimeout, events, dataVars, rx, inited, fault>>

(* Mutant: the timer is left armed. *)
DisconnectLeavesTimer ==
  /\ AppMayCall
  /\ connState' = "TCP_DISCONNECTING"
  /\ Post
  /\ asked' = "down"
  /\ UNCHANGED <<pCon, netVars, dns, timeVars, dataVars, rx, inited, fault>>

MQTT_Disconnect ==
  /\ AppMayCall
  /\ connState' = "TCP_DISCONNECTING"
  /\ Post
  /\ armed' = FALSE
  /\ asked' = "down"
  /\ UNCHANGED <<pCon, netVars, dns, keepAliveTick, reconnectTick, sendTimeout,
                 dataVars, rx, inited, fault>>

(* The application makes no call on a client it has deleted. *)
MQTT_DeleteClient ==
  /\ AppMayCall
  /\ connState' = "MQTT_DELETED"
  /\ Post
  /\ armed' = FALSE
  /\ asked' = "delete"
  /\ UNCHANGED <<pCon, netVars, dns, keepAliveTick, reconnectTick, sendTimeout,
                 dataVars, rx, inited, fault>>

-----------------------------------------------------------------------------
(* Callbacks of the network stack *)

(* The lookup started for the espconn at c ends.  The callback reads the   *)
(* client's address out of that espconn, whoever has freed it since.       *)
(* "addr0" is an answer with address 0, or one that finds client->ip set.  *)
mqtt_dns_found(c, answer) ==
  /\ Idle /\ dns[c] > 0
  /\ dns' = [dns EXCEPT ![c] = @ - 1]
  /\ IF pCon # c
       THEN /\ fault' = "useAfterFree"
            /\ UNCHANGED <<connState, link, events>>
       ELSE /\ \/ /\ answer = "null"
                  /\ connState' = "TCP_RECONNECT_REQ"
                  /\ UNCHANGED <<link, events>>
               \/ /\ answer = "addr0"
                  /\ Post
                  /\ UNCHANGED <<connState, link>>
               \/ /\ answer = "addr"
                  /\ espconn_connect
                  /\ connState' = "TCP_CONNECTING"
                  /\ Post
            /\ UNCHANGED fault
  /\ UNCHANGED <<pCon, greeted, accepted, inflight, timeVars, dataVars, rx,
                 appVars>>

(* The types the first byte of out_buffer may have: only a packet of more  *)
(* than 127 bytes begins there, and it starts out as 0.                    *)
LongType == {"NONE", "CONNECT", "PUBLISH", "SUBSCRIBE", "UNSUBSCRIBE"}

(* The connection is open: build and send CONNECT.  One that does not fit  *)
(* is sent as no bytes, and its type read from a byte that is not its own. *)
mqtt_tcpclient_connect_cb ==
  /\ Idle /\ link = "connecting"
  /\ link' = "up"
  /\ accepted' = FALSE
  /\ \/ pending_msg_type' = "CONNECT" /\ greeted' = TRUE /\ inflight' = <<"CONNECT">>
     \/ /\ SendMayFail
        /\ pending_msg_type' = "CONNECT" /\ greeted' = FALSE /\ inflight' = <<>>
     \/ /\ ConnectMayBeEmpty
        /\ pending_msg_type' \in LongType /\ greeted' = FALSE /\ inflight' = <<>>
  /\ sendTimeout' = MQTT_SEND_TIMOUT
  /\ outbound' = FALSE
  /\ connState' = "MQTT_CONNECT_SENDING"
  /\ Post
  /\ UNCHANGED <<pCon, dns, armed, keepAliveTick, reconnectTick, msgQueue, rx,
                 appVars, fault>>

(* Mutant: connState is left as it was. *)
ReconKeepsState ==
  /\ Idle /\ link # "none"
  /\ LinkGone
  /\ Post
  /\ UNCHANGED <<connState, pCon, dns, timeVars, dataVars, rx, appVars, fault>>

(* The stack reports an error and the connection is gone. *)
mqtt_tcpclient_recon_cb ==
  /\ Idle /\ link # "none"
  /\ LinkGone
  /\ connState' = "TCP_RECONNECT_REQ"
  /\ Post
  /\ UNCHANGED <<pCon, dns, timeVars, dataVars, rx, appVars, fault>>

(* The connection was closed, by either side. *)
mqtt_tcpclient_discon_cb ==
  /\ Idle /\ Established
  /\ LinkGone
  /\ connState' = CASE connState = "TCP_DISCONNECTING" -> "TCP_DISCONNECTED"
                    [] connState = "MQTT_DELETING" -> "MQTT_DELETED"
                    [] OTHER -> "TCP_RECONNECT_REQ"
  /\ Post
  /\ UNCHANGED <<pCon, dns, timeVars, dataVars, rx, appVars, fault>>

(* Mutant: MQTT_Task is not told. *)
SentWithoutPost ==
  /\ Idle /\ Established /\ inflight # <<>>
  /\ inflight' = Tail(inflight)
  /\ sendTimeout' = 0 /\ keepAliveTick' = 0
  /\ UNCHANGED <<connState, pCon, link, greeted, accepted, dns, armed, reconnectTick,
                 events, dataVars, rx, appVars, fault>>

(* The oldest send is confirmed.  publishedCb is called in a session whose *)
(* last packet was a PUBLISH.                                              *)
mqtt_tcpclient_sent_cb ==
  /\ Idle /\ Established /\ inflight # <<>>
  /\ inflight' = Tail(inflight)
  /\ sendTimeout' = 0 /\ keepAliveTick' = 0
  /\ Post
  /\ UNCHANGED <<connState, pCon, link, greeted, accepted, dns, armed, reconnectTick,
                 dataVars, rx, appVars, fault>>

(* What the receive callback answers to a packet: a type, or "NONE". *)
Reply(p) ==
  CASE p.type = "PUBLISH" /\ p.arg = 1 -> "PUBACK"
    [] p.type = "PUBLISH" /\ p.arg = 2 -> "PUBREC"
    [] p.type = "PUBREC" -> "PUBREL"
    [] p.type = "PUBREL" -> "PUBCOMP"
    [] p.type = "PINGREQ" -> "PINGRESP"
    [] OTHER -> "NONE"

(* The loop of mqtt_tcpclient_recv goes on with rest or returns. *)
ReceiveRest(rest) ==
  rx' = rest /\ IF rest = <<>> THEN Post ELSE UNCHANGED events

(* CONNACK while it is waited for.  Whatever follows it in the segment is  *)
(* not looked at, and neither is a packet of another type.                 *)
ReceiveConnack(p) ==
  /\ connState = "MQTT_CONNECT_SENDING"
  /\ IF p.type # "CONNACK"
       THEN UNCHANGED <<connState, link, accepted>>
       ELSE IF pending_msg_type = "CONNECT" /\ p.arg = 0
         THEN connState' = "MQTT_DATA" /\ accepted' = TRUE /\ UNCHANGED link
         ELSE espconn_disconnect /\ UNCHANGED <<connState, accepted>>
  /\ ReceiveRest(<<>>)
  /\ UNCHANGED <<msgQueue, outbound>>

(* A packet of an open session.  Only a PUBLISH has the rest of its segment*)
(* looked at; an answer the queue has no room for is dropped.              *)
ReceiveInSession(p, rest) ==
  /\ connState \in {"MQTT_DATA", "MQTT_KEEPALIVE_SEND"}
  /\ LET r == [type |-> Reply(p), size |-> 1]
     IN  IF Reply(p) = "NONE"
           THEN UNCHANGED <<msgQueue, outbound>>
           ELSE /\ outbound' = TRUE
                /\ msgQueue' = IF Fits(msgQueue, r) THEN Append(msgQueue, r)
                                                    ELSE msgQueue
  /\ ReceiveRest(IF p.type = "PUBLISH" THEN rest ELSE <<>>)
  /\ UNCHANGED <<connState, link, accepted>>

(* In any other state the segment is dropped. *)
ReceiveOutsideSession ==
  /\ connState \notin {"MQTT_CONNECT_SENDING", "MQTT_DATA", "MQTT_KEEPALIVE_SEND"}
  /\ ReceiveRest(<<>>)
  /\ UNCHANGED <<connState, link, accepted, msgQueue, outbound>>

Receive(p, rest) ==
  /\ ReceiveConnack(p) \/ ReceiveInSession(p, rest) \/ ReceiveOutsideSession
  /\ UNCHANGED <<pCon, greeted, inflight, dns, timeVars, pending_msg_type, appVars,
                 fault>>

(* A segment arrives and its first packet is handled. *)
mqtt_tcpclient_recv(s) ==
  /\ Idle /\ Established
  /\ s # <<>>
  /\ Receive(Head(s), Tail(s))

(* A segment of no bytes, or of MQTT_BUF_SIZE or more, only posts. *)
mqtt_tcpclient_recv_bad_length(s) ==
  /\ Idle /\ Established
  /\ s = <<>>
  /\ Post
  /\ UNCHANGED <<connState, pCon, netVars, dns, timeVars, dataVars, rx, appVars,
                 fault>>

(* READPACKET: the loop takes the next packet of the segment.  Between two *)
(* packets dataCb may have called the client.                              *)
READPACKET ==
  /\ fault = "none" /\ rx # <<>>
  /\ Receive(Head(rx), Tail(rx))

-----------------------------------------------------------------------------
(* The timer, once a second *)

(* Mutant: TCP_RECONNECT without a post. *)
TimerWithoutPost ==
  /\ Idle /\ armed /\ connState = "TCP_RECONNECT_REQ"
  /\ connState' = "TCP_RECONNECT"
  /\ UNCHANGED <<pCon, netVars, dns, timeVars, events, dataVars, rx, appVars,
                 fault>>

(* Mutant: sendTimeout goes below zero. *)
TimerUnderflow ==
  /\ Idle /\ armed
  /\ sendTimeout' = sendTimeout - 1
  /\ UNCHANGED <<connState, pCon, netVars, dns, armed, keepAliveTick,
                 reconnectTick, events, dataVars, rx, appVars, fault>>

mqtt_timer ==
  /\ Idle /\ armed
  /\ \/ /\ connState = "MQTT_DATA"
        /\ keepAliveTick' = keepAliveTick + 1
        /\ IF keepAliveTick' > KEEPALIVE \div 2
             THEN connState' = "MQTT_KEEPALIVE_SEND" /\ Post
             ELSE UNCHANGED <<connState, events>>
        /\ UNCHANGED reconnectTick
     \/ /\ connState = "TCP_RECONNECT_REQ"
        /\ IF reconnectTick + 1 > MQTT_RECONNECT_TIMEOUT
             THEN reconnectTick' = 0 /\ connState' = "TCP_RECONNECT" /\ Post
             ELSE reconnectTick' = reconnectTick + 1 /\ UNCHANGED <<connState, events>>
        /\ UNCHANGED keepAliveTick
     \/ /\ connState \notin {"MQTT_DATA", "TCP_RECONNECT_REQ"}
        /\ UNCHANGED <<connState, events, keepAliveTick, reconnectTick>>
  /\ sendTimeout' = IF sendTimeout > 0 THEN sendTimeout - 1 ELSE sendTimeout
  /\ UNCHANGED <<pCon, netVars, dns, armed, dataVars, rx, appVars, fault>>

-----------------------------------------------------------------------------
(* MQTT_Task: one event taken, one action by connState *)

TakeEvent == Idle /\ events > 0

TaskReconnect ==
  /\ TakeEvent /\ connState = "TCP_RECONNECT"
  /\ events' = events - 1
  /\ Connect
  /\ UNCHANGED <<sendTimeout, dataVars, rx, appVars, fault>>

TaskDisconnect ==
  /\ TakeEvent
  /\ connState \in {"MQTT_DELETING", "TCP_DISCONNECTING", "TCP_RECONNECT_DISCONNECTING"}
  /\ events' = events - 1
  /\ espconn_disconnect
  /\ IF link' = "none" THEN Forgotten ELSE UNCHANGED <<greeted, accepted, inflight>>
  /\ UNCHANGED <<connState, pCon, dns, timeVars, dataVars, rx, appVars, fault>>

TaskDisconnected ==
  /\ TakeEvent /\ connState = "TCP_DISCONNECTED"
  /\ events' = events - 1
  /\ pCon' = NULL
  /\ LinkGone
  /\ UNCHANGED <<connState, dns, timeVars, dataVars, rx, appVars, fault>>

(* mqtt_client_delete frees out_buffer and then outbound_message->data,    *)
(* which points into it.                                                   *)
TaskDeleted ==
  /\ TakeEvent /\ connState = "MQTT_DELETED"
  /\ events' = events - 1
  /\ pCon' = NULL
  /\ LinkGone
  /\ connState' = "WIFI_INIT"
  /\ msgQueue' = <<>>
  /\ inited' = FALSE /\ asked' = "none"
  /\ fault' = IF outbound THEN "badFree" ELSE fault
  /\ UNCHANGED <<dns, timeVars, pending_msg_type, outbound, rx>>

(* Mutant: a refused ping does not post. *)
KeepAliveWithoutPost ==
  /\ TakeEvent /\ connState = "MQTT_KEEPALIVE_SEND"
  /\ events' = events - 1
  /\ pending_msg_type' = "PINGREQ"
  /\ sendTimeout' = MQTT_SEND_TIMOUT
  /\ outbound' = FALSE
  /\ SendRefused
  /\ connState' = "TCP_RECONNECT_DISCONNECTING"
  /\ UNCHANGED <<pCon, link, greeted, accepted, dns, armed, keepAliveTick, reconnectTick,
                 msgQueue, rx, appVars, fault>>

(* mqtt_send_keepalive *)
TaskKeepAlive ==
  /\ TakeEvent /\ connState = "MQTT_KEEPALIVE_SEND"
  /\ events' = Posted(events - 1)
  /\ pending_msg_type' = "PINGREQ"
  /\ sendTimeout' = MQTT_SEND_TIMOUT
  /\ outbound' = FALSE
  /\ \/ /\ SendAccepted("PINGREQ")
        /\ keepAliveTick' = 0
        /\ connState' = "MQTT_DATA"
     \/ /\ SendRefused
        /\ connState' = "TCP_RECONNECT_DISCONNECTING"
        /\ UNCHANGED keepAliveTick
  /\ UNCHANGED <<pCon, link, greeted, accepted, dns, armed, reconnectTick, msgQueue, rx,
                 appVars, fault>>

(* Mutant: sending does not put the keep-alive off. *)
DataKeepsTick ==
  /\ TakeEvent /\ connState = "MQTT_DATA"
  /\ msgQueue # <<>> /\ sendTimeout = 0
  /\ events' = events - 1
  /\ msgQueue' = Tail(msgQueue)
  /\ pending_msg_type' = Head(msgQueue).type
  /\ espconn_send(Head(msgQueue).type)
  /\ sendTimeout' = MQTT_SEND_TIMOUT
  /\ outbound' = FALSE
  /\ UNCHANGED <<connState, pCon, link, greeted, accepted, dns, armed, keepAliveTick,
                 reconnectTick, rx, appVars, fault>>

(* Send the oldest packet.  The type of an empty frame is read from an     *)
(* uninitialised buffer, and espconn_send is given no bytes.               *)
TaskData ==
  /\ TakeEvent /\ connState = "MQTT_DATA"
  /\ msgQueue # <<>> /\ sendTimeout = 0
  /\ events' = events - 1
  /\ msgQueue' = Tail(msgQueue)
  /\ LET t == Head(msgQueue).type
     IN  IF t = "NONE" THEN pending_msg_type' \in SentType /\ UNCHANGED inflight
                       ELSE pending_msg_type' = t /\ espconn_send(t)
  /\ sendTimeout' = MQTT_SEND_TIMOUT
  /\ keepAliveTick' = 0
  /\ outbound' = FALSE
  /\ UNCHANGED <<connState, pCon, link, greeted, accepted, dns, armed, reconnectTick, rx,
                 appVars, fault>>

(* Nothing to do, or nothing that can be done yet. *)
TaskIdle ==
  /\ TakeEvent
  /\ \/ connState \in {"WIFI_INIT", "TCP_RECONNECT_REQ", "TCP_CONNECTING",
                       "MQTT_CONNECT_SENDING"}
     \/ connState = "MQTT_DATA" /\ (msgQueue = <<>> \/ sendTimeout # 0)
  /\ events' = events - 1
  /\ UNCHANGED <<connState, pCon, netVars, dns, timeVars, dataVars, rx, appVars,
                 fault>>

MQTT_Task ==
  \/ TaskReconnect \/ TaskDisconnect \/ TaskDisconnected \/ TaskDeleted
  \/ TaskKeepAlive \/ TaskData \/ TaskIdle

-----------------------------------------------------------------------------

App ==
  \/ MQTT_Init
  \/ "MQTT_Connect" \in Calls /\ MQTT_Connect
  \/ "MQTT_Disconnect" \in Calls /\ MQTT_Disconnect
  \/ "MQTT_DeleteClient" \in Calls /\ MQTT_DeleteClient
  \/ \E r \in Requests : MQTT_Publish(r) \/ MQTT_Subscribe(r)

Network ==
  \/ \E c \in Conns, answer \in {"null", "addr0", "addr"} : mqtt_dns_found(c, answer)
  \/ mqtt_tcpclient_connect_cb
  \/ mqtt_tcpclient_recon_cb
  \/ mqtt_tcpclient_discon_cb
  \/ mqtt_tcpclient_sent_cb
  \/ \E s \in Segments : mqtt_tcpclient_recv(s) \/ mqtt_tcpclient_recv_bad_length(s)
  \/ READPACKET

Next == App \/ Network \/ mqtt_timer \/ MQTT_Task

Spec == Init /\ [][Next]_vars

-----------------------------------------------------------------------------
(* Safety *)

InSession == connState \in {"MQTT_DATA", "MQTT_KEEPALIVE_SEND"}

(* A session is used only on a live connection whose broker accepted it,   *)
(* and CONNACK is waited for only on a live connection, with CONNECT as the*)
(* packet sent last if it went out at all: the "Invalid packet" branch of  *)
(* mqtt_tcpclient_recv is taken only where no CONNECT could be built.      *)
SessionOnLiveLink ==
  /\ InSession => Established /\ accepted
  /\ connState = "MQTT_CONNECT_SENDING" =>
       Established /\ ~accepted /\ (greeted => pending_msg_type = "CONNECT")
  /\ link # "none" => pCon # NULL /\ inited

(* connState never asks for something that nobody will do: a state that    *)
(* MQTT_Task has to act on has an event waiting (or the callback that will *)
(* post one still to come), and a state that the timer has to act on has   *)
(* the timer armed, unless the application asked for no connection.        *)
NoLostWakeup ==
  /\ connState \in {"TCP_RECONNECT", "MQTT_KEEPALIVE_SEND", "MQTT_DELETED"} => events > 0
  /\ connState = "TCP_RECONNECT_DISCONNECTING" => events > 0 \/ link = "closing"
  /\ connState = "TCP_DISCONNECTING" /\ link = "up" => events > 0
  /\ connState = "TCP_DISCONNECTED" => events > 0 \/ pCon = NULL
  /\ connState \in {"TCP_RECONNECT_REQ", "MQTT_DATA"} /\ asked = "up" => armed

(* With a host given as an address, and a send timeout of at most half the *)
(* keep-alive time and a second (the timer acts on the tick after that     *)
(* half), a keep-alive ping is sent only when no earlier send is still     *)
(* being waited for.                                                       *)
KeepAliveNotOverlapping == connState = "MQTT_KEEPALIVE_SEND" => sendTimeout = 0

(* With a host given as an address, a new TCP connection is opened only for*)
(* an application whose last call was MQTT_Connect: MQTT_Disconnect and    *)
(* MQTT_DeleteClient stop the reconnect timer for good, whatever the       *)
(* callbacks do to connState.                                              *)
NoUnaskedConnect ==
  [][link = "none" /\ link' = "connecting" => asked' = "up"]_vars

(* r is q without some of its oldest packets and with at most one new one. *)
KeepsOrder(q, r) ==
  \E n \in 0 .. Len(q) :
    LET kept == SubSeq(q, n + 1, Len(q))
    IN  r = kept \/ (r # <<>> /\ Front(r) = kept)

(* Every packet leaves the queue from the old end and enters it at the new *)
(* end, at most one a step, also when old packets are dropped for it.      *)
QueueOrderKept ==
  [][inited /\ inited' => KeepsOrder(msgQueue, msgQueue')]_vars

-----------------------------------------------------------------------------
(* Fairness and liveness *)

(* MQTT_Task and the timer are run by the SDK for ever, and a receive      *)
(* callback is a loop that goes on.  A task runs within milliseconds of its*)
(* event and the timer once a second, so the timer does not win every race *)
(* for a session that has a packet to send.                                *)
SchedulerFairness ==
  /\ WF_vars(MQTT_Task) /\ SF_vars(TaskData)
  /\ WF_vars(mqtt_timer)
  /\ WF_vars(READPACKET)

(* The stack reports the end of what it was asked to do: a send on a live  *)
(* connection, a close, an attempt to connect.  It owes no report on a     *)
(* connection that is open and idle.  A confirmation does not fall for ever*)
(* in the moment between the timer's request for a keep-alive and          *)
(* MQTT_Task, a few milliseconds in each half keep-alive time.             *)
StackFairness ==
  /\ WF_vars(mqtt_tcpclient_sent_cb)
  /\ SF_vars(connState = "MQTT_DATA" /\ mqtt_tcpclient_sent_cb)
  /\ WF_vars(link = "closing" /\ mqtt_tcpclient_discon_cb)
  /\ WF_vars(link = "connecting" /\ (mqtt_tcpclient_connect_cb \/ mqtt_tcpclient_recon_cb))

(* A name that is looked up again and again is resolved at last, a broker  *)
(* that can be reached again and again is reached and sent CONNECT, and one*)
(* that has been sent CONNECT again and again accepts it.                  *)
BrokerFairness ==
  /\ SF_vars(\E c \in Conns : mqtt_dns_found(c, "addr"))
  /\ SF_vars(mqtt_tcpclient_connect_cb /\ greeted')
  /\ SF_vars(/\ greeted
             /\ \E s \in Segments : mqtt_tcpclient_recv(s)
             /\ accepted' # accepted)

FairSpec == Spec /\ SchedulerFairness /\ StackFairness

(* Where the client is left without a timer, whatever the broker would do: *)
(* an attempt or a lookup that was not started, a lookup not answered, or  *)
(* answered with an address the callback ignores; a second answer, which   *)
(* takes an open connection for one being opened; a CONNECT that was not   *)
(* built or that espconn refused.                                          *)
Stranded ==
  \/ connState = "TCP_CONNECTING" /\ link \in {"none", "up"}
  \/ connState = "MQTT_CONNECT_SENDING" /\ link = "up" /\ ~greeted

(* And what it waits for of the broker without one: CONNACK. *)
Silence == Stranded \/ (connState = "MQTT_CONNECT_SENDING" /\ link = "up")

(* Nothing else keeps an application that asks for a connection from one:  *)
(* with a stack that may refuse, a resolver that may not answer and a      *)
(* broker that owes nothing, the client is in a session or tries to        *)
(* connect, again and again, or it is in one of those places.              *)
KeepsTrying ==
  []<>(asked # "up" \/ fault # "none" \/ InSession \/ link = "connecting" \/ Silence)

(* With such a broker the application that asks for a connection gets a    *)
(* session, however often connecting fails, is refused or is cut off,      *)
(* unless it starts over again and again or the client is Stranded for     *)
(* ever: it never waits for an event that was not posted or a timer that   *)
(* is not armed.                                                           *)
SessionReached ==
  BrokerFairness =>
    \/ []<>(asked # "up" \/ fault # "none" \/ connState = "MQTT_DATA")
    \/ <>[]Stranded
    \/ []<><<MQTT_Connect>>_vars

(* The queue of an open session does not stall: a packet is sent from it   *)
(* again and again until it is empty or the session ends.  When a send is  *)
(* never confirmed nothing posts as sendTimeout runs out; it is the        *)
(* keep-alive ping that gets the queue going again, or ends the session.   *)
QueueNotStuck ==
  []<>(\/ msgQueue = <<>> \/ ~InSession
       \/ sendTimeout = MQTT_SEND_TIMOUT /\ pending_msg_type # "PINGREQ"
       \/ asked # "up")

(* mqtt_client_delete is described as "Delete MQTT client and free all     *)
(* memory": a client the application deletes is deleted.                   *)
DeleteCompletes == asked = "delete" ~> asked # "delete"

=============================================================================
