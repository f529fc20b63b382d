---------------------------- MODULE MultiClient -----------------------------
(***************************************************************************)
(* Several clients of mqtt.c in one program.  Each has a machine of its    *)
(* own, the one of MqttClient; what they share is MQTT_Task and its queue  *)
(* of TASK_QUEUE_SIZE events, to which every handler of every client posts *)
(* without looking at the result.                                          *)
(*                                                                         *)
(* A client is reduced to what that is about.  Ticks are left out: the     *)
(* timer of a client acts at any time while it is armed, and sendTimeout   *)
(* is TRUE while the counter of that name is not 0.  The message queue is  *)
(* the number of packets in it, and inflight is TRUE while a send is not   *)
(* confirmed.  Hosts are addresses, and no client is deleted.              *)
(***************************************************************************)
EXTENDS Integers, Sequences, FiniteSets, SequencesExt

CONSTANTS
  Clients,
  TASK_QUEUE_SIZE,  \* MQTT_TASK_QUEUE_SIZE, 1 in mqtt.c
  QueueSize,        \* packets msgQueue has room for
  Calls,            \* the functions the application uses
  TaskStartsOver,   \* system_os_task on a running task may drop its events
  ConnectMayFail,   \* espconn_connect may refuse (result ignored)
  SendMayFail       \* espconn_send may refuse

ASSUME MultiAssumption ==
  /\ TASK_QUEUE_SIZE \in Nat \ {0} /\ QueueSize \in Nat
  /\ TaskStartsOver \in BOOLEAN
  /\ ConnectMayFail \in BOOLEAN /\ SendMayFail \in BOOLEAN

VARIABLES
  connState,   \* of each client, "UNINIT" before MQTT_InitClient
  link,        \* SDK: what the client's connection is doing
  armed,       \* its mqttTimer is armed
  sendTimeout,
  inflight,    \* SDK: a send is not confirmed yet
  msgQueue,    \* how many packets are queued
  greeted,     \* history: this connection's CONNECT went to espconn
  asked,       \* history: what the application last asked for
  events,      \* clients posted for MQTT_Task, oldest first
  lost         \* history: clients whose last post was lost with none waiting

clientVars ==
  <<connState, link, armed, sendTimeout, inflight, msgQueue, greeted, asked>>
vars == <<clientVars, events, lost>>

ConnState ==
  {"UNINIT", "WIFI_INIT", "TCP_DISCONNECTING", "TCP_DISCONNECTED",
   "TCP_RECONNECT_DISCONNECTING", "TCP_RECONNECT_REQ", "TCP_RECONNECT",
   "TCP_CONNECTING", "MQTT_CONNECT_SENDING", "MQTT_DATA", "MQTT_KEEPALIVE_SEND"}

TypeOK ==
  /\ connState \in [Clients -> ConnState]
  /\ link \in [Clients -> {"none", "connecting", "up", "closing"}]
  /\ armed \in [Clients -> BOOLEAN] /\ sendTimeout \in [Clients -> BOOLEAN]
  /\ inflight \in [Clients -> BOOLEAN] /\ msgQueue \in [Clients -> 0 .. QueueSize]
  /\ greeted \in [Clients -> BOOLEAN]
  /\ asked \in [Clients -> {"none", "up", "down"}]
  /\ events \in Seq(Clients) /\ Len(events) <= TASK_QUEUE_SIZE
  /\ lost \subseteq Clients

Init ==
  /\ connState = [c \in Clients |-> "UNINIT"]
  /\ link = [c \in Clients |-> "none"]
  /\ armed = [c \in Clients |-> FALSE] /\ sendTimeout = [c \in Clients |-> FALSE]
  /\ inflight = [c \in Clients |-> FALSE] /\ msgQueue = [c \in Clients |-> 0]
  /\ greeted = [c \in Clients |-> FALSE] /\ asked = [c \in Clients |-> "none"]
  /\ events = <<>> /\ lost = {}

-----------------------------------------------------------------------------
(* The task queue *)

Waits(c, q) == \E i \in DOMAIN q : q[i] = c

(* A post for c to the queue q: lost if it is full.  That is of no account *)
(* if an event of c is waiting already.                                    *)
PostTo(q, c) ==
  IF Len(q) < TASK_QUEUE_SIZE
    THEN events' = Append(q, c) /\ lost' = lost \ {c}
    ELSE events' = q /\ lost' = IF Waits(c, q) THEN lost \ {c} ELSE lost \cup {c}

Post(c) == PostTo(events, c)

NoPost == UNCHANGED <<events, lost>>

Becomes(c, s) == connState' = [connState EXCEPT ![c] = s]
Link(c, s) == link' = [link EXCEPT ![c] = s]

-----------------------------------------------------------------------------
(* The application *)

(* Every client registers MQTT_Task again. *)
MQTT_InitClient(c) ==
  /\ connState[c] = "UNINIT"
  /\ Becomes(c, "WIFI_INIT")
  /\ \/ Post(c)
     \/ /\ TaskStartsOver
        /\ events' = <<c>>
        /\ lost' = (lost \cup Range(events)) \ {c}
  /\ UNCHANGED <<link, armed, sendTimeout, inflight, msgQueue, greeted, asked>>

(* What is known of a connection that is gone. *)
Forgotten(c) ==
  inflight' = [inflight EXCEPT ![c] = FALSE] /\ greeted' = [greeted EXCEPT ![c] = FALSE]

(* mqtt_tcpclient_delete of the old connection, and an attempt to open one.*)
Connect(c) ==
  /\ Becomes(c, "TCP_CONNECTING")
  /\ Link(c, "connecting") \/ (ConnectMayFail /\ Link(c, "none"))
  /\ Forgotten(c)
  /\ armed' = [armed EXCEPT ![c] = TRUE]
  /\ UNCHANGED <<sendTimeout, msgQueue>>

MQTT_Connect(c) ==
  /\ connState[c] # "UNINIT"
  /\ Connect(c)
  /\ asked' = [asked EXCEPT ![c] = "up"]
  /\ NoPost

MQTT_Disconnect(c) ==
  /\ connState[c] # "UNINIT"
  /\ Becomes(c, "TCP_DISCONNECTING")
  /\ armed' = [armed EXCEPT ![c] = FALSE]
  /\ asked' = [asked EXCEPT ![c] = "down"]
  /\ Post(c)
  /\ UNCHANGED <<link, sendTimeout, inflight, msgQueue, greeted>>

(* The oldest packets go if there is no room. *)
MQTT_Publish(c) ==
  /\ connState[c] # "UNINIT"
  /\ msgQueue' = [msgQueue EXCEPT ![c] = IF @ < QueueSize THEN @ + 1 ELSE @]
  /\ Post(c)
  /\ UNCHANGED <<connState, link, armed, sendTimeout, inflight, greeted, asked>>

-----------------------------------------------------------------------------
(* Callbacks of the network stack, and the timer *)

espconn_send(c, onLink) ==
  \/ onLink = "up" /\ inflight' = [inflight EXCEPT ![c] = TRUE]
  \/ (SendMayFail \/ onLink # "up") /\ UNCHANGED inflight

(* A CONNECT that was not built is as good as a refused one. *)
mqtt_tcpclient_connect_cb(c) ==
  /\ link[c] = "connecting"
  /\ Link(c, "up")
  /\ Becomes(c, "MQTT_CONNECT_SENDING")
  /\ sendTimeout' = [sendTimeout EXCEPT ![c] = TRUE]
  /\ espconn_send(c, "up")
  /\ greeted' = [greeted EXCEPT ![c] = inflight'[c]]
  /\ Post(c)
  /\ UNCHANGED <<armed, msgQueue, asked>>

(* The connection is gone. *)
Gone(c) ==
  /\ Link(c, "none")
  /\ Forgotten(c)
  /\ Post(c)
  /\ UNCHANGED <<armed, sendTimeout, msgQueue, asked>>

mqtt_tcpclient_recon_cb(c) ==
  /\ link[c] # "none"
  /\ Becomes(c, "TCP_RECONNECT_REQ")
  /\ Gone(c)

mqtt_tcpclient_discon_cb(c) ==
  /\ link[c] \in {"up", "closing"}
  /\ Becomes(c, IF connState[c] = "TCP_DISCONNECTING" THEN "TCP_DISCONNECTED"
                                                      ELSE "TCP_RECONNECT_REQ")
  /\ Gone(c)

mqtt_tcpclient_sent_cb(c) ==
  /\ inflight[c]
  /\ inflight' = [inflight EXCEPT ![c] = FALSE]
  /\ sendTimeout' = [sendTimeout EXCEPT ![c] = FALSE]
  /\ Post(c)
  /\ UNCHANGED <<connState, link, armed, msgQueue, greeted, asked>>

(* While CONNACK is waited for: one that accepts, one that refuses, another*)
(* packet.  In a session: a packet that is answered, or not.               *)
mqtt_tcpclient_recv(c) ==
  /\ link[c] \in {"up", "closing"}
  /\ \/ /\ connState[c] = "MQTT_CONNECT_SENDING"
        /\ \/ Becomes(c, "MQTT_DATA") /\ UNCHANGED link
           \/ Link(c, "closing") /\ UNCHANGED connState
           \/ UNCHANGED <<connState, link>>
        /\ UNCHANGED msgQueue
     \/ /\ connState[c] # "MQTT_CONNECT_SENDING"
        /\ \/ UNCHANGED msgQueue
           \/ /\ connState[c] \in {"MQTT_DATA", "MQTT_KEEPALIVE_SEND"}
              /\ msgQueue[c] < QueueSize
              /\ msgQueue' = [msgQueue EXCEPT ![c] = @ + 1]
        /\ UNCHANGED <<connState, link>>
  /\ Post(c)
  /\ UNCHANGED <<armed, sendTimeout, inflight, greeted, asked>>

(* Mutant: the timer does not post. *)
TimerWithoutPost(c) ==
  /\ armed[c]
  /\ \/ connState[c] = "MQTT_DATA" /\ Becomes(c, "MQTT_KEEPALIVE_SEND")
     \/ connState[c] = "TCP_RECONNECT_REQ" /\ Becomes(c, "TCP_RECONNECT")
  /\ NoPost
  /\ UNCHANGED <<link, armed, sendTimeout, inflight, msgQueue, greeted, asked>>

(* The half of the keep-alive time is over, or the time to reconnect. *)
mqtt_timer(c) ==
  /\ armed[c]
  /\ \/ connState[c] = "MQTT_DATA" /\ Becomes(c, "MQTT_KEEPALIVE_SEND")
     \/ connState[c] = "TCP_RECONNECT_REQ" /\ Becomes(c, "TCP_RECONNECT")
  /\ Post(c)
  /\ UNCHANGED <<link, armed, sendTimeout, inflight, msgQueue, greeted, asked>>

(* sendTimeout runs out. *)
SendTimesOut(c) ==
  /\ armed[c] /\ sendTimeout[c]
  /\ sendTimeout' = [sendTimeout EXCEPT ![c] = FALSE]
  /\ NoPost
  /\ UNCHANGED <<connState, link, armed, inflight, msgQueue, greeted, asked>>

-----------------------------------------------------------------------------
(* MQTT_Task, with the client the event names *)

TaskTakes(c) == events # <<>> /\ Head(events) = c

TaskReconnect(c) ==
  /\ connState[c] = "TCP_RECONNECT"
  /\ Connect(c)
  /\ UNCHANGED asked

(* espconn_disconnect; what it makes of an attempt to connect is the SDK's.*)
TaskDisconnect(c) ==
  /\ connState[c] \in {"TCP_DISCONNECTING", "TCP_RECONNECT_DISCONNECTING"}
  /\ \/ link[c] \in {"up", "connecting"} /\ Link(c, "closing")
     \/ link[c] # "up" /\ UNCHANGED link
  /\ UNCHANGED <<connState, armed, sendTimeout, inflight, msgQueue, greeted, asked>>

TaskData(c) ==
  /\ connState[c] = "MQTT_DATA" /\ msgQueue[c] > 0 /\ ~sendTimeout[c]
  /\ msgQueue' = [msgQueue EXCEPT ![c] = @ - 1]
  /\ sendTimeout' = [sendTimeout EXCEPT ![c] = TRUE]
  /\ espconn_send(c, link[c])
  /\ UNCHANGED <<connState, link, armed, greeted, asked>>

TaskIdle(c) ==
  /\ \/ connState[c] \in {"UNINIT", "WIFI_INIT", "TCP_DISCONNECTED", "TCP_RECONNECT_REQ",
                          "TCP_CONNECTING", "MQTT_CONNECT_SENDING"}
     \/ connState[c] = "MQTT_DATA" /\ (msgQueue[c] = 0 \/ sendTimeout[c])
  /\ UNCHANGED clientVars

(* mqtt_send_keepalive.  A refused ping ends the connection, in a step of  *)
(* the task that it posts.                                                 *)
TaskKeepAlive(c) ==
  /\ connState[c] = "MQTT_KEEPALIVE_SEND"
  /\ sendTimeout' = [sendTimeout EXCEPT ![c] = TRUE]
  /\ \/ /\ link[c] = "up" /\ inflight' = [inflight EXCEPT ![c] = TRUE]
        /\ Becomes(c, "MQTT_DATA")
     \/ /\ SendMayFail \/ link[c] # "up"
        /\ Becomes(c, "TCP_RECONNECT_DISCONNECTING") /\ UNCHANGED inflight
  /\ UNCHANGED <<link, armed, msgQueue, greeted, asked>>

(* Mutant: the event is acted on for whichever client. *)
TaskForAny(c) ==
  /\ events # <<>>
  /\ \/ TaskKeepAlive(c) /\ PostTo(Tail(events), c)
     \/ /\ TaskReconnect(c) \/ TaskDisconnect(c) \/ TaskData(c) \/ TaskIdle(c)
        /\ events' = Tail(events) /\ UNCHANGED lost

MQTT_Task(c) ==
  /\ TaskTakes(c)
  /\ \/ TaskKeepAlive(c) /\ PostTo(Tail(events), c)
     \/ /\ TaskReconnect(c) \/ TaskDisconnect(c) \/ TaskData(c) \/ TaskIdle(c)
        /\ events' = Tail(events) /\ UNCHANGED lost

-----------------------------------------------------------------------------

App(c) ==
  \/ MQTT_InitClient(c)
  \/ "MQTT_Connect" \in Calls /\ MQTT_Connect(c)
  \/ "MQTT_Disconnect" \in Calls /\ MQTT_Disconnect(c)
  \/ "MQTT_Publish" \in Calls /\ MQTT_Publish(c)

Network(c) ==
  \/ mqtt_tcpclient_connect_cb(c) \/ mqtt_tcpclient_recon_cb(c)
  \/ mqtt_tcpclient_discon_cb(c) \/ mqtt_tcpclient_sent_cb(c)
  \/ mqtt_tcpclient_recv(c)

Next == \E c \in Clients : App(c) \/ Network(c) \/ mqtt_timer(c) \/ SendTimesOut(c)
                            \/ MQTT_Task(c)

Spec == Init /\ [][Next]_vars

(* The SDK runs the task and the timers, and the stack reports the end of  *)
(* what it was asked to do, as in MqttClient.  Beyond that, what is there  *)
(* the hypothesis BrokerFairness: a broker tried again and again is        *)
(* reached and sent CONNECT, and one sent CONNECT again and again answers. *)
Fairness ==
  /\ WF_vars(\E c \in Clients : MQTT_Task(c))
  /\ \A c \in Clients :
       /\ WF_vars(mqtt_timer(c))
       /\ WF_vars(link[c] = "closing" /\ mqtt_tcpclient_discon_cb(c))
       /\ WF_vars(link[c] = "connecting" /\
                    (mqtt_tcpclient_connect_cb(c) \/ mqtt_tcpclient_recon_cb(c)))
       /\ SF_vars(mqtt_tcpclient_connect_cb(c) /\ greeted'[c])
       /\ SF_vars(greeted[c] /\ mqtt_tcpclient_recv(c) /\ connState'[c] # connState[c])

FairSpec == Spec /\ Fairness

-----------------------------------------------------------------------------
(* Properties *)

InNeed == {"TCP_RECONNECT", "MQTT_KEEPALIVE_SEND", "TCP_RECONNECT_DISCONNECTING"}

Woken(c) ==
  /\ connState[c] \in InNeed =>
       \/ Waits(c, events)
       \/ connState[c] = "TCP_RECONNECT_DISCONNECTING" /\ link[c] = "closing"
  /\ connState[c] = "TCP_DISCONNECTING" /\ link[c] = "up" => Waits(c, events)
  /\ connState[c] \in {"TCP_RECONNECT_REQ", "MQTT_DATA"} /\ asked[c] = "up" => armed[c]

(* A client whose state MQTT_Task has to act on has an event waiting,      *)
(* whatever the other clients do, unless its last post found the queue     *)
(* full of events of others.                                               *)
WokenUnlessLost == \A c \in Clients \ lost : Woken(c)

(* A post was lost to another client while this one waits for MQTT_Task. *)
LostInNeed(c) == c \in lost /\ connState[c] \in InNeed

(* An attempt that was not started, or a CONNECT that was not sent, which  *)
(* no timer repeats.                                                       *)
Stranded(c) ==
  \/ connState[c] = "TCP_CONNECTING" /\ link[c] = "none"
  \/ connState[c] = "MQTT_CONNECT_SENDING" /\ ~greeted[c]

(* So a client that is asked for a connection gets a session, unless it    *)
(* loses a post to another client while it waits for MQTT_Task, or is      *)
(* Stranded for ever, as a client alone may be.                            *)
SessionUnlessLost ==
  \A c \in Clients :
    \/ []<>(asked[c] # "up" \/ connState[c] = "MQTT_DATA" \/ LostInNeed(c))
    \/ <>[]Stranded(c)

(* README.md: "Support multiple connection (to multiple hosts)."  Every    *)
(* client that is asked for a connection gets a session, as one alone does *)
(* (SessionReached of MqttClient).                                         *)
EverySession ==
  \A c \in Clients :
    asked[c] = "up" ~> connState[c] = "MQTT_DATA" \/ asked[c] # "up"

=============================================================================
