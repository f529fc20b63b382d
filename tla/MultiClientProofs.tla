------------------------- MODULE MultiClientProofs --------------------------
(***************************************************************************)
(* Theorems about MultiClient for every set of clients and every length of *)
(* the task queue.                                                         *)
(***************************************************************************)
EXTENDS MultiClient, TLAPS

OnLink == {"MQTT_CONNECT_SENDING", "MQTT_DATA", "MQTT_KEEPALIVE_SEND",
           "TCP_RECONNECT_DISCONNECTING"}

(* What holds of one client.  Its connection is open in the states that    *)
(* send on it, so espconn_disconnect has something to close, and its timer *)
(* runs while a connection is asked for.                                   *)
Good(c) ==
  /\ connState[c] \in OnLink => link[c] \in {"up", "closing"}
  /\ asked[c] = "up" => armed[c]
  /\ c \notin lost => Woken(c)

IInv == TypeOK /\ \A c \in Clients : Good(c)

(* A step of c leaves the other clients alone, except for what it may do   *)
(* to their events.                                                        *)
OthersKept(c) ==
  \A d \in Clients \ {c} :
    /\ connState'[d] = connState[d] /\ link'[d] = link[d]
    /\ armed'[d] = armed[d] /\ asked'[d] = asked[d]

EventsKept(c) ==
  \A d \in Clients \ {c} :
    d \notin lost' => d \notin lost /\ (Waits(d, events) => Waits(d, events'))

QueueTypes == events \in Seq(Clients) /\ Len(events) <= TASK_QUEUE_SIZE /\ lost \subseteq Clients

-----------------------------------------------------------------------------
(* The queue *)

(* A post waits behind what was posted before it.                          *)
LEMMA AppendWaits ==
  ASSUME NEW q \in Seq(Clients), NEW c \in Clients
  PROVE  /\ Append(q, c) \in Seq(Clients) /\ Len(Append(q, c)) = Len(q) + 1
         /\ Waits(c, Append(q, c))
         /\ \A d : Waits(d, q) => Waits(d, Append(q, c))
<1>1. /\ Append(q, c) \in Seq(Clients) /\ Len(Append(q, c)) = Len(q) + 1
      /\ DOMAIN Append(q, c) = DOMAIN q \cup {Len(q) + 1}
      /\ Append(q, c)[Len(q) + 1] = c
      /\ \A i \in DOMAIN q : Append(q, c)[i] = q[i]
  OBVIOUS
<1> QED BY <1>1 DEF Waits

(* Taking the oldest event keeps every other one.                          *)
LEMMA TailWaits ==
  ASSUME NEW q \in Seq(Clients), q # <<>>
  PROVE  /\ Tail(q) \in Seq(Clients) /\ Len(Tail(q)) = Len(q) - 1 /\ Len(q) \in Nat
         /\ Head(q) \in Clients
         /\ \A d : d # Head(q) /\ Waits(d, q) => Waits(d, Tail(q))
<1>1. /\ Tail(q) \in Seq(Clients) /\ Len(Tail(q)) = Len(q) - 1 /\ Len(q) \in Nat
      /\ Head(q) = q[1] /\ Head(q) \in Clients
      /\ \A i \in DOMAIN q : i # 1 => i - 1 \in DOMAIN Tail(q) /\ Tail(q)[i - 1] = q[i]
  OBVIOUS
<1> QED BY <1>1 DEF Waits

(* A post for c to what is left of the queue. *)
LEMMA PostFacts ==
  ASSUME NEW q \in Seq(Clients), Len(q) <= TASK_QUEUE_SIZE, lost \subseteq Clients,
         NEW c \in Clients, PostTo(q, c)
  PROVE  /\ QueueTypes'
         /\ Len(q) < TASK_QUEUE_SIZE => Waits(c, events')
         /\ c \notin lost' => Waits(c, events')
         /\ \A d \in Clients \ {c} :
              d \notin lost' => d \notin lost /\ (Waits(d, q) => Waits(d, events'))
<1>1. CASE Len(q) < TASK_QUEUE_SIZE
  <2>1. events' = Append(q, c) /\ lost' = lost \ {c}
    BY <1>1 DEF PostTo
  <2>2. Len(q) + 1 <= TASK_QUEUE_SIZE
    BY <1>1, MultiAssumption
  <2> QED BY <2>1, <2>2, AppendWaits DEF QueueTypes
<1>2. CASE ~(Len(q) < TASK_QUEUE_SIZE)
  <2>1. events' = q /\ lost' = IF Waits(c, q) THEN lost \ {c} ELSE lost \cup {c}
    BY <1>2 DEF PostTo
  <2> QED BY <1>2, <2>1 DEF QueueTypes
<1> QED BY <1>1, <1>2

(* A post is queued or counted as lost, and no other is disturbed.         *)
LEMMA PostKeeps ==
  ASSUME QueueTypes, NEW c \in Clients, Post(c)
  PROVE  QueueTypes' /\ EventsKept(c) /\ (c \notin lost' => Waits(c, events'))
BY PostFacts DEF QueueTypes, EventsKept, Post

(* Nothing posted, nothing disturbed.                                      *)
LEMMA NoPostKeeps ==
  ASSUME QueueTypes, NEW c \in Clients, NoPost
  PROVE  QueueTypes' /\ EventsKept(c)
BY DEF QueueTypes, EventsKept, NoPost

-----------------------------------------------------------------------------
(* A step of one client *)

ClientTypes ==
  /\ connState \in [Clients -> ConnState]
  /\ link \in [Clients -> {"none", "connecting", "up", "closing"}]
  /\ armed \in [Clients -> BOOLEAN] /\ sendTimeout \in [Clients -> BOOLEAN]
  /\ inflight \in [Clients -> BOOLEAN] /\ msgQueue \in [Clients -> 0 .. QueueSize]
  /\ greeted \in [Clients -> BOOLEAN] /\ asked \in [Clients -> {"none", "up", "down"}]

(* The types of the clients and of the queue they share.                   *)
LEMMA TypesSplit == TypeOK <=> ClientTypes /\ QueueTypes
BY DEF TypeOK, ClientTypes, QueueTypes

(* It is enough to look at the client that makes the step. *)
LEMMA Combine ==
  ASSUME IInv, ClientTypes', QueueTypes', NEW c \in Clients, OthersKept(c),
         EventsKept(c), Good(c)'
  PROVE  IInv'
<1>1. ASSUME NEW d \in Clients PROVE Good(d)'
  <2>1. CASE d = c
    BY <2>1
  <2>2. CASE d # c
    BY <2>2 DEF IInv, Good, Woken, OthersKept, EventsKept
  <2> QED BY <2>1, <2>2
<1>2. TypeOK'
  BY DEF TypeOK, ClientTypes, QueueTypes
<1> QED BY <1>1, <1>2 DEF IInv

(* A client that has just posted is woken unless the post was lost.        *)
LEMMA GoodAfterPost ==
  ASSUME NEW c \in Clients, c \notin lost' => Waits(c, events'),
         connState'[c] \in OnLink => link'[c] \in {"up", "closing"},
         asked'[c] = "up" => armed'[c]
  PROVE  Good(c)'
BY DEF Good, Woken

(* The calls of the application keep the invariant.                        *)
LEMMA AppStep ==
  ASSUME IInv, NEW c \in Clients, App(c)
  PROVE  IInv'
<1>0. ClientTypes /\ QueueTypes /\ Good(c)
  BY TypesSplit DEF IInv
<1>1. CASE MQTT_InitClient(c)
  <2>1. ClientTypes' /\ OthersKept(c) /\ connState'[c] = "WIFI_INIT" /\ link' = link
        /\ asked' = asked /\ armed' = armed
    BY <1>0, <1>1 DEF MQTT_InitClient, ClientTypes, OthersKept,
        Becomes, Link, ConnState
  <2>2. QueueTypes' /\ EventsKept(c) /\ (c \notin lost' => Waits(c, events'))
    <3>1. CASE Post(c)
      BY <1>0, <3>1, PostKeeps
    <3>2. CASE events' = <<c>> /\ lost' = (lost \cup Range(events)) \ {c}
      <4>1. \A d \in Clients \ {c} : d \notin lost' => d \notin lost /\ ~Waits(d, events)
        BY <3>2 DEF Waits, Range
      <4>2. events' \in Seq(Clients) /\ Len(events') = 1 /\ Waits(c, events')
        BY <3>2 DEF Waits
      <4>3. 1 <= TASK_QUEUE_SIZE
        BY MultiAssumption
      <4>4. lost' \subseteq Clients
        BY <1>0, <3>2 DEF QueueTypes, Range
      <4> QED BY <4>1, <4>2, <4>3, <4>4 DEF QueueTypes, EventsKept
    <3> QED BY <1>1, <3>1, <3>2 DEF MQTT_InitClient
  <2>3. Good(c)'
    BY <1>0, <2>1, <2>2, GoodAfterPost DEF Good, OnLink
  <2> QED BY <2>1, <2>2, <2>3, Combine
<1>2. CASE MQTT_Connect(c)
  <2>1. ClientTypes' /\ OthersKept(c) /\ connState'[c] = "TCP_CONNECTING" /\ armed'[c]
    BY <1>0, <1>2 DEF MQTT_Connect, Connect, Forgotten, ClientTypes, OthersKept,
        Becomes, Link, ConnState
  <2>2. QueueTypes' /\ EventsKept(c)
    BY <1>0, <1>2, NoPostKeeps DEF MQTT_Connect
  <2>3. Good(c)'
    BY <2>1 DEF Good, Woken, OnLink, InNeed
  <2> QED BY <2>1, <2>2, <2>3, Combine
<1>3. CASE MQTT_Disconnect(c)
  <2>1. ClientTypes' /\ OthersKept(c) /\ connState'[c] = "TCP_DISCONNECTING"
        /\ asked'[c] = "down"
    BY <1>0, <1>3 DEF MQTT_Disconnect, ClientTypes, OthersKept,
        Becomes, Link, ConnState
  <2>2. QueueTypes' /\ EventsKept(c) /\ (c \notin lost' => Waits(c, events'))
    BY <1>0, <1>3, PostKeeps DEF MQTT_Disconnect
  <2>3. Good(c)'
    BY <2>1, <2>2, GoodAfterPost DEF OnLink
  <2> QED BY <2>1, <2>2, <2>3, Combine
<1>4. CASE MQTT_Publish(c)
  <2>1. connState' = connState /\ link' = link /\ asked' = asked /\ armed' = armed
        /\ sendTimeout' = sendTimeout /\ inflight' = inflight /\ greeted' = greeted
    BY <1>4 DEF MQTT_Publish
  <2>2. msgQueue' \in [Clients -> 0 .. QueueSize]
    BY <1>0, <1>4, MultiAssumption DEF MQTT_Publish, ClientTypes, OthersKept,
        Becomes, Link, ConnState
  <2>3. QueueTypes' /\ EventsKept(c) /\ (c \notin lost' => Waits(c, events'))
    BY <1>0, <1>4, PostKeeps DEF MQTT_Publish
  <2>4. Good(c)'
    BY <1>0, <2>1, <2>3, GoodAfterPost DEF Good
  <2>5. ClientTypes' /\ OthersKept(c)
    BY <1>0, <2>1, <2>2 DEF ClientTypes, OthersKept
  <2> QED BY <2>3, <2>4, <2>5, Combine
<1> QED BY <1>1, <1>2, <1>3, <1>4 DEF App

(* So do the callbacks of the connection,                                  *)
LEMMA NetworkStep ==
  ASSUME IInv, NEW c \in Clients, Network(c)
  PROVE  IInv'
<1>0. ClientTypes /\ QueueTypes /\ Good(c)
  BY TypesSplit DEF IInv
<1>1. Post(c)
  BY DEF Network, mqtt_tcpclient_connect_cb, mqtt_tcpclient_recon_cb,
         mqtt_tcpclient_discon_cb, mqtt_tcpclient_sent_cb, mqtt_tcpclient_recv, Gone
<1>2. QueueTypes' /\ EventsKept(c) /\ (c \notin lost' => Waits(c, events'))
  BY <1>0, <1>1, PostKeeps
<1>3. asked' = asked /\ armed' = armed
  BY DEF Network, mqtt_tcpclient_connect_cb, mqtt_tcpclient_recon_cb,
         mqtt_tcpclient_discon_cb, mqtt_tcpclient_sent_cb, mqtt_tcpclient_recv, Gone
<1>4. CASE mqtt_tcpclient_connect_cb(c)
  <2>1. ClientTypes' /\ OthersKept(c) /\ link'[c] = "up"
    BY <1>0, <1>4 DEF mqtt_tcpclient_connect_cb, espconn_send, ClientTypes, OthersKept,
        Becomes, Link, ConnState
  <2>2. Good(c)'
    BY <1>0, <1>2, <1>3, <2>1, GoodAfterPost DEF Good
  <2> QED BY <1>2, <2>1, <2>2, Combine
<1>5. CASE mqtt_tcpclient_recon_cb(c)
  <2>1. ClientTypes' /\ OthersKept(c) /\ connState'[c] = "TCP_RECONNECT_REQ"
    BY <1>0, <1>5 DEF mqtt_tcpclient_recon_cb, Gone, Forgotten, ClientTypes, OthersKept,
        Becomes, Link, ConnState
  <2>2. Good(c)'
    BY <1>0, <1>2, <1>3, <2>1, GoodAfterPost DEF Good, OnLink
  <2> QED BY <1>2, <2>1, <2>2, Combine
<1>6. CASE mqtt_tcpclient_discon_cb(c)
  <2>1. ClientTypes' /\ OthersKept(c)
        /\ connState'[c] \in {"TCP_RECONNECT_REQ", "TCP_DISCONNECTED"}
    BY <1>0, <1>6 DEF mqtt_tcpclient_discon_cb, Gone, Forgotten, ClientTypes, OthersKept,
        Becomes, Link, ConnState
  <2>2. Good(c)'
    BY <1>0, <1>2, <1>3, <2>1, GoodAfterPost DEF Good, OnLink
  <2> QED BY <1>2, <2>1, <2>2, Combine
<1>7. CASE mqtt_tcpclient_sent_cb(c)
  <2>1. ClientTypes' /\ OthersKept(c) /\ connState' = connState /\ link' = link
    BY <1>0, <1>7 DEF mqtt_tcpclient_sent_cb, ClientTypes, OthersKept,
        Becomes, Link, ConnState
  <2>2. Good(c)'
    BY <1>0, <1>2, <1>3, <2>1, GoodAfterPost DEF Good
  <2> QED BY <1>2, <2>1, <2>2, Combine
<1>8. CASE mqtt_tcpclient_recv(c)
  <2>1. /\ connState' \in [Clients -> ConnState]
        /\ link' \in [Clients -> {"none", "connecting", "up", "closing"}]
        /\ OthersKept(c) /\ link'[c] \in {"up", "closing"}
        /\ sendTimeout' = sendTimeout /\ inflight' = inflight /\ greeted' = greeted
    BY <1>0, <1>8 DEF mqtt_tcpclient_recv, ClientTypes, OthersKept,
        Becomes, Link, ConnState
  <2>2. msgQueue' \in [Clients -> 0 .. QueueSize]
    BY <1>0, <1>8, MultiAssumption DEF mqtt_tcpclient_recv, ClientTypes, OthersKept,
        Becomes, Link, ConnState
  <2>3. Good(c)'
    BY <1>0, <1>2, <1>3, <2>1, GoodAfterPost DEF Good
  <2>4. ClientTypes'
    BY <1>0, <1>3, <2>1, <2>2 DEF ClientTypes
  <2> QED BY <1>2, <2>1, <2>3, <2>4, Combine
<1> QED BY <1>4, <1>5, <1>6, <1>7, <1>8 DEF Network

(* the timer,                                                              *)
LEMMA TimerStep ==
  ASSUME IInv, NEW c \in Clients, mqtt_timer(c) \/ SendTimesOut(c)
  PROVE  IInv'
<1>0. ClientTypes /\ QueueTypes /\ Good(c)
  BY TypesSplit DEF IInv
<1>1. CASE mqtt_timer(c)
  <2>1. ClientTypes' /\ OthersKept(c) /\ link' = link /\ asked' = asked /\ armed' = armed
        /\ (connState'[c] \in OnLink => connState[c] \in OnLink)
    BY <1>0, <1>1 DEF mqtt_timer, OnLink, ClientTypes, OthersKept,
        Becomes, Link, ConnState
  <2>2. QueueTypes' /\ EventsKept(c) /\ (c \notin lost' => Waits(c, events'))
    BY <1>0, <1>1, PostKeeps DEF mqtt_timer
  <2>3. Good(c)'
    BY <1>0, <2>1, <2>2, GoodAfterPost DEF Good
  <2> QED BY <2>1, <2>2, <2>3, Combine
<1>2. CASE SendTimesOut(c)
  <2>1. ClientTypes' /\ connState' = connState /\ link' = link /\ asked' = asked
        /\ armed' = armed /\ NoPost
    BY <1>0, <1>2 DEF SendTimesOut, ClientTypes, OthersKept,
        Becomes, Link, ConnState
  <2>2. QueueTypes' /\ EventsKept(c) /\ events' = events /\ lost' = lost
    BY <1>0, <2>1, NoPostKeeps DEF NoPost
  <2>3. Good(c)'
    BY <1>0, <2>1, <2>2 DEF Good, Woken
  <2>4. OthersKept(c)
    BY <2>1 DEF OthersKept
  <2> QED BY <2>1, <2>2, <2>3, <2>4, Combine
<1> QED BY <1>1, <1>2

(* and MQTT_Task, which takes its event before it looks.                   *)
LEMMA TaskStep ==
  ASSUME IInv, NEW c \in Clients, MQTT_Task(c)
  PROVE  IInv'
<1>0. ClientTypes /\ QueueTypes /\ Good(c) /\ events # <<>> /\ Head(events) = c
  BY TypesSplit DEF IInv, MQTT_Task, TaskTakes
<1>1. /\ Tail(events) \in Seq(Clients) /\ Len(Tail(events)) = Len(events) - 1
      /\ Len(events) \in Nat
      /\ \A d \in Clients \ {c} : Waits(d, events) => Waits(d, Tail(events))
  BY <1>0, TailWaits DEF QueueTypes
<1>2. Len(Tail(events)) < TASK_QUEUE_SIZE
  BY <1>0, <1>1, MultiAssumption DEF QueueTypes
<1>3. CASE TaskKeepAlive(c) /\ PostTo(Tail(events), c)
  <2>1. ClientTypes' /\ OthersKept(c) /\ link' = link /\ asked' = asked /\ armed' = armed
        /\ connState[c] \in OnLink
    BY <1>0, <1>3 DEF TaskKeepAlive, OnLink, ClientTypes, OthersKept,
        Becomes, Link, ConnState
  <2>2. QueueTypes' /\ EventsKept(c) /\ Waits(c, events')
    <3>1. Len(Tail(events)) <= TASK_QUEUE_SIZE /\ lost \subseteq Clients
      BY <1>0, <1>1, <1>2, MultiAssumption DEF QueueTypes
    <3>2. /\ QueueTypes' /\ Waits(c, events')
          /\ \A d \in Clients \ {c} : d \notin lost' =>
               d \notin lost /\ (Waits(d, Tail(events)) => Waits(d, events'))
      BY <1>1, <1>2, <1>3, <3>1, PostFacts
    <3> QED BY <1>1, <3>2 DEF EventsKept
  <2>3. Good(c)'
    BY <1>0, <2>1, <2>2, GoodAfterPost DEF Good
  <2> QED BY <2>1, <2>2, <2>3, Combine
<1>4. CASE events' = Tail(events) /\ lost' = lost
           /\ (TaskReconnect(c) \/ TaskDisconnect(c) \/ TaskData(c) \/ TaskIdle(c))
  <2>1. QueueTypes' /\ EventsKept(c)
    <3>1. Len(Tail(events)) <= TASK_QUEUE_SIZE /\ lost \subseteq Clients
      BY <1>0, <1>1, <1>2, MultiAssumption DEF QueueTypes
    <3> QED BY <1>1, <1>4, <3>1 DEF QueueTypes, EventsKept
  <2>2. CASE TaskReconnect(c)
    <3>1. ClientTypes' /\ OthersKept(c) /\ connState'[c] = "TCP_CONNECTING" /\ armed'[c]
      BY <1>0, <2>2 DEF TaskReconnect, Connect, Forgotten, ClientTypes, OthersKept,
        Becomes, Link, ConnState
    <3>2. Good(c)'
      BY <3>1 DEF Good, Woken, OnLink, InNeed
    <3> QED BY <2>1, <3>1, <3>2, Combine
  <2>3. CASE TaskDisconnect(c)
    <3>1. ClientTypes' /\ OthersKept(c) /\ connState' = connState /\ asked' = asked
          /\ armed' = armed /\ link'[c] # "up"
          /\ (link[c] \in {"up", "closing"} => link'[c] = "closing")
          /\ connState[c] \in {"TCP_DISCONNECTING", "TCP_RECONNECT_DISCONNECTING"}
      BY <1>0, <2>3 DEF TaskDisconnect, ClientTypes, OthersKept,
        Becomes, Link, ConnState
    <3>2. Good(c)'
      BY <1>0, <3>1 DEF Good, Woken, OnLink, InNeed
    <3> QED BY <2>1, <3>1, <3>2, Combine
  <2>4. CASE TaskData(c)
    <3>1. connState' = connState /\ link' = link /\ asked' = asked /\ armed' = armed
          /\ greeted' = greeted /\ connState[c] = "MQTT_DATA"
      BY <2>4 DEF TaskData
    <3>2. msgQueue' \in [Clients -> 0 .. QueueSize] /\ sendTimeout' \in [Clients -> BOOLEAN]
      BY <1>0, <2>4, MultiAssumption DEF TaskData, ClientTypes, OthersKept,
        Becomes, Link, ConnState
    <3>3. inflight' \in [Clients -> BOOLEAN]
      BY <1>0, <2>4 DEF TaskData, espconn_send, ClientTypes, OthersKept,
        Becomes, Link, ConnState
    <3>4. Good(c)'
      BY <1>0, <3>1 DEF Good, Woken, OnLink, InNeed
    <3>5. ClientTypes' /\ OthersKept(c)
      BY <1>0, <3>1, <3>2, <3>3 DEF ClientTypes, OthersKept
    <3> QED BY <2>1, <3>4, <3>5, Combine
  <2>5. CASE TaskIdle(c)
    <3>1. ClientTypes' /\ OthersKept(c) /\ connState' = connState /\ link' = link
          /\ asked' = asked /\ armed' = armed
          /\ connState[c] \notin InNeed /\ connState[c] # "TCP_DISCONNECTING"
      BY <1>0, <2>5 DEF TaskIdle, clientVars, InNeed, ClientTypes, OthersKept,
        Becomes, Link, ConnState
    <3>2. Good(c)'
      BY <1>0, <1>4, <3>1 DEF Good, Woken
    <3> QED BY <2>1, <3>1, <3>2, Combine
  <2> QED BY <1>4, <2>2, <2>3, <2>4, <2>5
<1> QED BY <1>3, <1>4 DEF MQTT_Task

-----------------------------------------------------------------------------

(* At first no client is there.                                            *)
LEMMA InvInit == Init => IInv
<1> SUFFICES ASSUME Init PROVE IInv
  OBVIOUS
<1>1. ClientTypes /\ QueueTypes
  BY MultiAssumption DEF Init, ClientTypes, QueueTypes, ConnState
<1>2. ASSUME NEW c \in Clients PROVE Good(c)
  BY <1>2 DEF Init, Good, Woken, OnLink, InNeed
<1> QED BY <1>1, <1>2, TypesSplit DEF IInv

(* Every step keeps the invariant.                                         *)
LEMMA InvNext == IInv /\ [Next]_vars => IInv'
<1> SUFFICES ASSUME IInv, [Next]_vars PROVE IInv'
  OBVIOUS
<1>1. CASE Next
  BY <1>1, AppStep, NetworkStep, TimerStep, TaskStep DEF Next
<1>2. CASE UNCHANGED vars
  BY <1>2 DEF vars, clientVars, IInv, TypeOK, Good, Woken
<1> QED BY <1>1, <1>2

(* So it always holds.                                                     *)
LEMMA InvAlways == Spec => []IInv
BY InvInit, InvNext, PTL DEF Spec

(* The state keeps its types; in particular the task queue never holds     *)
(* more than TASK_QUEUE_SIZE events.                                       *)
THEOREM TypeCorrect == Spec => []TypeOK
<1>1. IInv => TypeOK
  BY DEF IInv
<1> QED BY <1>1, InvAlways, PTL

(* However many clients share MQTT_Task, one whose state it has to act on  *)
(* has an event waiting, unless its last post was lost to others.          *)
THEOREM LostOnlyToOthers == Spec => []WokenUnlessLost
<1>1. IInv => WokenUnlessLost
  BY DEF IInv, Good, WokenUnlessLost
<1> QED BY <1>1, InvAlways, PTL

=============================================================================
