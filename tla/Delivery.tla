------------------------------ MODULE Delivery ------------------------------
(***************************************************************************)
(* What the receive callback promises about segments that hold whole       *)
(* packets, in terms of packets.  A segment is looked at packet by packet; *)
(* every publish of it is delivered to the application as it was sent and  *)
(* answered with its own identifier if the queue has room, until a packet  *)
(* that is no publish has been handled: what follows that one is lost.     *)
(***************************************************************************)
EXTENDS Integers, Sequences

CONSTANTS
  Bursts,      \* the sequences of packets the broker sends at once
  TooLong,     \* those of them that do not fit the receive buffer
  QueueSize,   \* answers the queue has room for
  CONNACK, PUBLISH, PUBACK, PUBREC, PUBREL, PUBCOMP, PINGREQ, PINGRESP

VARIABLES
  session,     \* TRUE: the broker has accepted the connection
  closing,     \* the client has asked to close the connection
  todo,        \* packets of the segment not looked at yet
  queue,       \* answers waiting to be sent, oldest first
  event        \* what was delivered last

vars == <<session, closing, todo, queue, event>>

Init ==
  /\ session = FALSE /\ closing = FALSE
  /\ todo = <<>> /\ queue = <<>>
  /\ event = [topic |-> <<>>, data |-> <<>>]

Arrive(s) ==
  /\ todo = <<>>
  /\ todo' = s
  /\ UNCHANGED <<session, closing, queue, event>>

(* A segment that does not fit the buffer. *)
Drop ==
  /\ todo \in TooLong
  /\ todo' = <<>>
  /\ UNCHANGED <<session, closing, queue, event>>

Next1 == Head(todo)

(* The answer to a packet, if it has one. *)
Answers(p) ==
  CASE p.type = PUBLISH /\ p.qos = 1 -> {[type |-> PUBACK, id |-> p.id]}
    [] p.type = PUBLISH /\ p.qos = 2 -> {[type |-> PUBREC, id |-> p.id]}
    [] p.type = PUBREC -> {[type |-> PUBREL, id |-> p.id]}
    [] p.type = PUBREL -> {[type |-> PUBCOMP, id |-> p.id]}
    [] p.type = PINGREQ -> {[type |-> PINGRESP, id |-> 0]}
    [] OTHER -> {}

(* Before the session only CONNACK means something. *)
Connack ==
  /\ ~session /\ todo # <<>> /\ todo \notin TooLong
  /\ session' = (Next1.type = CONNACK /\ Next1.code = 0)
  /\ closing' = (closing \/ (Next1.type = CONNACK /\ Next1.code # 0))
  /\ todo' = <<>>
  /\ UNCHANGED <<queue, event>>

Handle ==
  /\ session /\ todo # <<>> /\ todo \notin TooLong
  /\ queue' = IF Answers(Next1) # {} /\ Len(queue) < QueueSize
                THEN Append(queue, CHOOSE a \in Answers(Next1) : TRUE)
                ELSE queue
  /\ IF Next1.type = PUBLISH
       THEN /\ event' = [topic |-> Next1.topic, data |-> Next1.data]
            /\ todo' = Tail(todo)
       ELSE UNCHANGED event /\ todo' = <<>>
  /\ UNCHANGED <<session, closing>>

(* The task sends the oldest answer. *)
Take ==
  /\ session /\ todo = <<>> /\ queue # <<>>
  /\ queue' = Tail(queue)
  /\ UNCHANGED <<session, closing, todo, event>>

(* A new connection; what was queued stays. *)
Reconnect ==
  /\ todo = <<>>
  /\ session' = FALSE /\ closing' = FALSE
  /\ UNCHANGED <<todo, queue, event>>

Next == (\E s \in Bursts : Arrive(s)) \/ Drop \/ Connack \/ Handle \/ Take \/ Reconnect

Spec == Init /\ [][Next]_vars

=============================================================================
