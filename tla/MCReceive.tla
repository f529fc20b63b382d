----------------------------- MODULE MCReceive ------------------------------
(***************************************************************************)
(* Small instances of Receive.                                             *)
(***************************************************************************)
EXTENDS Receive

Other(type, id) ==
  [type |-> type, qos |-> IF type = PUBREL THEN 1 ELSE 0, id |-> id,
   topic |-> <<>>, data |-> <<>>, code |-> 0, more |-> 0]

Publish(qos, id, topic, data) ==
  [type |-> PUBLISH, qos |-> qos, id |-> id, topic |-> topic, data |-> data,
   code |-> 0, more |-> 0]

Accept == Other(CONNACK, 0)
Refuse == [Accept EXCEPT !.code = 5]

Bytes(n) == [i \in 1 .. n |-> 48 + (i % 70)]

P0 == Publish(0, 0, <<97>>, <<49, 50>>)
P1 == Publish(1, 258, <<97, 98>>, <<50, 4, 0, 1>>)
P2 == Publish(2, 7, <<98>>, <<>>)

(* A remaining length of two bytes, in segments one byte below and at the  *)
(* size of the buffer.                                                     *)
Longest == Publish(2, 10, <<99>>, Bytes(131))
TooLong == Publish(2, 10, <<99>>, Bytes(132))

(* The payload of P1 reads like the head of another PUBLISH. The announced *)
(* length of Endless is 65532, four bytes less than a multiple of 65536.   *)
Endless == [Publish(0, 0, <<100>>, Bytes(10)) EXCEPT !.more = 65532 - 13]

AllBursts ==
  {<<Accept>>, <<Refuse, P0>>, <<P1, P2, P0>>, <<P0, Other(PUBREC, 3), P1>>,
   <<P2, Other(PUBREL, 7)>>, <<Other(PINGREQ, 0), P0>>, <<Longest>>, <<TooLong>>,
   <<Endless>>}

(* In the fixed header, in the length of a topic, and before, inside and   *)
(* behind an identifier.                                                   *)
CutPoints == {1, 3, 6, 7, 9}

=============================================================================
