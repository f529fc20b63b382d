---------------------------- MODULE MCConnection ----------------------------
(***************************************************************************)
(* Small instances of Connection.  With a buffer of 270 bytes, the lengths *)
(* put the remaining length on both sides of 128, a topic on both sides of *)
(* 256, and the end of the packet at, and one byte behind, the buffer's.   *)
(***************************************************************************)
EXTENDS Connection

Bytes(n) == [i \in 1 .. n |-> i % 256]

(* PUBLISH: 1 + 124 and 125 bytes (QoS 0), 122 and 123 (QoS 1, 2);         *)
(* SUBSCRIBE: 122 and 123, 262 and 263.                                    *)
MCTopics == {Bytes(n) : n \in {0, 1, 122, 123, 256, 262, 263, 265, 266}}
MCPayloads == {Bytes(n) : n \in {0, 2, 122, 123, 124, 125, 264, 265}}

BaseInfo ==
  [client_id |-> <<99>>, after_id |-> 0, clean_session |-> TRUE, keepalive |-> 120,
   will_topic |-> <<>>, will_message |-> <<>>, will_qos |-> 0,
   will_retain |-> FALSE, username |-> <<>>, password |-> <<>>]

(* With and without each string, a will without a message, a keep-alive    *)
(* time beyond 16 bits, and strings that end at and behind the buffer.     *)
MCInfos ==
  {[BaseInfo EXCEPT !.will_topic = t, !.will_message = t, !.will_qos = 2,
                    !.will_retain = TRUE, !.username = u, !.password = p,
                    !.clean_session = c] :
     t \in {<<>>, <<116>>}, u \in {<<>>, <<117>>, Bytes(120)},
     p \in {<<>>, <<112>>}, c \in BOOLEAN}
  \cup {[BaseInfo EXCEPT !.client_id = id] :
          id \in {NULL, <<>>, Bytes(110), Bytes(111), Bytes(113), Bytes(253),
                  Bytes(254), Bytes(255)}}
  \cup {[BaseInfo EXCEPT !.client_id = <<>>, !.after_id = 7],
        [BaseInfo EXCEPT !.keepalive = 65536, !.will_topic = <<116>>]}

(* Around the carry to the second byte, and the wrap. *)
MCIds == {0, 1, 2, 255, 256, 65534, 65535}

=============================================================================
