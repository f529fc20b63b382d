----------------------------- MODULE MCSession ------------------------------
(***************************************************************************)
(* Small instances of Session.                                             *)
(***************************************************************************)
EXTENDS Session

Publish(name, qos) == [name |-> name, type |-> "PUBLISH", qos |-> qos]

(* Two messages that take identifiers, which a broker may confuse, and one *)
(* that takes none; with room for two packets the oldest may have to go.   *)
ThreeMessages == {Publish("a", 2), Publish("b", 2), Publish("c", 0)}

=============================================================================
