----------------------------- MODULE PacketFifo -----------------------------
(***************************************************************************)
(* What mqtt.c relies on when it uses a QUEUE: a first-in first-out queue  *)
(* of whole packets in a fixed number of bytes.  QUEUE_Puts stores the     *)
(* packet if its frame fits and otherwise changes nothing and returns -1;  *)
(* QUEUE_Gets returns the oldest packet unchanged, or -1 on an empty queue.*)
(***************************************************************************)
EXTENDS Integers, FiniteSets, Sequences

CONSTANTS
  Size,      \* bytes the queue can hold
  Packets    \* the packets the callers put

VARIABLES
  fifo,      \* the packets held, oldest first
  call,      \* "none", "Puts" or "Gets"
  packet,    \* the argument of a Puts, the result of a Gets
  ret        \* what the last completed operation returned

vars == <<fifo, call, packet, ret>>

(* Bytes a packet takes: two marks, and two bytes for each reserved value. *)
FrameLength(p) == 2 + Len(p) + Cardinality({i \in DOMAIN p : p[i] \in 125 .. 127})

Used(q) ==
  LET used[n \in 0 .. Len(q)] == IF n = 0 THEN 0 ELSE used[n - 1] + FrameLength(q[n])
  IN  used[Len(q)]

Fits(p) == Used(fifo) + FrameLength(p) <= Size

Init ==
  /\ fifo = <<>>
  /\ call = "none"
  /\ packet = <<>>
  /\ ret = "none"

Puts(p) ==
  /\ call = "none"
  /\ call' = "Puts"
  /\ packet' = p
  /\ UNCHANGED <<fifo, ret>>

PutsReturns ==
  /\ call = "Puts"
  /\ call' = "none"
  /\ \/ Fits(packet) /\ fifo' = Append(fifo, packet) /\ ret' = "ok"
     \/ ~Fits(packet) /\ fifo' = fifo /\ ret' = "fail"
  /\ UNCHANGED packet

Gets ==
  /\ call = "none"
  /\ call' = "Gets"
  /\ UNCHANGED <<fifo, packet, ret>>

GetsReturns ==
  /\ call = "Gets"
  /\ call' = "none"
  /\ \/ /\ fifo # <<>>
        /\ fifo' = Tail(fifo)
        /\ packet' = Head(fifo)
        /\ ret' = "ok"
     \/ fifo = <<>> /\ ret' = "fail" /\ UNCHANGED <<fifo, packet>>

Next == (\E p \in Packets : Puts(p)) \/ PutsReturns \/ Gets \/ GetsReturns

Spec == Init /\ [][Next]_vars

=============================================================================
