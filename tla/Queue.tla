------------------------------- MODULE Queue -------------------------------
(***************************************************************************)
(* The outbound message queue of an MQTT client: queue.c on top of the     *)
(* framing of proto.c on top of the byte ring of ringbuf.c.                *)
(*                                                                         *)
(* A packet is stored as BEGIN, its bytes, END; the three reserved byte    *)
(* values are stored as ESC followed by the byte with bit 5 flipped.  A    *)
(* QUEUE_Puts that runs out of room half way restores the cursors it saved *)
(* on entry.  One step of this module is one call of RINGBUF_Put or        *)
(* RINGBUF_Get, so that every intermediate state of the two loops is       *)
(* looked at; no other operation starts before the current one returns.    *)
(***************************************************************************)
EXTENDS Integers, Sequences

CONSTANTS
  Size,      \* bytes in the ring (QUEUE_BUFFER_SIZE, 2048 by default)
  Packets,   \* the packets the callers hand to QUEUE_Puts
  MaxLen     \* size of the caller's output buffer (MQTT_BUF_SIZE)

Byte == 0 .. 255

(* RINGBUF_Init refuses a ring of fewer than two bytes.  A packet is built *)
(* in out_buffer and fetched into dataBuffer, both MQTT_BUF_SIZE long.     *)
ASSUME QueueAssumption ==
  /\ Size \in Nat /\ Size >= 2
  /\ MaxLen \in Nat
  /\ \A p \in Packets : p \in Seq(Byte) /\ Len(p) <= MaxLen

(* The reserved byte values 0x7D, 0x7E and 0x7F. *)
ESC == 125
BEGIN == 126
END == 127

(* Mutant: ESC itself is not escaped. *)
MarksOnly == {BEGIN, END}

Reserved == {ESC, BEGIN, END}

VARIABLES
  buf,     \* the ring's bytes, by offset from p_o
  rb,      \* the cursors p_r and p_w (offsets from p_o) and fill_cnt
  last,    \* last_rb_p_r, last_rb_p_w, last_fill_cnt: what QUEUE_Puts saved
  call,    \* the operation under way: "none", "Puts" or "Gets"
  pk,      \* PROTO_AddRb: the packet bytes not stored yet
  stage,   \* PROTO_AddRb: "begin", "body", or "escaped" after an ESC
  parser,  \* PROTO_ParseRb: isEsc, isBegin and the bytes in bufOut
  ret,     \* what the last completed operation returned
  packet,  \* history: the argument of the last QUEUE_Puts, or what the last
           \* successful QUEUE_Gets returned, whichever is later
  fill0    \* history: fill_cnt when the current QUEUE_Gets was called

vars == <<buf, rb, last, call, pk, stage, parser, ret, packet, fill0>>

Cursors == [p_r : 0 .. Size - 1, p_w : 0 .. Size - 1, fill_cnt : 0 .. Size]

(* The type invariant: the cursors stay inside the ring and fill_cnt stays *)
(* between 0 and size, also in the middle of a QUEUE_Puts.                 *)
TypeOK ==
  /\ buf \in [0 .. Size - 1 -> Byte]
  /\ rb \in Cursors
  /\ last \in Cursors
  /\ call \in {"none", "Puts", "Gets"}
  /\ pk \in Seq(Byte)
  /\ stage \in {"begin", "body", "escaped"}
  /\ parser \in [isEsc : {0, 1}, isBegin : {0, 1}, out : Seq(Byte)]
  /\ ret \in {"none", "ok", "fail"}
  /\ packet \in Seq(Byte)
  /\ fill0 \in 0 .. Size

-----------------------------------------------------------------------------
(* ringbuf.c *)

(* Mutant: one past the end. *)
RolloverLate(p) == IF p > Size THEN 0 ELSE p

(* A cursor that reaches the physical end goes back to the start. *)
Rollover(p) == IF p >= Size THEN 0 ELSE p

RINGBUF_Full == rb.fill_cnt >= Size

RINGBUF_Empty == rb.fill_cnt <= 0

(* RINGBUF_Put past its test for a full ring. *)
RINGBUF_Put(c) ==
  /\ buf' = [buf EXCEPT ![rb.p_w] = c]
  /\ rb' = [rb EXCEPT !.fill_cnt = @ + 1, !.p_w = Rollover(@ + 1)]

(* RINGBUF_Get past its test for an empty ring; the byte is buf[rb.p_r]. *)
RINGBUF_Get ==
  /\ rb' = [rb EXCEPT !.fill_cnt = @ - 1, !.p_r = Rollover(@ + 1)]
  /\ UNCHANGED buf

-----------------------------------------------------------------------------
(* proto.c *)

(* value ^ 0x20 *)
Flip(value) == IF (value \div 32) % 2 = 1 THEN value - 32 ELSE value + 32

(* The byte PROTO_AddRb stores next. *)
NextByte ==
  CASE stage = "begin" -> BEGIN
    [] stage = "escaped" -> Flip(Head(pk))
    [] stage = "body" /\ pk = <<>> -> END
    [] stage = "body" /\ pk # <<>> /\ Head(pk) \in Reserved -> ESC
    [] stage = "body" /\ pk # <<>> /\ Head(pk) \notin Reserved -> Head(pk)

(* Where PROTO_AddRb is after storing NextByte, short of the last byte. *)
Advance ==
  IF stage = "body" /\ Head(pk) \in Reserved
    THEN stage' = "escaped" /\ UNCHANGED pk
    ELSE /\ stage' = "body"
         /\ pk' = IF stage = "begin" THEN pk ELSE Tail(pk)

(* PROTO_ParseByte on parser state ps; END, the value that makes it return *)
(* 0, also clears isBegin.                                                 *)
PROTO_ParseByte(ps, value) ==
  CASE value = ESC -> [ps EXCEPT !.isEsc = 1]
    [] value = BEGIN -> [isEsc |-> 0, isBegin |-> 1, out |-> <<>>]
    [] value = END -> [ps EXCEPT !.isBegin = 0]
    [] value \notin Reserved /\ ps.isBegin = 0 -> ps
    [] value \notin Reserved /\ ps.isBegin = 1 ->
         [ps EXCEPT !.isEsc = 0,
                    !.out = IF Len(@) < MaxLen
                              THEN Append(@, IF ps.isEsc = 1 THEN Flip(value)
                                                             ELSE value)
                              ELSE @]

(* PROTO_Init leaves isBegin as it finds it on the stack. *)
PROTO_Init == \E garbage \in {0, 1} :
  parser' = [isEsc |-> 0, isBegin |-> garbage, out |-> <<>>]

-----------------------------------------------------------------------------
(* queue.c *)

(* QUEUE_Init on a zeroed buffer. *)
QUEUE_Init ==
  /\ buf = [i \in 0 .. Size - 1 |-> 0]
  /\ rb = [p_r |-> 0, p_w |-> 0, fill_cnt |-> 0]

Init ==
  /\ QUEUE_Init
  /\ last = [p_r |-> 0, p_w |-> 0, fill_cnt |-> 0]
  /\ call = "none"
  /\ pk = <<>>
  /\ stage = "begin"
  /\ parser = [isEsc |-> 0, isBegin |-> 0, out |-> <<>>]
  /\ ret = "none"
  /\ packet = <<>>
  /\ fill0 = 0

(* Mutant: the cursors are not saved. *)
PutsStartNoSave ==
  /\ call = "none"
  /\ \E p \in Packets : pk' = p /\ packet' = p
  /\ call' = "Puts"
  /\ stage' = "begin"
  /\ UNCHANGED <<buf, rb, last, parser, ret, fill0>>

(* QUEUE_Puts saves the cursors and enters PROTO_AddRb. *)
PutsStart ==
  /\ call = "none"
  /\ \E p \in Packets : pk' = p /\ packet' = p
  /\ call' = "Puts"
  /\ last' = rb
  /\ stage' = "begin"
  /\ UNCHANGED <<buf, rb, parser, ret, fill0>>

(* PROTO_AddRb stores one byte that is not the last. *)
PutsByte ==
  /\ call = "Puts"
  /\ ~RINGBUF_Full
  /\ ~(stage = "body" /\ pk = <<>>)
  /\ RINGBUF_Put(NextByte)
  /\ Advance
  /\ UNCHANGED <<last, call, parser, ret, packet, fill0>>

(* PROTO_AddRb stores END and QUEUE_Puts returns the frame's length. *)
PutsDone ==
  /\ call = "Puts"
  /\ ~RINGBUF_Full
  /\ stage = "body" /\ pk = <<>>
  /\ RINGBUF_Put(NextByte)
  /\ call' = "none"
  /\ ret' = "ok"
  /\ stage' = "begin"
  /\ UNCHANGED <<last, pk, parser, packet, fill0>>

(* Mutant: the count is not rolled back. *)
PutsFullKeepsCount ==
  /\ call = "Puts"
  /\ RINGBUF_Full
  /\ rb' = [last EXCEPT !.fill_cnt = rb.fill_cnt]
  /\ call' = "none"
  /\ ret' = "fail"
  /\ pk' = <<>> /\ stage' = "begin"
  /\ UNCHANGED <<buf, last, parser, packet, fill0>>

(* Mutant: nothing is rolled back. *)
PutsFullTorn ==
  /\ call = "Puts"
  /\ RINGBUF_Full
  /\ call' = "none"
  /\ ret' = "fail"
  /\ pk' = <<>> /\ stage' = "begin"
  /\ UNCHANGED <<buf, rb, last, parser, packet, fill0>>

(* RINGBUF_Put finds the ring full: QUEUE_Puts rolls the cursors back and  *)
(* returns -1.                                                             *)
PutsFull ==
  /\ call = "Puts"
  /\ RINGBUF_Full
  /\ rb' = last
  /\ call' = "none"
  /\ ret' = "fail"
  /\ pk' = <<>> /\ stage' = "begin"
  /\ UNCHANGED <<buf, last, parser, packet, fill0>>

(* QUEUE_Gets enters PROTO_ParseRb. *)
GetsStart ==
  /\ call = "none"
  /\ call' = "Gets"
  /\ PROTO_Init
  /\ fill0' = rb.fill_cnt
  /\ UNCHANGED <<buf, rb, last, pk, stage, ret, packet>>

(* PROTO_ParseRb takes one byte; END ends the loop with 0. *)
GetsByte ==
  /\ call = "Gets"
  /\ ~RINGBUF_Empty
  /\ RINGBUF_Get
  /\ parser' = PROTO_ParseByte(parser, buf[rb.p_r])
  /\ IF buf[rb.p_r] = END
       THEN call' = "none" /\ ret' = "ok" /\ packet' = parser.out
       ELSE UNCHANGED <<call, ret, packet>>
  /\ UNCHANGED <<last, pk, stage, fill0>>

(* RINGBUF_Get finds the ring empty: PROTO_ParseRb returns -1. *)
GetsEmpty ==
  /\ call = "Gets"
  /\ RINGBUF_Empty
  /\ call' = "none"
  /\ ret' = "fail"
  /\ UNCHANGED <<buf, rb, last, pk, stage, parser, packet, fill0>>

Next ==
  \/ PutsStart \/ PutsByte \/ PutsDone \/ PutsFull
  \/ GetsStart \/ GetsByte \/ GetsEmpty

Spec == Init /\ [][Next]_vars

-----------------------------------------------------------------------------
(* Properties *)

(* The ring offset of the n-th stored byte counted from p_r. *)
Pos(n) == IF n >= Size THEN n - Size ELSE n

(* The i-th stored byte, i from 0. *)
Cell(i) == buf[Pos(rb.p_r + i)]

(* The cursors and the count never disagree: the write cursor is always    *)
(* fill_cnt bytes ahead of the read cursor, and while a QUEUE_Puts runs,   *)
(* the cursors it saved describe a prefix of what the ring holds now.      *)
CursorsAgree ==
  /\ rb.p_w = Pos(rb.p_r + rb.fill_cnt)
  /\ last.p_w = Pos(last.p_r + last.fill_cnt)
  /\ call = "Puts" => /\ last.p_r = rb.p_r
                      /\ last.fill_cnt <= rb.fill_cnt

(* Between operations the ring holds complete frames only: it starts with  *)
(* BEGIN, ends with END, and a BEGIN follows every END and nothing else.   *)
(* During a QUEUE_Puts this holds of the bytes stored before the call, and *)
(* the new frame has no END yet.                                           *)
WellFramed ==
  /\ \A i \in 1 .. rb.fill_cnt - 1 : Cell(i) = BEGIN <=> Cell(i - 1) = END
  /\ call # "Gets" /\ rb.fill_cnt > 0 => Cell(0) = BEGIN
  /\ call # "Puts" /\ rb.fill_cnt > 0 => Cell(rb.fill_cnt - 1) = END
  /\ call = "Puts" =>
       /\ last.fill_cnt > 0 => Cell(last.fill_cnt - 1) = END
       /\ \A i \in last.fill_cnt .. rb.fill_cnt - 1 : Cell(i) # END
       /\ stage = "begin" <=> rb.fill_cnt = last.fill_cnt

(* The isBegin flag PROTO_Init leaves uninitialised never decides anything:*)
(* a QUEUE_Gets either has a BEGIN as its next byte, which sets the flag,  *)
(* or is inside a frame with the flag set.  And QUEUE_Gets returns -1 only *)
(* if the queue was empty when it was called: it never eats a torn frame.  *)
GetsFindsFrame ==
  call = "Gets" =>
    /\ rb.fill_cnt = 0 => fill0 = 0
    /\ rb.fill_cnt > 0 => Cell(0) = BEGIN \/ parser.isBegin = 1

(* No step of a QUEUE_Puts, the roll-back included, changes a byte of a    *)
(* packet queued before it or moves the read cursor, and one that fails    *)
(* leaves the ring with exactly the bytes it had.                          *)
PutsKeepsQueued ==
  [][call = "Puts" =>
       /\ rb'.p_r = last.p_r
       /\ \A i \in 0 .. last.fill_cnt - 1 :
            buf'[Pos(last.p_r + i)] = buf[Pos(last.p_r + i)]
       /\ ret' = "fail" /\ call' = "none" => rb'.fill_cnt = last.fill_cnt]_vars

-----------------------------------------------------------------------------
(* The refinement of PacketFifo *)

Fresh == [isEsc |-> 0, isBegin |-> 0, out |-> <<>>]

(* One byte of the stored frames: END completes a packet. *)
Decode(acc, b) ==
  [ps |-> PROTO_ParseByte(acc.ps, b),
   pkts |-> IF b = END THEN Append(acc.pkts, acc.ps.out) ELSE acc.pkts]

(* Where a reader that starts as ps is after each number of bytes, and     *)
(* which packets it has read.                                              *)
Parse(ps, bytes) ==
  LET after[n \in 0 .. Len(bytes)] ==
        IF n = 0 THEN [ps |-> ps, pkts |-> <<>>] ELSE Decode(after[n - 1], bytes[n])
  IN  after

Stored == [i \in 1 .. rb.fill_cnt |-> Cell(i - 1)]

(* A reader that is where the current QUEUE_Gets is, on the stored bytes.  *)
Reading == Parse(IF call = "Gets" THEN parser ELSE Fresh, Stored)

(* The packets the ring holds.  A frame that is still being stored has no  *)
(* END and does not count.                                                 *)
StoredPackets == Reading[rb.fill_cnt].pkts

Fifo == INSTANCE PacketFifo WITH fifo <- StoredPackets

(* The byte-level queue implements the bounded FIFO of whole packets:      *)
(* packets come out unchanged and in order, QUEUE_Puts succeeds exactly    *)
(* when the escaped frame fits, and a failing call changes nothing.        *)
ImplementsPacketFifo == Fifo!Spec

=============================================================================
