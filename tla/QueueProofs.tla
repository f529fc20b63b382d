---------------------------- MODULE QueueProofs ----------------------------
(***************************************************************************)
(* Proofs that the message queue keeps its cursors, its frames and the     *)
(* bytes already queued intact, and that it implements the FIFO of whole   *)
(* packets of PacketFifo, for every ring size and every packet.            *)
(***************************************************************************)
EXTENDS Queue, SequenceFacts, FiniteSetTheorems

(* A PROTO_AddRb that has stored an ESC still holds the reserved byte it   *)
(* is escaping, so the byte after an ESC is never itself reserved.         *)
EscapePending == stage = "escaped" => pk # <<>> /\ Head(pk) \in Reserved

(* The inductive invariant. *)
IInv == TypeOK /\ CursorsAgree /\ EscapePending /\ WellFramed /\ GetsFindsFrame

-----------------------------------------------------------------------------

(* Flipping bit 5 of a byte gives a byte, and flipping it in a reserved    *)
(* value gives a value that is not reserved (value ^ 0x20 in proto.c).     *)
LEMMA FlipByte ==
  ASSUME NEW v \in Byte
  PROVE  /\ Flip(v) \in Byte
         /\ v \in Reserved => Flip(v) \notin Reserved
  BY DEF Byte, Flip, Reserved, ESC, BEGIN, END

(* The byte PROTO_AddRb stores next: BEGIN only first, END only last.      *)
LEMMA NextByteKind ==
  ASSUME TypeOK, EscapePending
  PROVE  /\ NextByte \in Byte
         /\ NextByte = BEGIN <=> stage = "begin"
         /\ NextByte = END <=> stage = "body" /\ pk = <<>>
<1>1. CASE stage = "begin"
  BY <1>1 DEF NextByte, Byte, BEGIN, END
<1>2. CASE stage = "escaped"
  <2>1. Head(pk) \in Byte /\ Head(pk) \in Reserved
    BY <1>2 DEF TypeOK, EscapePending
  <2>2. NextByte = Flip(Head(pk))
    BY <1>2 DEF NextByte
  <2> QED BY <1>2, <2>1, <2>2, FlipByte DEF Reserved
<1>3. CASE stage = "body" /\ pk = <<>>
  BY <1>3 DEF NextByte, Byte, BEGIN, END
<1>4. CASE stage = "body" /\ pk # <<>>
  <2>1. Head(pk) \in Byte
    BY <1>4 DEF TypeOK
  <2>2. NextByte = IF Head(pk) \in Reserved THEN ESC ELSE Head(pk)
    BY <1>4 DEF NextByte
  <2> QED BY <1>4, <2>1, <2>2 DEF Byte, Reserved, ESC, BEGIN, END
<1> QED BY <1>1, <1>2, <1>3, <1>4 DEF TypeOK

(* RINGBUF_Put on a ring that is not full appends a byte and leaves every  *)
(* stored byte where it was.                                               *)
LEMMA PutAppends ==
  ASSUME TypeOK, CursorsAgree, ~RINGBUF_Full, NEW c \in Byte, RINGBUF_Put(c)
  PROVE  /\ buf' \in [0 .. Size - 1 -> Byte]
         /\ rb' \in Cursors
         /\ rb'.p_r = rb.p_r
         /\ rb'.fill_cnt = rb.fill_cnt + 1
         /\ rb'.p_w = Pos(rb'.p_r + rb'.fill_cnt)
         /\ \A i \in 0 .. rb.fill_cnt - 1 :
              buf'[Pos(rb.p_r + i)] = buf[Pos(rb.p_r + i)]
         /\ buf'[Pos(rb.p_r + rb.fill_cnt)] = c
<1> USE QueueAssumption
<1>1. /\ buf \in [0 .. Size - 1 -> Byte]
      /\ rb \in Cursors
      /\ rb.p_w = Pos(rb.p_r + rb.fill_cnt)
      /\ rb.fill_cnt < Size
  BY DEF TypeOK, CursorsAgree, RINGBUF_Full, Cursors
<1>2. /\ buf' = [buf EXCEPT ![rb.p_w] = c]
      /\ rb' = [rb EXCEPT !.fill_cnt = @ + 1, !.p_w = Rollover(@ + 1)]
  BY DEF RINGBUF_Put
<1>3. /\ rb'.p_r = rb.p_r
      /\ rb'.fill_cnt = rb.fill_cnt + 1
      /\ rb'.p_w = Rollover(rb.p_w + 1)
  BY <1>1, <1>2 DEF Cursors
<1>4. rb' \in Cursors
  BY <1>1, <1>2 DEF Cursors, Rollover
<1>5. rb'.p_w = Pos(rb'.p_r + rb'.fill_cnt)
  BY <1>1, <1>3 DEF Cursors, Rollover, Pos
<1>6. ASSUME NEW i \in 0 .. rb.fill_cnt - 1
      PROVE  buf'[Pos(rb.p_r + i)] = buf[Pos(rb.p_r + i)]
  <2>1. Pos(rb.p_r + i) \in 0 .. Size - 1 /\ Pos(rb.p_r + i) # rb.p_w
    BY <1>1, SMTT(60) DEF Cursors, Pos
  <2> QED BY <1>1, <1>2, <2>1
<1>7. buf'[Pos(rb.p_r + rb.fill_cnt)] = c
  <2>1. rb.p_w \in 0 .. Size - 1
    BY <1>1 DEF Cursors
  <2> QED BY <1>1, <1>2, <2>1
<1> QED BY <1>1, <1>2, <1>3, <1>4, <1>5, <1>6, <1>7

(* RINGBUF_Get on a ring that is not empty takes the first byte: every     *)
(* other byte moves one place forward.                                     *)
LEMMA GetShifts ==
  ASSUME TypeOK, CursorsAgree, ~RINGBUF_Empty, RINGBUF_Get
  PROVE  /\ buf' = buf
         /\ rb' \in Cursors
         /\ rb'.fill_cnt = rb.fill_cnt - 1
         /\ rb'.p_w = Pos(rb'.p_r + rb'.fill_cnt)
         /\ buf[rb.p_r] = Cell(0)
         /\ \A i \in 0 .. rb.fill_cnt - 2 : buf'[Pos(rb'.p_r + i)] = Cell(i + 1)
<1> USE QueueAssumption
<1>1. /\ rb \in Cursors
      /\ rb.p_w = Pos(rb.p_r + rb.fill_cnt)
      /\ rb.fill_cnt > 0
  BY DEF TypeOK, CursorsAgree, RINGBUF_Empty, Cursors
<1>2. /\ buf' = buf
      /\ rb' = [rb EXCEPT !.fill_cnt = @ - 1, !.p_r = Rollover(@ + 1)]
  BY DEF RINGBUF_Get
<1>3. /\ rb'.p_w = rb.p_w
      /\ rb'.fill_cnt = rb.fill_cnt - 1
      /\ rb'.p_r = Rollover(rb.p_r + 1)
  BY <1>1, <1>2 DEF Cursors
<1>4. rb' \in Cursors
  <2>1. rb.fill_cnt - 1 \in 0 .. Size /\ Rollover(rb.p_r + 1) \in 0 .. Size - 1
    BY <1>1 DEF Cursors, Rollover
  <2> QED BY <1>1, <1>2, <2>1 DEF Cursors
<1>5. rb'.p_w = Pos(rb'.p_r + rb'.fill_cnt)
  BY <1>1, <1>3 DEF Cursors, Rollover, Pos
<1>6. buf[rb.p_r] = Cell(0)
  BY <1>1 DEF Cursors, Cell, Pos
<1>7. ASSUME NEW i \in 0 .. rb.fill_cnt - 2
      PROVE  buf'[Pos(rb'.p_r + i)] = Cell(i + 1)
  <2>1. Pos(rb'.p_r + i) = Pos(rb.p_r + (i + 1))
    BY <1>1, <1>3, SMTT(60) DEF Cursors, Rollover, Pos
  <2> QED BY <1>2, <2>1 DEF Cell
<1> QED BY <1>2, <1>3, <1>4, <1>5, <1>6, <1>7

(* The parser stays well typed whatever byte it is given. *)
LEMMA ParseByteType ==
  ASSUME NEW ps \in [isEsc : {0, 1}, isBegin : {0, 1}, out : Seq(Byte)],
         NEW v \in Byte
  PROVE  PROTO_ParseByte(ps, v)
           \in [isEsc : {0, 1}, isBegin : {0, 1}, out : Seq(Byte)]
<1>1. Flip(v) \in Byte
  BY FlipByte
<1>2. CASE v = ESC
  BY <1>2 DEF PROTO_ParseByte, ESC, BEGIN, END, Reserved
<1>3. CASE v = BEGIN
  BY <1>3 DEF PROTO_ParseByte, ESC, BEGIN, END, Reserved
<1>4. CASE v = END
  BY <1>4 DEF PROTO_ParseByte, ESC, BEGIN, END, Reserved
<1>5. CASE v \notin Reserved /\ ps.isBegin = 0
  BY <1>5 DEF PROTO_ParseByte, ESC, BEGIN, END, Reserved
<1>6. CASE v \notin Reserved /\ ps.isBegin = 1
  <2> DEFINE b == IF ps.isEsc = 1 THEN Flip(v) ELSE v
             o == IF Len(ps.out) < MaxLen THEN Append(ps.out, b) ELSE ps.out
  <2>1. b \in Byte
    BY <1>1
  <2>2. o \in Seq(Byte)
    BY <2>1
  <2>3. PROTO_ParseByte(ps, v) = [ps EXCEPT !.isEsc = 0, !.out = o]
    BY <1>6 DEF PROTO_ParseByte, ESC, BEGIN, END, Reserved
  <2> HIDE DEF o
  <2> QED BY <2>2, <2>3
<1> QED BY <1>2, <1>3, <1>4, <1>5, <1>6 DEF Reserved

(* Which byte sets, clears and keeps isBegin. *)
LEMMA ParseByteBegin ==
  ASSUME NEW ps \in [isEsc : {0, 1}, isBegin : {0, 1}, out : Seq(Byte)],
         NEW v \in Byte
  PROVE  /\ v = BEGIN => PROTO_ParseByte(ps, v).isBegin = 1
         /\ v \notin {BEGIN, END} =>
              PROTO_ParseByte(ps, v).isBegin = ps.isBegin
  BY DEF PROTO_ParseByte, ESC, BEGIN, END, Reserved

-----------------------------------------------------------------------------

(* One byte stored by PROTO_AddRb keeps the frames in the ring apart: the  *)
(* byte after an END, and only that one, is a BEGIN.                       *)
LEMMA StoreKeepsFrames ==
  ASSUME IInv, call = "Puts", ~RINGBUF_Full, RINGBUF_Put(NextByte)
  PROVE  /\ \A i \in 1 .. rb'.fill_cnt - 1 :
              buf'[Pos(rb'.p_r + i)] = BEGIN <=> buf'[Pos(rb'.p_r + (i - 1))] = END
         /\ buf'[Pos(rb'.p_r + 0)] = BEGIN
         /\ last.fill_cnt > 0 => buf'[Pos(rb'.p_r + (last.fill_cnt - 1))] = END
         /\ \A i \in last.fill_cnt .. rb.fill_cnt - 1 : buf'[Pos(rb'.p_r + i)] # END
         /\ buf'[Pos(rb'.p_r + rb.fill_cnt)] = NextByte
<1> USE QueueAssumption
<1> DEFINE D(i) == buf'[Pos(rb'.p_r + i)]
<1>1. /\ NextByte \in Byte
      /\ NextByte = BEGIN <=> stage = "begin"
      /\ NextByte = END <=> stage = "body" /\ pk = <<>>
  BY NextByteKind DEF IInv
<1>2. /\ rb'.p_r = rb.p_r
      /\ rb'.fill_cnt = rb.fill_cnt + 1
      /\ \A i \in 0 .. rb.fill_cnt - 1 : D(i) = Cell(i)
      /\ D(rb.fill_cnt) = NextByte
  <2>1. TypeOK /\ CursorsAgree
    BY DEF IInv
  <2> QED BY <1>1, <2>1, PutAppends DEF Cell
<1>3. /\ rb.fill_cnt \in Nat /\ last.fill_cnt \in Nat
      /\ last.fill_cnt <= rb.fill_cnt
      /\ \A i \in 1 .. rb.fill_cnt - 1 : Cell(i) = BEGIN <=> Cell(i - 1) = END
      /\ rb.fill_cnt > 0 => Cell(0) = BEGIN
      /\ last.fill_cnt > 0 => Cell(last.fill_cnt - 1) = END
      /\ \A i \in last.fill_cnt .. rb.fill_cnt - 1 : Cell(i) # END
      /\ stage = "begin" <=> rb.fill_cnt = last.fill_cnt
  BY DEF IInv, TypeOK, Cursors, CursorsAgree, WellFramed
<1> HIDE DEF D
<1>4. ASSUME NEW i \in 1 .. rb'.fill_cnt - 1
      PROVE  D(i) = BEGIN <=> D(i - 1) = END
  <2>1. CASE i < rb.fill_cnt
    BY <1>2, <1>3, <2>1
  <2>2. CASE i = rb.fill_cnt
    <3>1. D(i - 1) = Cell(i - 1) /\ D(i) = NextByte
      BY <1>2, <1>3, <2>2
    <3>2. CASE stage = "begin"
      BY <1>1, <1>3, <2>2, <3>1, <3>2
    <3>3. CASE stage # "begin"
      BY <1>1, <1>3, <2>2, <3>1, <3>3
    <3> QED BY <3>2, <3>3
  <2> QED BY <1>2, <1>3, <2>1, <2>2
<1>5. D(0) = BEGIN
  <2>1. CASE rb.fill_cnt = 0
    BY <1>1, <1>2, <1>3, <2>1
  <2>2. CASE rb.fill_cnt > 0
    BY <1>2, <1>3, <2>2
  <2> QED BY <1>3, <2>1, <2>2
<1>6. last.fill_cnt > 0 => D(last.fill_cnt - 1) = END
  BY <1>2, <1>3
<1>7. \A i \in last.fill_cnt .. rb.fill_cnt - 1 : D(i) # END
  BY <1>2, <1>3
<1> QED BY <1>2, <1>4, <1>5, <1>6, <1>7 DEF D

(* The initial state, an empty ring, satisfies the inductive invariant. *)
LEMMA InitIInv == Init => IInv
<1> USE QueueAssumption
<1> SUFFICES ASSUME Init PROVE IInv
  OBVIOUS
<1>1. TypeOK
  BY DEF Init, QUEUE_Init, TypeOK, Cursors, Byte
<1>2. rb.fill_cnt = 0 /\ rb.p_r = 0 /\ rb.p_w = 0 /\ last = rb /\ call = "none"
  BY DEF Init, QUEUE_Init
<1>3. CursorsAgree
  BY <1>2 DEF CursorsAgree, Pos
<1>4. EscapePending
  BY DEF Init, EscapePending
<1>5. WellFramed /\ GetsFindsFrame
  BY <1>2 DEF WellFramed, GetsFindsFrame
<1> QED BY <1>1, <1>3, <1>4, <1>5 DEF IInv

(* Every step of the queue preserves the inductive invariant. *)
LEMMA NextIInv == IInv /\ [Next]_vars => IInv'
<1> USE QueueAssumption
<1> SUFFICES ASSUME IInv, [Next]_vars PROVE IInv'
  OBVIOUS
<1> USE DEF IInv
<1>1. CASE PutsStart
  <2>1. TypeOK'
    <3>1. \A p \in Packets : p \in Seq(Byte)
      OBVIOUS
    <3> QED BY <1>1, <3>1 DEF PutsStart, TypeOK
  <2>2. CursorsAgree'
    BY <1>1 DEF PutsStart, TypeOK, Cursors, CursorsAgree, Pos
  <2>3. EscapePending'
    BY <1>1 DEF PutsStart, EscapePending
  <2>4. WellFramed'
    BY <1>1 DEF PutsStart, TypeOK, Cursors, WellFramed, Cell, Pos
  <2>5. GetsFindsFrame'
    BY <1>1 DEF PutsStart, GetsFindsFrame
  <2> QED BY <2>1, <2>2, <2>3, <2>4, <2>5
<1>2. CASE PutsByte
  <2>1. /\ call = "Puts" /\ call' = "Puts" /\ ~RINGBUF_Full
        /\ RINGBUF_Put(NextByte)
        /\ UNCHANGED <<last, parser, ret, packet, fill0>>
        /\ ~(stage = "body" /\ pk = <<>>)
    BY <1>2 DEF PutsByte
  <2>2. NextByte \in Byte /\ NextByte # END
    BY <2>1, NextByteKind
  <2>3. /\ buf' \in [0 .. Size - 1 -> Byte]
        /\ rb' \in Cursors
        /\ rb'.p_r = rb.p_r
        /\ rb'.fill_cnt = rb.fill_cnt + 1
        /\ rb'.p_w = Pos(rb'.p_r + rb'.fill_cnt)
    BY <2>1, <2>2, PutAppends
  <2>4. /\ pk' \in Seq(Byte)
        /\ stage' \in {"body", "escaped"}
        /\ EscapePending'
    <3>1. pk \in Seq(Byte) /\ stage \in {"begin", "body", "escaped"}
      BY DEF TypeOK
    <3>2. CASE stage = "body" /\ Head(pk) \in Reserved
      BY <1>2, <2>1, <3>1, <3>2 DEF PutsByte, Advance, EscapePending
    <3>3. CASE ~(stage = "body" /\ Head(pk) \in Reserved)
      <4>1. stage' = "body" /\ pk' = IF stage = "begin" THEN pk ELSE Tail(pk)
        BY <1>2, <3>3 DEF PutsByte, Advance
      <4>2. stage # "begin" => pk # <<>>
        BY <2>1, <3>1 DEF EscapePending
      <4> QED BY <3>1, <4>1, <4>2 DEF EscapePending
    <3> QED BY <3>2, <3>3
  <2>5. TypeOK'
    BY <2>1, <2>3, <2>4 DEF TypeOK
  <2>6. CursorsAgree'
    BY <2>1, <2>3 DEF TypeOK, Cursors, CursorsAgree, Pos
  <2>7. WellFramed'
    <3>1. /\ rb.fill_cnt \in Nat /\ last.fill_cnt \in Nat
          /\ last.fill_cnt <= rb.fill_cnt
          /\ last' = last
      BY <2>1 DEF TypeOK, Cursors, CursorsAgree
    <3> QED BY <2>1, <2>2, <2>3, <2>4, <3>1, StoreKeepsFrames DEF WellFramed, Cell
  <2>8. GetsFindsFrame'
    BY <2>1 DEF GetsFindsFrame
  <2> QED BY <2>4, <2>5, <2>6, <2>7, <2>8
<1>3. CASE PutsDone
  <2>1. /\ call = "Puts" /\ call' = "none" /\ ~RINGBUF_Full
        /\ RINGBUF_Put(NextByte)
        /\ stage = "body" /\ pk = <<>>
        /\ ret' = "ok" /\ stage' = "begin"
        /\ UNCHANGED <<last, pk, parser, packet, fill0>>
    BY <1>3 DEF PutsDone
  <2>2. NextByte \in Byte /\ NextByte = END
    BY <2>1, NextByteKind
  <2>3. /\ buf' \in [0 .. Size - 1 -> Byte]
        /\ rb' \in Cursors
        /\ rb'.p_r = rb.p_r
        /\ rb'.fill_cnt = rb.fill_cnt + 1
        /\ rb'.p_w = Pos(rb'.p_r + rb'.fill_cnt)
    BY <2>1, <2>2, PutAppends
  <2>4. TypeOK'
    BY <2>1, <2>3 DEF TypeOK
  <2>5. CursorsAgree'
    BY <2>1, <2>3 DEF TypeOK, Cursors, CursorsAgree, Pos
  <2>6. EscapePending'
    BY <2>1 DEF EscapePending
  <2>7. WellFramed'
    <3>1. rb.fill_cnt \in Nat
      BY DEF TypeOK, Cursors
    <3> QED BY <2>1, <2>2, <2>3, <3>1, StoreKeepsFrames DEF WellFramed, Cell
  <2>8. GetsFindsFrame'
    BY <2>1 DEF GetsFindsFrame
  <2> QED BY <2>4, <2>5, <2>6, <2>7, <2>8
<1>4. CASE PutsFull
  <2>1. TypeOK'
    BY <1>4 DEF PutsFull, TypeOK
  <2>2. CursorsAgree'
    BY <1>4 DEF PutsFull, CursorsAgree
  <2>3. EscapePending'
    BY <1>4 DEF PutsFull, EscapePending
  <2>4. WellFramed'
    <3>1. /\ rb.fill_cnt \in Nat /\ last.fill_cnt \in Nat
          /\ last.fill_cnt <= rb.fill_cnt /\ last.p_r = rb.p_r
          /\ rb' = last /\ buf' = buf /\ call = "Puts" /\ call' = "none"
      BY <1>4 DEF PutsFull, TypeOK, Cursors, CursorsAgree
    <3> QED BY <3>1, SMTT(60) DEF WellFramed, Cell
  <2>5. GetsFindsFrame'
    BY <1>4 DEF PutsFull, GetsFindsFrame
  <2> QED BY <2>1, <2>2, <2>3, <2>4, <2>5
<1>5. CASE GetsStart
  <2>1. TypeOK'
    BY <1>5 DEF GetsStart, PROTO_Init, TypeOK, Cursors
  <2>2. CursorsAgree' /\ EscapePending'
    BY <1>5 DEF GetsStart, CursorsAgree, EscapePending
  <2>3. WellFramed'
    BY <1>5 DEF GetsStart, WellFramed, Cell
  <2>4. GetsFindsFrame'
    BY <1>5 DEF GetsStart, GetsFindsFrame, WellFramed, Cell
  <2> QED BY <2>1, <2>2, <2>3, <2>4
<1>6. CASE GetsByte
  <2> DEFINE v == buf[rb.p_r]
  <2>1. /\ call = "Gets" /\ ~RINGBUF_Empty /\ RINGBUF_Get
        /\ parser' = PROTO_ParseByte(parser, v)
        /\ IF v = END THEN call' = "none" /\ ret' = "ok" /\ packet' = parser.out
                      ELSE UNCHANGED <<call, ret, packet>>
        /\ UNCHANGED <<last, pk, stage, fill0>>
    BY <1>6 DEF GetsByte
  <2>2. /\ buf' = buf
        /\ rb' \in Cursors
        /\ rb'.fill_cnt = rb.fill_cnt - 1
        /\ rb'.p_w = Pos(rb'.p_r + rb'.fill_cnt)
        /\ v = Cell(0)
        /\ \A i \in 0 .. rb.fill_cnt - 2 : buf'[Pos(rb'.p_r + i)] = Cell(i + 1)
    BY <2>1, GetShifts
  <2>3. v \in Byte /\ rb.fill_cnt \in Nat /\ rb.fill_cnt > 0
    BY <2>1 DEF TypeOK, Cursors, RINGBUF_Empty
  <2>4. parser \in [isEsc : {0, 1}, isBegin : {0, 1}, out : Seq(Byte)]
    BY DEF TypeOK
  <2> HIDE DEF v
  <2>5. TypeOK'
    <3>1. parser' \in [isEsc : {0, 1}, isBegin : {0, 1}, out : Seq(Byte)]
      BY <2>1, <2>3, <2>4, ParseByteType
    <3>2. /\ ret' \in {"none", "ok", "fail"}
          /\ packet' \in Seq(Byte)
          /\ call' \in {"none", "Puts", "Gets"}
      BY <2>1, <2>4 DEF TypeOK
    <3> QED BY <2>1, <2>2, <3>1, <3>2 DEF TypeOK
  <2>6. CursorsAgree' /\ EscapePending'
    BY <2>1, <2>2 DEF CursorsAgree, EscapePending
  <2>7. WellFramed'
    <3>1. /\ \A i \in 1 .. rb.fill_cnt - 1 : Cell(i) = BEGIN <=> Cell(i - 1) = END
          /\ Cell(rb.fill_cnt - 1) = END
      BY <2>1, <2>3 DEF WellFramed
    <3>2. \A i \in 1 .. rb'.fill_cnt - 1 :
            buf'[Pos(rb'.p_r + i)] = BEGIN <=> buf'[Pos(rb'.p_r + (i - 1))] = END
      <4> TAKE i \in 1 .. rb'.fill_cnt - 1
      <4>1. /\ buf'[Pos(rb'.p_r + i)] = Cell(i + 1)
            /\ buf'[Pos(rb'.p_r + (i - 1))] = Cell(i)
        BY <2>2, <2>3
      <4>2. Cell(i + 1) = BEGIN <=> Cell(i) = END
        BY <2>2, <2>3, <3>1
      <4> QED BY <4>1, <4>2
    <3>3. call' # "Gets" /\ rb'.fill_cnt > 0 => buf'[Pos(rb'.p_r + 0)] = BEGIN
      <4> HAVE call' # "Gets" /\ rb'.fill_cnt > 0
      <4>1. Cell(0) = END /\ buf'[Pos(rb'.p_r + 0)] = Cell(1)
        BY <2>1, <2>2, <2>3
      <4> QED BY <2>2, <2>3, <3>1, <4>1
    <3>4. rb'.fill_cnt > 0 => buf'[Pos(rb'.p_r + (rb'.fill_cnt - 1))] = END
      BY <2>2, <2>3, <3>1
    <3>5. call' # "Puts"
      BY <2>1
    <3> QED BY <3>2, <3>3, <3>4, <3>5 DEF WellFramed, Cell
  <2>8. GetsFindsFrame'
    <3> SUFFICES ASSUME call' = "Gets"
                 PROVE  /\ rb'.fill_cnt = 0 => fill0' = 0
                        /\ rb'.fill_cnt > 0 => parser'.isBegin = 1
      BY DEF GetsFindsFrame
    <3>1. Cell(0) # END
      BY <2>1, <2>2
    <3>2. rb'.fill_cnt > 0
      BY <2>1, <2>2, <2>3, <3>1 DEF WellFramed
    <3>3. Cell(0) = BEGIN \/ parser.isBegin = 1
      BY <2>1, <2>3 DEF GetsFindsFrame
    <3>4. parser'.isBegin = 1
      BY <2>1, <2>2, <2>3, <2>4, <3>1, <3>3, ParseByteBegin
    <3> QED BY <3>2, <3>4
  <2> QED BY <2>5, <2>6, <2>7, <2>8
<1>7. CASE GetsEmpty
  <2>1. TypeOK' /\ CursorsAgree' /\ EscapePending'
    BY <1>7 DEF GetsEmpty, TypeOK, CursorsAgree, EscapePending
  <2>2. WellFramed'
    BY <1>7 DEF GetsEmpty, RINGBUF_Empty, WellFramed, Cell, TypeOK, Cursors
  <2>3. GetsFindsFrame'
    BY <1>7 DEF GetsEmpty, GetsFindsFrame
  <2> QED BY <2>1, <2>2, <2>3
<1>8. CASE UNCHANGED vars
  BY <1>8 DEF vars, TypeOK, CursorsAgree, EscapePending, WellFramed,
              GetsFindsFrame, Cell
<1> QED BY <1>1, <1>2, <1>3, <1>4, <1>5, <1>6, <1>7, <1>8 DEF Next

(* The inductive invariant holds in every reachable state. *)
LEMMA Invariance == Spec => []IInv
  BY InitIInv, NextIInv, PTL DEF Spec

-----------------------------------------------------------------------------

(* For every ring size and every set of packets, the cursors and the count *)
(* of ringbuf.c stay inside the ring, also in the middle of an operation.  *)
THEOREM TypeCorrect == Spec => []TypeOK
<1>1. IInv => TypeOK
  BY DEF IInv
<1> QED BY <1>1, Invariance, PTL

(* p_r, p_w and fill_cnt always describe the same bytes, and the cursors   *)
(* QUEUE_Puts saved describe a prefix of them.                             *)
THEOREM CursorsAlwaysAgree == Spec => []CursorsAgree
<1>1. IInv => CursorsAgree
  BY DEF IInv
<1> QED BY <1>1, Invariance, PTL

(* The ring holds whole frames between operations: every BEGIN follows an  *)
(* END, and a failed or interrupted QUEUE_Puts leaves no torn frame.       *)
THEOREM FramesStayWhole == Spec => []WellFramed
<1>1. IInv => WellFramed
  BY DEF IInv
<1> QED BY <1>1, Invariance, PTL

(* QUEUE_Gets never depends on the isBegin flag that PROTO_Init leaves     *)
(* uninitialised, and fails only on a queue that was empty.                *)
THEOREM GetsAlwaysFindsFrame == Spec => []GetsFindsFrame
<1>1. IInv => GetsFindsFrame
  BY DEF IInv
<1> QED BY <1>1, Invariance, PTL

(* No step of QUEUE_Puts changes a byte queued before it, and its          *)
(* roll-back restores the ring exactly.                                    *)
THEOREM QueuedBytesKept == Spec => PutsKeepsQueued
<1> DEFINE Kept == call = "Puts" =>
       /\ rb'.p_r = last.p_r
       /\ \A i \in 0 .. last.fill_cnt - 1 :
            buf'[Pos(last.p_r + i)] = buf[Pos(last.p_r + i)]
       /\ ret' = "fail" /\ call' = "none" => rb'.fill_cnt = last.fill_cnt
<1>1. IInv /\ [Next]_vars => [Kept]_vars
  <2> SUFFICES ASSUME IInv, Next, call = "Puts" PROVE Kept
    BY DEF Kept
  <2>1. /\ rb.fill_cnt \in Nat /\ last.fill_cnt \in Nat
        /\ last.p_r = rb.p_r /\ last.fill_cnt <= rb.fill_cnt
    BY DEF IInv, TypeOK, Cursors, CursorsAgree
  <2>2. ASSUME ~RINGBUF_Full, RINGBUF_Put(NextByte)
        PROVE  /\ rb'.p_r = last.p_r
               /\ \A i \in 0 .. last.fill_cnt - 1 :
                    buf'[Pos(last.p_r + i)] = buf[Pos(last.p_r + i)]
    <3>1. NextByte \in Byte
      BY NextByteKind DEF IInv
    <3> QED BY <2>1, <2>2, <3>1, PutAppends DEF IInv
  <2>3. CASE PutsByte
    BY <2>2, <2>3 DEF PutsByte
  <2>4. CASE PutsDone
    BY <2>2, <2>4 DEF PutsDone
  <2>5. CASE PutsFull
    BY <2>1, <2>5 DEF PutsFull
  <2> QED BY <2>3, <2>4, <2>5
          DEF Next, PutsStart, GetsStart, GetsByte, GetsEmpty
<1>2. Spec => [][Kept]_vars
  BY <1>1, Invariance, PTL DEF Spec
<1> QED BY <1>2 DEF PutsKeepsQueued

-----------------------------------------------------------------------------
(* The refinement of PacketFifo.  What frames take in the ring.            *)

(* The places of a packet's reserved bytes. *)
ReservedAt(p) == {i \in DOMAIN p : p[i] \in 125 .. 127}

(* They are finitely many, so that a frame has a length. *)
LEMMA FrameLengthType ==
  ASSUME NEW p \in Seq(Byte)
  PROVE  /\ IsFiniteSet(ReservedAt(p)) /\ Cardinality(ReservedAt(p)) \in Nat
         /\ Fifo!FrameLength(p) = 2 + Len(p) + Cardinality(ReservedAt(p))
         /\ Fifo!FrameLength(p) \in Nat /\ Fifo!FrameLength(p) >= 2 + Len(p)
<1>1. Len(p) \in Nat /\ DOMAIN p = 1 .. Len(p)
  OBVIOUS
<1>2. IsFiniteSet(1 .. Len(p))
  BY <1>1, FS_Interval
<1>3. IsFiniteSet(ReservedAt(p))
  BY <1>1, <1>2, FS_Subset DEF ReservedAt
<1>4. Cardinality(ReservedAt(p)) \in Nat
  BY <1>3, FS_CardinalityType
<1>5. Fifo!FrameLength(p) = 2 + Len(p) + Cardinality(ReservedAt(p))
  BY DEF Fifo!FrameLength, ReservedAt, Fifo!Cardinality, Cardinality
<1> QED
  BY <1>1, <1>3, <1>4, <1>5

(* The frame of no bytes is its two marks. *)
LEMMA FrameLengthEmpty == Fifo!FrameLength(<<>>) = 2
<1>1. ReservedAt(<<>>) = {}
  BY DEF ReservedAt
<1>2. Cardinality(ReservedAt(<<>>)) = 0
  BY <1>1, FS_EmptySet
<1>3. <<>> \in Seq(Byte) /\ Len(<<>>) = 0
  OBVIOUS
<1>4. Fifo!FrameLength(<<>>) = 2 + Len(<<>>) + Cardinality(ReservedAt(<<>>))
  BY <1>3, FrameLengthType
<1> QED
  BY <1>2, <1>3, <1>4

(* A byte adds one byte to the frame, a reserved one two. *)
LEMMA FrameLengthAppend ==
  ASSUME NEW p \in Seq(Byte), NEW b \in Byte
  PROVE  Fifo!FrameLength(Append(p, b)) =
           Fifo!FrameLength(p) + (IF b \in Reserved THEN 2 ELSE 1)
<1>1. PICK q, n : q = Append(p, b) /\ n = Len(p)
  OBVIOUS
<1>2. /\ q \in Seq(Byte) /\ Len(q) = n + 1 /\ q[n + 1] = b /\ n \in Nat
      /\ \A i \in 1 .. n : q[i] = p[i]
      /\ DOMAIN q = 1 .. n + 1 /\ DOMAIN p = 1 .. n
  BY <1>1, AppendProperties
<1>3. b \in Reserved <=> b \in 125 .. 127
  BY DEF Reserved, ESC, BEGIN, END, Byte
<1>4. n + 1 \notin ReservedAt(p)
  BY <1>2 DEF ReservedAt
<1>7. PICK cp, cq : cp \in Nat /\ cp = Cardinality(ReservedAt(p))
                    /\ cq = Cardinality(ReservedAt(q))
  BY FrameLengthType
<1>8. Fifo!FrameLength(p) = 2 + n + cp /\ Fifo!FrameLength(q) = 2 + (n + 1) + cq
  BY <1>1, <1>2, <1>7, FrameLengthType
<1>5. CASE b \in Reserved
  <2>1. ReservedAt(q) = ReservedAt(p) \cup {n + 1}
    BY <1>2, <1>3, <1>5 DEF ReservedAt
  <2>2. Cardinality(ReservedAt(q)) = Cardinality(ReservedAt(p)) + 1
    BY <1>4, <2>1, FrameLengthType, FS_AddElement
  <2> QED
    BY <1>1, <1>2, <1>5, <1>7, <1>8, <2>2
<1>6. CASE b \notin Reserved
  <2>1. ReservedAt(q) = ReservedAt(p)
    BY <1>2, <1>3, <1>6 DEF ReservedAt
  <2> QED
    BY <1>1, <1>2, <1>6, <1>7, <1>8, <2>1
<1> QED
  BY <1>5, <1>6

(* A packet's frame is longer than what it has of the packet's beginning,  *)
(* and longer by two bytes where the next byte is reserved.                *)
LEMMA FrameLengthPrefix ==
  ASSUME NEW p \in Seq(Byte), NEW s \in Seq(Byte), NEW r \in Seq(Byte), p = s \o r
  PROVE  /\ Fifo!FrameLength(s) <= Fifo!FrameLength(p)
         /\ r # <<>> /\ Head(r) \in Reserved =>
              Fifo!FrameLength(s) + 2 <= Fifo!FrameLength(p)
<1>1. PICK n, m : n = Len(s) /\ m = Len(r)
  OBVIOUS
<1>2. /\ n \in Nat /\ m \in Nat /\ Len(p) = n + m
      /\ \A i \in 1 .. n : p[i] = s[i]
      /\ \A i \in 1 .. m : p[n + i] = r[i]
      /\ DOMAIN p = 1 .. n + m /\ DOMAIN s = 1 .. n
  BY <1>1, ConcatIndex
<1>3. ReservedAt(s) \subseteq ReservedAt(p)
  BY <1>2 DEF ReservedAt
<1>4. Cardinality(ReservedAt(s)) <= Cardinality(ReservedAt(p))
  BY <1>3, FrameLengthType, FS_Subset
<1>5. PICK cs \in Nat, cp \in Nat :
        cs = Cardinality(ReservedAt(s)) /\ cp = Cardinality(ReservedAt(p))
  BY FrameLengthType
<1>6. /\ Fifo!FrameLength(s) = 2 + n + cs
      /\ Fifo!FrameLength(p) = 2 + (n + m) + cp
  BY <1>1, <1>2, <1>5, FrameLengthType
<1>7. Fifo!FrameLength(s) <= Fifo!FrameLength(p)
  <2>1. cs <= cp
    BY <1>4, <1>5
  <2> QED
    BY <1>2, <1>6, <2>1
<1>8. ASSUME r # <<>>, Head(r) \in Reserved
      PROVE  m >= 1 /\ cs + 1 <= cp
  <2>1. m >= 1 /\ r[1] = Head(r)
    BY <1>1, <1>2, <1>8, EmptySeq
  <2>2. p[n + 1] \in 125 .. 127 /\ n + 1 \in DOMAIN p
    BY <1>2, <1>8, <2>1 DEF Reserved, ESC, BEGIN, END
  <2>3. ReservedAt(s) \cup {n + 1} \subseteq ReservedAt(p)
    BY <1>3, <2>2 DEF ReservedAt
  <2>4. n + 1 \notin ReservedAt(s)
    BY <1>2 DEF ReservedAt
  <2>5. Cardinality(ReservedAt(s) \cup {n + 1}) = Cardinality(ReservedAt(s)) + 1
    BY <2>4, FrameLengthType, FS_AddElement
  <2>6. Cardinality(ReservedAt(s) \cup {n + 1}) <= Cardinality(ReservedAt(p))
    BY <2>3, FrameLengthType, FS_Subset
  <2> QED
    BY <1>5, <2>1, <2>5, <2>6
<1> QED
  BY <1>2, <1>5, <1>6, <1>7, <1>8, SMTT(60)

(* What the frames of the packets of q take. *)
Frames(q) == [i \in 1 .. Len(q) |-> Fifo!FrameLength(q[i])]

(* f counts the bytes of the first n packets of q, for every n up to k. *)
CountsTo(f, q, k) ==
  f = [n \in 0 .. k |-> IF n = 0 THEN 0 ELSE f[n - 1] + Fifo!FrameLength(q[n])]

(* The same, value by value. *)
Counts(f, q) ==
  /\ Totals(f, Frames(q), Len(q))
  /\ f[0] = 0
  /\ \A n \in 1 .. Len(q) : f[n] = f[n - 1] + Fifo!FrameLength(q[n])
  /\ \A n \in 0 .. Len(q) : f[n] \in Nat

(* Used is its last value. *)
LEMMA UsedCounts ==
  ASSUME NEW q \in Seq(Seq(Byte))
  PROVE  \E f : Counts(f, q) /\ Fifo!Used(q) = f[Len(q)]
<1>1. PICK w, k : w = Frames(q) /\ k = Len(q)
  OBVIOUS
<1>2. k \in Nat /\ \A n \in 1 .. k : w[n] = Fifo!FrameLength(q[n]) /\ w[n] \in Nat
  <2>1. \A n \in 1 .. k : q[n] \in Seq(Byte)
    BY <1>1
  <2>2. \A n \in 1 .. k : w[n] = Fifo!FrameLength(q[n])
    BY <1>1 DEF Frames
  <2> QED BY <1>1, <2>1, <2>2, FrameLengthType, SMTT(60)
<1>3. ASSUME NEW f PROVE IsTotal(f, w, k) <=> CountsTo(f, q, k)
  <2>1. \A n \in 0 .. k : n # 0 => n \in 1 .. k
    BY <1>2
  <2>2. [n \in 0 .. k |-> IF n = 0 THEN 0 ELSE f[n - 1] + w[n]] =
          [n \in 0 .. k |-> IF n = 0 THEN 0 ELSE f[n - 1] + Fifo!FrameLength(q[n])]
    BY <1>2, <2>1
  <2> QED BY <2>2 DEF IsTotal, CountsTo
<1> DEFINE f == CHOOSE f : CountsTo(f, q, Len(q))
<1>4. CountsTo(f, q, Len(q))
  <2>1. \E g : IsTotal(g, w, k)
    BY <1>2, TotalExists
  <2>2. \E g : CountsTo(g, q, Len(q))
    BY <1>1, <1>3, <2>1
  <2> QED BY <2>2
<1>5. Fifo!Used(q) = f[Len(q)]
  BY DEF Fifo!Used, CountsTo
<1> HIDE DEF f
<1>6. Totals(f, w, k)
  BY <1>1, <1>2, <1>3, <1>4, TotalSteps
<1> QED BY <1>1, <1>2, <1>5, <1>6 DEF Counts, Totals

(* q is in r, behind the first d elements. *)
Within(q, r, d) ==
  d \in Nat /\ d + Len(q) <= Len(r) /\ \A i \in 1 .. Len(q) : r[d + i] = q[i]

(* Counting goes on behind the first d packets of r as it starts on q. *)
LEMMA CountsOn ==
  ASSUME NEW q \in Seq(Seq(Byte)), NEW r \in Seq(Seq(Byte)), NEW d,
         Within(q, r, d), NEW f, Counts(f, q), NEW g, Counts(g, r)
  PROVE  \A n \in 0 .. Len(q) : g[d + n] = g[d] + f[n]
<1>1. PICK v, k, w, l : v = Frames(q) /\ k = Len(q) /\ w = Frames(r) /\ l = Len(r)
  OBVIOUS
<1>2. /\ d \in Nat /\ k \in Nat /\ l \in Nat /\ d + k <= l
      /\ \A i \in 1 .. k : r[d + i] = q[i]
  BY <1>1 DEF Within
<1>3. \A i \in 1 .. k : w[d + i] = v[i]
  <2>1. \A i \in 1 .. k : d + i \in 1 .. l
    BY <1>2
  <2> QED BY <1>1, <1>2, <2>1 DEF Frames
<1>4. From(v, k, w, l, d) /\ Totals(f, v, k) /\ Totals(g, w, l)
  BY <1>1, <1>2, <1>3 DEF From, Counts
<1> QED BY <1>1, <1>4, TotalsOn

(* One sequence behind another. *)
Joined(q, r) == q \o r

(* A packet at the end, and one at the front, takes its frame's bytes. *)
LEMMA UsedMore ==
  ASSUME NEW q \in Seq(Seq(Byte)), NEW p \in Seq(Byte)
  PROVE  /\ Fifo!Used(q) \in Nat
         /\ Fifo!Used(Append(q, p)) = Fifo!Used(q) + Fifo!FrameLength(p)
         /\ Fifo!Used(Joined(<<p>>, q)) = Fifo!FrameLength(p) + Fifo!Used(q)
<1>1. PICK f : Counts(f, q) /\ Fifo!Used(q) = f[Len(q)]
  BY UsedCounts
<1>2. PICK k \in Nat : k = Len(q)
  OBVIOUS
<1>3. Fifo!Used(q) \in Nat /\ k \in 0 .. k /\ Fifo!FrameLength(p) \in Nat
  BY <1>1, <1>2, FrameLengthType DEF Counts
<1>4. Fifo!Used(Append(q, p)) = Fifo!Used(q) + Fifo!FrameLength(p)
  <2>1. PICK r : r = Append(q, p)
    OBVIOUS
  <2>2. /\ r \in Seq(Seq(Byte)) /\ Len(r) = k + 1 /\ r[k + 1] = p
        /\ \A i \in 1 .. k : r[0 + i] = q[i]
    BY <1>2, <2>1, AppendProperties
  <2>3. PICK g : Counts(g, r) /\ Fifo!Used(r) = g[Len(r)]
    BY <2>2, UsedCounts
  <2>4. Within(q, r, 0) /\ 0 + k = k /\ (k + 1) - 1 = k /\ k + 1 \in 1 .. k + 1
    BY <1>2, <2>2 DEF Within
  <2>5. \A n \in 0 .. Len(q) : g[0 + n] = g[0] + f[n]
    BY <1>1, <1>2, <2>2, <2>3, <2>4, CountsOn
  <2>6. g[k] = 0 + f[k]
    BY <1>2, <1>3, <2>3, <2>4, <2>5 DEF Counts
  <2>7. g[k + 1] = g[k] + Fifo!FrameLength(p)
    BY <2>2, <2>3, <2>4 DEF Counts
  <2> QED BY <1>1, <1>2, <1>3, <2>1, <2>2, <2>3, <2>6, <2>7
<1>5. Fifo!Used(Joined(<<p>>, q)) = Fifo!FrameLength(p) + Fifo!Used(q)
  <2>1. PICK r : r = Joined(<<p>>, q)
    OBVIOUS
  <2>2. /\ r \in Seq(Seq(Byte)) /\ Len(r) = 1 + k /\ r[1] = p
        /\ \A i \in 1 .. k : r[1 + i] = q[i]
    <3>1. <<p>> \in Seq(Seq(Byte)) /\ Len(<<p>>) = 1 /\ <<p>>[1] = p /\ 1 \in 1 .. 1
      OBVIOUS
    <3> QED BY <1>2, <2>1, <3>1, ConcatIndex DEF Joined
  <2>3. PICK g : Counts(g, r) /\ Fifo!Used(r) = g[Len(r)]
    BY <2>2, UsedCounts
  <2>4. Within(q, r, 1) /\ 1 \in 0 .. Len(r) /\ 1 \in 1 .. Len(r) /\ 1 - 1 = 0
    BY <1>2, <2>2 DEF Within
  <2>5. g[1] = 0 + Fifo!FrameLength(p) /\ g[1] \in Nat
    BY <2>2, <2>3, <2>4 DEF Counts
  <2>6. \A n \in 0 .. Len(q) : g[1 + n] = g[1] + f[n]
    BY <1>1, <1>2, <2>2, <2>3, <2>4, CountsOn
  <2>7. g[1 + k] = g[1] + f[k]
    BY <1>2, <1>3, <2>6
  <2>8. PICK x, y : x = f[k] /\ y = Fifo!FrameLength(p)
    OBVIOUS
  <2>9. g[1] = y /\ x \in Nat /\ y \in Nat
    <3>1. y \in Nat /\ g[1] = 0 + y
      BY <1>3, <2>5, <2>8
    <3>2. x \in Nat
      BY <1>1, <1>2, <1>3, <2>8
    <3>3. 0 + y = y
      BY ONLY <3>1
    <3> QED BY <3>1, <3>2, <3>3
  <2>10. Fifo!Used(r) = y + x
    BY <2>2, <2>3, <2>7, <2>8, <2>9
  <2> QED BY <1>1, <1>2, <2>1, <2>8, <2>10
<1> QED
  BY <1>3, <1>4, <1>5

-----------------------------------------------------------------------------
(* The packets a reader finds in a sequence of bytes. *)

Parser == [isEsc : {0, 1}, isBegin : {0, 1}, out : Seq(Byte)]

(* f is what a reader that starts as ps has found after each number of     *)
(* bytes up to k.                                                          *)
ParsesTo(f, ps, bytes, k) ==
  f = [n \in 0 .. k |->
         IF n = 0 THEN [ps |-> ps, pkts |-> <<>>] ELSE Decode(f[n - 1], bytes[n])]

(* One byte of it. *)
LEMMA ParsesStep ==
  ASSUME NEW ps, NEW bytes, NEW k \in Nat, NEW f, ParsesTo(f, ps, bytes, k),
         NEW n \in 0 .. k
  PROVE  f[n] = IF n = 0 THEN [ps |-> ps, pkts |-> <<>>] ELSE Decode(f[n - 1], bytes[n])
  BY DEF ParsesTo

(* Nothing is read of no bytes. *)
LEMMA ParsesFirst ==
  ASSUME NEW ps, NEW bytes, NEW k \in Nat, NEW f, ParsesTo(f, ps, bytes, k)
  PROVE  f[0] = [ps |-> ps, pkts |-> <<>>]
<1>1. 0 \in 0 .. k
  OBVIOUS
<1> QED BY <1>1 DEF ParsesTo

(* There is such a function. *)
LEMMA ParsesExist ==
  ASSUME NEW ps, NEW bytes
  PROVE  \A k \in Nat : \E f : ParsesTo(f, ps, bytes, k)
<1> DEFINE T == {k \in Nat : \E f : ParsesTo(f, ps, bytes, k)}
           first == [ps |-> ps, pkts |-> <<>>]
<1>1. 0 \in T
  <2> DEFINE f == [n \in 0 .. 0 |-> first]
  <2>1. f = [n \in 0 .. 0 |-> IF n = 0 THEN first ELSE Decode(f[n - 1], bytes[n])]
    OBVIOUS
  <2> HIDE DEF f
  <2>2. ParsesTo(f, ps, bytes, 0)
    BY <2>1 DEF ParsesTo
  <2> QED BY <2>2
<1>2. ASSUME NEW k \in Nat, k \in T PROVE k + 1 \in T
  <2>1. PICK f : ParsesTo(f, ps, bytes, k)
    BY <1>2
  <2> DEFINE g == [n \in 0 .. k + 1 |->
                     IF n = k + 1 THEN Decode(f[k], bytes[n]) ELSE f[n]]
  <2> HIDE DEF first
  <2>2. ASSUME NEW n \in 0 .. k + 1
        PROVE  g[n] = IF n = 0 THEN first ELSE Decode(g[n - 1], bytes[n])
    <3>1. CASE n = k + 1
      <4>1. n # 0 /\ n - 1 = k /\ k \in 0 .. k + 1 /\ k # k + 1
        BY <3>1
      <4>2. g[n] = Decode(f[k], bytes[n]) /\ g[n - 1] = f[k]
        BY <3>1, <4>1
      <4> HIDE DEF g
      <4> QED BY <4>1, <4>2
    <3>2. CASE n # k + 1 /\ n # 0
      <4>1. n \in 0 .. k /\ n - 1 \in 0 .. k /\ n - 1 # k + 1 /\ n - 1 \in 0 .. k + 1
        BY <3>2
      <4>2. f[n] = Decode(f[n - 1], bytes[n])
        <5>1. f[n] = IF n = 0 THEN [ps |-> ps, pkts |-> <<>>]
                              ELSE Decode(f[n - 1], bytes[n])
          BY <2>1, <4>1, ParsesStep
        <5> QED BY <3>2, <5>1
      <4>3. g[n] = f[n] /\ g[n - 1] = f[n - 1]
        BY <3>2, <4>1
      <4> HIDE DEF g
      <4> QED BY <3>2, <4>2, <4>3
    <3>3. CASE n = 0
      <4>1. n \in 0 .. k /\ n # k + 1
        BY <3>3
      <4>2. f[n] = first
        <5>1. f[0] = [ps |-> ps, pkts |-> <<>>]
          BY <2>1, ParsesFirst
        <5> QED BY <3>3, <5>1 DEF first
      <4>3. g[n] = f[n]
        BY <4>1
      <4> HIDE DEF g
      <4> QED BY <3>3, <4>2, <4>3
    <3> QED BY <3>1, <3>2, <3>3
  <2>3. g = [n \in 0 .. k + 1 |-> g[n]]
    OBVIOUS
  <2> HIDE DEF g
  <2>4. ParsesTo(g, ps, bytes, k + 1)
    BY <2>2, <2>3 DEF ParsesTo, first
  <2> QED BY <2>4
<1> HIDE DEF T
<1>3. Nat \subseteq T
  BY <1>1, <1>2, NaturalInduction
<1> QED BY <1>3 DEF T

(* Parse, byte by byte. *)
LEMMA ParseStep ==
  ASSUME NEW ps, NEW bytes \in Seq(Byte)
  PROVE  /\ Parse(ps, bytes)[0] = [ps |-> ps, pkts |-> <<>>]
         /\ \A n \in 1 .. Len(bytes) :
              Parse(ps, bytes)[n] = Decode(Parse(ps, bytes)[n - 1], bytes[n])
<1>1. PICK k \in Nat : k = Len(bytes)
  OBVIOUS
<1>2. \E f : ParsesTo(f, ps, bytes, Len(bytes))
  BY <1>1, ParsesExist
<1>3. ParsesTo(Parse(ps, bytes), ps, bytes, Len(bytes))
  BY <1>2 DEF Parse, ParsesTo
<1>4. PICK f : f = Parse(ps, bytes)
  OBVIOUS
<1>5. ParsesTo(f, ps, bytes, k)
  BY <1>1, <1>3, <1>4
<1>6. \A n \in 0 .. k :
        f[n] = IF n = 0 THEN [ps |-> ps, pkts |-> <<>>] ELSE Decode(f[n - 1], bytes[n])
  BY <1>5, ParsesStep
<1>7. 0 \in 0 .. k /\ \A n \in 1 .. k : n \in 0 .. k /\ n # 0
  OBVIOUS
<1> QED BY <1>1, <1>4, <1>6, <1>7

(* One byte, read by a parser that is well typed. *)
LEMMA DecodeType ==
  ASSUME NEW acc, acc.ps \in Parser, acc.pkts \in Seq(Seq(Byte)), NEW b \in Byte
  PROVE  /\ Decode(acc, b).ps \in Parser /\ Decode(acc, b).pkts \in Seq(Seq(Byte))
         /\ Decode(acc, b).ps = PROTO_ParseByte(acc.ps, b)
         /\ Decode(acc, b).pkts = IF b = END THEN Append(acc.pkts, acc.ps.out) ELSE acc.pkts
<1>1. acc.ps.out \in Seq(Byte)
  BY DEF Parser
<1>2. PROTO_ParseByte(acc.ps, b) \in Parser
  BY ParseByteType DEF Parser
<1>3. Append(acc.pkts, acc.ps.out) \in Seq(Seq(Byte))
  BY <1>1, AppendProperties
<1>4. /\ Decode(acc, b).ps = PROTO_ParseByte(acc.ps, b)
      /\ Decode(acc, b).pkts = IF b = END THEN Append(acc.pkts, acc.ps.out) ELSE acc.pkts
  BY DEF Decode
<1> QED BY <1>2, <1>3, <1>4

(* What a reader finds is well typed. *)
LEMMA ParseType ==
  ASSUME NEW ps \in Parser, NEW bytes \in Seq(Byte)
  PROVE  \A n \in 0 .. Len(bytes) : /\ Parse(ps, bytes)[n].ps \in Parser
                                    /\ Parse(ps, bytes)[n].pkts \in Seq(Seq(Byte))
<1>1. PICK f, k : f = Parse(ps, bytes) /\ k = Len(bytes) /\ k \in Nat
  OBVIOUS
<1>2. /\ f[0] = [ps |-> ps, pkts |-> <<>>]
      /\ \A n \in 1 .. k : f[n] = Decode(f[n - 1], bytes[n])
  BY <1>1, ParseStep
<1> DEFINE T == {n \in Nat : n <= k => f[n].ps \in Parser /\ f[n].pkts \in Seq(Seq(Byte))}
<1>3. 0 \in T
  <2>1. f[0].ps = ps /\ f[0].pkts = <<>> /\ <<>> \in Seq(Seq(Byte))
    BY <1>2
  <2> QED BY <2>1
<1>4. ASSUME NEW n \in Nat, n \in T PROVE n + 1 \in T
  <2> SUFFICES ASSUME n + 1 <= k
               PROVE  f[n + 1].ps \in Parser /\ f[n + 1].pkts \in Seq(Seq(Byte))
    OBVIOUS
  <2>1. n + 1 \in 1 .. k /\ (n + 1) - 1 = n /\ n <= k
    BY <1>1
  <2>2. f[n + 1] = Decode(f[n], bytes[n + 1])
    BY <1>2, <2>1
  <2>3. bytes[n + 1] \in Byte
    BY <1>1, <2>1
  <2>4. f[n].ps \in Parser /\ f[n].pkts \in Seq(Seq(Byte))
    BY <1>4, <2>1
  <2> QED BY <2>2, <2>3, <2>4, DecodeType
<1> HIDE DEF T
<1>5. Nat \subseteq T
  BY <1>3, <1>4, NaturalInduction
<1> QED BY <1>1, <1>5 DEF T

(* A BEGIN makes a reader forget where it was. *)
LEMMA BeginForgets ==
  ASSUME NEW s, NEW t
  PROVE  PROTO_ParseByte(s, BEGIN) = PROTO_ParseByte(t, BEGIN)
  BY DEF PROTO_ParseByte, ESC, BEGIN, END, Reserved

(* An element at the end of the second part. *)
LEMMA AppendBehind ==
  ASSUME NEW S, NEW a \in Seq(S), NEW b \in Seq(S), NEW e \in S
  PROVE  Append(Joined(a, b), e) = Joined(a, Append(b, e))
<1>1. a \o b \in Seq(S) /\ <<e>> \in Seq(S)
  OBVIOUS
<1>2. Append(a \o b, e) = (a \o b) \o <<e>> /\ Append(b, e) = b \o <<e>>
  BY <1>1, AppendIsConcat
<1>3. (a \o b) \o <<e>> = a \o (b \o <<e>>)
  BY <1>1, ConcatAssociative
<1> QED BY <1>2, <1>3 DEF Joined

(* A reader that starts at t on the bytes behind the first d finds the     *)
(* packets that one that reads all bytes finds behind them, if that one    *)
(* was at t or a BEGIN comes next.                                         *)
LEMMA ParseAhead ==
  ASSUME NEW s \in Parser, NEW t \in Parser, NEW b \in Seq(Byte), NEW c \in Seq(Byte),
         NEW d, Within(c, b, d),
         Parse(s, b)[d].ps = t \/ (c # <<>> => c[1] = BEGIN)
  PROVE  \A n \in 0 .. Len(c) :
           /\ Parse(s, b)[d + n].pkts = Joined(Parse(s, b)[d].pkts, Parse(t, c)[n].pkts)
           /\ n >= 1 \/ Parse(s, b)[d].ps = t =>
                Parse(s, b)[d + n].ps = Parse(t, c)[n].ps
<1>1. PICK f, g, k, l, q : /\ f = Parse(s, b) /\ g = Parse(t, c)
                           /\ k = Len(c) /\ l = Len(b) /\ q = f[d].pkts
  OBVIOUS
<1>2. k \in Nat /\ l \in Nat /\ d \in Nat /\ d + k <= l
  BY <1>1 DEF Within
<1>3. /\ \A i \in 1 .. k : b[d + i] = c[i] /\ c[i] \in Byte
      /\ f[d].ps = t \/ (k >= 1 => c[1] = BEGIN)
  <2>1. k >= 1 => c # <<>>
    BY <1>1, EmptySeq
  <2>2. \A i \in 1 .. k : b[d + i] = c[i]
    BY <1>1 DEF Within
  <2>3. \A i \in 1 .. k : c[i] \in Byte
    BY <1>1
  <2> QED BY <1>1, <2>1, <2>2, <2>3
<1>4. /\ g[0] = [ps |-> t, pkts |-> <<>>]
      /\ \A n \in 1 .. k : g[n] = Decode(g[n - 1], c[n])
      /\ \A n \in 1 .. l : f[n] = Decode(f[n - 1], b[n])
  BY <1>1, ParseStep
<1>5. /\ \A n \in 0 .. k : g[n].ps \in Parser /\ g[n].pkts \in Seq(Seq(Byte))
      /\ \A n \in 0 .. l : f[n].ps \in Parser /\ f[n].pkts \in Seq(Seq(Byte))
  BY <1>1, ParseType
<1>6. q \in Seq(Seq(Byte))
  <2>1. d \in 0 .. l
    BY <1>2
  <2> QED BY <1>1, <1>5, <2>1
<1> DEFINE Same(n) == /\ f[d + n].pkts = Joined(q, g[n].pkts)
                      /\ n >= 1 \/ f[d].ps = t => f[d + n].ps = g[n].ps
           T == {n \in Nat : n <= k => Same(n)}
<1>7. Same(0)
  <2>1. d + 0 = d /\ g[0].pkts = <<>> /\ g[0].ps = t /\ ~(0 >= 1)
    BY <1>2, <1>4
  <2>2. Joined(q, <<>>) = q
    BY <1>6 DEF Joined
  <2>3. f[d + 0].pkts = Joined(q, g[0].pkts)
    BY <1>1, <2>1, <2>2
  <2>4. f[d].ps = t => f[d + 0].ps = g[0].ps
    BY <2>1
  <2> QED BY <2>1, <2>3, <2>4
<1>8. ASSUME NEW n \in Nat, n + 1 <= k, Same(n) PROVE Same(n + 1)
  <2>1. /\ n + 1 \in 1 .. k /\ (n + 1) - 1 = n /\ n \in 0 .. k
        /\ d + (n + 1) \in 1 .. l /\ (d + (n + 1)) - 1 = d + n /\ d + n \in 0 .. l
    BY ONLY <1>2, n \in Nat, n + 1 <= k
  <2>2. PICK v, x, y : v = c[n + 1] /\ x = f[d + n] /\ y = g[n]
    OBVIOUS
  <2>3. v \in Byte /\ v = b[d + (n + 1)]
    BY <1>3, <2>1, <2>2
  <2>4. f[d + (n + 1)] = Decode(x, v) /\ g[n + 1] = Decode(y, v)
    BY <1>4, <2>1, <2>2, <2>3
  <2>5. /\ x.ps \in Parser /\ x.pkts \in Seq(Seq(Byte))
        /\ y.ps \in Parser /\ y.pkts \in Seq(Seq(Byte))
    BY <1>5, <2>1, <2>2
  <2>6. /\ f[d + (n + 1)].ps = PROTO_ParseByte(x.ps, v)
        /\ f[d + (n + 1)].pkts = IF v = END THEN Append(x.pkts, x.ps.out) ELSE x.pkts
        /\ g[n + 1].ps = PROTO_ParseByte(y.ps, v)
        /\ g[n + 1].pkts = IF v = END THEN Append(y.pkts, y.ps.out) ELSE y.pkts
    BY <2>4 DEF Decode
  <2>7. x.pkts = Joined(q, y.pkts)
    BY <1>8, <2>2
  <2>8. CASE x.ps = y.ps
    <3>1. f[d + (n + 1)].ps = g[n + 1].ps
      BY <2>6, <2>8
    <3>2. f[d + (n + 1)].pkts = Joined(q, g[n + 1].pkts)
      <4>1. CASE v = END
        <5>1. x.ps.out = y.ps.out /\ y.ps.out \in Seq(Byte)
          BY <2>5, <2>8 DEF Parser
        <5>2. Append(Joined(q, y.pkts), y.ps.out) = Joined(q, Append(y.pkts, y.ps.out))
          <6>1. PICK a, e : a = y.pkts /\ e = y.ps.out
            OBVIOUS
          <6>2. a \in Seq(Seq(Byte)) /\ e \in Seq(Byte)
            BY <2>5, <5>1, <6>1
          <6>3. Append(Joined(q, a), e) = Joined(q, Append(a, e))
            BY <1>6, <6>2, AppendBehind
          <6> QED BY <6>1, <6>3
        <5> QED BY <2>6, <2>7, <4>1, <5>1, <5>2
      <4>2. CASE v # END
        BY <2>6, <2>7, <4>2
      <4> QED BY <4>1, <4>2
    <3> QED BY <3>1, <3>2
  <2>9. CASE x.ps # y.ps
    <3>1. ~(n >= 1) /\ f[d].ps # t
      BY <1>8, <2>2, <2>9
    <3>2. n = 0
      BY <3>1
    <3>3. v = BEGIN
      BY <1>3, <2>1, <2>2, <3>1, <3>2
    <3>4. v # END
      BY <3>3 DEF BEGIN, END
    <3>5. PROTO_ParseByte(x.ps, v) = PROTO_ParseByte(y.ps, v)
      BY <3>3, BeginForgets
    <3> QED BY <2>6, <2>7, <3>4, <3>5
  <2> QED BY <2>8, <2>9
<1> HIDE DEF Same
<1>9. 0 \in T
  BY <1>7
<1>10. ASSUME NEW n \in Nat, n \in T PROVE n + 1 \in T
  <2> SUFFICES ASSUME n + 1 <= k PROVE Same(n + 1)
    OBVIOUS
  <2>1. n <= k
    BY <1>2
  <2>2. Same(n)
    BY <1>10, <2>1
  <2> QED BY <1>8, <2>2
<1> HIDE DEF T
<1>11. Nat \subseteq T
  BY <1>9, <1>10, NaturalInduction
<1>12. \A n \in 0 .. k : Same(n)
  BY <1>2, <1>11 DEF T
<1> QED BY <1>1, <1>12 DEF Same

(* Reading on behind the bytes there were changes nothing before them. *)
LEMMA ParsePrefix ==
  ASSUME NEW s \in Parser, NEW b \in Seq(Byte), NEW c \in Seq(Byte), Within(c, b, 0)
  PROVE  \A n \in 0 .. Len(c) : /\ Parse(s, b)[n].pkts = Parse(s, c)[n].pkts
                                /\ Parse(s, b)[n].ps = Parse(s, c)[n].ps
<1>1. Parse(s, b)[0] = [ps |-> s, pkts |-> <<>>]
  BY ParseStep
<1>2. Parse(s, b)[0].ps = s /\ Parse(s, b)[0].pkts = <<>>
  BY <1>1
<1>3. \A n \in 0 .. Len(c) :
        /\ Parse(s, b)[0 + n].pkts = Joined(<<>>, Parse(s, c)[n].pkts)
        /\ Parse(s, b)[0 + n].ps = Parse(s, c)[n].ps
  <2>1. Parse(s, b)[0].ps = s \/ (c # <<>> => c[1] = BEGIN)
    BY <1>2
  <2>2. \A n \in 0 .. Len(c) :
          /\ Parse(s, b)[0 + n].pkts = Joined(Parse(s, b)[0].pkts, Parse(s, c)[n].pkts)
          /\ n >= 1 \/ Parse(s, b)[0].ps = s =>
               Parse(s, b)[0 + n].ps = Parse(s, c)[n].ps
    BY <2>1, ParseAhead
  <2> QED BY <1>2, <2>2
<1> TAKE n \in 0 .. Len(c)
<1>4. 0 + n = n
  OBVIOUS
<1>5. Parse(s, c)[n].pkts \in Seq(Seq(Byte))
  BY ParseType
<1>6. \A q \in Seq(Seq(Byte)) : Joined(<<>>, q) = q
  BY DEF Joined
<1> QED BY <1>3, <1>4, <1>5, <1>6

(* No packets take no bytes. *)
LEMMA UsedEmpty == Fifo!Used(<<>>) = 0
<1>1. <<>> \in Seq(Seq(Byte)) /\ Len(<<>>) = 0
  OBVIOUS
<1>2. PICK f : Counts(f, <<>>) /\ Fifo!Used(<<>>) = f[Len(<<>>)]
  BY <1>1, UsedCounts
<1> QED BY <1>1, <1>2 DEF Counts

-----------------------------------------------------------------------------
(* What the ring holds, as packets *)

(* Bytes of an unfinished frame a reader that is at ps has read. *)
Pending(ps) == IF ps.isBegin = 1 THEN Fifo!FrameLength(ps.out) - 1 + ps.isEsc ELSE 0

(* Bytes of the frame being read that have left the ring. *)
Consumed == IF call = "Gets" /\ rb.fill_cnt > 0 /\ Cell(0) # BEGIN THEN Pending(parser) ELSE 0

(* Each stored byte belongs to a packet read or to the frame begun. *)
Counted ==
  \A n \in 1 .. rb.fill_cnt :
    n + Consumed = Fifo!Used(Reading[n].pkts) + Pending(Reading[n].ps)

(* A QUEUE_Puts has completed no packet yet, and what it has stored is the *)
(* beginning of its own.                                                   *)
Storing ==
  call = "Puts" =>
    /\ packet \in Packets
    /\ Reading[last.fill_cnt].pkts = StoredPackets
    /\ stage = "begin" => pk = packet
    /\ stage # "begin" =>
         LET ps == Reading[rb.fill_cnt].ps
         IN  /\ ps.isBegin = 1 /\ ps.isEsc = (IF stage = "escaped" THEN 1 ELSE 0)
             /\ packet = Joined(ps.out, pk)

(* The inductive invariant of the refinement. *)
Parsed == IInv /\ Counted /\ Storing

(* The stored bytes as a sequence. *)
LEMMA StoredType ==
  ASSUME TypeOK
  PROVE  /\ rb.fill_cnt \in Nat /\ rb.fill_cnt <= Size
         /\ Stored \in Seq(Byte) /\ Len(Stored) = rb.fill_cnt
         /\ \A i \in 1 .. rb.fill_cnt : Stored[i] = Cell(i - 1)
<1> USE QueueAssumption
<1>1. /\ rb.fill_cnt \in 0 .. Size /\ rb.p_r \in 0 .. Size - 1
      /\ buf \in [0 .. Size - 1 -> Byte]
  BY DEF TypeOK, Cursors
<1>2. ASSUME NEW i \in 1 .. rb.fill_cnt PROVE Cell(i - 1) \in Byte
  <2>1. Pos(rb.p_r + (i - 1)) \in 0 .. Size - 1
    BY <1>1 DEF Pos
  <2> QED BY <1>1, <2>1 DEF Cell
<1>3. PICK k : k = rb.fill_cnt
  OBVIOUS
<1>4. k \in Nat /\ k <= Size
  BY <1>1, <1>3
<1>5. Stored = [i \in 1 .. k |-> Cell(i - 1)]
  BY <1>3 DEF Stored
<1>6. Stored \in [1 .. k -> Byte]
  BY <1>2, <1>3, <1>5
<1>7. Stored \in Seq(Byte) /\ Len(Stored) = k
  <2>1. PICK b : b = Stored
    OBVIOUS
  <2>2. b \in [1 .. k -> Byte] /\ DOMAIN b = 1 .. k
    BY <1>6, <2>1
  <2>3. b \in Seq(Byte) /\ Len(b) = k
    BY <1>4, <2>2
  <2> QED BY <2>1, <2>3
<1>8. \A i \in 1 .. k : Stored[i] = Cell(i - 1)
  BY <1>5
<1> QED BY <1>3, <1>4, <1>7, <1>8

(* Where reading starts, and what it has read at each place. *)
LEMMA ReadingType ==
  ASSUME TypeOK
  PROVE  /\ Fresh \in Parser /\ parser \in Parser
         /\ Reading[0].pkts = <<>>
         /\ Reading[0].ps = IF call = "Gets" THEN parser ELSE Fresh
         /\ \A n \in 0 .. rb.fill_cnt : /\ Reading[n].ps \in Parser
                                        /\ Reading[n].pkts \in Seq(Seq(Byte))
         /\ StoredPackets \in Seq(Seq(Byte))
<1>1. Fresh \in Parser /\ parser \in Parser
  BY DEF TypeOK, Parser, Fresh
<1>2. PICK s, b, k : /\ s = IF call = "Gets" THEN parser ELSE Fresh
                     /\ b = Stored /\ k = rb.fill_cnt
  OBVIOUS
<1>3. s \in Parser /\ b \in Seq(Byte) /\ Len(b) = k /\ k \in Nat /\ Reading = Parse(s, b)
  BY <1>1, <1>2, StoredType DEF Reading
<1>4. Parse(s, b)[0] = [ps |-> s, pkts |-> <<>>]
  BY <1>3, ParseStep
<1>5. Parse(s, b)[0].ps = s /\ Parse(s, b)[0].pkts = <<>>
  BY <1>4
<1>6. \A n \in 0 .. k : Parse(s, b)[n].ps \in Parser /\ Parse(s, b)[n].pkts \in Seq(Seq(Byte))
  BY <1>3, ParseType
<1>7. k \in 0 .. k
  BY <1>3
<1> QED BY <1>1, <1>2, <1>3, <1>5, <1>6, <1>7 DEF StoredPackets

(* RINGBUF_Put: a reader reads on by the byte stored. *)
LEMMA ReadsStored ==
  ASSUME IInv, call = "Puts", call' # "Gets", ~RINGBUF_Full, RINGBUF_Put(NextByte)
  PROVE  /\ rb.fill_cnt \in Nat /\ rb'.fill_cnt = rb.fill_cnt + 1
         /\ rb.fill_cnt < Size /\ NextByte \in Byte
         /\ \A n \in 0 .. rb.fill_cnt : /\ Reading'[n].pkts = Reading[n].pkts
                                        /\ Reading'[n].ps = Reading[n].ps
         /\ Reading'[rb.fill_cnt + 1].ps =
              PROTO_ParseByte(Reading[rb.fill_cnt].ps, NextByte)
         /\ Reading'[rb.fill_cnt + 1].pkts =
              IF NextByte = END THEN Append(StoredPackets, Reading[rb.fill_cnt].ps.out)
                                ELSE StoredPackets
<1> USE QueueAssumption
<1>1. TypeOK /\ CursorsAgree /\ NextByte \in Byte
  BY NextByteKind DEF IInv
<1>2. PICK k, v, b, c : /\ k = rb.fill_cnt /\ v = NextByte /\ b = Stored /\ c = Stored'
  OBVIOUS
<1>3. /\ k \in Nat /\ k < Size /\ v \in Byte /\ b \in Seq(Byte) /\ Len(b) = k
      /\ \A i \in 1 .. k : b[i] = Cell(i - 1)
  BY <1>1, <1>2, StoredType DEF RINGBUF_Full
<1>4. /\ rb'.p_r = rb.p_r /\ rb'.fill_cnt = k + 1
      /\ \A i \in 0 .. k - 1 : buf'[Pos(rb.p_r + i)] = Cell(i)
      /\ buf'[Pos(rb.p_r + k)] = v
  BY <1>1, <1>2, PutAppends DEF Cell
<1>5. /\ c \in Seq(Byte) /\ Len(c) = k + 1 /\ c[k + 1] = v
      /\ \A i \in 1 .. k : c[i] = b[i]
  <2>1. c = [i \in 1 .. k + 1 |-> buf'[Pos(rb.p_r + (i - 1))]]
    BY <1>2, <1>4 DEF Stored, Cell
  <2>2. ASSUME NEW i \in 1 .. k + 1
        PROVE  c[i] = IF i = k + 1 THEN v ELSE b[i]
    <3>1. CASE i = k + 1
      <4>1. i - 1 = k
        BY <1>3, <3>1
      <4> QED BY <1>4, <2>1, <3>1, <4>1
    <3>2. CASE i # k + 1
      <4>1. i \in 1 .. k /\ i - 1 \in 0 .. k - 1
        BY <1>3, <3>2
      <4> QED BY <1>3, <1>4, <2>1, <3>2, <4>1
    <3> QED BY <3>1, <3>2
  <2>3. \A i \in 1 .. k : i \in 1 .. k + 1 /\ i # k + 1 /\ b[i] \in Byte
    BY <1>3
  <2>4. k + 1 \in 1 .. k + 1 /\ k + 1 \in Nat
    BY <1>3
  <2>5. \A i \in 1 .. k + 1 : i \in 1 .. k \/ i = k + 1
    BY <1>3
  <2>6. \A i \in 1 .. k + 1 : c[i] \in Byte
    BY <1>3, <2>2, <2>3, <2>5
  <2>7. c \in [1 .. k + 1 -> Byte]
    BY <2>1, <2>6
  <2> QED BY <2>2, <2>3, <2>4, <2>7
<1>6. Within(b, c, 0)
  BY <1>3, <1>5 DEF Within
<1>7. Reading = Parse(Fresh, b) /\ Reading' = Parse(Fresh, c) /\ Fresh \in Parser
  BY <1>1, <1>2, ReadingType DEF Reading, Fresh
<1>8. \A n \in 0 .. k : /\ Parse(Fresh, c)[n].pkts = Parse(Fresh, b)[n].pkts
                        /\ Parse(Fresh, c)[n].ps = Parse(Fresh, b)[n].ps
  BY <1>3, <1>5, <1>6, <1>7, ParsePrefix
<1>9. Parse(Fresh, c)[k + 1] = Decode(Parse(Fresh, c)[k], v)
  <2>1. k + 1 \in 1 .. k + 1 /\ (k + 1) - 1 = k
    BY <1>3
  <2>2. \A n \in 1 .. Len(c) : Parse(Fresh, c)[n] = Decode(Parse(Fresh, c)[n - 1], c[n])
    BY <1>5, ParseStep
  <2> QED BY <1>5, <2>1, <2>2
<1>10. k \in 0 .. k
  BY <1>3
<1>11. /\ Parse(Fresh, c)[k + 1].ps = PROTO_ParseByte(Parse(Fresh, b)[k].ps, v)
       /\ Parse(Fresh, c)[k + 1].pkts =
            IF v = END THEN Append(Parse(Fresh, b)[k].pkts, Parse(Fresh, b)[k].ps.out)
                       ELSE Parse(Fresh, b)[k].pkts
  BY <1>8, <1>9, <1>10 DEF Decode
<1> QED BY <1>2, <1>3, <1>4, <1>7, <1>8, <1>11 DEF StoredPackets

(* An element moved from the front of the second part. *)
LEMMA MoveOne ==
  ASSUME NEW S, NEW a \in Seq(S), NEW b \in Seq(S), b # <<>>
  PROVE  /\ Head(b) \in S /\ Tail(b) \in Seq(S) /\ Append(a, Head(b)) \in Seq(S)
         /\ Joined(a, b) = Joined(Append(a, Head(b)), Tail(b))
         /\ Len(a) < Len(Joined(a, b))
<1>1. PICK h, t : h = Head(b) /\ t = Tail(b)
  OBVIOUS
<1>2. h \in S /\ t \in Seq(S) /\ <<h>> \in Seq(S) /\ Append(a, h) = a \o <<h>>
  BY <1>1, AppendIsConcat
<1>3. b = <<h>> \o t
  BY <1>1, <1>2
<1>4. (a \o <<h>>) \o t = a \o (<<h>> \o t)
  BY <1>2, ConcatAssociative
<1>5. Len(a \o b) = Len(a) + Len(b) /\ Len(b) \in Nat \ {0} /\ Len(a) \in Nat
  BY ConcatIndex, EmptySeq
<1>6. Len(a) < Len(a \o b)
  BY <1>5
<1>7. Append(a, h) \in Seq(S)
  BY <1>2
<1> QED BY <1>1, <1>2, <1>3, <1>4, <1>6, <1>7 DEF Joined

(* One element in front. *)
LEMMA JoinedFirst ==
  ASSUME NEW S, NEW r \in Seq(S), NEW p, NEW q, q = Joined(<<p>>, r)
  PROVE  q # <<>> /\ Head(q) = p /\ Tail(q) = r
<1>1. Head(<<p>> \o r) = p /\ Tail(<<p>> \o r) = r /\ <<p>> \o r # <<>>
  OBVIOUS
<1> QED BY <1>1 DEF Joined

(* The count of an unfinished frame is a number. *)
LEMMA PendingType ==
  ASSUME NEW ps \in Parser
  PROVE  Pending(ps) \in Int
<1>1. ps.out \in Seq(Byte) /\ ps.isEsc \in Int
  BY DEF Parser
<1>2. Fifo!FrameLength(ps.out) \in Nat
  BY <1>1, FrameLengthType
<1> QED BY <1>1, <1>2 DEF Pending

(* A mark, read inside a frame and at the start of one. *)
LEMMA MarkRead ==
  ASSUME NEW ps \in Parser
  PROVE  /\ LET q == PROTO_ParseByte(ps, BEGIN)
            IN  /\ q.isBegin = 1 /\ q.isEsc = 0 /\ q.out = <<>>
                /\ Pending(q) = 1
         /\ LET q == PROTO_ParseByte(ps, ESC)
            IN  /\ q.isBegin = ps.isBegin /\ q.isEsc = 1 /\ q.out = ps.out
                /\ ps.isBegin = 1 /\ ps.isEsc = 0 => Pending(q) = Pending(ps) + 1
         /\ LET q == PROTO_ParseByte(ps, END)
            IN  /\ q.isBegin = 0 /\ Pending(q) = 0
                /\ ps.isBegin = 1 /\ ps.isEsc = 0 =>
                     Fifo!FrameLength(ps.out) = Pending(ps) + 1
<1>1. PICK a, b, c : /\ a = PROTO_ParseByte(ps, BEGIN) /\ b = PROTO_ParseByte(ps, ESC)
                     /\ c = PROTO_ParseByte(ps, END)
  OBVIOUS
<1>2. a.isBegin = 1 /\ a.isEsc = 0 /\ a.out = <<>>
  BY <1>1 DEF PROTO_ParseByte, ESC, BEGIN, END, Reserved
<1>3. b.isBegin = ps.isBegin /\ b.isEsc = 1 /\ b.out = ps.out
  BY <1>1 DEF PROTO_ParseByte, ESC, BEGIN, END, Reserved, Parser
<1>4. c.isBegin = 0
  BY <1>1 DEF PROTO_ParseByte, ESC, BEGIN, END, Reserved, Parser
<1>5. Fifo!FrameLength(ps.out) \in Nat
  BY FrameLengthType DEF Parser
<1>6. PICK n \in Nat : n = Fifo!FrameLength(ps.out)
  BY <1>5
<1>7. Pending(a) = 1
  BY <1>2, FrameLengthEmpty DEF Pending
<1>8. ps.isBegin = 1 /\ ps.isEsc = 0 =>
        /\ Pending(b) = Pending(ps) + 1
        /\ Fifo!FrameLength(ps.out) = Pending(ps) + 1
  BY <1>3, <1>6 DEF Pending
<1>9. Pending(c) = 0
  BY <1>4 DEF Pending
<1> QED BY <1>1, <1>2, <1>3, <1>4, <1>7, <1>8, <1>9

(* v is how the byte h of a packet is stored where the reader is at ps. *)
Stores(ps, h, v) ==
  /\ h \in Byte /\ ps.isBegin = 1 /\ Len(ps.out) < MaxLen
  /\ \/ ps.isEsc = 0 /\ h \notin Reserved /\ v = h
     \/ ps.isEsc = 1 /\ h \in Reserved /\ v = Flip(h)

(* A byte of a packet, read plain or behind an ESC. *)
LEMMA ByteRead ==
  ASSUME NEW ps \in Parser, NEW h, NEW v, Stores(ps, h, v)
  PROVE  LET q == PROTO_ParseByte(ps, v)
         IN  /\ q.isBegin = 1 /\ q.isEsc = 0 /\ q.out = Append(ps.out, h)
             /\ Pending(q) = Pending(ps) + 1
<1>1. /\ v \in Byte /\ v \notin Reserved
      /\ h = IF ps.isEsc = 1 THEN Flip(v) ELSE v
      /\ h \in Byte /\ ps.isBegin = 1 /\ Len(ps.out) < MaxLen
  <2> USE DEF Stores
  <2>1. h \in Reserved => Flip(Flip(h)) = h
    BY DEF Flip, Reserved, ESC, BEGIN, END
  <2> QED BY <2>1, FlipByte
<1>2. PICK q : q = PROTO_ParseByte(ps, v)
  OBVIOUS
<1>3. q.isBegin = 1 /\ q.isEsc = 0 /\ q.out = Append(ps.out, h)
  <2>1. v # ESC /\ v # BEGIN /\ v # END
    BY <1>1 DEF Reserved
  <2>2. q = [ps EXCEPT !.isEsc = 0, !.out = Append(ps.out, h)]
    <3>1. PROTO_ParseByte(ps, v) =
            [ps EXCEPT !.isEsc = 0,
                       !.out = IF Len(@) < MaxLen
                                 THEN Append(@, IF ps.isEsc = 1 THEN Flip(v) ELSE v)
                                 ELSE @]
      BY <1>1, <2>1 DEF PROTO_ParseByte
    <3> QED BY <1>1, <1>2, <3>1 DEF Parser
  <2> QED BY <1>1, <2>2 DEF Parser
<1>4. Fifo!FrameLength(Append(ps.out, h)) =
        Fifo!FrameLength(ps.out) + (IF h \in Reserved THEN 2 ELSE 1)
  BY <1>1, FrameLengthAppend DEF Parser
<1>5. PICK n, m : n = Fifo!FrameLength(ps.out) /\ m = Fifo!FrameLength(q.out)
  OBVIOUS
<1>6. n \in Nat
  BY <1>5, FrameLengthType DEF Parser
<1>7. Pending(q) = m - 1 + 0 /\ Pending(ps) = n - 1 + ps.isEsc
  BY <1>1, <1>3, <1>5 DEF Pending
<1>8. m = n + (IF h \in Reserved THEN 2 ELSE 1)
  BY <1>3, <1>4, <1>5
<1>9. ps.isEsc = IF h \in Reserved THEN 1 ELSE 0
  BY DEF Stores
<1> QED BY <1>2, <1>3, <1>6, <1>7, <1>8, <1>9

(* Where no frame has been begun, no byte of one has been read. *)
LEMMA FrameEnded ==
  ASSUME IInv, call # "Gets", NEW n \in 0 .. rb.fill_cnt, n = 0 \/ Cell(n - 1) = END
  PROVE  Reading[n].ps.isBegin = 0 /\ Pending(Reading[n].ps) = 0
<1>1. TypeOK
  BY DEF IInv
<1>2. CASE n = 0
  <2>1. Reading[0].ps = Fresh
    BY <1>1, ReadingType
  <2> QED BY <1>2, <2>1 DEF Fresh, Pending
<1>3. CASE n # 0
  <2>1. PICK b, k : b = Stored /\ k = rb.fill_cnt
    OBVIOUS
  <2>2. k \in Nat /\ b \in Seq(Byte) /\ Len(b) = k /\ \A i \in 1 .. k : b[i] = Cell(i - 1)
    BY <1>1, <2>1, StoredType
  <2>3. n \in 1 .. k /\ n - 1 \in 0 .. k
    BY <1>3, <2>1, <2>2
  <2>4. b[n] = END
    BY <1>3, <2>2, <2>3
  <2>5. Reading = Parse(Fresh, b)
    BY <2>1 DEF Reading
  <2>6. Reading[n] = Decode(Reading[n - 1], END)
    BY <2>2, <2>3, <2>4, <2>5, ParseStep
  <2>7. Reading[n - 1].ps \in Parser
    BY <1>1, <2>1, <2>3, ReadingType
  <2>8. Reading[n].ps = PROTO_ParseByte(Reading[n - 1].ps, END)
    BY <2>6 DEF Decode
  <2> QED BY <2>7, <2>8, MarkRead
<1> QED BY <1>2, <1>3

(* Before anything is fetched the count starts at zero. *)
LEMMA CountedAll ==
  ASSUME IInv, Counted, call # "Gets"
  PROVE  \A n \in 0 .. rb.fill_cnt :
           n = Fifo!Used(Reading[n].pkts) + Pending(Reading[n].ps)
<1>1. TypeOK /\ rb.fill_cnt \in Nat
  BY StoredType DEF IInv
<1>2. Consumed = 0
  BY DEF Consumed
<1> TAKE n \in 0 .. rb.fill_cnt
<1>3. CASE n = 0
  <2>1. Reading[0].pkts = <<>> /\ Reading[0].ps = Fresh
    BY <1>1, ReadingType
  <2>2. Pending(Reading[0].ps) = 0
    BY <2>1 DEF Pending, Fresh
  <2> QED BY <1>3, <2>1, <2>2, UsedEmpty
<1>4. CASE n # 0
  <2>1. n \in 1 .. rb.fill_cnt /\ n + 0 = n
    BY <1>1, <1>4
  <2> QED BY <1>2, <2>1 DEF Counted
<1> QED BY <1>3, <1>4

(* Where PROTO_AddRb is: the reader of what it has stored holds the packet *)
(* up to there.                                                            *)
LEMMA StoringState ==
  ASSUME Parsed, call = "Puts"
  PROVE  /\ packet \in Packets /\ packet \in Seq(Byte) /\ Len(packet) <= MaxLen
         /\ pk \in Seq(Byte)
         /\ Reading[rb.fill_cnt].ps \in Parser
         /\ stage = "begin" => pk = packet /\ Pending(Reading[rb.fill_cnt].ps) = 0
         /\ stage # "begin" =>
              /\ Reading[rb.fill_cnt].ps.isBegin = 1
              /\ Reading[rb.fill_cnt].ps.isEsc = (IF stage = "escaped" THEN 1 ELSE 0)
              /\ packet = Joined(Reading[rb.fill_cnt].ps.out, pk)
              /\ Reading[rb.fill_cnt].ps.out \in Seq(Byte)
<1>1. IInv /\ TypeOK /\ Storing
  BY DEF Parsed, IInv
<1>2. rb.fill_cnt \in Nat /\ rb.fill_cnt \in 0 .. rb.fill_cnt /\ last.fill_cnt \in Nat
  BY <1>1, StoredType DEF TypeOK, Cursors
<1>3. packet \in Packets /\ packet \in Seq(Byte) /\ Len(packet) <= MaxLen
  BY <1>1, QueueAssumption DEF Storing
<1>4. Reading[rb.fill_cnt].ps \in Parser
  BY <1>1, <1>2, ReadingType
<1>5. Reading[rb.fill_cnt].ps.out \in Seq(Byte)
  BY <1>4 DEF Parser
<1>6. ASSUME stage = "begin" PROVE pk = packet /\ Pending(Reading[rb.fill_cnt].ps) = 0
  <2>1. rb.fill_cnt = last.fill_cnt /\ (last.fill_cnt > 0 => Cell(last.fill_cnt - 1) = END)
    BY <1>1, <1>6 DEF IInv, WellFramed
  <2>2. rb.fill_cnt = 0 \/ Cell(rb.fill_cnt - 1) = END
    BY <1>2, <2>1
  <2> QED BY <1>1, <1>2, <1>6, <2>2, FrameEnded DEF Storing
<1>7. stage # "begin" =>
        /\ Reading[rb.fill_cnt].ps.isBegin = 1
        /\ Reading[rb.fill_cnt].ps.isEsc = (IF stage = "escaped" THEN 1 ELSE 0)
        /\ packet = Joined(Reading[rb.fill_cnt].ps.out, pk)
  BY <1>1 DEF Storing
<1>8. pk \in Seq(Byte)
  BY <1>1 DEF TypeOK
<1> QED BY <1>3, <1>4, <1>5, <1>6, <1>7, <1>8

(* A step of PROTO_AddRb that is not its last. *)
LEMMA ReadsOn ==
  ASSUME Parsed, PutsByte,
         NEW ps, ps = Reading[rb.fill_cnt].ps, NEW q, q = PROTO_ParseByte(ps, NextByte)
  PROVE  /\ NextByte # END /\ stage' # "begin"
         /\ q.isBegin = 1 /\ q.isEsc = (IF stage' = "escaped" THEN 1 ELSE 0)
         /\ packet = Joined(q.out, pk')
         /\ Pending(q) = Pending(ps) + 1
<1>1. /\ call = "Puts" /\ ~(stage = "body" /\ pk = <<>>) /\ Advance
      /\ TypeOK /\ EscapePending
  BY DEF PutsByte, Parsed, IInv
<1>2. /\ packet \in Seq(Byte) /\ Len(packet) <= MaxLen /\ pk \in Seq(Byte) /\ ps \in Parser
      /\ stage = "begin" => pk = packet /\ Pending(ps) = 0
      /\ stage # "begin" => /\ ps.isBegin = 1
                            /\ ps.isEsc = (IF stage = "escaped" THEN 1 ELSE 0)
                            /\ packet = Joined(ps.out, pk)
                            /\ ps.out \in Seq(Byte)
  BY <1>1, StoringState
<1>3. NextByte # END
  BY <1>1, NextByteKind
<1>4. CASE stage = "begin"
  <2>1. NextByte = BEGIN
    BY <1>4 DEF NextByte
  <2>2. q.isBegin = 1 /\ q.isEsc = 0 /\ q.out = <<>> /\ Pending(q) = 1
    BY <1>2, <2>1, MarkRead
  <2>3. stage' = "body" /\ pk' = pk
    BY <1>1, <1>4 DEF Advance
  <2>4. Joined(<<>>, pk) = pk
    BY <1>2 DEF Joined
  <2> QED BY <1>2, <1>3, <1>4, <2>2, <2>3, <2>4
<1>5. CASE stage = "body" /\ Head(pk) \in Reserved
  <2>1. NextByte = ESC
    BY <1>1, <1>5 DEF NextByte
  <2>2. stage' = "escaped" /\ pk' = pk
    BY <1>1, <1>5 DEF Advance
  <2>3. ps.isBegin = 1 /\ ps.isEsc = 0 /\ packet = Joined(ps.out, pk)
    BY <1>2, <1>5
  <2>4. q.isBegin = 1 /\ q.isEsc = 1 /\ q.out = ps.out /\ Pending(q) = Pending(ps) + 1
    BY <1>2, <2>1, <2>3, MarkRead
  <2> QED BY <1>3, <2>2, <2>3, <2>4
<1>6. CASE (stage = "body" /\ Head(pk) \notin Reserved) \/ stage = "escaped"
  <2>1. pk # <<>>
    BY <1>1, <1>6 DEF EscapePending
  <2>2. PICK h, t : h = Head(pk) /\ t = Tail(pk)
    OBVIOUS
  <2>3. ps.isBegin = 1 /\ packet = Joined(ps.out, pk) /\ ps.out \in Seq(Byte)
    BY <1>2, <1>6
  <2>4. h \in Byte /\ Joined(ps.out, pk) = Joined(Append(ps.out, h), t)
    BY <1>2, <2>1, <2>2, <2>3, MoveOne
  <2>5. Len(ps.out) < MaxLen
    <3>1. PICK n, m : n = Len(ps.out) /\ m = Len(packet)
      OBVIOUS
    <3>2. n < m
      BY <1>2, <2>1, <2>3, <3>1, MoveOne
    <3>3. n \in Nat /\ m \in Nat /\ m <= MaxLen /\ MaxLen \in Nat
      BY <1>2, <2>3, <3>1, QueueAssumption
    <3>4. n < MaxLen
      BY ONLY <3>2, <3>3
    <3> QED BY <3>1, <3>4
  <2>6. \/ ps.isEsc = 0 /\ h \notin Reserved /\ NextByte = h
        \/ ps.isEsc = 1 /\ h \in Reserved /\ NextByte = Flip(h)
    <3>1. CASE stage = "escaped"
      BY <1>1, <1>2, <2>2, <3>1 DEF NextByte, EscapePending
    <3>2. CASE stage = "body" /\ Head(pk) \notin Reserved
      BY <1>2, <2>1, <2>2, <3>2 DEF NextByte
    <3> QED BY <1>6, <3>1, <3>2
  <2>7. q.isBegin = 1 /\ q.isEsc = 0 /\ q.out = Append(ps.out, h) /\ Pending(q) = Pending(ps) + 1
    <3>1. Stores(ps, h, NextByte)
      BY <2>3, <2>4, <2>5, <2>6 DEF Stores
    <3> QED BY <1>2, <3>1, ByteRead
  <2>8. stage' = "body" /\ pk' = t
    BY <1>1, <1>6, <2>2 DEF Advance
  <2> QED BY <1>3, <2>3, <2>4, <2>7, <2>8
<1> QED BY <1>1, <1>4, <1>5, <1>6 DEF TypeOK

(* Storing a byte keeps the count, if the reader's own count grows by one. *)
LEMMA CountedOn ==
  ASSUME Parsed, call = "Puts", call' # "Gets", ~RINGBUF_Full, RINGBUF_Put(NextByte),
         Fifo!Used(Reading'[rb.fill_cnt + 1].pkts) + Pending(Reading'[rb.fill_cnt + 1].ps) =
           (Fifo!Used(StoredPackets) + Pending(Reading[rb.fill_cnt].ps)) + 1
  PROVE  Counted'
<1>1. IInv /\ Counted /\ Consumed' = 0
  BY DEF Parsed, Consumed
<1>2. PICK k : k = rb.fill_cnt
  OBVIOUS
<1>3. /\ k \in Nat /\ rb'.fill_cnt = k + 1
      /\ \A n \in 0 .. k : Reading'[n].pkts = Reading[n].pkts /\ Reading'[n].ps = Reading[n].ps
  BY <1>1, <1>2, ReadsStored
<1>4. \A n \in 0 .. k : n = Fifo!Used(Reading[n].pkts) + Pending(Reading[n].ps)
  BY <1>1, <1>2, CountedAll
<1>5. ASSUME NEW n \in 1 .. k + 1
      PROVE  n + 0 = Fifo!Used(Reading'[n].pkts) + Pending(Reading'[n].ps)
  <2>1. CASE n \in 1 .. k
    <3>1. n \in 0 .. k /\ n + 0 = n
      BY <2>1
    <3> QED BY <1>3, <1>4, <3>1
  <2>2. CASE n = k + 1
    <3>1. k \in 0 .. k /\ n + 0 = k + 1
      BY <1>3, <2>2
    <3>2. Fifo!Used(StoredPackets) + Pending(Reading[k].ps) = k
      BY <1>2, <1>4, <3>1 DEF StoredPackets
    <3> QED BY <1>2, <2>2, <3>1, <3>2
  <2> QED BY <1>3, <2>1, <2>2
<1>6. \A n \in 1 .. rb'.fill_cnt :
        n + Consumed' = Fifo!Used(Reading'[n].pkts) + Pending(Reading'[n].ps)
  BY <1>1, <1>3, <1>5
<1> QED BY <1>6 DEF Counted

(* PROTO_AddRb stores a byte that is not the last: no packet is added. *)
LEMMA PutsByteStutters ==
  ASSUME Parsed, PutsByte
  PROVE  Counted' /\ Storing' /\ StoredPackets' = StoredPackets
<1>1. /\ call = "Puts" /\ call' = "Puts" /\ call' # "Gets" /\ ~RINGBUF_Full
      /\ RINGBUF_Put(NextByte) /\ last' = last /\ packet' = packet
      /\ IInv /\ TypeOK /\ Storing
  BY DEF PutsByte, Parsed, IInv
<1>2. PICK ps, q, k : /\ ps = Reading[rb.fill_cnt].ps /\ q = PROTO_ParseByte(ps, NextByte)
                      /\ k = rb.fill_cnt
  OBVIOUS
<1>3. /\ NextByte # END /\ stage' # "begin"
      /\ q.isBegin = 1 /\ q.isEsc = (IF stage' = "escaped" THEN 1 ELSE 0)
      /\ packet = Joined(q.out, pk') /\ Pending(q) = Pending(ps) + 1
  BY <1>2, ReadsOn
<1>4. /\ k \in Nat /\ rb'.fill_cnt = k + 1
      /\ \A n \in 0 .. k : Reading'[n].pkts = Reading[n].pkts
      /\ Reading'[k + 1].ps = q /\ Reading'[k + 1].pkts = StoredPackets
  BY <1>1, <1>2, <1>3, ReadsStored
<1>5. StoredPackets' = StoredPackets
  BY <1>4 DEF StoredPackets
<1>6. Counted'
  <2>1. StoredPackets \in Seq(Seq(Byte)) /\ ps \in Parser
    <3>1. k \in 0 .. k
      BY <1>4
    <3> QED BY <1>1, <1>2, <3>1, ReadingType
  <2>2. PICK x, y, z : x = Fifo!Used(StoredPackets) /\ y = Pending(ps) /\ z = Pending(q)
    OBVIOUS
  <2>3. x \in Nat /\ y \in Int
    <3>1. x \in Nat
      BY <2>1, <2>2, UsedMore, <<>> \in Seq(Byte)
    <3> QED BY <2>1, <2>2, <3>1, PendingType
  <2>4. z = y + 1
    BY <1>3, <2>2
  <2>5. x + z = (x + y) + 1
    BY ONLY <2>3, <2>4
  <2>6. Fifo!Used(Reading'[k + 1].pkts) + Pending(Reading'[k + 1].ps) =
          (Fifo!Used(StoredPackets) + Pending(Reading[k].ps)) + 1
    BY <1>2, <1>4, <2>2, <2>5
  <2> QED BY <1>1, <1>2, <2>6, CountedOn
<1>7. Storing'
  <2>1. packet \in Packets /\ Reading[last.fill_cnt].pkts = StoredPackets
    BY <1>1 DEF Storing
  <2>2. last.fill_cnt \in 0 .. k
    BY <1>1, <1>2, <1>4 DEF TypeOK, Cursors, IInv, CursorsAgree
  <2>3. Reading'[last.fill_cnt].pkts = StoredPackets
    BY <1>4, <2>1, <2>2
  <2>4. Reading'[last'.fill_cnt].pkts = StoredPackets'
    BY <1>1, <1>5, <2>3
  <2>5. Reading'[rb'.fill_cnt].ps = q
    BY <1>4
  <2> QED BY <1>1, <1>3, <2>1, <2>4, <2>5 DEF Storing
<1> QED BY <1>5, <1>6, <1>7

(* PROTO_AddRb stores END: the packet is added, and there was room for it. *)
LEMMA PutsDoneAdds ==
  ASSUME Parsed, PutsDone
  PROVE  /\ Counted' /\ Storing'
         /\ StoredPackets' = Append(StoredPackets, packet)
         /\ Fifo!Used(StoredPackets) + Fifo!FrameLength(packet) <= Size
<1>1. /\ call = "Puts" /\ call' = "none" /\ call' # "Gets" /\ call' # "Puts" /\ ~RINGBUF_Full
      /\ RINGBUF_Put(NextByte) /\ stage = "body" /\ pk = <<>>
      /\ IInv /\ TypeOK /\ Counted
  BY DEF PutsDone, Parsed, IInv
<1>2. PICK ps, q, k : /\ ps = Reading[rb.fill_cnt].ps /\ q = PROTO_ParseByte(ps, END)
                      /\ k = rb.fill_cnt
  OBVIOUS
<1>3. NextByte = END
  BY <1>1 DEF NextByte
<1>4. /\ k \in Nat /\ rb'.fill_cnt = k + 1 /\ k < Size
      /\ Reading'[k + 1].ps = q
      /\ Reading'[k + 1].pkts = Append(StoredPackets, ps.out)
  BY <1>1, <1>2, <1>3, ReadsStored
<1>5. ps.isBegin = 1 /\ ps.isEsc = 0 /\ packet = Joined(ps.out, pk)
      /\ ps \in Parser /\ ps.out \in Seq(Byte)
  BY <1>1, <1>2, StoringState
<1>6. ps.out = packet
  <2>1. Joined(ps.out, <<>>) = ps.out
    BY <1>5 DEF Joined
  <2> QED BY <1>1, <1>5, <2>1
<1>7. /\ StoredPackets \in Seq(Seq(Byte))
      /\ k = Fifo!Used(StoredPackets) + Pending(ps)
  <2>1. k \in 0 .. k
    BY <1>4
  <2>2. StoredPackets \in Seq(Seq(Byte))
    BY <1>1, ReadingType
  <2>3. k = Fifo!Used(Reading[k].pkts) + Pending(Reading[k].ps)
    BY <1>1, <1>2, <2>1, CountedAll
  <2> QED BY <1>2, <2>2, <2>3 DEF StoredPackets
<1>8. PICK x, y, z : /\ x = Fifo!Used(StoredPackets) /\ y = Pending(ps)
                     /\ z = Fifo!FrameLength(packet)
  OBVIOUS
<1>9. /\ Pending(q) = 0 /\ z = y + 1
      /\ Fifo!Used(Append(StoredPackets, packet)) = x + z
      /\ x \in Nat /\ y \in Int /\ z \in Nat
  <2>1. Pending(q) = 0 /\ z = y + 1
    BY <1>2, <1>5, <1>6, <1>8, MarkRead
  <2>2. packet \in Seq(Byte) /\ z \in Nat
    BY <1>5, <1>6, <1>8, FrameLengthType
  <2>3. x \in Nat /\ Fifo!Used(Append(StoredPackets, packet)) = x + z
    BY <1>7, <1>8, <2>2, UsedMore
  <2>4. y \in Int
    BY <1>5, <1>8, PendingType
  <2> QED BY <2>1, <2>2, <2>3, <2>4
<1>10. x + z <= Size /\ (x + z) + 0 = (x + y) + 1
  <2>1. /\ k = x + y /\ k < Size /\ k \in Nat /\ Size \in Nat /\ z = y + 1
        /\ x \in Nat /\ y \in Int /\ z \in Nat
    BY <1>4, <1>7, <1>8, <1>9, QueueAssumption
  <2> QED BY ONLY <2>1
<1>11. StoredPackets' = Append(StoredPackets, packet)
  BY <1>4, <1>6 DEF StoredPackets
<1>12. Counted'
  <2>1. Fifo!Used(Reading'[k + 1].pkts) + Pending(Reading'[k + 1].ps) =
          (Fifo!Used(StoredPackets) + Pending(Reading[k].ps)) + 1
    BY <1>2, <1>4, <1>6, <1>8, <1>9, <1>10
  <2> QED BY <1>1, <1>2, <2>1, CountedOn
<1>13. Storing'
  BY <1>1 DEF Storing
<1> QED BY <1>8, <1>10, <1>11, <1>12, <1>13

(* What is still to be stored of a packet needs more than no bytes. *)
LEMMA RoomNeeded ==
  ASSUME Parsed, call = "Puts"
  PROVE  /\ Pending(Reading[rb.fill_cnt].ps) \in Int
         /\ Pending(Reading[rb.fill_cnt].ps) + 1 <= Fifo!FrameLength(packet)
         /\ Fifo!FrameLength(packet) \in Nat
<1>1. PICK ps, n : ps = Reading[rb.fill_cnt].ps /\ n = Fifo!FrameLength(packet)
  OBVIOUS
<1>2. /\ packet \in Seq(Byte) /\ pk \in Seq(Byte) /\ ps \in Parser
      /\ stage = "begin" => Pending(ps) = 0
      /\ stage # "begin" =>
           /\ ps.isBegin = 1 /\ ps.isEsc = (IF stage = "escaped" THEN 1 ELSE 0)
           /\ packet = Joined(ps.out, pk)
  BY <1>1, StoringState
<1>3. ps.out \in Seq(Byte)
  BY <1>2 DEF Parser
<1>4. n \in Nat /\ n >= 2
  <2>1. n \in Nat /\ n >= 2 + Len(packet) /\ Len(packet) \in Nat
    BY <1>1, <1>2, FrameLengthType
  <2> QED BY <2>1
<1>5. PICK m \in Nat : m = Fifo!FrameLength(ps.out)
  BY <1>3, FrameLengthType
<1>6. CASE stage = "begin"
  BY <1>1, <1>2, <1>4, <1>6
<1>7. CASE stage # "begin"
  <2>1. /\ m <= n
        /\ pk # <<>> /\ Head(pk) \in Reserved => m + 2 <= n
    BY <1>1, <1>2, <1>3, <1>5, <1>7, FrameLengthPrefix DEF Joined
  <2>2. stage = "escaped" => m + 2 <= n
    BY <2>1 DEF Parsed, IInv, EscapePending
  <2>3. Pending(ps) = m - 1 + (IF stage = "escaped" THEN 1 ELSE 0)
    BY <1>2, <1>5, <1>7 DEF Pending
  <2> QED BY <1>1, <1>4, <2>1, <2>2, <2>3
<1> QED BY <1>6, <1>7

(* QUEUE_Puts gives up: the packets are as they were, and there was no     *)
(* room for this one.                                                      *)
LEMMA PutsFullKeeps ==
  ASSUME Parsed, PutsFull
  PROVE  /\ Counted' /\ Storing'
         /\ StoredPackets' = StoredPackets
         /\ ~(Fifo!Used(StoredPackets) + Fifo!FrameLength(packet) <= Size)
<1>1. /\ call = "Puts" /\ call' = "none" /\ call' # "Gets" /\ call' # "Puts"
      /\ rb.fill_cnt >= Size /\ rb' = last /\ buf' = buf
      /\ IInv /\ TypeOK /\ CursorsAgree /\ Counted /\ Storing
  BY DEF PutsFull, RINGBUF_Full, Parsed, IInv
<1>2. /\ rb.fill_cnt = Size /\ last.p_r = rb.p_r
      /\ last.fill_cnt \in Nat /\ last.fill_cnt <= rb.fill_cnt
  BY <1>1, QueueAssumption DEF TypeOK, Cursors, CursorsAgree
<1>3. PICK b, c, k, l : /\ b = Stored /\ c = Stored' /\ k = rb.fill_cnt /\ l = last.fill_cnt
  OBVIOUS
<1>4. /\ k \in Nat /\ l \in Nat /\ l <= k
      /\ b \in Seq(Byte) /\ Len(b) = k /\ \A i \in 1 .. k : b[i] = Cell(i - 1)
  BY <1>1, <1>2, <1>3, StoredType
<1>5. c \in Seq(Byte) /\ Len(c) = l /\ \A i \in 1 .. l : c[i] = b[i]
  <2>1. \A i \in 1 .. l : i \in 1 .. k /\ b[i] \in Byte
    BY <1>4
  <2>2. c = [i \in 1 .. l |-> buf[Pos(rb.p_r + (i - 1))]]
    BY <1>1, <1>2, <1>3 DEF Stored, Cell
  <2>3. \A i \in 1 .. l : c[i] = b[i]
    BY <1>4, <2>1, <2>2 DEF Cell
  <2>4. c \in [1 .. l -> Byte]
    BY <2>1, <2>2, <2>3
  <2> QED BY <1>4, <2>3, <2>4
<1>6. Within(c, b, 0)
  BY <1>4, <1>5 DEF Within
<1>7. Reading = Parse(Fresh, b) /\ Reading' = Parse(Fresh, c) /\ Fresh \in Parser
  BY <1>1, <1>3, ReadingType DEF Reading, Fresh
<1>8. \A n \in 0 .. l : /\ Reading'[n].pkts = Reading[n].pkts
                        /\ Reading'[n].ps = Reading[n].ps
  BY <1>4, <1>5, <1>6, <1>7, ParsePrefix
<1>9. StoredPackets' = StoredPackets
  <2>1. l \in 0 .. l /\ rb'.fill_cnt = l
    BY <1>1, <1>3, <1>4
  <2>2. Reading[l].pkts = StoredPackets
    BY <1>1, <1>3 DEF Storing
  <2> QED BY <1>8, <2>1, <2>2 DEF StoredPackets
<1>10. Counted'
  <2>1. \A n \in 0 .. k : n = Fifo!Used(Reading[n].pkts) + Pending(Reading[n].ps)
    BY <1>1, <1>3, CountedAll
  <2>2. Consumed' = 0
    BY <1>1 DEF Consumed
  <2>3. \A n \in 1 .. l : n \in 0 .. k /\ n \in 0 .. l /\ n + 0 = n
    BY <1>4
  <2>4. \A n \in 1 .. l :
          n + Consumed' = Fifo!Used(Reading'[n].pkts) + Pending(Reading'[n].ps)
    BY <1>8, <2>1, <2>2, <2>3
  <2>5. rb'.fill_cnt = l
    BY <1>1, <1>3
  <2> QED BY <2>4, <2>5 DEF Counted
<1>11. Storing'
  BY <1>1 DEF Storing
<1>12. ~(Fifo!Used(StoredPackets) + Fifo!FrameLength(packet) <= Size)
  <2>1. PICK x, y, z : /\ x = Fifo!Used(StoredPackets) /\ y = Pending(Reading[k].ps)
                       /\ z = Fifo!FrameLength(packet)
    OBVIOUS
  <2>2. y \in Int /\ z \in Nat /\ y + 1 <= z
    BY <1>1, <1>3, <2>1, RoomNeeded
  <2>3. x \in Nat
    <3>1. StoredPackets \in Seq(Seq(Byte)) /\ <<>> \in Seq(Byte)
      BY <1>1, ReadingType
    <3> QED BY <2>1, <3>1, UsedMore
  <2>4. Size = x + y /\ Size \in Nat
    <3>1. k \in 0 .. k /\ k = Size
      BY <1>2, <1>3, <1>4
    <3>2. k = Fifo!Used(Reading[k].pkts) + Pending(Reading[k].ps)
      BY <1>1, <1>3, <3>1, CountedAll
    <3> QED BY <1>3, <2>1, <3>1, <3>2, QueueAssumption DEF StoredPackets
  <2>5. ~(x + z <= Size)
    BY ONLY <2>2, <2>3, <2>4
  <2> QED BY <2>1, <2>5
<1> QED BY <1>9, <1>10, <1>11, <1>12

(* QUEUE_Puts begins: nothing is stored yet. *)
LEMMA PutsStartStores ==
  ASSUME Parsed, PutsStart
  PROVE  Counted' /\ Storing' /\ StoredPackets' = StoredPackets
<1>1. /\ call = "none" /\ call' = "Puts" /\ buf' = buf /\ rb' = rb /\ last' = rb
      /\ packet' \in Packets /\ pk' = packet' /\ stage' = "begin" /\ Counted
  BY DEF PutsStart, Parsed
<1>2. Stored' = Stored
  BY <1>1 DEF Stored, Cell
<1>3. Reading' = Reading
  BY <1>1, <1>2 DEF Reading, Fresh
<1>4. StoredPackets' = StoredPackets
  BY <1>1, <1>3 DEF StoredPackets
<1>5. Consumed' = Consumed
  BY <1>1 DEF Consumed
<1>6. Counted'
  BY <1>1, <1>3, <1>5 DEF Counted
<1>7. Storing'
  BY <1>1, <1>3, <1>4 DEF Storing, StoredPackets
<1> QED BY <1>4, <1>6, <1>7

(* QUEUE_Gets begins: whatever isBegin was, the first byte stored, if any, *)
(* is a BEGIN.                                                             *)
LEMMA GetsStartReads ==
  ASSUME Parsed, GetsStart
  PROVE  Counted' /\ Storing' /\ StoredPackets' = StoredPackets
<1>1. /\ call = "none" /\ call' = "Gets" /\ buf' = buf /\ rb' = rb
      /\ IInv /\ TypeOK /\ Counted
      /\ parser' \in Parser
  BY DEF GetsStart, PROTO_Init, Parsed, IInv, Parser
<1>2. PICK b, k, s : b = Stored /\ k = rb.fill_cnt /\ s = parser'
  OBVIOUS
<1>3. /\ k \in Nat /\ b \in Seq(Byte) /\ Len(b) = k /\ \A i \in 1 .. k : b[i] = Cell(i - 1)
      /\ s \in Parser /\ Fresh \in Parser
  BY <1>1, <1>2, StoredType, ReadingType
<1>4. Stored' = b
  BY <1>1, <1>2 DEF Stored, Cell
<1>5. Reading = Parse(Fresh, b) /\ Reading' = Parse(s, b)
  BY <1>1, <1>2, <1>4 DEF Reading
<1>6. b # <<>> => b[1] = BEGIN
  <2>1. ASSUME b # <<>> PROVE b[1] = BEGIN
    <3>1. k > 0
      BY <1>3, <2>1, EmptySeq
    <3>2. b[1] = Cell(0)
      BY <1>3, <3>1
    <3> QED BY <1>1, <1>2, <3>1, <3>2 DEF IInv, WellFramed
  <2> QED BY <2>1
<1>7. Within(b, b, 0)
  BY <1>3 DEF Within
<1>8. /\ \A n \in 0 .. k : Reading'[n].pkts = Reading[n].pkts
      /\ \A n \in 1 .. k : Reading'[n].ps = Reading[n].ps
  <2>1. \A n \in 0 .. k :
          /\ Parse(s, b)[0 + n].pkts = Joined(Parse(s, b)[0].pkts, Parse(Fresh, b)[n].pkts)
          /\ n >= 1 => Parse(s, b)[0 + n].ps = Parse(Fresh, b)[n].ps
    BY <1>3, <1>6, <1>7, ParseAhead
  <2>2. Parse(s, b)[0].pkts = <<>>
    <3>1. Parse(s, b)[0] = [ps |-> s, pkts |-> <<>>]
      BY <1>3, ParseStep
    <3> QED BY <3>1
  <2>3. \A n \in 0 .. k : Joined(<<>>, Parse(Fresh, b)[n].pkts) = Parse(Fresh, b)[n].pkts
    <3>1. \A n \in 0 .. k : Parse(Fresh, b)[n].pkts \in Seq(Seq(Byte))
      BY <1>3, ParseType
    <3>2. \A q \in Seq(Seq(Byte)) : Joined(<<>>, q) = q
      BY DEF Joined
    <3> QED BY <3>1, <3>2
  <2>4. \A n \in 0 .. k : 0 + n = n
    BY <1>3
  <2>5. \A n \in 1 .. k : n \in 0 .. k /\ n >= 1
    BY <1>3
  <2> QED BY <1>5, <2>1, <2>2, <2>3, <2>4, <2>5
<1>9. StoredPackets' = StoredPackets
  <2>1. k \in 0 .. k
    BY <1>3
  <2> QED BY <1>1, <1>2, <1>8, <2>1 DEF StoredPackets
<1>10. Counted'
  <2>1. Consumed = 0
    BY <1>1 DEF Consumed
  <2>2. Consumed' = 0
    <3>1. rb.fill_cnt > 0 => Cell(0) = BEGIN
      BY <1>1 DEF IInv, WellFramed
    <3> QED BY <1>1, <3>1 DEF Consumed, Cell
  <2>3. \A n \in 1 .. k : n + Consumed' = Fifo!Used(Reading'[n].pkts) + Pending(Reading'[n].ps)
    <3>1. \A n \in 1 .. k : n \in 0 .. k
      OBVIOUS
    <3> QED BY <1>1, <1>2, <1>8, <2>1, <2>2, <3>1 DEF Counted
  <2> QED BY <1>1, <1>2, <2>3 DEF Counted
<1>11. Storing'
  BY <1>1 DEF Storing
<1> QED BY <1>9, <1>10, <1>11

(* QUEUE_Gets finds no packet where there is none. *)
LEMMA GetsEmptyFinds ==
  ASSUME Parsed, GetsEmpty
  PROVE  Counted' /\ Storing' /\ StoredPackets' = StoredPackets /\ StoredPackets = <<>>
<1>1. /\ call' = "none" /\ rb' = rb /\ buf' = buf /\ parser' = parser /\ TypeOK
      /\ rb.fill_cnt <= 0
  BY DEF GetsEmpty, RINGBUF_Empty, Parsed, IInv
<1>2. rb.fill_cnt = 0
  BY <1>1, StoredType
<1>3. StoredPackets = <<>>
  BY <1>1, <1>2, ReadingType DEF StoredPackets
<1>5. Reading'[0].pkts = <<>>
  <2>1. Stored' \in Seq(Byte)
    <3>1. Stored' = Stored
      BY <1>1 DEF Stored, Cell
    <3> QED BY <1>1, <3>1, StoredType
  <2>2. Reading' = Parse(Fresh, Stored')
    BY <1>1 DEF Reading, Fresh
  <2>3. Reading'[0] = [ps |-> Fresh, pkts |-> <<>>]
    BY <2>1, <2>2, ParseStep
  <2> QED BY <2>3
<1>6. StoredPackets' = <<>>
  BY <1>1, <1>2, <1>5 DEF StoredPackets
<1>7. Counted'
  BY <1>1, <1>2 DEF Counted
<1>8. Storing'
  BY <1>1 DEF Storing
<1> QED BY <1>3, <1>6, <1>7, <1>8

(* RINGBUF_Get: the bytes stored are those behind the first one. *)
LEMMA StoredShifts ==
  ASSUME IInv, ~RINGBUF_Empty, RINGBUF_Get
  PROVE  /\ rb.fill_cnt \in Nat /\ rb.fill_cnt >= 1 /\ rb'.fill_cnt = rb.fill_cnt - 1
         /\ Stored \in Seq(Byte) /\ Len(Stored) = rb.fill_cnt
         /\ Stored[1] = Cell(0) /\ buf[rb.p_r] = Cell(0)
         /\ Stored' \in Seq(Byte) /\ Len(Stored') = rb.fill_cnt - 1
         /\ Within(Stored', Stored, 1)
         /\ Stored' # <<>> =>
              /\ rb.fill_cnt - 1 > 0 /\ Stored'[1] = Cell(1) /\ (Cell(0))' = Cell(1)
              /\ Cell(0) = END <=> Cell(1) = BEGIN
<1>1. TypeOK /\ CursorsAgree /\ rb.fill_cnt > 0
      /\ \A i \in 1 .. rb.fill_cnt - 1 : Cell(i) = BEGIN <=> Cell(i - 1) = END
  BY StoredType DEF IInv, RINGBUF_Empty, WellFramed
<1>2. PICK b, c, k : b = Stored /\ c = Stored' /\ k = rb.fill_cnt
  OBVIOUS
<1>3. /\ k \in Nat /\ k >= 1 /\ k - 1 \in Nat /\ b \in Seq(Byte) /\ Len(b) = k
      /\ \A i \in 1 .. k : b[i] = Cell(i - 1)
  BY <1>1, <1>2, StoredType
<1>4. /\ rb'.fill_cnt = k - 1 /\ buf[rb.p_r] = Cell(0)
      /\ \A i \in 0 .. k - 2 : buf'[Pos(rb'.p_r + i)] = Cell(i + 1)
  BY <1>1, <1>2, GetShifts
<1>5. c = [i \in 1 .. k - 1 |-> buf'[Pos(rb'.p_r + (i - 1))]]
  BY <1>2, <1>4 DEF Stored, Cell
<1>6. ASSUME NEW i \in 1 .. k - 1
      PROVE  c[i] = b[1 + i] /\ c[i] = Cell(i) /\ c[i] \in Byte
  <2>1. i - 1 \in 0 .. k - 2 /\ (i - 1) + 1 = i /\ 1 + i \in 1 .. k /\ (1 + i) - 1 = i
    BY <1>3
  <2>2. c[i] = Cell(i)
    BY <1>4, <1>5, <2>1
  <2>3. b[1 + i] = Cell(i)
    BY <1>3, <2>1
  <2>4. b[1 + i] \in Byte
    BY <1>3, <2>1
  <2> QED BY <2>2, <2>3, <2>4
<1>7. c \in Seq(Byte) /\ Len(c) = k - 1
  <2>1. c \in [1 .. k - 1 -> Byte]
    BY <1>5, <1>6
  <2> QED BY <1>3, <1>5, <2>1
<1>8. Within(c, b, 1)
  BY <1>3, <1>6, <1>7 DEF Within
<1>9. ASSUME c # <<>>
      PROVE  k - 1 > 0 /\ c[1] = Cell(1) /\ (Cell(0))' = Cell(1)
             /\ (Cell(0) = END <=> Cell(1) = BEGIN)
  <2>1. k - 1 > 0
    BY <1>3, <1>7, <1>9, EmptySeq
  <2>2. 1 \in 1 .. k - 1 /\ 1 - 1 = 0 /\ 0 \in 0 .. k - 2 /\ 0 + 1 = 1
    BY <1>3, <2>1
  <2>3. buf'[Pos(rb'.p_r + 0)] = Cell(1)
    BY <1>4, <2>2
  <2> QED BY <1>1, <1>2, <1>6, <2>1, <2>2, <2>3 DEF Cell
<1>10. b[1] = Cell(0)
  BY <1>3
<1> QED BY <1>2, <1>3, <1>4, <1>7, <1>8, <1>9, <1>10

(* PROTO_ParseRb takes a byte: what it leaves is read as it was before.    *)
LEMMA ReadsNext ==
  ASSUME Parsed, GetsByte,
         NEW v, v = Cell(0), NEW t, t = IF v = END THEN Fresh ELSE parser',
         NEW q, q = IF v = END THEN <<parser.out>> ELSE <<>>
  PROVE  /\ v \in Byte /\ parser \in Parser /\ q \in Seq(Seq(Byte))
         /\ Reading[1].pkts = q
         /\ Reading[1].ps = PROTO_ParseByte(parser, v)
         /\ \A n \in 0 .. rb'.fill_cnt :
              /\ Reading[1 + n].pkts = Joined(q, Reading'[n].pkts)
              /\ n >= 1 => Reading[1 + n].ps = Reading'[n].ps
              /\ Reading'[n].pkts \in Seq(Seq(Byte))
<1>1. /\ call = "Gets" /\ ~RINGBUF_Empty /\ RINGBUF_Get
      /\ parser' = PROTO_ParseByte(parser, buf[rb.p_r])
      /\ buf[rb.p_r] = END => call' = "none"
      /\ buf[rb.p_r] # END => call' = "Gets"
      /\ IInv /\ TypeOK
  BY DEF GetsByte, Parsed, IInv
<1>2. PICK b, c, k : b = Stored /\ c = Stored' /\ k = rb.fill_cnt
  OBVIOUS
<1>3. /\ k \in Nat /\ k >= 1 /\ rb'.fill_cnt = k - 1
      /\ b \in Seq(Byte) /\ Len(b) = k /\ b[1] = v /\ buf[rb.p_r] = v
      /\ c \in Seq(Byte) /\ Len(c) = k - 1 /\ Within(c, b, 1)
      /\ c # <<>> => c[1] = Cell(1) /\ (v = END <=> Cell(1) = BEGIN)
  BY <1>1, <1>2, StoredShifts
<1>4. v \in Byte /\ parser \in Parser /\ Fresh \in Parser
  <2>1. 1 \in 1 .. Len(b)
    BY <1>3
  <2>2. b[1] \in Byte
    BY <1>3, <2>1
  <2> QED BY <1>1, <1>3, <2>2, ReadingType
<1>5. Reading = Parse(parser, b) /\ Reading' = Parse(t, c)
  BY <1>1, <1>2, <1>3 DEF Reading, Fresh
<1>6. t \in Parser /\ parser.out \in Seq(Byte)
  <2>1. PROTO_ParseByte(parser, v) \in Parser
    BY <1>4, ParseByteType DEF Parser
  <2>2. parser.out \in Seq(Byte)
    BY <1>4 DEF Parser
  <2> QED BY <1>1, <1>3, <1>4, <2>1, <2>2
<1>7. /\ Parse(parser, b)[1].ps = PROTO_ParseByte(parser, v)
      /\ Parse(parser, b)[1].pkts = q
  <2>1. 1 \in 1 .. Len(b) /\ 1 - 1 = 0
    BY <1>3
  <2>2. /\ Parse(parser, b)[0] = [ps |-> parser, pkts |-> <<>>]
        /\ Parse(parser, b)[1] = Decode(Parse(parser, b)[0], v)
    BY <1>3, <2>1, ParseStep
  <2>3. Append(<<>>, parser.out) = <<parser.out>>
    OBVIOUS
  <2> QED BY <2>2, <2>3 DEF Decode
<1>8. Parse(parser, b)[1].ps = t \/ (c # <<>> => c[1] = BEGIN)
  BY <1>1, <1>3, <1>7
<1>9. \A n \in 0 .. k - 1 :
        /\ Parse(parser, b)[1 + n].pkts = Joined(q, Parse(t, c)[n].pkts)
        /\ n >= 1 => Parse(parser, b)[1 + n].ps = Parse(t, c)[n].ps
  <2>1. \A n \in 0 .. Len(c) :
          /\ Parse(parser, b)[1 + n].pkts =
               Joined(Parse(parser, b)[1].pkts, Parse(t, c)[n].pkts)
          /\ n >= 1 => Parse(parser, b)[1 + n].ps = Parse(t, c)[n].ps
    <3>1. b \in Seq(Byte) /\ c \in Seq(Byte) /\ Within(c, b, 1)
      BY <1>3
    <3> QED BY <1>4, <1>6, <1>8, <3>1, ParseAhead
  <2> QED BY <1>3, <1>7, <2>1
<1>10. \A n \in 0 .. k - 1 : Parse(t, c)[n].pkts \in Seq(Seq(Byte))
  BY <1>3, <1>6, ParseType
<1>11. q \in Seq(Seq(Byte))
  BY <1>6
<1> QED BY <1>3, <1>4, <1>5, <1>7, <1>9, <1>10, <1>11

(* PROTO_ParseRb takes a byte that is not END: no packet is fetched yet.   *)
LEMMA GetsByteStutters ==
  ASSUME Parsed, GetsByte, Cell(0) # END
  PROVE  Counted' /\ Storing' /\ StoredPackets' = StoredPackets
<1>1. /\ call = "Gets" /\ ~RINGBUF_Empty /\ RINGBUF_Get
      /\ parser' = PROTO_ParseByte(parser, buf[rb.p_r])
      /\ buf[rb.p_r] # END => call' = "Gets"
      /\ IInv /\ Counted
  BY DEF GetsByte, Parsed, IInv
<1>2. PICK k : k = rb.fill_cnt
  OBVIOUS
<1>3. /\ k \in Nat /\ k >= 1 /\ rb'.fill_cnt = k - 1 /\ buf[rb.p_r] = Cell(0)
      /\ Stored' \in Seq(Byte) /\ Len(Stored') = k - 1
      /\ Stored' # <<>> => (Cell(0))' # BEGIN
  BY <1>1, <1>2, StoredShifts
<1>4. call' = "Gets" /\ parser' = PROTO_ParseByte(parser, Cell(0))
  BY <1>1, <1>3
<1>5. /\ Reading[1].pkts = <<>> /\ Reading[1].ps = parser'
      /\ \A n \in 0 .. k - 1 :
           /\ Reading[1 + n].pkts = Joined(<<>>, Reading'[n].pkts)
           /\ n >= 1 => Reading[1 + n].ps = Reading'[n].ps
           /\ Reading'[n].pkts \in Seq(Seq(Byte))
  BY <1>3, <1>4, ReadsNext
<1>6. \A n \in 0 .. k - 1 : Reading[1 + n].pkts = Reading'[n].pkts
  <2>1. \A q \in Seq(Seq(Byte)) : Joined(<<>>, q) = q
    BY DEF Joined
  <2> QED BY <1>5, <2>1
<1>7. StoredPackets' = StoredPackets
  <2>1. k - 1 \in 0 .. k - 1 /\ 1 + (k - 1) = k
    BY <1>3
  <2> QED BY <1>2, <1>3, <1>6, <2>1 DEF StoredPackets
<1>8. Counted'
  <2>1. \A n \in 1 .. k : n + Consumed = Fifo!Used(Reading[n].pkts) + Pending(Reading[n].ps)
    BY <1>1, <1>2 DEF Counted
  <2>2. ASSUME NEW n \in 1 .. k - 1
        PROVE  n + Consumed' = Fifo!Used(Reading'[n].pkts) + Pending(Reading'[n].ps)
    <3>1. /\ 1 + n \in 1 .. k /\ 1 \in 1 .. k /\ n \in 0 .. k - 1 /\ n >= 1
          /\ k - 1 > 0
      BY <1>3
    <3>2. Consumed' = Pending(parser')
      <4>1. Stored' # <<>>
        BY <1>3, <3>1, EmptySeq
      <4> QED BY <1>3, <1>4, <3>1, <4>1 DEF Consumed
    <3>3. 1 + Consumed = 0 + Pending(parser')
      BY <1>5, <2>1, <3>1, UsedEmpty
    <3>4. (1 + n) + Consumed = Fifo!Used(Reading'[n].pkts) + Pending(Reading'[n].ps)
      BY <1>5, <1>6, <2>1, <3>1
    <3>5. PICK x, y, z : /\ x = Consumed /\ y = Pending(parser')
                         /\ z = Fifo!Used(Reading'[n].pkts) + Pending(Reading'[n].ps)
      OBVIOUS
    <3>6. x \in Int /\ y \in Int
      <4>1. parser \in Parser /\ parser' \in Parser
        <5>1. TypeOK
          BY <1>1 DEF IInv
        <5>2. 1 \in 0 .. rb.fill_cnt
          BY <1>2, <1>3
        <5> QED BY <1>5, <5>1, <5>2, ReadingType
      <4> QED BY <3>5, <4>1, PendingType DEF Consumed
    <3>7. 1 + x = 0 + y /\ (1 + n) + x = z /\ n \in Int
      BY <3>3, <3>4, <3>5
    <3>8. n + y = z
      BY ONLY <3>6, <3>7
    <3> QED BY <3>2, <3>5, <3>8
  <2> QED BY <1>3, <2>2 DEF Counted
<1>9. Storing'
  BY <1>4 DEF Storing
<1> QED BY <1>7, <1>8, <1>9

(* END ends the oldest packet, and the packet fetched is that one. *)
LEMMA GetsByteFetches ==
  ASSUME Parsed, GetsByte, Cell(0) = END
  PROVE  /\ Counted' /\ Storing'
         /\ StoredPackets = Joined(<<packet'>>, StoredPackets')
         /\ StoredPackets' \in Seq(Seq(Byte))
         /\ call' = "none" /\ ret' = "ok"
<1>1. /\ call = "Gets" /\ ~RINGBUF_Empty /\ RINGBUF_Get
      /\ parser' = PROTO_ParseByte(parser, buf[rb.p_r])
      /\ buf[rb.p_r] = END => call' = "none" /\ ret' = "ok" /\ packet' = parser.out
      /\ IInv /\ Counted
  BY DEF GetsByte, Parsed, IInv
<1>2. PICK k : k = rb.fill_cnt
  OBVIOUS
<1>3. /\ k \in Nat /\ k >= 1 /\ rb'.fill_cnt = k - 1 /\ buf[rb.p_r] = Cell(0)
  BY <1>1, <1>2, StoredShifts
<1>4. call' = "none" /\ ret' = "ok" /\ packet' = parser.out
  BY <1>1, <1>3
<1>5. PICK p : p = parser.out
  OBVIOUS
<1>6. /\ parser \in Parser /\ Reading[1].pkts = <<p>>
      /\ Reading[1].ps = PROTO_ParseByte(parser, END)
      /\ \A n \in 0 .. k - 1 :
           /\ Reading[1 + n].pkts = Joined(<<p>>, Reading'[n].pkts)
           /\ n >= 1 => Reading[1 + n].ps = Reading'[n].ps
           /\ Reading'[n].pkts \in Seq(Seq(Byte))
  BY <1>3, <1>5, ReadsNext
<1>7. p \in Seq(Byte) /\ Pending(Reading[1].ps) = 0
  BY <1>5, <1>6, MarkRead DEF Parser
<1>8. StoredPackets = Joined(<<p>>, StoredPackets') /\ StoredPackets' \in Seq(Seq(Byte))
  <2>1. k - 1 \in 0 .. k - 1 /\ 1 + (k - 1) = k
    BY <1>3
  <2> QED BY <1>2, <1>3, <1>6, <2>1 DEF StoredPackets
<1>9. Counted'
  <2>1. \A n \in 1 .. k : n + Consumed = Fifo!Used(Reading[n].pkts) + Pending(Reading[n].ps)
    BY <1>1, <1>2 DEF Counted
  <2>2. Consumed' = 0
    BY <1>4 DEF Consumed
  <2>3. ASSUME NEW n \in 1 .. k - 1
        PROVE  n + 0 = Fifo!Used(Reading'[n].pkts) + Pending(Reading'[n].ps)
    <3>1. /\ 1 + n \in 1 .. k /\ 1 \in 1 .. k /\ n \in 0 .. k - 1 /\ n >= 1
      BY <1>3
    <3>2. PICK r, x, y, z, u :
            /\ r = Reading'[n].pkts /\ x = Consumed /\ y = Fifo!FrameLength(p)
            /\ z = Fifo!Used(r) /\ u = Pending(Reading'[n].ps)
      OBVIOUS
    <3>3. r \in Seq(Seq(Byte))
      BY <1>6, <3>1, <3>2
    <3>4. Fifo!Used(Joined(<<p>>, r)) = y + z /\ z \in Nat
      BY <1>7, <3>2, <3>3, UsedMore
    <3>5. (1 + n) + x = (y + z) + u
      <4>1. Reading[1 + n].pkts = Joined(<<p>>, r) /\ Reading[1 + n].ps = Reading'[n].ps
        BY <1>6, <3>1, <3>2
      <4> QED BY <2>1, <3>1, <3>2, <3>4, <4>1
    <3>6. 1 + x = (y + 0) + 0
      <4>1. /\ Fifo!Used(Joined(<<p>>, <<>>)) = y + 0
            /\ <<>> \in Seq(Seq(Byte)) /\ Joined(<<p>>, <<>>) = <<p>>
        <5>1. <<>> \in Seq(Seq(Byte)) /\ <<p>> \in Seq(Seq(Byte))
          BY <1>7
        <5>2. Joined(<<p>>, <<>>) = <<p>>
          BY <5>1 DEF Joined
        <5>3. Fifo!Used(Joined(<<p>>, <<>>)) = y + Fifo!Used(<<>>)
          BY <1>7, <3>2, <5>1, UsedMore
        <5> QED BY <5>1, <5>2, <5>3, UsedEmpty
      <4> QED BY <1>6, <1>7, <2>1, <3>1, <3>2, <4>1
    <3>7. x \in Int /\ y \in Int /\ u \in Int
      <4>1. TypeOK /\ y \in Nat
        BY <1>1, <1>7, <3>2, FrameLengthType DEF IInv
      <4>2. 1 + n \in 0 .. rb.fill_cnt /\ Reading[1 + n].ps = Reading'[n].ps
        BY <1>2, <1>6, <3>1
      <4>3. Reading'[n].ps \in Parser
        BY <4>1, <4>2, ReadingType
      <4> QED BY <1>6, <3>2, <4>1, <4>3, PendingType DEF Consumed
    <3>8. n + 0 = z + u
      <4>1. n \in Int
        OBVIOUS
      <4> QED BY ONLY <3>4, <3>5, <3>6, <3>7, <4>1
    <3> QED BY <3>2, <3>8
  <2> QED BY <1>3, <2>2, <2>3 DEF Counted
<1>10. Storing'
  BY <1>4 DEF Storing
<1> QED BY <1>4, <1>5, <1>8, <1>9, <1>10

(* An empty ring holds no packet. *)
LEMMA InitParsed == Init => Parsed /\ Fifo!Init
<1> SUFFICES ASSUME Init PROVE Parsed /\ Fifo!Init
  OBVIOUS
<1>1. rb.fill_cnt = 0 /\ call = "none" /\ packet = <<>> /\ ret = "none"
  BY DEF Init, QUEUE_Init
<1>2. IInv
  BY InitIInv
<1>3. StoredPackets = <<>>
  BY <1>1, <1>2, ReadingType DEF StoredPackets, IInv
<1>4. Counted /\ Storing
  BY <1>1 DEF Counted, Storing
<1> QED BY <1>1, <1>2, <1>3, <1>4 DEF Parsed, Fifo!Init

(* Every call of the byte ring is a step of the FIFO of packets or none. *)
LEMMA NextParsed == Parsed /\ [Next]_vars => Parsed' /\ [Fifo!Next]_(Fifo!vars)
<1> SUFFICES ASSUME Parsed, [Next]_vars
             PROVE  Parsed' /\ (Fifo!Next \/ UNCHANGED Fifo!vars)
  OBVIOUS
<1>1. IInv'
  BY NextIInv DEF Parsed
<1>2. CASE PutsStart
  <2>1. Counted' /\ Storing' /\ StoredPackets' = StoredPackets
    BY <1>2, PutsStartStores
  <2>2. PICK p \in Packets : packet' = p
    BY <1>2 DEF PutsStart
  <2>3. Fifo!Puts(p)
    BY <1>2, <2>1, <2>2 DEF PutsStart, Fifo!Puts
  <2> QED BY <1>1, <2>1, <2>3 DEF Parsed, Fifo!Next
<1>3. CASE PutsByte
  <2>1. Counted' /\ Storing' /\ StoredPackets' = StoredPackets
    BY <1>3, PutsByteStutters
  <2>2. UNCHANGED Fifo!vars
    BY <1>3, <2>1 DEF PutsByte, Fifo!vars
  <2> QED BY <1>1, <2>1, <2>2 DEF Parsed
<1>4. CASE PutsDone
  <2>1. /\ Counted' /\ Storing'
        /\ StoredPackets' = Append(StoredPackets, packet)
        /\ Fifo!Used(StoredPackets) + Fifo!FrameLength(packet) <= Size
    BY <1>4, PutsDoneAdds
  <2>2. Fifo!Fits(packet)
    BY <2>1 DEF Fifo!Fits
  <2>3. Fifo!PutsReturns
    BY <1>4, <2>1, <2>2 DEF PutsDone, Fifo!PutsReturns
  <2> QED BY <1>1, <2>1, <2>3 DEF Parsed, Fifo!Next
<1>5. CASE PutsFull
  <2>1. /\ Counted' /\ Storing' /\ StoredPackets' = StoredPackets
        /\ ~(Fifo!Used(StoredPackets) + Fifo!FrameLength(packet) <= Size)
    BY <1>5, PutsFullKeeps
  <2>2. ~Fifo!Fits(packet)
    BY <2>1 DEF Fifo!Fits
  <2>3. Fifo!PutsReturns
    BY <1>5, <2>1, <2>2 DEF PutsFull, Fifo!PutsReturns
  <2> QED BY <1>1, <2>1, <2>3 DEF Parsed, Fifo!Next
<1>6. CASE GetsStart
  <2>1. Counted' /\ Storing' /\ StoredPackets' = StoredPackets
    BY <1>6, GetsStartReads
  <2>2. Fifo!Gets
    BY <1>6, <2>1 DEF GetsStart, Fifo!Gets
  <2> QED BY <1>1, <2>1, <2>2 DEF Parsed, Fifo!Next
<1>7. CASE GetsByte /\ Cell(0) # END
  <2>1. Counted' /\ Storing' /\ StoredPackets' = StoredPackets
    BY <1>7, GetsByteStutters
  <2>2. buf[rb.p_r] # END
    <3>1. IInv /\ ~RINGBUF_Empty /\ RINGBUF_Get
      BY <1>7 DEF GetsByte, Parsed
    <3> QED BY <1>7, <3>1, StoredShifts
  <2>3. UNCHANGED Fifo!vars
    BY <1>7, <2>1, <2>2 DEF GetsByte, Fifo!vars
  <2> QED BY <1>1, <2>1, <2>3 DEF Parsed
<1>8. CASE GetsByte /\ Cell(0) = END
  <2>1. /\ Counted' /\ Storing'
        /\ StoredPackets = Joined(<<packet'>>, StoredPackets')
        /\ StoredPackets' \in Seq(Seq(Byte))
        /\ call' = "none" /\ ret' = "ok"
    BY <1>8, GetsByteFetches
  <2>2. /\ StoredPackets # <<>> /\ Head(StoredPackets) = packet'
        /\ Tail(StoredPackets) = StoredPackets'
    <3>1. PICK p, q, r : p = packet' /\ q = StoredPackets /\ r = StoredPackets'
      OBVIOUS
    <3>2. r \in Seq(Seq(Byte)) /\ q = Joined(<<p>>, r)
      BY <2>1, <3>1
    <3>3. q # <<>> /\ Head(q) = p /\ Tail(q) = r
      BY <3>2, JoinedFirst
    <3> QED BY <3>1, <3>3
  <2>3. Fifo!GetsReturns
    BY <1>8, <2>1, <2>2 DEF GetsByte, Fifo!GetsReturns
  <2> QED BY <1>1, <2>1, <2>3 DEF Parsed, Fifo!Next
<1>9. CASE GetsEmpty
  <2>1. Counted' /\ Storing' /\ StoredPackets' = StoredPackets /\ StoredPackets = <<>>
    BY <1>9, GetsEmptyFinds
  <2>2. Fifo!GetsReturns
    BY <1>9, <2>1 DEF GetsEmpty, Fifo!GetsReturns
  <2> QED BY <1>1, <2>1, <2>2 DEF Parsed, Fifo!Next
<1>10. CASE UNCHANGED vars
  <2>1. /\ buf' = buf /\ rb' = rb /\ call' = call /\ parser' = parser /\ last' = last
        /\ packet' = packet /\ pk' = pk /\ stage' = stage /\ ret' = ret
    BY <1>10 DEF vars
  <2>2. Stored' = Stored
    BY <2>1 DEF Stored, Cell
  <2>3. Reading' = Reading
    BY <2>1, <2>2 DEF Reading, Fresh
  <2>4. StoredPackets' = StoredPackets
    BY <2>1, <2>3 DEF StoredPackets
  <2>5. Consumed' = Consumed
    BY <2>1 DEF Consumed, Cell
  <2>6. Counted' /\ Storing'
    BY <2>1, <2>3, <2>4, <2>5 DEF Parsed, Counted, Storing
  <2> QED BY <1>1, <2>1, <2>4, <2>6 DEF Parsed, Fifo!vars
<1> QED BY <1>2, <1>3, <1>4, <1>5, <1>6, <1>7, <1>8, <1>9, <1>10 DEF Next

(* For every ring size, every set of packets and every byte in them, the   *)
(* byte ring with its escaped frames is a bounded FIFO of whole packets:   *)
(* QUEUE_Puts stores a packet exactly when its escaped frame fits and      *)
(* changes nothing otherwise, and QUEUE_Gets returns the oldest packet     *)
(* unchanged, or -1 exactly on an empty queue.                             *)
THEOREM ImplementsFifo == Spec => ImplementsPacketFifo
<1>1. Init => Parsed /\ Fifo!Init
  BY InitParsed
<1>2. Parsed /\ [Next]_vars => Parsed' /\ [Fifo!Next]_(Fifo!vars)
  BY NextParsed
<1> QED BY <1>1, <1>2, PTL DEF Spec, ImplementsPacketFifo, Fifo!Spec

=============================================================================
