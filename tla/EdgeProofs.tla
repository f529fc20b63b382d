---------------------------- MODULE EdgeProofs ------------------------------
(***************************************************************************)
(* Theorems about the two components at the edge, which share nothing with *)
(* each other or the rest: Uart, what the interrupt handler can come to    *)
(* serve and that what is printed comes out unchanged, and Utils, that the *)
(* scanners read what the text writes.                                     *)
(***************************************************************************)
EXTENDS Uart, Utils, SequenceFacts, TLAPS, SequenceTheorems

(* What is raised says how full the FIFOs are, once uart_init has cleared  *)
(* what the boot loader left: an overflow comes with a full FIFO, so at or *)
(* above the trigger level, and until the handler runs both stay raised.   *)
Raised ==
  ready =>
    /\ ena \subseteq {"FRM_ERR", "RXFIFO_FULL", "RXFIFO_TOUT", "RXFIFO_OVF"}
    /\ ~draining => ena = {"FRM_ERR", "RXFIFO_FULL", "RXFIFO_TOUT", "RXFIFO_OVF"}
    /\ "RXFIFO_TOUT" \notin raw
    /\ "RXFIFO_FULL" \in raw \/ draining => rxCount >= RxTrigger
    /\ "RXFIFO_OVF" \in raw /\ ~draining => "RXFIFO_FULL" \in raw

(* Interrupts are off until uart_init, and room is seen only for a byte    *)
(* that is there, below the limit.                                         *)
Writer ==
  /\ ~ready => ~draining /\ ~room /\ todo = <<>> /\ ena = {} /\ Len(txFifo) <= 1
  /\ room => todo # <<>> /\ Len(txFifo) < TxLimit

IInv == TypeOK /\ Raised /\ Writer

(* The program starts in the invariant, whatever the boot loader left. *)
LEMMA InitIInv == ASSUME UartAssumption PROVE Init => IInv
<1> SUFFICES ASSUME Init PROVE IInv
  OBVIOUS
<1> USE UartAssumption DEF UartAssumption, Init
<1>1. \A c \in Chars : <<c>> \in Seq(Chars) /\ Len(<<c>>) = 1
  OBVIOUS
<1>2. txFifo \in Seq(Chars) /\ Len(txFifo) <= 1
  <2>1. CASE txFifo = <<>>
    BY <2>1
  <2>2. CASE txFifo \in {<<c>> : c \in Chars}
    <3>1. PICK c \in Chars : txFifo = <<c>>
      BY <2>2
    <3> QED
      BY <1>1, <3>1
  <2> QED
    BY <2>1, <2>2
<1>3. /\ text \in Seq([call : {"write_char", "sendStr"}, char : Chars])
      /\ todo \in Seq(Chars) /\ wire \in Seq(Chars)
  OBVIOUS
<1>4. TypeOK
  <2>1. Len(txFifo) <= TxLimit
    BY <1>2
  <2>2. raw \subseteq Sources /\ ena \subseteq Sources
    BY DEF Sources
  <2> QED
    BY <1>2, <1>3, <2>1, <2>2 DEF TypeOK
<1>5. Raised /\ Writer
  BY <1>2 DEF Raised, Writer
<1> QED
  BY <1>4, <1>5 DEF IInv

(* A call adds to the text and leaves the FIFOs and interrupts alone. *)
LEMMA CallIInv ==
  ASSUME UartAssumption, IInv, NEW how \in {"write_char", "sendStr"}, NEW c \in Chars,
         NEW bytes \in Seq(Chars), Call(how, c, bytes)
  PROVE  IInv'
<1> USE DEF IInv, Call, Running, rxVars
<1>1. text' \in Seq([call : {"write_char", "sendStr"}, char : Chars])
  BY DEF TypeOK
<1>2. TypeOK'
  BY <1>1 DEF TypeOK
<1>3. Raised'
  BY DEF Raised
<1>4. Writer'
  BY DEF Writer, TypeOK
<1> QED
  BY <1>2, <1>3, <1>4

(* uart_init empties the FIFOs and lets the receive interrupts through. *)
LEMMA InitCallIInv == ASSUME UartAssumption, IInv, uart_init PROVE IInv'
<1> USE UartAssumption DEF UartAssumption, IInv, uart_init
<1>1. TypeOK'
  BY DEF TypeOK, Sources
<1>2. Raised'
  BY DEF Raised, Writer
<1>3. Writer'
  BY DEF Writer, TypeOK
<1> QED
  BY <1>1, <1>2, <1>3

(* Room seen is room at the write: the hardware only takes bytes out. *)
LEMMA WriteIInv == ASSUME UartAssumption, IInv, SeeRoom \/ WriteByte PROVE IInv'
<1> USE UartAssumption DEF UartAssumption, IInv, rxVars
<1>1. CASE SeeRoom
  <2>1. TypeOK'
    BY <1>1 DEF SeeRoom, TypeOK
  <2>2. Raised'
    BY <1>1 DEF SeeRoom, Raised
  <2>3. Writer'
    BY <1>1 DEF SeeRoom, Writer, Room, Running
  <2> QED
    BY <2>1, <2>2, <2>3
<1>2. CASE WriteByte
  <2>1. /\ Head(todo) \in Chars /\ Tail(todo) \in Seq(Chars)
        /\ txFifo' \in Seq(Chars) /\ Len(txFifo') <= TxLimit
    BY <1>2 DEF WriteByte, Writer, TypeOK, Put
  <2>2. TypeOK'
    BY <1>2, <2>1 DEF WriteByte, TypeOK
  <2>3. Raised'
    BY <1>2 DEF WriteByte, Raised
  <2>4. Writer'
    BY <1>2 DEF WriteByte, Writer, Running
  <2> QED
    BY <2>2, <2>3, <2>4
<1> QED
  BY <1>1, <1>2

(* A byte that arrives raises what the count it leaves calls for. *)
LEMMA ArrivesIInv == ASSUME UartAssumption, IInv, ByteArrives PROVE IInv'
<1> USE UartAssumption DEF UartAssumption, IInv, ByteArrives, Triggered
<1>1. TypeOK'
  BY DEF TypeOK, Sources
<1>2. Raised'
  <2>1. rxCount' \in Nat /\ rxCount' >= rxCount
    BY DEF TypeOK
  <2>2. ready' => /\ "RXFIFO_TOUT" \notin raw'
                  /\ "RXFIFO_FULL" \in raw' \/ draining' => rxCount' >= RxTrigger
    BY <2>1 DEF Raised, TypeOK
  <2>3. ready' /\ "RXFIFO_OVF" \in raw' /\ ~draining' => "RXFIFO_FULL" \in raw'
    BY DEF Raised, TypeOK
  <2> QED
    BY <2>2, <2>3 DEF Raised
<1>3. Writer'
  BY DEF Writer
<1> QED
  BY <1>1, <1>2, <1>3

(* A byte that leaves makes room. *)
LEMMA LeavesIInv == ASSUME UartAssumption, IInv, ByteLeaves PROVE IInv'
<1> USE UartAssumption DEF UartAssumption, IInv, ByteLeaves
<1>1. /\ Tail(txFifo) \in Seq(Chars) /\ Len(Tail(txFifo)) = Len(txFifo) - 1
      /\ Append(wire, Head(txFifo)) \in Seq(Chars)
      /\ Len(txFifo) \in Nat
  BY DEF TypeOK
<1>2. TypeOK'
  BY <1>1 DEF TypeOK, Sources
<1>3. Raised'
  BY DEF Raised
<1>4. Writer'
  BY <1>1 DEF Writer
<1> QED
  BY <1>2, <1>3, <1>4

(* With the handler running, its source is a frame error or a full FIFO. *)
LEMMA ServedSource ==
  ASSUME IInv, Running, Pending # {} PROVE Served \in {"FRM_ERR", "RXFIFO_FULL"}
<1>1. \E s \in {"FRM_ERR", "RXFIFO_FULL", "RXFIFO_OVF"} : s \in Pending
  BY DEF IInv, Raised, Running, Pending
<1>2. "RXFIFO_OVF" \in Pending => "RXFIFO_FULL" \in Pending
  BY DEF IInv, Raised, Running, Pending
<1> QED
  BY <1>1, <1>2 DEF Served

(* The handler clears what it serves, which is never half of an overflow,  *)
(* and loops only for a FIFO at the trigger level.                         *)
LEMMA HandlerIInv ==
  ASSUME UartAssumption, IInv, HandlerClears \/ HandlerDrains PROVE IInv'
<1> USE UartAssumption DEF UartAssumption, IInv
<1>1. CASE HandlerClears
  <2>1. Served = "FRM_ERR"
    BY <1>1, ServedSource DEF HandlerClears
  <2>2. raw' = raw \ {"FRM_ERR"} /\ ena' = ena
    BY <1>1, <2>1 DEF HandlerClears
  <2>3. TypeOK'
    BY <1>1, <2>2 DEF HandlerClears, TypeOK
  <2>4. Raised'
    BY <1>1, <2>2 DEF HandlerClears, Raised
  <2>5. Writer'
    BY <1>1, <2>2 DEF HandlerClears, Writer
  <2> QED
    BY <2>3, <2>4, <2>5
<1>2. CASE HandlerDrains
  <2>1. Served = "RXFIFO_FULL" /\ ready /\ ~draining
    BY <1>2, ServedSource DEF HandlerDrains, Running
  <2>2. "RXFIFO_FULL" \in raw
    BY <2>1 DEF Served, Pending
  <2>3. rxCount >= RxTrigger /\ rxCount > 0
    BY <2>1, <2>2 DEF Raised, TypeOK
  <2>4. draining' = TRUE
    BY <1>2, <2>3 DEF HandlerDrains
  <2>5. TypeOK'
    BY <1>2, <2>1, <2>4 DEF HandlerDrains, TypeOK
  <2>6. Raised'
    BY <1>2, <2>1, <2>3, <2>4 DEF HandlerDrains, Raised
  <2>7. Writer'
    BY <1>2, <2>1 DEF HandlerDrains, Writer
  <2> QED
    BY <2>5, <2>6, <2>7
<1> QED
  BY <1>1, <1>2

(* Every step keeps the invariant. *)
LEMMA NextIInv == ASSUME UartAssumption, IInv, [Next]_vars PROVE IInv'
<1>1. CASE uart_init
  BY <1>1, InitCallIInv
<1>2. CASE SeeRoom \/ WriteByte
  BY <1>2, WriteIInv
<1>3. CASE \E c \in Chars : uart0_write_char(c)
  <2>1. PICK c \in Chars : uart0_write_char(c)
    BY <1>3
  <2> DEFINE bytes == CASE c = "\n" -> <<"\r", "\n">> [] c = "\r" -> <<>> [] OTHER -> <<c>>
  <2>2. bytes \in Seq(Chars)
    <3>1. <<"\r", "\n">> \in Seq(Chars) /\ <<c>> \in Seq(Chars) /\ <<>> \in Seq(Chars)
      BY UartAssumption DEF UartAssumption
    <3> QED
      BY <3>1
  <2>3. Call("write_char", c, bytes)
    BY <2>1 DEF uart0_write_char
  <2> HIDE DEF bytes
  <2> QED
    BY <2>2, <2>3, CallIInv
<1>4. CASE \E c \in Chars : uart0_sendStr(c)
  <2>1. PICK c \in Chars : Call("sendStr", c, <<c>>)
    BY <1>4 DEF uart0_sendStr
  <2>2. <<c>> \in Seq(Chars)
    OBVIOUS
  <2> QED
    BY <2>1, <2>2, CallIInv
<1>5. CASE HandlerClears \/ HandlerDrains
  BY <1>5, HandlerIInv
<1>6. CASE ByteArrives
  BY <1>6, ArrivesIInv
<1>7. CASE ByteLeaves
  BY <1>7, LeavesIInv
<1>8. CASE UNCHANGED vars
  BY <1>8 DEF vars, rxVars, IInv, TypeOK, Raised, Writer, Sources
<1> QED
  BY <1>1, <1>2, <1>3, <1>4, <1>5, <1>6, <1>7, <1>8 DEF Next

(* The invariant holds in every state. *)
LEMMA AlwaysIInv == Spec => []IInv
<1>1. Init => IInv
  BY InitIInv, UartAssumption
<1>2. IInv /\ [Next]_vars => IInv'
  BY NextIInv, UartAssumption
<1> QED
  BY <1>1, <1>2, PTL DEF Spec

(* The variables keep their types, and uart_tx_one_char never fills the    *)
(* transmit FIFO beyond its limit, though it writes after it has looked.   *)
THEOREM TypeCorrect == Spec => []TypeOK
<1>1. IInv => TypeOK
  BY DEF IInv
<1> QED
  BY <1>1, AlwaysIInv, PTL

(* uart0_rx_intr_handler starts to loop for ever at the trigger level only. *)
THEOREM HangsAtTrigger == Spec => []HangsAtTriggerOnly
<1>1. IInv => HangsAtTriggerOnly
  BY DEF IInv, Raised, Writer, HangsAtTriggerOnly
<1> QED
  BY <1>1, AlwaysIInv, PTL

(* No run of the handler gets as far as the branches for an overflow or an *)
(* empty transmit FIFO.                                                    *)
THEOREM LastBranchesNeverServed == Spec => []LastBranchesDead
<1>1. IInv => LastBranchesDead
  BY ServedSource DEF LastBranchesDead
<1> QED
  BY <1>1, AlwaysIInv, PTL

-----------------------------------------------------------------------------
(* What is printed comes out *)

(* What one call puts on the wire. *)
Piece(e) ==
  IF e.call = "sendStr" THEN <<e.char>>
  ELSE CASE e.char = "\n" -> <<"\r", "\n">>
         [] e.char = "\r" -> <<>>
         [] OTHER -> <<e.char>>

(* Nothing is printed before uart_init, and what is printed afterwards is  *)
(* on the wire, in the FIFO, or still in the hands of the running call.    *)
OInv == IInv /\ (~ready => text = <<>>) /\ OutputRight

Entries == [call : {"write_char", "sendStr"}, char : Chars]

(* A piece is a sequence of characters. *)
LEMMA PieceType ==
  ASSUME UartAssumption, NEW e \in Entries PROVE Piece(e) \in Seq(Chars)
<1>1. /\ <<"\r", "\n">> \in Seq(Chars) /\ <<e.char>> \in Seq(Chars)
      /\ <<>> \in Seq(Chars)
  BY UartAssumption DEF UartAssumption, Entries
<1> QED
  BY <1>1 DEF Piece

(* The output of a text is its calls' pieces, one after another. *)
LEMMA OutputPieces ==
  ASSUME NEW t PROVE Output(t) = FlattenSeq([i \in DOMAIN t |-> Piece(t[i])])
BY DEF Output, Piece

(* One more call adds its piece to the output. *)
LEMMA OutputAppend ==
  ASSUME UartAssumption, NEW t \in Seq(Entries), NEW e \in Entries
  PROVE  Output(Append(t, e)) = Output(t) \o Piece(e) /\ Output(t) \in Seq(Chars)
<1> DEFINE P(u) == [i \in DOMAIN u |-> Piece(u[i])]
<1>1. \A u \in Seq(Entries) : P(u) \in Seq(Seq(Chars)) /\ Len(P(u)) = Len(u)
  <2> TAKE u \in Seq(Entries)
  <2>1. \A i \in 1 .. Len(u) : Piece(u[i]) \in Seq(Chars)
    BY PieceType
  <2>2. P(u) = [i \in 1 .. Len(u) |-> Piece(u[i])]
    OBVIOUS
  <2> QED
    BY <2>1, <2>2
<1>2. Append(t, e) \in Seq(Entries) /\ Piece(e) \in Seq(Chars)
  BY PieceType
<1>3. P(Append(t, e)) = Append(P(t), Piece(e))
  <2>1. /\ Len(Append(t, e)) = Len(t) + 1 /\ Append(t, e)[Len(t) + 1] = e
        /\ \A i \in 1 .. Len(t) : Append(t, e)[i] = t[i]
    BY AppendProperties
  <2>2. /\ P(Append(t, e)) \in Seq(Seq(Chars)) /\ Len(P(Append(t, e))) = Len(t) + 1
        /\ P(t) \in Seq(Seq(Chars)) /\ Len(P(t)) = Len(t)
    BY <1>1, <1>2, <2>1
  <2>3. /\ Append(P(t), Piece(e)) \in Seq(Seq(Chars))
        /\ Len(Append(P(t), Piece(e))) = Len(t) + 1
        /\ Append(P(t), Piece(e))[Len(t) + 1] = Piece(e)
        /\ \A i \in 1 .. Len(t) : Append(P(t), Piece(e))[i] = P(t)[i]
    BY <1>2, <2>2, AppendProperties
  <2>4. ASSUME NEW i \in 1 .. Len(t) + 1
        PROVE  P(Append(t, e))[i] = Append(P(t), Piece(e))[i]
    <3>1. P(Append(t, e))[i] = Piece(Append(t, e)[i])
      BY <2>1
    <3>2. CASE i = Len(t) + 1
      BY <2>1, <2>3, <3>1, <3>2
    <3>3. CASE i # Len(t) + 1
      <4>1. i \in 1 .. Len(t) /\ Append(P(t), Piece(e))[i] = P(t)[i]
        BY <2>3, <3>3
      <4>2. P(t)[i] = Piece(t[i])
        BY <4>1
      <4> QED
        BY <2>1, <3>1, <4>1, <4>2
    <3> QED
      BY <3>2, <3>3
  <2> HIDE DEF P
  <2> QED
    BY <2>2, <2>3, <2>4, SeqEqual
<1>4. P(t) \in Seq(Seq(Chars))
  BY <1>1
<1>5. Output(t) = FlattenSeq(P(t)) /\ Output(Append(t, e)) = FlattenSeq(P(Append(t, e)))
  BY OutputPieces
<1> HIDE DEF P
<1>6. /\ FlattenSeq(Append(P(t), Piece(e))) = FlattenSeq(P(t)) \o Piece(e)
      /\ FlattenSeq(P(t)) \in Seq(Chars)
  BY <1>2, <1>4, FlattenAppend, FlattenType
<1> QED
  BY <1>3, <1>5, <1>6

(* Before uart_init there is nothing printed. *)
LEMMA InitOInv == ASSUME UartAssumption PROVE Init => OInv
<1> SUFFICES ASSUME Init PROVE OInv
  OBVIOUS
<1>1. IInv
  BY InitIInv
<1> QED
  BY <1>1 DEF OInv, OutputRight, Init

(* A call adds its piece to what is to come out. *)
LEMMA CallOInv ==
  ASSUME UartAssumption, OInv, NEW how \in {"write_char", "sendStr"}, NEW c \in Chars,
         NEW bytes \in Seq(Chars), Call(how, c, bytes),
         bytes = Piece([call |-> how, char |-> c])
  PROVE  OInv'
<1> DEFINE e == [call |-> how, char |-> c]
<1>1. IInv'
  BY CallIInv DEF OInv
<1>2. e \in Entries /\ text \in Seq(Entries) /\ wire \in Seq(Chars) /\ txFifo \in Seq(Chars)
  BY DEF Entries, OInv, IInv, TypeOK
<1>3. Output(Append(text, e)) = Output(text) \o Piece(e) /\ Output(text) \in Seq(Chars)
  BY <1>2, OutputAppend
<1>4. /\ ready /\ ready' /\ todo = <<>> /\ todo' = bytes /\ wire' = wire
      /\ txFifo' = txFifo /\ text' = Append(text, e)
  BY DEF Call, Running
<1> HIDE DEF e
<1>5. wire \o txFifo = Output(text)
  <2>1. (wire \o txFifo) \o <<>> = wire \o txFifo
    BY <1>2
  <2> QED
    BY <2>1, <1>4 DEF OInv, OutputRight
<1>6. (wire \o txFifo) \o bytes = Output(text) \o Piece(e)
  BY <1>5 DEF e
<1>7. OutputRight'
  BY <1>3, <1>4, <1>6 DEF OutputRight
<1> QED
  BY <1>1, <1>4, <1>7 DEF OInv

(* The byte written goes from the front of what is to do to the end of the *)
(* FIFO, which has room.                                                   *)
LEMMA WriteOInv == ASSUME UartAssumption, OInv, WriteByte PROVE OInv'
<1>1. IInv'
  BY WriteIInv DEF OInv
<1>2. /\ wire \in Seq(Chars) /\ txFifo \in Seq(Chars) /\ todo \in Seq(Chars)
      /\ todo # <<>> /\ Len(txFifo) < TxSize /\ ready
  <2>1. TypeOK /\ room /\ ready /\ todo # <<>> /\ Len(txFifo) < TxLimit
    BY DEF OInv, IInv, Writer, WriteByte, Running
  <2> QED
    BY <2>1, UartAssumption DEF TypeOK, UartAssumption
<1>3. /\ txFifo' = Append(txFifo, Head(todo)) /\ todo' = Tail(todo)
      /\ wire' = wire /\ text' = text /\ ready' = ready
  BY <1>2 DEF WriteByte, Put
<1>4. wire \o Append(txFifo, Head(todo)) \o Tail(todo) = wire \o txFifo \o todo
  <2>1. /\ Head(todo) \in Chars /\ Tail(todo) \in Seq(Chars)
        /\ <<Head(todo)>> \in Seq(Chars) /\ <<Head(todo)>> \o Tail(todo) = todo
        /\ wire \o txFifo \in Seq(Chars)
    BY <1>2
  <2>2. wire \o Append(txFifo, Head(todo)) = (wire \o txFifo) \o <<Head(todo)>>
    BY <1>2, <2>1
  <2>3. ((wire \o txFifo) \o <<Head(todo)>>) \o Tail(todo) =
          (wire \o txFifo) \o (<<Head(todo)>> \o Tail(todo))
    BY <2>1, ConcatAssociative, SMTT(60)
  <2> QED
    BY <2>1, <2>2, <2>3
<1>5. OutputRight'
  BY <1>2, <1>3, <1>4 DEF OInv, OutputRight
<1> QED
  BY <1>1, <1>2, <1>3, <1>5 DEF OInv

(* The byte that leaves goes from the front of the FIFO to the wire's end. *)
LEMMA LeavesOInv == ASSUME UartAssumption, OInv, ByteLeaves PROVE OInv'
<1>1. IInv'
  BY LeavesIInv DEF OInv
<1>2. /\ wire \in Seq(Chars) /\ txFifo \in Seq(Chars) /\ todo \in Seq(Chars)
      /\ txFifo # <<>>
  BY DEF OInv, IInv, TypeOK, ByteLeaves
<1>3. /\ txFifo' = Tail(txFifo) /\ wire' = Append(wire, Head(txFifo))
      /\ todo' = todo /\ text' = text /\ ready' = ready
  BY DEF ByteLeaves
<1>4. Append(wire, Head(txFifo)) \o Tail(txFifo) \o todo = wire \o txFifo \o todo
  BY <1>2
<1>5. OutputRight'
  BY <1>3, <1>4 DEF OInv, OutputRight
<1> QED
  BY <1>1, <1>3, <1>5 DEF OInv

(* Every step keeps the output right. *)
LEMMA NextOInv == ASSUME UartAssumption, OInv, [Next]_vars PROVE OInv'
<1>1. CASE uart_init
  <2>1. IInv'
    BY <1>1, InitCallIInv DEF OInv
  <2>2. /\ ready' /\ text' = <<>> /\ todo' = <<>> /\ wire' = <<>> /\ txFifo' = <<>>
    BY <1>1 DEF uart_init, OInv, IInv, Writer
  <2>3. Output(<<>>) = <<>>
    <3>1. [i \in DOMAIN <<>> |-> Piece(<<>>[i])] = <<>>
      OBVIOUS
    <3> QED
      BY <3>1, OutputPieces, FlattenEmpty
  <2>4. <<>> \o <<>> \o <<>> = <<>>
    OBVIOUS
  <2> QED
    BY <2>1, <2>2, <2>3, <2>4 DEF OInv, OutputRight
<1>2. CASE WriteByte
  BY <1>2, WriteOInv
<1>3. CASE \E c \in Chars : uart0_write_char(c)
  <2>1. PICK c \in Chars : uart0_write_char(c)
    BY <1>3
  <2> DEFINE e == [call |-> "write_char", char |-> c]
  <2>2. e \in Entries
    BY DEF Entries
  <2>3. Piece(e) \in Seq(Chars)
    BY <2>2, PieceType
  <2>4. Call("write_char", c, Piece(e))
    BY <2>1 DEF uart0_write_char, Piece
  <2> HIDE DEF e
  <2> QED
    BY <2>3, <2>4, CallOInv DEF e
<1>4. CASE \E c \in Chars : uart0_sendStr(c)
  <2>1. PICK c \in Chars : uart0_sendStr(c)
    BY <1>4
  <2> DEFINE e == [call |-> "sendStr", char |-> c]
  <2>2. e \in Entries
    BY DEF Entries
  <2>3. Piece(e) \in Seq(Chars)
    BY <2>2, PieceType
  <2>4. Call("sendStr", c, Piece(e))
    BY <2>1 DEF uart0_sendStr, Piece
  <2> HIDE DEF e
  <2> QED
    BY <2>3, <2>4, CallOInv DEF e
<1>5. CASE ByteLeaves
  BY <1>5, LeavesOInv
<1>6. CASE UNCHANGED <<ready, text, todo, txFifo, wire>>
  <2>1. IInv'
    BY NextIInv DEF OInv
  <2> QED
    BY <1>6, <2>1 DEF OInv, OutputRight
<1>7. CASE SeeRoom \/ HandlerClears \/ HandlerDrains \/ ByteArrives \/ UNCHANGED vars
  BY <1>6, <1>7 DEF SeeRoom, HandlerClears, HandlerDrains, ByteArrives, vars, rxVars
<1> QED
  BY <1>1, <1>2, <1>3, <1>4, <1>5, <1>7 DEF Next

(* What the program prints through uart0_write_char and uart0_sendStr comes *)
(* out of the port whole, in order and once, and nothing else does.        *)
THEOREM OutputComesOut == Spec => []OutputRight
<1>1. Init => OInv
  BY InitOInv, UartAssumption
<1>2. OInv /\ [Next]_vars => OInv'
  BY NextOInv, UartAssumption
<1>3. OInv => OutputRight
  BY DEF OInv
<1> QED
  BY <1>1, <1>2, <1>3, PTL DEF Spec

-----------------------------------------------------------------------------
(* The text utilities: numbers *)

(* A digit counts what UTILS_Atoh takes it for. *)
LEMMA WorthOfDigit ==
  ASSUME NEW c \in HexDigits
  PROVE  Worth(c) = HexOf(c) /\ HexOf(c) \in 0 .. 15
<1> USE DEF HexDigits, Digits, HexOf
<1>1. ASSUME NEW k \in 1 .. 16
      PROVE  /\ UpperCase[k] = IF k <= 10 THEN 47 + k ELSE 54 + k
             /\ LowerCase[k] = IF k <= 10 THEN 47 + k ELSE 86 + k
  <2>1. k \in {1, 2, 3, 4, 5, 6, 7, 8, 9, 10, 11, 12, 13, 14, 15, 16}
    OBVIOUS
  <2> QED BY <2>1 DEF UpperCase, LowerCase
<1>2. PICK h : h = HexOf(c)
  OBVIOUS
<1>3. h \in 0 .. 15 /\ h + 1 \in 1 .. 16
  BY <1>2
<1>4. ASSUME NEW k \in 1 .. 16
      PROVE  c \in {UpperCase[k], LowerCase[k]} <=> k = h + 1
  <2>1. c \in {UpperCase[k], LowerCase[k]} <=>
          c = (IF k <= 10 THEN 47 + k ELSE 54 + k) \/ c = (IF k <= 10 THEN 47 + k ELSE 86 + k)
    BY <1>1
  <2> QED BY <1>2, <2>1
<1>5. (CHOOSE k \in 1 .. 16 : c \in {UpperCase[k], LowerCase[k]}) = h + 1
  BY <1>3, <1>4
<1>6. Worth(c) = (h + 1) - 1
  BY <1>5, Zenon DEF Worth
<1> QED BY <1>2, <1>3, <1>6

(* v is the table of the values of the first k digits of s. *)
IsValue(v, s, b, k) ==
  v = [n \in 0 .. k |-> IF n = 0 THEN 0 ELSE v[n - 1] * b + Worth(s[n])]

(* There is such a table for every length. *)
LEMMA ValueExists ==
  ASSUME NEW s, NEW b
  PROVE  \A k \in Nat : \E v : IsValue(v, s, b, k)
<1> DEFINE S == {k \in Nat : \E v : IsValue(v, s, b, k)}
<1>1. 0 \in S
  <2> DEFINE v == [n \in 0 .. 0 |-> 0]
  <2>1. v = [n \in 0 .. 0 |-> IF n = 0 THEN 0 ELSE v[n - 1] * b + Worth(s[n])]
    OBVIOUS
  <2> HIDE DEF v
  <2>2. IsValue(v, s, b, 0)
    BY <2>1 DEF IsValue
  <2> QED BY <2>2
<1>2. ASSUME NEW k \in Nat, k \in S PROVE k + 1 \in S
  <2>1. PICK v : IsValue(v, s, b, k)
    BY <1>2
  <2> DEFINE w == [n \in 0 .. k + 1 |->
                    IF n = k + 1 THEN v[k] * b + Worth(s[n]) ELSE v[n]]
  <2>2. ASSUME NEW n \in 0 .. k + 1
        PROVE  w[n] = IF n = 0 THEN 0 ELSE w[n - 1] * b + Worth(s[n])
    <3>1. CASE n = k + 1
      <4>1. n # 0 /\ n - 1 = k /\ k \in 0 .. k + 1 /\ k # k + 1
        BY <3>1
      <4>2. w[n] = v[k] * b + Worth(s[n]) /\ w[n - 1] = v[k]
        BY <3>1, <4>1
      <4> HIDE DEF w
      <4> QED BY <4>1, <4>2
    <3>2. CASE n # k + 1 /\ n # 0
      <4>1. n \in 0 .. k /\ n - 1 \in 0 .. k /\ n - 1 # k + 1 /\ n - 1 \in 0 .. k + 1
        BY <3>2
      <4>2. v[n] = v[n - 1] * b + Worth(s[n])
        BY <2>1, <3>2, <4>1 DEF IsValue
      <4>3. w[n] = v[n] /\ w[n - 1] = v[n - 1]
        BY <3>2, <4>1
      <4> HIDE DEF w
      <4> QED BY <3>2, <4>2, <4>3
    <3>3. CASE n = 0
      <4>1. 0 \in 0 .. k /\ 0 # k + 1
        OBVIOUS
      <4>2. v[0] = 0
        BY <2>1, <4>1 DEF IsValue
      <4>3. w[0] = v[0]
        BY <4>1
      <4> HIDE DEF w
      <4> QED BY <3>3, <4>2, <4>3
    <3> QED BY <3>1, <3>2, <3>3
  <2>3. w = [n \in 0 .. k + 1 |-> w[n]]
    OBVIOUS
  <2> HIDE DEF w
  <2>4. IsValue(w, s, b, k + 1)
    BY <2>2, <2>3 DEF IsValue
  <2> QED BY <2>4
<1> HIDE DEF S
<1>3. Nat \subseteq S
  BY <1>1, <1>2, NaturalInduction
<1> QED BY <1>3 DEF S

(* ValueOf is its last value. *)
LEMMA ValueIs ==
  ASSUME NEW s, NEW b, Len(s) \in Nat
  PROVE  \E v : IsValue(v, s, b, Len(s)) /\ ValueOf(s, b) = v[Len(s)]
<1> DEFINE w == CHOOSE v : IsValue(v, s, b, Len(s))
<1>1. IsValue(w, s, b, Len(s))
  BY ValueExists
<1>2. ValueOf(s, b) = w[Len(s)]
  BY DEF ValueOf, IsValue
<1> HIDE DEF w
<1> QED BY <1>1, <1>2

(* Tables for strings that begin alike begin alike. *)
LEMMA ValuesAgree ==
  ASSUME NEW s, NEW u, NEW b, NEW v, NEW w, NEW m \in Nat, NEW n \in Nat, m <= n,
         IsValue(v, s, b, m), IsValue(w, u, b, n), \A i \in 1 .. m : s[i] = u[i]
  PROVE  \A i \in 0 .. m : v[i] = w[i]
<1> DEFINE S == {k \in Nat : k \in 0 .. m => v[k] = w[k]}
<1>1. \A k \in 0 .. m : v[k] = IF k = 0 THEN 0 ELSE v[k - 1] * b + Worth(s[k])
  BY DEF IsValue
<1>2. \A k \in 0 .. n : w[k] = IF k = 0 THEN 0 ELSE w[k - 1] * b + Worth(u[k])
  BY DEF IsValue
<1>3. 0 \in S
  BY <1>1, <1>2
<1>4. ASSUME NEW k \in Nat, k \in S PROVE k + 1 \in S
  <2>1. SUFFICES ASSUME k + 1 \in 0 .. m PROVE v[k + 1] = w[k + 1]
    OBVIOUS
  <2>2. k \in 0 .. m /\ v[k] = w[k] /\ k + 1 \in 0 .. n /\ k + 1 # 0 /\ (k + 1) - 1 = k
    BY <1>4, <2>1
  <2>3. s[k + 1] = u[k + 1]
    BY <2>1, <2>2
  <2>4. v[k + 1] = v[k] * b + Worth(s[k + 1])
    BY <1>1, <2>1, <2>2
  <2>5. w[k + 1] = w[k] * b + Worth(u[k + 1])
    BY <1>2, <2>2
  <2> QED BY <2>2, <2>3, <2>4, <2>5
<1> HIDE DEF S
<1>5. Nat \subseteq S
  BY <1>3, <1>4, NaturalInduction
<1> QED BY <1>5 DEF S

(* Nothing has the value 0. *)
LEMMA ValueOfEmpty == ASSUME NEW b PROVE ValueOf(<<>>, b) = 0
<1>1. Len(<<>>) = 0 /\ 0 \in Nat /\ 0 \in 0 .. 0
  OBVIOUS
<1>2. PICK v : IsValue(v, <<>>, b, 0) /\ ValueOf(<<>>, b) = v[0]
  BY <1>1, ValueIs
<1>3. v[0] = 0
  BY <1>1, <1>2 DEF IsValue
<1> QED BY <1>2, <1>3

(* One more digit counts behind b times the others. *)
LEMMA ValueAppend ==
  ASSUME NEW A, NEW s \in Seq(A), NEW c \in A, NEW b
  PROVE  ValueOf(Append(s, c), b) = ValueOf(s, b) * b + Worth(c)
<1>1. PICK u, n : u = Append(s, c) /\ n = Len(s)
  OBVIOUS
<1>2. /\ n \in Nat /\ n + 1 \in Nat /\ n <= n + 1 /\ Len(u) = n + 1 /\ u[n + 1] = c
      /\ \A i \in 1 .. n : s[i] = u[i]
  BY <1>1
<1>3. PICK v : IsValue(v, s, b, n) /\ ValueOf(s, b) = v[n]
  BY <1>1, <1>2, ValueIs
<1>4. PICK w : IsValue(w, u, b, n + 1) /\ ValueOf(u, b) = w[n + 1]
  BY <1>2, ValueIs
<1>5. \A i \in 0 .. n : v[i] = w[i]
  BY <1>2, <1>3, <1>4, ValuesAgree
<1>6. n + 1 \in 0 .. n + 1 /\ n + 1 # 0 /\ (n + 1) - 1 = n /\ n \in 0 .. n
  BY <1>2
<1>7. w[n + 1] = w[n] * b + Worth(u[n + 1])
  BY <1>4, <1>6 DEF IsValue
<1> QED BY <1>1, <1>2, <1>3, <1>4, <1>5, <1>6, <1>7

-----------------------------------------------------------------------------
(* The text utilities: where the numbers end *)

(* r is where the next character of s behind place i is that is not in S. *)
IsAfter(s, S, i, r) ==
  /\ r \in i + 1 .. Len(s) + 1
  /\ \A j \in i + 1 .. r - 1 : s[j] \in S
  /\ r <= Len(s) => s[r] \notin S

(* There is only one such place. *)
LEMMA AfterOne ==
  ASSUME NEW s, NEW S, NEW i \in Nat, NEW q, NEW r, Len(s) \in Nat,
         IsAfter(s, S, i, q), IsAfter(s, S, i, r)
  PROVE  q = r
BY DEF IsAfter

(* After finds it. *)
LEMMA AfterFinds ==
  ASSUME NEW s, NEW S, NEW i \in Nat, Len(s) \in Nat, i <= Len(s)
  PROVE  IsAfter(s, S, i, After(s, S, i))
<1> DEFINE stops == {j \in i + 1 .. Len(s) : s[j] \notin S}
<1>1. CASE stops = {}
  BY <1>1 DEF After, IsAfter
<1>2. CASE stops # {}
  <2>1. \E j \in stops : \A m \in stops : j <= m
    <3>1. stops \subseteq Nat
      OBVIOUS
    <3> HIDE DEF stops
    <3> QED BY <1>2, <3>1, LeastNatural
  <2>2. PICK r : r = CHOOSE j \in stops : \A m \in stops : j <= m
    OBVIOUS
  <2>3. r \in stops /\ \A m \in stops : r <= m
    BY <2>1, <2>2
  <2>4. After(s, S, i) = r
    BY <1>2, <2>2 DEF After
  <2> QED BY <2>3, <2>4 DEF IsAfter
<1> QED BY <1>1, <1>2

(* One more character ends the search there or goes on with it. *)
LEMMA AfterAppend ==
  ASSUME NEW A, NEW s \in Seq(A), NEW c \in A, NEW S, NEW i \in Nat, i <= Len(s)
  PROVE  LET u == Append(s, c)
             r == After(s, S, i)
         IN  After(u, S, i) =
               IF r <= Len(s) THEN r ELSE IF c \in S THEN Len(s) + 2 ELSE Len(s) + 1
<1>1. PICK u, n, r : u = Append(s, c) /\ n = Len(s) /\ r = After(s, S, i)
  OBVIOUS
<1>2. /\ n \in Nat /\ Len(u) = n + 1 /\ u[n + 1] = c /\ i <= n
      /\ \A j \in 1 .. n : u[j] = s[j]
  BY <1>1
<1>3. IsAfter(s, S, i, r)
  BY <1>1, <1>2, AfterFinds
<1>4. PICK q : q = IF r <= n THEN r ELSE IF c \in S THEN n + 2 ELSE n + 1
  OBVIOUS
<1>5. IsAfter(u, S, i, q)
  BY <1>1, <1>2, <1>3, <1>4 DEF IsAfter
<1>6. IsAfter(u, S, i, After(u, S, i))
  BY <1>2, AfterFinds
<1> QED BY <1>1, <1>2, <1>4, <1>5, <1>6, AfterOne

(* The k-th number ends at the first character behind the one before. *)
LEMMA EndIs ==
  ASSUME NEW s, NEW k \in 1 .. 4
  PROVE  Ends(s)[k] = After(s, Digits, Before(s, k))
<1>1. k \in {1, 2, 3, 4}
  OBVIOUS
<1> QED BY <1>1 DEF Ends, Before

(* Nothing is behind the end. *)
LEMMA AfterBehind ==
  ASSUME NEW s, NEW S, Len(s) \in Nat
  PROVE  After(s, S, Len(s) + 1) = Len(s) + 1
<1>1. {j \in (Len(s) + 1) + 1 .. Len(s) : s[j] \notin S} = {}
  OBVIOUS
<1> QED BY <1>1 DEF After

(* A number that has ended lies behind the one before; so that has ended. *)
LEMMA EndsGrow ==
  ASSUME NEW s, Len(s) \in Nat
  PROVE  \A k \in 1 .. 4 :
           /\ Ends(s)[k] \in 1 .. Len(s) + 1 /\ Before(s, k) \in 0 .. Len(s) + 1
           /\ Ends(s)[k] <= Len(s) => Before(s, k) < Ends(s)[k]
<1> DEFINE Grows(k) ==
      /\ Ends(s)[k] \in 1 .. Len(s) + 1 /\ Before(s, k) \in 0 .. Len(s) + 1
      /\ Ends(s)[k] <= Len(s) => Before(s, k) < Ends(s)[k]
<1>1. ASSUME NEW k \in 1 .. 4, Before(s, k) \in 0 .. Len(s) + 1 PROVE Grows(k)
  <2>1. PICK i, r : i = Before(s, k) /\ r = Ends(s)[k]
    OBVIOUS
  <2>2. r = After(s, Digits, i) /\ i \in 0 .. Len(s) + 1
    BY <1>1, <2>1, EndIs
  <2>3. CASE i = Len(s) + 1
    <3>1. r = Len(s) + 1
      BY <2>2, <2>3, AfterBehind
    <3> QED BY <2>1, <2>3, <3>1
  <2>4. CASE i # Len(s) + 1
    <3>1. i \in Nat /\ i <= Len(s)
      BY <2>2, <2>4
    <3>2. IsAfter(s, Digits, i, r)
      BY <2>2, <3>1, AfterFinds
    <3> QED BY <2>1, <3>1, <3>2 DEF IsAfter
  <2> QED BY <2>3, <2>4
<1>2. ASSUME NEW k \in 1 .. 3, Grows(k) PROVE Before(s, k + 1) \in 0 .. Len(s) + 1
  <2>1. Before(s, k + 1) = Ends(s)[k]
    BY DEF Before
  <2> QED BY <1>2, <2>1
<1>3. Before(s, 1) \in 0 .. Len(s) + 1
  BY DEF Before
<1> HIDE DEF Grows
<1>4. Grows(1)
  BY <1>1, <1>3
<1>5. Grows(2)
  BY <1>1, <1>2, <1>4
<1>6. Grows(3)
  BY <1>1, <1>2, <1>5
<1>7. Grows(4)
  BY <1>1, <1>2, <1>6
<1>8. \A k \in 1 .. 4 : Grows(k)
  <2>1. \A k \in 1 .. 4 : k \in {1, 2, 3, 4}
    OBVIOUS
  <2> QED BY <1>4, <1>5, <1>6, <1>7, <2>1
<1> QED BY <1>8 DEF Grows

(* What one more character does to the ends. *)
LEMMA EndsAppend ==
  ASSUME NEW A, NEW s \in Seq(A), NEW c \in A, NEW k \in 1 .. 4, Before(s, k) <= Len(s)
  PROVE  LET u == Append(s, c)
         IN  /\ Before(u, k) = Before(s, k)
             /\ Ends(u)[k] = IF Ends(s)[k] <= Len(s) THEN Ends(s)[k]
                               ELSE IF c \in Digits THEN Len(s) + 2 ELSE Len(s) + 1
<1>a. PICK n \in Nat : n = Len(s)
  OBVIOUS
<1>b. PICK u : u = Append(s, c)
  OBVIOUS
<1>1. u = Append(s, c) /\ n = Len(s) /\ n \in Nat
  BY <1>a, <1>b
<1> DEFINE Same(j) == Before(s, j) <= n => Before(u, j) = Before(s, j)
           Moves(j) == Before(s, j) <= n =>
                         Ends(u)[j] = IF Ends(s)[j] <= n THEN Ends(s)[j]
                                        ELSE IF c \in Digits THEN n + 2 ELSE n + 1
<1>0. \A j \in 1 .. 4 :
        /\ Ends(s)[j] \in 1 .. n + 1 /\ Before(s, j) \in 0 .. n + 1
        /\ Ends(s)[j] <= n => Before(s, j) < Ends(s)[j]
  BY <1>1, EndsGrow
<1>2. ASSUME NEW j \in 1 .. 4, Same(j) PROVE Moves(j)
  <2>1. PICK i : i = Before(s, j)
    OBVIOUS
  <2>2. CASE i <= n
    <3>1. i \in Nat
      <4>1. i \in 0 .. n + 1
        BY <1>0, <2>1, Zenon
      <4> QED BY <4>1
    <3>2. Before(u, j) = i
      BY <1>2, <2>1, <2>2
    <3>3. Ends(s)[j] = After(s, Digits, i) /\ Ends(u)[j] = After(u, Digits, i)
      BY <2>1, <3>2, EndIs
    <3>4. After(u, Digits, i) =
            IF After(s, Digits, i) <= n THEN After(s, Digits, i)
            ELSE IF c \in Digits THEN n + 2 ELSE n + 1
      BY <1>1, <2>2, <3>1, AfterAppend
    <3> QED BY <3>3, <3>4
  <2>3. CASE ~(i <= n)
    BY <2>1, <2>3
  <2> QED BY <2>2, <2>3
<1>3. ASSUME NEW j \in 1 .. 3, Moves(j) PROVE Same(j + 1)
  <2>1. Before(s, j + 1) = Ends(s)[j] /\ Before(u, j + 1) = Ends(u)[j]
    BY DEF Before
  <2>2. Ends(s)[j] <= n => Before(s, j) <= n
    <3>1. PICK e, i : e = Ends(s)[j] /\ i = Before(s, j)
      OBVIOUS
    <3>2. e \in 1 .. n + 1 /\ i \in 0 .. n + 1 /\ (e <= n => i < e)
      <4>1. j \in 1 .. 4
        OBVIOUS
      <4> QED BY <1>0, <3>1, <4>1, Zenon
    <3> QED BY <1>1, <3>1, <3>2
  <2> QED BY <1>3, <2>1, <2>2
<1>4. Same(1)
  BY DEF Before
<1> HIDE DEF Same, Moves
<1>5. Same(2) /\ Moves(1)
  BY <1>2, <1>3, <1>4
<1>6. Same(3) /\ Moves(2)
  BY <1>2, <1>3, <1>5
<1>7. Same(4) /\ Moves(3)
  BY <1>2, <1>3, <1>6
<1>8. Moves(4)
  BY <1>2, <1>7
<1>9. Same(k) /\ Moves(k)
  <2>1. k \in {1, 2, 3, 4}
    OBVIOUS
  <2> QED BY <1>4, <1>5, <1>6, <1>7, <1>8, <2>1
<1> QED BY <1>1, <1>9 DEF Same, Moves

(* From where to where a number goes. *)
LEMMA NumberIs ==
  ASSUME NEW s, NEW k, NEW i, NEW j, i = Before(s, k), Ends(s)[k] - 1 = j
  PROVE  Number(s, k) = SubSeq(s, i + 1, j)
BY Zenon DEF Number

(* What is in front of the last character stays as it is. *)
LEMMA SubSeqFront ==
  ASSUME NEW A, NEW s \in Seq(A), NEW c \in A, NEW i \in Nat, NEW j \in Nat,
         i <= j, j <= Len(s)
  PROVE  SubSeq(Append(s, c), i + 1, j) = SubSeq(s, i + 1, j)
<1>1. PICK u, t : u = Append(s, c) /\ t = SubSeq(s, i + 1, j)
  OBVIOUS
<1>2. /\ u \in Seq(A) /\ Len(u) = Len(s) + 1 /\ \A k \in 1 .. Len(s) : u[k] = s[k]
  BY <1>1
<1>3. t \in Seq(A) /\ Len(t) = j - i /\ \A k \in 1 .. j - i : t[k] = s[i + k]
  BY <1>1
<1>4. i + Len(t) = j /\ \A k \in 1 .. Len(t) : u[i + k] = t[k]
  <2>1. i + Len(t) = j
    BY <1>3
  <2>2. ASSUME NEW k \in 1 .. Len(t) PROVE u[i + k] = t[k]
    <3>1. k \in 1 .. j - i
      BY <1>3, <2>2
    <3>2. i + k \in 1 .. Len(s)
      BY ONLY <3>1, i \in Nat, j \in Nat, j <= Len(s), Len(s) \in Nat
    <3> QED BY <1>2, <1>3, <3>1, <3>2
  <2> QED BY <2>1, <2>2
<1>5. SubSeq(u, i + 1, i + Len(t)) = t
  BY <1>2, <1>3, <1>4, SubSeqIs
<1> QED BY <1>1, <1>4, <1>5

(* The rest gets one longer with it. *)
LEMMA SubSeqRest ==
  ASSUME NEW A, NEW s \in Seq(A), NEW c \in A, NEW i \in Nat, i <= Len(s)
  PROVE  SubSeq(Append(s, c), i + 1, Len(s) + 1) = Append(SubSeq(s, i + 1, Len(s)), c)
<1>1. PICK n \in Nat : n = Len(s)
  OBVIOUS
<1>2. PICK u, r : u = Append(s, c) /\ r = SubSeq(s, i + 1, n)
  OBVIOUS
<1>3. PICK t : t = Append(r, c)
  OBVIOUS
<1>4. /\ u \in Seq(A) /\ Len(u) = n + 1 /\ u[n + 1] = c /\ \A k \in 1 .. n : u[k] = s[k]
  BY <1>1, <1>2
<1>5. r \in Seq(A) /\ Len(r) = n - i /\ \A k \in 1 .. n - i : r[k] = s[i + k]
  BY <1>1, <1>2
<1>6. /\ t \in Seq(A) /\ Len(t) = n - i + 1 /\ t[n - i + 1] = c
      /\ \A k \in 1 .. n - i : t[k] = r[k]
  BY <1>1, <1>3, <1>5
<1>7. i + Len(t) = n + 1
  BY <1>1, <1>6
<1>8. ASSUME NEW k \in 1 .. Len(t) PROVE u[i + k] = t[k]
  <2>1. CASE k = n - i + 1
    <3>1. i + k = n + 1
      BY <1>1, <2>1
    <3> QED BY <1>4, <1>6, <2>1, <3>1
  <2>2. CASE k # n - i + 1
    <3>1. k \in 1 .. n - i + 1
      BY <1>6, <1>8
    <3>2. k \in 1 .. n - i /\ i + k \in 1 .. n
      BY ONLY <3>1, <2>2, i \in Nat, n \in Nat
    <3> QED BY <1>4, <1>5, <1>6, <3>2
  <2> QED BY <2>1, <2>2
<1>9. SubSeq(u, i + 1, i + Len(t)) = t
  BY <1>1, <1>4, <1>6, <1>7, <1>8, SubSeqIs
<1> QED BY <1>1, <1>2, <1>3, <1>7, <1>9

(* A number that has ended stays as it is. *)
LEMMA StaysEnded ==
  ASSUME NEW A, NEW s \in Seq(A), NEW c \in A, NEW k \in 1 .. 4, Ends(s)[k] \in DOMAIN s
  PROVE  LET u == Append(s, c)
         IN  /\ Ends(u)[k] = Ends(s)[k] /\ Ends(u)[k] \in DOMAIN u
             /\ u[Ends(u)[k]] = s[Ends(s)[k]]
             /\ Number(u, k) = Number(s, k)
<1>1. PICK n \in Nat : n = Len(s)
  OBVIOUS
<1>2. PICK u : u = Append(s, c)
  OBVIOUS
<1>3. PICK e, i : e = Ends(s)[k] /\ i = Before(s, k)
  OBVIOUS
<1>4. e \in 1 .. n
  BY <1>1, <1>3
<1>5. i \in 0 .. n + 1 /\ (e <= n => i < e)
  BY <1>1, <1>3, EndsGrow, Zenon
<1>6. i \in Nat /\ i < e /\ i <= n
  BY <1>4, <1>5
<1>7. Before(u, k) = i /\ Ends(u)[k] = e
  BY <1>1, <1>2, <1>3, <1>4, <1>6, EndsAppend
<1>8. DOMAIN u = 1 .. n + 1 /\ \A j \in 1 .. n : u[j] = s[j]
  BY <1>1, <1>2
<1>9. SubSeq(u, i + 1, e - 1) = SubSeq(s, i + 1, e - 1)
  <2>1. e - 1 \in Nat /\ i <= e - 1 /\ e - 1 <= Len(s)
    BY <1>1, <1>4, <1>6
  <2> QED BY <1>2, <1>6, <2>1, SubSeqFront
<1>10. Number(u, k) = Number(s, k)
  <2>1. PICK j : j = e - 1
    OBVIOUS
  <2>2. Number(u, k) = SubSeq(u, i + 1, j)
    BY <1>7, <2>1, NumberIs, Zenon
  <2>3. Number(s, k) = SubSeq(s, i + 1, j)
    BY <1>3, <2>1, NumberIs, Zenon
  <2> QED BY <1>9, <2>1, <2>2, <2>3, Zenon
<1> QED BY <1>2, <1>3, <1>4, <1>7, <1>8, <1>10

(* A number that has not ended grows by a digit, or ends. *)
LEMMA StillOpen ==
  ASSUME NEW A, NEW s \in Seq(A), NEW c \in A, NEW k \in 1 .. 4,
         Before(s, k) <= Len(s), Ends(s)[k] = Len(s) + 1
  PROVE  LET u == Append(s, c)
         IN  IF c \in Digits
               THEN Ends(u)[k] = Len(u) + 1 /\ Number(u, k) = Append(Number(s, k), c)
               ELSE /\ Ends(u)[k] = Len(u) /\ Len(u) \in DOMAIN u /\ u[Len(u)] = c
                    /\ Number(u, k) = Number(s, k)
<1>1. PICK n \in Nat : n = Len(s)
  OBVIOUS
<1>2. PICK u : u = Append(s, c)
  OBVIOUS
<1>3. PICK i : i = Before(s, k)
  OBVIOUS
<1>4. i \in 0 .. n + 1
  BY <1>1, <1>3, EndsGrow, Zenon
<1>5. i \in Nat /\ i <= n
  BY <1>1, <1>3, <1>4
<1>6. /\ Before(u, k) = i
      /\ Ends(u)[k] = IF n + 1 <= n THEN n + 1 ELSE IF c \in Digits THEN n + 2 ELSE n + 1
  BY <1>1, <1>2, <1>3, EndsAppend
<1>7. Len(u) = n + 1 /\ DOMAIN u = 1 .. n + 1 /\ u[n + 1] = c
  BY <1>1, <1>2
<1>8. SubSeq(u, i + 1, n) = SubSeq(s, i + 1, n)
  BY <1>1, <1>2, <1>5, SubSeqFront
<1>9. SubSeq(u, i + 1, n + 1) = Append(SubSeq(s, i + 1, n), c)
  BY <1>1, <1>2, <1>5, SubSeqRest
<1>10. Number(s, k) = SubSeq(s, i + 1, n)
  <2>1. Ends(s)[k] - 1 = n
    BY <1>1
  <2> QED BY <1>3, <2>1, NumberIs, Zenon
<1>11. CASE c \in Digits
  <2>1. Ends(u)[k] = n + 2
    BY <1>6, <1>11
  <2>2. Ends(u)[k] - 1 = n + 1
    BY <2>1
  <2>3. Number(u, k) = Append(Number(s, k), c)
    <3>1. Number(u, k) = SubSeq(u, i + 1, n + 1)
      BY <1>6, <2>2, NumberIs, Zenon
    <3> QED BY <1>9, <1>10, <3>1, Zenon
  <2> QED BY <1>2, <1>7, <1>11, <2>1, <2>3
<1>12. CASE c \notin Digits
  <2>1. Ends(u)[k] = n + 1
    BY <1>6, <1>12
  <2>2. Ends(u)[k] - 1 = n
    BY <2>1
  <2>3. Number(u, k) = Number(s, k)
    <3>1. Number(u, k) = SubSeq(u, i + 1, n)
      BY <1>6, <2>2, NumberIs, Zenon
    <3> QED BY <1>8, <1>10, <3>1, Zenon
  <2> QED BY <1>2, <1>7, <1>12, <2>1, <2>3
<1> QED BY <1>11, <1>12

(* Behind the last character a number starts, with no digit yet. *)
LEMMA StartsEmpty ==
  ASSUME NEW A, NEW s \in Seq(A), NEW k \in 1 .. 4, Before(s, k) = Len(s)
  PROVE  Ends(s)[k] = Len(s) + 1 /\ Number(s, k) = <<>>
<1>1. PICK n \in Nat : n = Len(s)
  OBVIOUS
<1>2. IsAfter(s, Digits, n, Ends(s)[k])
  BY <1>1, EndIs, AfterFinds
<1>3. Ends(s)[k] = n + 1
  BY <1>1, <1>2 DEF IsAfter
<1>4. SubSeq(s, n + 1, n) = <<>> /\ n + 1 - 1 = n
  BY <1>1
<1> QED BY <1>1, <1>3, <1>4 DEF Number

(* A scanner has read m numbers, each up to a dot, and is in the next.     *)
Reading(s, m) ==
  /\ m \in 0 .. 3
  /\ \A k \in 1 .. m : Ends(s)[k] \in DOMAIN s /\ s[Ends(s)[k]] = Dot
  /\ Ends(s)[m + 1] = Len(s) + 1

(* The number it is in has not ended. *)
LEMMA ReadingOpen ==
  ASSUME NEW A, NEW s \in Seq(A), NEW m, Reading(s, m)
  PROVE  m + 1 \in 1 .. 4 /\ Before(s, m + 1) <= Len(s) /\ Ends(s)[m + 1] = Len(s) + 1
<1>1. m \in 0 .. 3 /\ Ends(s)[m + 1] = Len(s) + 1
  BY DEF Reading
<1>2. CASE m = 0
  BY <1>1, <1>2 DEF Before
<1>3. CASE m # 0
  <2>1. m \in 1 .. m /\ m + 1 # 1 /\ (m + 1) - 1 = m
    BY <1>1, <1>3
  <2>2. Ends(s)[m] \in DOMAIN s
    BY <2>1 DEF Reading
  <2>3. Before(s, m + 1) = Ends(s)[m]
    BY <2>1 DEF Before
  <2> QED BY <1>1, <2>2, <2>3
<1> QED BY <1>2, <1>3

(* It stays there with a digit, *)
LEMMA ReadsDigit ==
  ASSUME NEW A, NEW s \in Seq(A), NEW c \in A, c \in Digits, NEW m, Reading(s, m)
  PROVE  LET u == Append(s, c)
         IN  /\ Reading(u, m) /\ Number(u, m + 1) = Append(Number(s, m + 1), c)
             /\ \A k \in 1 .. m : Number(u, k) = Number(s, k)
<1>1. PICK u : u = Append(s, c)
  OBVIOUS
<1>2. Ends(u)[m + 1] = Len(u) + 1 /\ Number(u, m + 1) = Append(Number(s, m + 1), c)
  BY <1>1, ReadingOpen, StillOpen, SMTT(60)
<1>3. m \in 0 .. 3
  BY DEF Reading
<1>4. ASSUME NEW k \in 1 .. m
      PROVE  /\ Ends(u)[k] \in DOMAIN u /\ u[Ends(u)[k]] = Dot
             /\ Number(u, k) = Number(s, k)
  <2>1. k \in 1 .. 4
    BY <1>3
  <2>2. Ends(s)[k] \in DOMAIN s /\ s[Ends(s)[k]] = Dot
    BY DEF Reading
  <2> QED BY <1>1, <2>1, <2>2, StaysEnded
<1> QED BY <1>1, <1>2, <1>3, <1>4 DEF Reading

(* and comes to the end of the number with another character; behind a     *)
(* dot the next one begins.                                                *)
LEMMA ReadsEnd ==
  ASSUME NEW A, NEW s \in Seq(A), NEW c \in A, c \notin Digits, NEW m, Reading(s, m)
  PROVE  LET u == Append(s, c)
         IN  /\ Ends(u)[m + 1] = Len(u) /\ Len(u) \in DOMAIN u /\ u[Len(u)] = c
             /\ \A k \in 1 .. m + 1 : Number(u, k) = Number(s, k)
             /\ \A k \in 1 .. m : Ends(u)[k] \in DOMAIN u /\ u[Ends(u)[k]] = Dot
             /\ c = Dot /\ m < 3 => Reading(u, m + 1) /\ Number(u, m + 2) = <<>>
<1>1. PICK u : u = Append(s, c)
  OBVIOUS
<1>2. /\ Ends(u)[m + 1] = Len(u) /\ Len(u) \in DOMAIN u /\ u[Len(u)] = c
      /\ Number(u, m + 1) = Number(s, m + 1)
  BY <1>1, ReadingOpen, StillOpen
<1>3. m \in 0 .. 3
  BY DEF Reading
<1>4. ASSUME NEW k \in 1 .. m
      PROVE  /\ Ends(u)[k] \in DOMAIN u /\ u[Ends(u)[k]] = Dot
             /\ Number(u, k) = Number(s, k)
  <2>1. k \in 1 .. 4
    BY <1>3
  <2>2. Ends(s)[k] \in DOMAIN s /\ s[Ends(s)[k]] = Dot
    BY DEF Reading
  <2> QED BY <1>1, <2>1, <2>2, StaysEnded
<1>5. \A k \in 1 .. m + 1 : k \in 1 .. m \/ k = m + 1
  BY <1>3
<1>6. ASSUME c = Dot, m < 3 PROVE Reading(u, m + 1) /\ Number(u, m + 2) = <<>>
  <2>1. PICK k : k = m + 2
    OBVIOUS
  <2>2. k \in 1 .. 4 /\ k # 1 /\ k - 1 = m + 1 /\ (m + 1) + 1 = k /\ m + 1 \in 0 .. 3
    BY <1>3, <1>6, <2>1
  <2>3. Before(u, k) = Len(u) /\ u \in Seq(A)
    BY <1>1, <1>2, <2>2 DEF Before
  <2>4. Ends(u)[k] = Len(u) + 1 /\ Number(u, k) = <<>>
    BY <2>2, <2>3, StartsEmpty
  <2> QED BY <1>2, <1>4, <1>5, <1>6, <2>1, <2>2, <2>4 DEF Reading
<1> QED BY <1>1, <1>2, <1>4, <1>5, <1>6

(* The number a scanner is in is made of characters of the text. *)
LEMMA OpenNumber ==
  ASSUME NEW A, NEW s \in Seq(A), NEW m, Reading(s, m)
  PROVE  Number(s, m + 1) \in Seq(A)
<1>1. PICK n \in Nat : n = Len(s)
  OBVIOUS
<1>2. PICK i : i = Before(s, m + 1)
  OBVIOUS
<1>3. m + 1 \in 1 .. 4 /\ i <= n /\ Ends(s)[m + 1] = n + 1
  BY <1>1, <1>2, ReadingOpen
<1>4. i \in 0 .. n + 1
  BY <1>1, <1>2, <1>3, EndsGrow, Zenon
<1>5. Ends(s)[m + 1] - 1 = n
  BY <1>3
<1>6. Number(s, m + 1) = SubSeq(s, i + 1, n)
  BY <1>2, <1>5, NumberIs, Zenon
<1>7. SubSeq(s, i + 1, n) \in Seq(A)
  BY <1>1, <1>3, <1>4
<1> QED BY <1>6, <1>7

-----------------------------------------------------------------------------
(* The text utilities: UTILS_StrToIP *)

Value(s, k) == ValueOf(Number(s, k), 10)

(* What the text s has to be for the bytes ip to be its address. *)
IsAddress(s, ip) ==
  /\ Dotted(s) /\ Ends(s)[4] \in DOMAIN s
  /\ \A k \in 1 .. 4 : ip[k] \in 0 .. 255 /\ ip[k] = Value(s, k)

(* What makes it none: a number too large, or one that ends at no dot. *)
NoAddress(s) ==
  \E k \in 1 .. 4 : /\ Ends(s)[k] \in DOMAIN s
                    /\ \/ Value(s, k) \in Nat /\ Value(s, k) >= 256
                       \/ k < 4 /\ s[Ends(s)[k]] # Dot

(* Where UTILS_StrToIP is in the text s. *)
Stored(s, r) ==
  \A k \in 1 .. Len(r.ip) : r.ip[k] \in 0 .. 255 /\ r.ip[k] = Value(s, k)

IPRead(s, r) ==
  /\ r \in [n : Nat, ip : Seq(Nat), result : 0 .. 2]
  /\ r.result = 2 => /\ Reading(s, Len(r.ip)) /\ r.n = Value(s, Len(r.ip) + 1)
                     /\ Stored(s, r)
  /\ r.result = 1 => IsAddress(s, r.ip)
  /\ r.result = 0 => NoAddress(s)

(* More text makes no difference to either. *)
LEMMA AddressStays ==
  ASSUME NEW A, NEW s \in Seq(A), NEW c \in A, NEW ip, IsAddress(s, ip)
  PROVE  IsAddress(Append(s, c), ip)
<1>1. PICK u : u = Append(s, c)
  OBVIOUS
<1>2. \A k \in 1 .. 4 : Ends(s)[k] \in DOMAIN s
  <2>1. \A k \in 1 .. 4 : k \in 1 .. 3 \/ k = 4
    OBVIOUS
  <2> QED BY <2>1 DEF IsAddress, Dotted
<1>3. \A k \in 1 .. 4 : /\ Ends(u)[k] = Ends(s)[k] /\ Ends(u)[k] \in DOMAIN u
                        /\ u[Ends(u)[k]] = s[Ends(s)[k]]
                        /\ Number(u, k) = Number(s, k)
  BY <1>1, <1>2, StaysEnded, SMTT(60)
<1>4. \A k \in 1 .. 3 : k \in 1 .. 4
  OBVIOUS
<1>5. Dotted(u)
  BY <1>3, <1>4 DEF IsAddress, Dotted
<1>6. \A k \in 1 .. 4 : Value(u, k) = Value(s, k)
  BY <1>3 DEF Value
<1>7. 4 \in 1 .. 4
  OBVIOUS
<1> QED BY <1>1, <1>3, <1>5, <1>6, <1>7, ZenonT(60) DEF IsAddress

(* Nor can it become an address again. *)
LEMMA NoAddressStays ==
  ASSUME NEW A, NEW s \in Seq(A), NEW c \in A, NoAddress(s)
  PROVE  NoAddress(Append(s, c))
<1>1. PICK u : u = Append(s, c)
  OBVIOUS
<1>2. PICK k \in 1 .. 4 : /\ Ends(s)[k] \in DOMAIN s
                          /\ \/ Value(s, k) \in Nat /\ Value(s, k) >= 256
                             \/ k < 4 /\ s[Ends(s)[k]] # Dot
  BY DEF NoAddress
<1>3. /\ Ends(u)[k] \in DOMAIN u /\ u[Ends(u)[k]] = s[Ends(s)[k]]
      /\ Number(u, k) = Number(s, k)
  BY <1>1, <1>2, StaysEnded
<1> QED BY <1>1, <1>2, <1>3 DEF NoAddress, Value

(* A digit goes on with the number. *)
LEMMA IPDigit ==
  ASSUME NEW A, NEW s \in Seq(A), NEW c \in A, c \in Digits, NEW r, IPRead(s, r),
         r.result = 2, NEW q, q = [r EXCEPT !.n = @ * 10 + c - 48]
  PROVE  IPRead(Append(s, c), q)
<1>1. PICK u, m : u = Append(s, c) /\ m = Len(r.ip)
  OBVIOUS
<1>2. /\ r \in [n : Nat, ip : Seq(Nat), result : 0 .. 2]
      /\ Reading(s, m) /\ r.n = Value(s, m + 1) /\ Stored(s, r)
  BY <1>1 DEF IPRead
<1>3. c \in 48 .. 57 /\ Worth(c) = c - 48
  <2>1. c \in HexDigits /\ c \in 48 .. 57
    BY DEF Digits, HexDigits
  <2>2. HexOf(c) = c - 48
    <3>1. c \in Digits /\ ~(c \in 65 .. 70)
      BY <2>1
    <3> QED BY <3>1 DEF HexOf
  <2> QED BY <2>1, <2>2, WorthOfDigit
<1>4. /\ Reading(u, m) /\ Number(u, m + 1) = Append(Number(s, m + 1), c)
      /\ \A k \in 1 .. m : Number(u, k) = Number(s, k)
  BY <1>1, <1>2, ReadsDigit
<1>5. Value(u, m + 1) = Value(s, m + 1) * 10 + Worth(c)
  <2>1. Number(s, m + 1) \in Seq(A)
    BY <1>2, OpenNumber
  <2>2. ValueOf(Append(Number(s, m + 1), c), 10) =
          ValueOf(Number(s, m + 1), 10) * 10 + Worth(c)
    BY <2>1, ValueAppend
  <2> QED BY <1>4, <2>2, Zenon DEF Value
<1>6. q.n = r.n * 10 + (c - 48) /\ q.n \in Nat
  BY <1>2, <1>3, SMTT(60)
<1>7. q.ip = r.ip /\ q.result = 2 /\ q \in [n : Nat, ip : Seq(Nat), result : 0 .. 2]
  BY <1>2, <1>6
<1>8. q.n = Value(u, m + 1)
  BY <1>2, <1>3, <1>5, <1>6
<1>9. Stored(u, q)
  BY <1>1, <1>2, <1>4, <1>7, SMTT(60) DEF Stored, Value
<1> QED BY <1>1, <1>4, <1>7, <1>8, <1>9 DEF IPRead

(* Another character ends it: the number is stored, or there is none that  *)
(* could be.                                                               *)
LEMMA IPEnd ==
  ASSUME NEW A, NEW s \in Seq(A), NEW c \in A, c \notin Digits, NEW r, IPRead(s, r),
         r.result = 2, NEW q,
         q = IF Len(r.ip) = 3 \/ c = Dot
               THEN IF ~(r.n < 256) THEN [r EXCEPT !.result = 0]
                    ELSE [n |-> 0, ip |-> Append(r.ip, r.n),
                          result |-> IF Len(r.ip) = 3 THEN 1 ELSE 2]
             ELSE [r EXCEPT !.result = 0]
  PROVE  IPRead(Append(s, c), q)
<1>1. PICK u : u = Append(s, c)
  OBVIOUS
<1>2. PICK m : m = Len(r.ip)
  OBVIOUS
<1>3. /\ r \in [n : Nat, ip : Seq(Nat), result : 0 .. 2]
      /\ Reading(s, m) /\ r.n = Value(s, m + 1) /\ Stored(s, r)
  BY <1>2 DEF IPRead
<1>4. m \in 0 .. 3 /\ m + 1 \in 1 .. 4 /\ m + 1 \in 1 .. m + 1
  BY <1>3 DEF Reading
<1>5. /\ Ends(u)[m + 1] = Len(u) /\ Len(u) \in DOMAIN u /\ u[Len(u)] = c
      /\ \A k \in 1 .. m + 1 : Number(u, k) = Number(s, k)
      /\ \A k \in 1 .. m : Ends(u)[k] \in DOMAIN u /\ u[Ends(u)[k]] = Dot
      /\ c = Dot /\ m < 3 => Reading(u, m + 1) /\ Number(u, m + 2) = <<>>
  BY <1>1, <1>3, ReadsEnd
<1>6. \A k \in 1 .. m + 1 : Value(u, k) = Value(s, k)
  BY <1>5 DEF Value
<1>7. Value(u, m + 1) = r.n /\ r.n \in Nat
  BY <1>3, <1>4, <1>6
<1>8. CASE ~(r.n < 256) \/ ~(m = 3 \/ c = Dot)
  <2>1. q = [r EXCEPT !.result = 0]
    BY <1>2, <1>8
  <2>2. q \in [n : Nat, ip : Seq(Nat), result : 0 .. 2] /\ q.result = 0
    BY <1>3, <2>1, SMTT(60)
  <2>3. \/ Value(u, m + 1) \in Nat /\ Value(u, m + 1) >= 256
        \/ m + 1 < 4 /\ u[Ends(u)[m + 1]] # Dot
    BY <1>4, <1>5, <1>7, <1>8
  <2>4. NoAddress(u)
    BY <1>4, <1>5, <2>3 DEF NoAddress
  <2> QED BY <1>1, <2>2, <2>4 DEF IPRead
<1>9. CASE r.n < 256 /\ (m = 3 \/ c = Dot)
  <2>1. q = [n |-> 0, ip |-> Append(r.ip, r.n), result |-> IF m = 3 THEN 1 ELSE 2]
    BY <1>2, <1>9
  <2>2. PICK p : p = Append(r.ip, r.n)
    OBVIOUS
  <2>3. /\ p \in Seq(Nat) /\ Len(p) = m + 1 /\ p[m + 1] = r.n
        /\ \A k \in 1 .. m : p[k] = r.ip[k]
    BY <1>2, <1>3, <2>2
  <2>4. q.ip = p /\ q.n = 0 /\ q.result = IF m = 3 THEN 1 ELSE 2
    BY <2>1, <2>2
  <2>5. q \in [n : Nat, ip : Seq(Nat), result : 0 .. 2]
    BY <2>1, <2>2, <2>3
  <2>6. ASSUME NEW k \in 1 .. m + 1 PROVE p[k] \in 0 .. 255 /\ p[k] = Value(u, k)
    <3>1. CASE k = m + 1
      <4>1. r.n \in 0 .. 255
        <5>1. PICK x : x = r.n
          OBVIOUS
        <5>2. x \in Nat /\ x < 256
          BY <1>7, <1>9, <5>1, Zenon
        <5>3. x \in 0 .. 255
          BY ONLY <5>2
        <5> QED BY <5>1, <5>3, Zenon
      <4>2. p[k] = r.n /\ Value(u, k) = r.n
        BY <1>7, <2>3, <3>1
      <4> QED BY <4>1, <4>2
    <3>2. CASE k # m + 1
      <4>1. k \in 1 .. m
        BY <1>4, <3>2
      <4>2. r.ip[k] \in 0 .. 255 /\ r.ip[k] = Value(s, k)
        BY <1>2, <1>3, <4>1 DEF Stored
      <4> QED BY <1>6, <2>3, <4>1, <4>2
    <3> QED BY <3>1, <3>2
  <2>7. CASE m = 3
    <3>1. Dotted(u) /\ Ends(u)[4] \in DOMAIN u
      BY <1>5, <2>7 DEF Dotted
    <3>2. \A k \in 1 .. 4 : p[k] \in 0 .. 255 /\ p[k] = Value(u, k)
      <4>1. m + 1 = 4
        BY <2>7
      <4>2. \A k \in 1 .. m + 1 : p[k] \in 0 .. 255 /\ p[k] = Value(u, k)
        BY <2>6
      <4> QED BY <4>1, <4>2, Zenon
    <3>3. q.result = 1
      BY <2>4, <2>7, SMTT(60)
    <3>4. IsAddress(u, q.ip)
      BY <2>4, <3>1, <3>2 DEF IsAddress
    <3> QED BY <1>1, <2>5, <3>3, <3>4 DEF IPRead
  <2>8. CASE m # 3
    <3>1. c = Dot /\ m < 3
      BY <1>4, <1>9, <2>8
    <3>2. Reading(u, m + 1) /\ Number(u, m + 2) = <<>> /\ (m + 1) + 1 = m + 2
      BY <1>4, <1>5, <3>1
    <3>3. Value(u, (m + 1) + 1) = 0
      BY <3>2, ValueOfEmpty DEF Value
    <3>4. Stored(u, q)
      BY <2>3, <2>4, <2>6 DEF Stored
    <3>5. q.result = 2 /\ Len(q.ip) = m + 1 /\ q.n = Value(u, Len(q.ip) + 1)
      BY <2>3, <2>4, <2>8, <3>3
    <3>6. Reading(u, Len(q.ip))
      BY <3>2, <3>5
    <3>7. IPRead(u, q)
      <4>1. q.result # 1 /\ q.result # 0
        BY <3>5
      <4> QED BY <2>5, <3>4, <3>5, <3>6, <4>1, Zenon DEF IPRead
    <3> QED BY <1>1, <3>7, Zenon
  <2> QED BY <2>7, <2>8
<1> QED BY <1>8, <1>9

-----------------------------------------------------------------------------
(* The text utilities: UTILS_IsIPV4 *)

(* What makes a text none of four numbers between dots: one of them is     *)
(* empty, or it ends at another character than it should.                  *)
NoNumbers(s) ==
  \E k \in 1 .. 4 : /\ Ends(s)[k] \in DOMAIN s
                    /\ \/ Number(s, k) = <<>>
                       \/ s[Ends(s)[k]] # (IF k = 4 THEN NUL ELSE Dot)

(* Where UTILS_IsIPV4 is in the text s. *)
SegmentsRead(s, r) ==
  /\ r \in [segs : Nat, chcnt : Nat, accum : Nat, result : 0 .. 2]
  /\ r.result = 2 => /\ Reading(s, r.segs) /\ r.chcnt = Len(Number(s, r.segs + 1))
                     /\ \A k \in 1 .. r.segs : Number(s, k) # <<>>
  /\ r.result = 1 => FourNumbers(s)
  /\ r.result = 0 => NoNumbers(s)

(* More text makes no numbers of it. *)
LEMMA NoNumbersStays ==
  ASSUME NEW A, NEW s \in Seq(A), NEW c \in A, NoNumbers(s)
  PROVE  NoNumbers(Append(s, c))
<1>1. PICK u : u = Append(s, c)
  OBVIOUS
<1>2. PICK k \in 1 .. 4 : /\ Ends(s)[k] \in DOMAIN s
                          /\ \/ Number(s, k) = <<>>
                             \/ s[Ends(s)[k]] # (IF k = 4 THEN NUL ELSE Dot)
  BY DEF NoNumbers
<1>3. /\ Ends(u)[k] \in DOMAIN u /\ u[Ends(u)[k]] = s[Ends(s)[k]]
      /\ Number(u, k) = Number(s, k)
  BY <1>1, <1>2, StaysEnded
<1> QED BY <1>1, <1>2, <1>3, Zenon DEF NoNumbers

(* Behind four numbers there is no more. *)
LEMMA NumbersEndAtNul ==
  ASSUME NEW A, NEW s \in Seq(A), FourNumbers(s)
  PROVE  NUL \in Range(s)
<1>1. Len(s) \in DOMAIN s /\ s[Len(s)] = NUL
  <2>1. Ends(s)[3] \in DOMAIN s /\ Ends(s)[4] = Len(s) /\ s[Ends(s)[4]] = NUL
    BY DEF FourNumbers, Dotted
  <2>2. Len(s) \in DOMAIN s
    BY <2>1
  <2> QED BY <2>1, <2>2
<1> QED BY <1>1 DEF Range

(* The digits of the number it is in are fewer than MaxDigits when another *)
(* may follow.                                                             *)
LEMMA FewDigits ==
  ASSUME UtilsAssumption, NEW m, string \in Seq(Alphabet), Reading(string, m), ~DigitsEnough
  PROVE  Len(Number(string, m + 1)) \in 0 .. 8
<1>1. PICK s, n, i : s = string /\ n = Len(s) /\ i = Before(s, m + 1)
  OBVIOUS
<1>2. s \in Seq(Alphabet) /\ n \in Nat /\ n = Len(s)
  BY <1>1
<1>3. m + 1 \in 1 .. 4 /\ i <= n /\ Ends(s)[m + 1] = n + 1
  BY <1>1, ReadingOpen
<1>4. i \in 0 .. n
  <2>1. i \in 0 .. n + 1
    BY <1>1, <1>2, <1>3, EndsGrow, Zenon
  <2> QED BY <1>2, <1>3, <2>1
<1>5. Ends(s)[m + 1] - 1 = n
  BY <1>2, <1>3
<1>6. Number(s, m + 1) = SubSeq(s, i + 1, n)
  BY <1>1, <1>5, NumberIs, ZenonT(60)
<1>7. Len(SubSeq(s, i + 1, n)) = n - i
  BY <1>2, <1>4
<1>8. \A j \in i + 1 .. n : s[j] \in Digits
  <2>1. IsAfter(s, Digits, i, After(s, Digits, i))
    BY <1>1, <1>2, <1>4, AfterFinds
  <2>2. After(s, Digits, i) = n + 1
    BY <1>1, <1>3, EndIs
  <2>3. (n + 1) - 1 = n
    BY <1>2
  <2> QED BY <2>1, <2>2, <2>3 DEF IsAfter
<1>9. n - i < MaxDigits
  <2>1. SUFFICES ASSUME n - i >= MaxDigits PROVE DigitsEnough
    BY <1>2, <1>4 DEF UtilsAssumption
  <2>2. MaxDigits \in 1 .. 9
    BY DEF UtilsAssumption
  <2>3. n >= MaxDigits /\ \A j \in n - MaxDigits + 1 .. n : j \in i + 1 .. n
    BY <1>2, <1>4, <2>1, <2>2
  <2>4. \A j \in n - MaxDigits + 1 .. n : s[j] \in HexDigits
    BY <1>8, <2>3 DEF HexDigits
  <2> QED BY <1>1, <2>3, <2>4 DEF DigitsEnough
<1>10. n - i \in 0 .. 8
  BY <1>2, <1>4, <1>9 DEF UtilsAssumption
<1> QED BY <1>1, <1>6, <1>7, <1>10

(* What UTILS_IsIPV4 keeps, field by field. *)
LEMMA SegmentRecord ==
  ASSUME NEW e \in Nat, NEW a \in Nat, NEW b \in Nat, NEW x \in 0 .. 2,
         NEW q, q = [segs |-> e, chcnt |-> a, accum |-> b, result |-> x]
  PROVE  /\ q \in [segs : Nat, chcnt : Nat, accum : Nat, result : 0 .. 2]
         /\ q.segs = e /\ q.chcnt = a /\ q.result = x
OBVIOUS

(* A digit goes on with the segment. *)
LEMMA SegmentDigit ==
  ASSUME NEW A, NEW s \in Seq(A), NEW c \in A, c \in Digits, NEW r, SegmentsRead(s, r),
         r.result = 2, r.chcnt \in 0 .. 8, NEW q,
         q = [r EXCEPT !.chcnt = (@ + 1) % 256, !.accum = (@ * 10 + c - 48) % 256]
  PROVE  SegmentsRead(Append(s, c), q)
<1>1. PICK u, m, t : u = Append(s, c) /\ m = r.segs /\ t = Number(s, m + 1)
  OBVIOUS
<1>2. /\ r \in [segs : Nat, chcnt : Nat, accum : Nat, result : 0 .. 2]
      /\ Reading(s, m) /\ r.chcnt = Len(t) /\ \A k \in 1 .. m : Number(s, k) # <<>>
  BY <1>1 DEF SegmentsRead
<1>3. /\ Reading(u, m) /\ Number(u, m + 1) = Append(t, c)
      /\ \A k \in 1 .. m : Number(u, k) = Number(s, k)
  BY <1>1, <1>2, ReadsDigit
<1>4. t \in Seq(A)
  BY <1>1, <1>2, OpenNumber
<1>5. PICK a, b : a = (r.chcnt + 1) % 256 /\ b = (r.accum * 10 + c - 48) % 256
  OBVIOUS
<1>6. a = Len(t) + 1 /\ a \in Nat
  BY <1>2, <1>5, SMTT(60)
<1>7. b \in Nat
  <2>1. r.accum \in Nat /\ c \in 48 .. 57
    BY <1>2 DEF Digits
  <2>2. PICK x \in Nat, d \in 48 .. 57 : x = r.accum /\ d = c
    BY <2>1
  <2>3. PICK y \in Nat : y = x * 10 + d - 48
    <3>1. x * 10 + d - 48 \in Nat
      BY ONLY x \in Nat, d \in 48 .. 57
    <3> QED BY ONLY <3>1, Zenon
  <2>4. y % 256 \in Nat
    BY ONLY y \in Nat
  <2> QED BY <1>5, <2>2, <2>3, <2>4
<1>8. q = [r EXCEPT !.chcnt = a, !.accum = b]
  BY <1>2, <1>5
<1>9. /\ q \in [segs : Nat, chcnt : Nat, accum : Nat, result : 0 .. 2]
      /\ q.segs = m /\ q.chcnt = a /\ q.result = 2
  <2>1. r \in [segs : Nat, chcnt : Nat, accum : Nat, result : 0 .. 2]
    BY <1>2
  <2>2. q = [segs |-> r.segs, chcnt |-> a, accum |-> b, result |-> r.result]
    BY <1>8, <2>1, ZenonT(60)
  <2>3. q = [segs |-> m, chcnt |-> a, accum |-> b, result |-> 2] /\ m \in Nat
    BY <1>1, <2>1, <2>2
  <2> QED BY ONLY <1>6, <1>7, <2>3, 2 \in 0 .. 2, SegmentRecord
<1>10. q.chcnt = Len(Number(u, q.segs + 1))
  BY <1>3, <1>4, <1>6, <1>9
<1>11. \A k \in 1 .. q.segs : Number(u, k) # <<>>
  BY <1>2, <1>3, <1>9
<1>12. q.result # 1 /\ q.result # 0 /\ Reading(u, q.segs)
  BY <1>3, <1>9
<1>13. SegmentsRead(u, q)
  BY <1>9, <1>10, <1>11, <1>12, Zenon DEF SegmentsRead
<1> QED BY <1>1, <1>13, Zenon

(* Another character ends it. *)
LEMMA SegmentEnd ==
  ASSUME NEW A, NEW s \in Seq(A), NEW c \in A, c \notin Digits, NEW r, SegmentsRead(s, r),
         r.result = 2, NEW q,
         q = IF c = NUL
               THEN [r EXCEPT !.result = IF r.segs = 3 /\ r.chcnt > 0 THEN 1 ELSE 0]
             ELSE IF c = Dot
               THEN IF r.chcnt = 0 \/ r.segs + 1 = 4 THEN [r EXCEPT !.result = 0]
                    ELSE [r EXCEPT !.segs = @ + 1, !.chcnt = 0, !.accum = 0]
             ELSE [r EXCEPT !.result = 0]
  PROVE  SegmentsRead(Append(s, c), q)
<1>1. PICK u, m, t : u = Append(s, c) /\ m = r.segs /\ t = Number(s, m + 1)
  OBVIOUS
<1>2. /\ r \in [segs : Nat, chcnt : Nat, accum : Nat, result : 0 .. 2]
      /\ Reading(s, m) /\ r.chcnt = Len(t) /\ \A k \in 1 .. m : Number(s, k) # <<>>
  BY <1>1 DEF SegmentsRead
<1>3. m \in 0 .. 3 /\ m + 1 \in 1 .. 4 /\ m + 1 \in 1 .. m + 1
  BY <1>2 DEF Reading
<1>4. /\ Ends(u)[m + 1] = Len(u) /\ Len(u) \in DOMAIN u /\ u[Len(u)] = c
      /\ \A k \in 1 .. m + 1 : Number(u, k) = Number(s, k)
      /\ \A k \in 1 .. m : Ends(u)[k] \in DOMAIN u /\ u[Ends(u)[k]] = Dot
      /\ c = Dot /\ m < 3 => Reading(u, m + 1) /\ Number(u, m + 2) = <<>>
  BY <1>1, <1>2, ReadsEnd
<1>5. Number(u, m + 1) = t
  BY <1>1, <1>3, <1>4
<1>6. t \in Seq(A) /\ (r.chcnt = 0 <=> t = <<>>) /\ (r.chcnt > 0 <=> t # <<>>)
  <2>1. t \in Seq(A)
    BY <1>1, <1>2, OpenNumber
  <2> QED BY <1>2, <2>1
<1>7. NUL # Dot
  BY DEF NUL, Dot
<1>8. CASE /\ q = [r EXCEPT !.result = 0]
           /\ t = <<>> \/ c # (IF m + 1 = 4 THEN NUL ELSE Dot)
  <2>1. q \in [segs : Nat, chcnt : Nat, accum : Nat, result : 0 .. 2] /\ q.result = 0
    <3>1. r \in [segs : Nat, chcnt : Nat, accum : Nat, result : 0 .. 2]
      BY <1>2
    <3>2. q = [segs |-> r.segs, chcnt |-> r.chcnt, accum |-> r.accum, result |-> 0]
      BY <1>8, <3>1, Zenon
    <3>3. r.segs \in Nat /\ r.chcnt \in Nat /\ r.accum \in Nat
      BY <3>1
    <3> QED BY ONLY <3>2, <3>3, 0 \in 0 .. 2, SegmentRecord
  <2>2. NoNumbers(u)
    BY <1>3, <1>4, <1>5, <1>8, Zenon DEF NoNumbers
  <2>3. q.result # 1 /\ q.result # 2
    BY <2>1
  <2>4. SegmentsRead(u, q)
    BY <2>1, <2>2, <2>3, Zenon DEF SegmentsRead
  <2> QED BY <1>1, <2>4, Zenon
<1>9. CASE c = NUL /\ m = 3 /\ t # <<>>
  <2>1. q = [r EXCEPT !.result = 1]
    BY <1>1, <1>6, <1>9
  <2>2. q \in [segs : Nat, chcnt : Nat, accum : Nat, result : 0 .. 2] /\ q.result = 1
    <3>1. r \in [segs : Nat, chcnt : Nat, accum : Nat, result : 0 .. 2]
      BY <1>2
    <3>2. q = [segs |-> r.segs, chcnt |-> r.chcnt, accum |-> r.accum, result |-> 1]
      BY <2>1, <3>1, Zenon
    <3>3. r.segs \in Nat /\ r.chcnt \in Nat /\ r.accum \in Nat
      BY <3>1
    <3> QED BY ONLY <3>2, <3>3, 1 \in 0 .. 2, SegmentRecord
  <2>3. \A k \in 1 .. 3 : Ends(u)[k] \in DOMAIN u /\ u[Ends(u)[k]] = Dot
    BY <1>4, <1>9
  <2>4. Ends(u)[4] = Len(u) /\ u[Ends(u)[4]] = NUL /\ Number(u, 4) # <<>>
    <3>1. m + 1 = 4
      BY <1>9
    <3> QED BY <1>4, <1>5, <1>9, <3>1
  <2>5. ASSUME NEW k \in 1 .. 4 PROVE Number(u, k) # <<>>
    <3>1. CASE k = 4
      BY <2>4, <3>1
    <3>2. CASE k # 4
      <4>1. k \in 1 .. m /\ k \in 1 .. m + 1
        BY <1>9, <3>2
      <4> QED BY <1>2, <1>4, <4>1
    <3> QED BY <3>1, <3>2
  <2>6. FourNumbers(u)
    BY <2>3, <2>4, <2>5, Zenon DEF FourNumbers, Dotted
  <2>7. q.result # 0 /\ q.result # 2
    BY <2>2
  <2>8. SegmentsRead(u, q)
    BY <2>2, <2>6, <2>7, Zenon DEF SegmentsRead
  <2> QED BY <1>1, <2>8, Zenon
<1>10. CASE c = Dot /\ m < 3 /\ t # <<>>
  <2>1. q = [r EXCEPT !.segs = @ + 1, !.chcnt = 0, !.accum = 0]
    BY <1>1, <1>3, <1>6, <1>7, <1>10
  <2>2. /\ q \in [segs : Nat, chcnt : Nat, accum : Nat, result : 0 .. 2]
        /\ q.segs = m + 1 /\ q.chcnt = 0 /\ q.result = 2
    <3>1. r \in [segs : Nat, chcnt : Nat, accum : Nat, result : 0 .. 2]
      BY <1>2
    <3>2. q = [segs |-> r.segs + 1, chcnt |-> 0, accum |-> 0, result |-> r.result]
      BY <2>1, <3>1, Zenon
    <3>3. q = [segs |-> m + 1, chcnt |-> 0, accum |-> 0, result |-> 2] /\ m + 1 \in Nat
      BY <1>1, <1>3, <3>2
    <3> QED BY ONLY <3>3, 0 \in Nat, 2 \in 0 .. 2, SegmentRecord
  <2>3. q.segs + 1 = m + 2
    BY <1>3, <2>2
  <2>4. Reading(u, q.segs) /\ Number(u, q.segs + 1) = <<>>
    BY <1>4, <1>10, <2>2, <2>3
  <2>5. Len(<<>>) = 0
    OBVIOUS
  <2>6. ASSUME NEW k \in 1 .. q.segs PROVE Number(u, k) # <<>>
    <3>1. k \in 1 .. m + 1
      BY <2>2, <2>6
    <3>2. Number(u, k) = Number(s, k)
      BY <1>4, <3>1
    <3>3. k = m + 1 \/ k \in 1 .. m
      BY <1>3, <3>1
    <3> QED BY <1>2, <1>5, <1>10, <3>2, <3>3
  <2>7. q.result # 0 /\ q.result # 1
    BY <2>2
  <2>8. SegmentsRead(u, q)
    BY <2>2, <2>4, <2>5, <2>6, <2>7, Zenon DEF SegmentsRead
  <2> QED BY <1>1, <2>8, Zenon
<1>11. CASE /\ ~(c = NUL /\ m = 3 /\ t # <<>>) /\ ~(c = Dot /\ m < 3 /\ t # <<>>)
  <2>1. t = <<>> \/ c # (IF m + 1 = 4 THEN NUL ELSE Dot)
    BY <1>3, <1>11
  <2>2. q = [r EXCEPT !.result = 0]
    <3>1. CASE c = NUL
      BY <1>1, <1>6, <1>11, <3>1
    <3>2. CASE c = Dot
      BY <1>1, <1>3, <1>6, <1>7, <1>11, <3>2
    <3>3. CASE c # NUL /\ c # Dot
      BY <3>3
    <3> QED BY <3>1, <3>2, <3>3
  <2> QED BY <1>8, <2>1, <2>2
<1> QED BY <1>9, <1>10, <1>11

-----------------------------------------------------------------------------
(* The text utilities: UTILS_Atoh *)

(* What is left of w * p and b is b. *)
LEMMA RestIs ==
  ASSUME NEW w \in Nat \ {0}, NEW p \in Int, NEW b \in 0 .. w - 1
  PROVE  (w * p + b) % w = b
<1>1. PICK y \in Int : y = w * p + b
  OBVIOUS
<1>2. PICK q \in Int, r \in 0 .. w - 1 : q = y \div w /\ r = y % w /\ y = w * q + r
  BY <1>1
<1>3. w * (p - q) = r - b
  BY <1>1, <1>2
<1>4. \A d \in Nat \ {0} : w * d >= w /\ w * (0 - d) <= 0 - w
  OBVIOUS
<1>5. p - q = 0
  <2>1. CASE p > q
    <3>1. w * (p - q) >= w
      BY <1>2, <1>4, <2>1
    <3> QED BY <3>1, <1>3, <1>2
  <2>2. CASE p < q
    <3>1. w * (p - q) <= 0 - w
      <4>1. q - p \in Nat \ {0} /\ 0 - (q - p) = p - q
        BY <1>2, <2>2
      <4> QED BY <1>4, <4>1
    <3> QED BY <3>1, <1>3, <1>2
  <2> QED BY <1>2, <2>1, <2>2
<1>6. w * (p - q) = 0
  BY <1>5, <1>2
<1> QED BY <1>1, <1>2, <1>3, <1>6

(* The rest of a number goes on like the number. *)
LEMMA RestOfRest ==
  ASSUME NEW w \in Nat \ {0}, NEW v \in Nat, NEW h \in Nat
  PROVE  ((v % w) * 16 + h) % w = (v * 16 + h) % w
<1>1. PICK q \in Int, r \in Nat : r = v % w /\ v = w * q + r
  <2>1. v % w \in Nat /\ v \div w \in Int /\ v = w * (v \div w) + (v % w)
    OBVIOUS
  <2> QED BY <2>1
<1>2. PICK a \in Int, b \in 0 .. w - 1 : b = (r * 16 + h) % w /\ r * 16 + h = w * a + b
  <2>1. PICK x \in Nat : x = r * 16 + h
    OBVIOUS
  <2>2. x % w \in 0 .. w - 1 /\ x \div w \in Int /\ x = w * (x \div w) + (x % w)
    OBVIOUS
  <2> QED BY <2>1, <2>2
<1>3. w * (q * 16 + a) = (w * q) * 16 + w * a
  OBVIOUS
<1>4. v * 16 + h = w * (q * 16 + a) + b
  <2>1. PICK x \in Int, y \in Int : x = w * q /\ y = w * a
    OBVIOUS
  <2>2. v = x + r /\ r * 16 + h = y + b /\ w * (q * 16 + a) = x * 16 + y
    BY <1>1, <1>2, <1>3, <2>1
  <2>3. (x + r) * 16 + h = (x * 16 + y) + b
    BY ONLY <2>2, x \in Int, y \in Int, r \in Nat, h \in Nat, b \in 0 .. w - 1
  <2> QED BY <2>2, <2>3
<1>5. q * 16 + a \in Int
  OBVIOUS
<1>6. (w * (q * 16 + a) + b) % w = b
  BY <1>5, RestIs
<1> QED BY <1>1, <1>2, <1>4, <1>6
-----------------------------------------------------------------------------
(* The text utilities: the invariant *)

(* Where UTILS_Atoh is in the text s. *)
HexValue(s) == ValueOf(SubSeq(s, 1, After(s, HexDigits, 0) - 1), 16)

HexIsRead(s, r) ==
  /\ r \in [value : Nat, result : 1 .. 2]
  /\ HexValue(s) \in Nat /\ r.value = HexValue(s) % Word
  /\ r.result = 1 <=> After(s, HexDigits, 0) \in DOMAIN s

(* Every character keeps it there. *)
LEMMA HexIsReadStep ==
  ASSUME NEW A, NEW s \in Seq(A), NEW c \in A, Word \in Nat \ {0}, NEW r, HexIsRead(s, r),
         NEW q,
         q = IF r.result # 2 THEN r
             ELSE IF c \notin HexDigits THEN [r EXCEPT !.result = 1]
             ELSE [r EXCEPT !.value = (@ * 16 + HexOf(c)) % Word]
  PROVE  HexIsRead(Append(s, c), q)
<1>1. PICK u, n, e, v : /\ u = Append(s, c) /\ n = Len(s) /\ v = HexValue(s)
                        /\ e = After(s, HexDigits, 0)
  OBVIOUS
<1>2. n \in Nat /\ u \in Seq(A) /\ Len(u) = n + 1 /\ DOMAIN s = 1 .. n /\ DOMAIN u = 1 .. n + 1
  BY <1>1
<1>3. e \in 1 .. n + 1
  <2>1. IsAfter(s, HexDigits, 0, e)
    BY <1>1, <1>2, AfterFinds
  <2> QED BY <1>1, <1>2, <2>1 DEF IsAfter
<1>4. After(u, HexDigits, 0) =
        IF e <= n THEN e ELSE IF c \in HexDigits THEN n + 2 ELSE n + 1
  BY <1>1, <1>2, AfterAppend
<1>5. /\ r \in [value : Nat, result : 1 .. 2] /\ v \in Nat /\ r.value = v % Word
      /\ r.result = 1 <=> e \in 1 .. n
  BY <1>1, <1>2 DEF HexIsRead
<1>6. v = ValueOf(SubSeq(s, 1, e - 1), 16)
  BY <1>1 DEF HexValue
<1>7. CASE r.result # 2
  <2>1. q = r /\ r.result = 1 /\ e \in 1 .. n
    BY <1>5, <1>7
  <2>2. After(u, HexDigits, 0) = e /\ e \in 1 .. n + 1
    BY <1>2, <1>4, <2>1
  <2>3. SubSeq(u, 1, e - 1) = SubSeq(s, 1, e - 1)
    <3>1. 0 \in Nat /\ e - 1 \in Nat /\ 0 <= e - 1 /\ e - 1 <= Len(s) /\ 0 + 1 = 1
      BY <1>1, <1>2, <2>1
    <3> QED BY <1>1, <3>1, SubSeqFront
  <2>4. HexValue(u) = v
    BY <1>6, <2>2, <2>3 DEF HexValue
  <2>5. HexIsRead(u, q)
    BY <1>2, <1>5, <2>1, <2>2, <2>4, Zenon DEF HexIsRead
  <2> QED BY <1>1, <2>5, Zenon
<1>8. CASE r.result = 2 /\ c \notin HexDigits
  <2>1. e = n + 1 /\ e - 1 = n
    BY <1>2, <1>3, <1>5, <1>8
  <2>2. q.result = 1 /\ q.value = r.value /\ q \in [value : Nat, result : 1 .. 2]
    BY <1>5, <1>8
  <2>3. After(u, HexDigits, 0) = e /\ e \in 1 .. n + 1
    BY <1>2, <1>4, <1>8, <2>1
  <2>4. SubSeq(u, 1, e - 1) = SubSeq(s, 1, e - 1)
    <3>1. 0 \in Nat /\ n \in Nat /\ 0 <= n /\ n <= Len(s) /\ 0 + 1 = 1
      BY <1>1, <1>2
    <3> QED BY <1>1, <2>1, <3>1, SubSeqFront
  <2>5. HexValue(u) = v
    BY <1>6, <2>3, <2>4 DEF HexValue
  <2>6. HexIsRead(u, q)
    BY <1>2, <1>5, <2>2, <2>3, <2>5, Zenon DEF HexIsRead
  <2> QED BY <1>1, <2>6, Zenon
<1>9. CASE r.result = 2 /\ c \in HexDigits
  <2>1. e = n + 1 /\ e - 1 = n
    BY <1>2, <1>3, <1>5, <1>9
  <2>2. PICK h \in Nat : h = HexOf(c) /\ h = Worth(c)
    <3>1. Worth(c) = HexOf(c) /\ HexOf(c) \in 0 .. 15
      BY <1>9, WorthOfDigit
    <3>2. HexOf(c) \in Nat
      <4>1. \A x \in 0 .. 15 : x \in Nat
        OBVIOUS
      <4> QED BY <3>1, <4>1, Zenon
    <3> QED BY <3>1, <3>2
  <2>3. PICK x : x = (r.value * 16 + h) % Word
    OBVIOUS
  <2>4. x \in Nat /\ x = (v * 16 + h) % Word
    <3>1. ((v % Word) * 16 + h) % Word = (v * 16 + h) % Word
      BY <1>5, <2>2, RestOfRest
    <3>2. (v * 16 + h) % Word \in Nat
      <4>1. v * 16 + h \in Nat
        BY <1>5, <2>2
      <4> QED BY <4>1
    <3> QED BY <1>5, <2>3, <3>1, <3>2
  <2>5. q = [r EXCEPT !.value = x]
    BY <1>5, <1>9, <2>2, <2>3
  <2>6. q.result = 2 /\ q.value = x /\ q \in [value : Nat, result : 1 .. 2]
    BY <1>5, <1>9, <2>4, <2>5
  <2>7. After(u, HexDigits, 0) = n + 2 /\ (n + 2) - 1 = n + 1 /\ n + 2 \notin 1 .. n + 1
    BY <1>2, <1>4, <1>9, <2>1
  <2>8. SubSeq(u, 1, n + 1) = Append(SubSeq(s, 1, n), c)
    <3>1. 0 \in Nat /\ 0 <= Len(s) /\ 0 + 1 = 1
      BY <1>1, <1>2
    <3> QED BY <1>1, <3>1, SubSeqRest
  <2>9. HexValue(u) = v * 16 + h
    <3>1. SubSeq(s, 1, n) \in Seq(A)
      BY <1>1, <1>2
    <3>2. ValueOf(Append(SubSeq(s, 1, n), c), 16) =
            ValueOf(SubSeq(s, 1, n), 16) * 16 + Worth(c)
      BY <3>1, ValueAppend
    <3>3. v = ValueOf(SubSeq(s, 1, n), 16)
      BY <1>6, <2>1
    <3>4. HexValue(u) = ValueOf(SubSeq(u, 1, n + 1), 16)
      BY <2>7 DEF HexValue
    <3> QED BY <2>2, <2>8, <3>2, <3>3, <3>4
  <2>10. HexValue(u) \in Nat
    BY <1>5, <2>2, <2>9
  <2>11. q.value = HexValue(u) % Word
    BY <2>4, <2>6, <2>9
  <2>12. q.result = 1 <=> After(u, HexDigits, 0) \in DOMAIN u
    BY <1>2, <2>6, <2>7
  <2>13. HexIsRead(u, q)
    BY <2>6, <2>10, <2>11, <2>12, Zenon DEF HexIsRead
  <2> QED BY <1>1, <2>13, Zenon
<1> QED BY <1>7, <1>8, <1>9

(* The inductive invariant: the text is one over Alphabet, and each of the *)
(* three functions is where it is in it.                                   *)
Scanned ==
  /\ string \in Seq(Alphabet)
  /\ SegmentsRead(string, isIPV4) /\ IPRead(string, strToIP) /\ HexIsRead(string, atoh)

(* It holds of the empty text, *)
LEMMA ScannedInit == ASSUME UtilsAssumption, ScanInit PROVE Scanned
<1>1. PICK s : s = string
  OBVIOUS
<1>2. /\ s = <<>> /\ s \in Seq(Alphabet) /\ Len(s) = 0 /\ DOMAIN s = {}
      /\ isIPV4 = [segs |-> 0, chcnt |-> 0, accum |-> 0, result |-> 2]
      /\ strToIP = [n |-> 0, ip |-> <<>>, result |-> 2] /\ atoh = [value |-> 0, result |-> 2]
  BY <1>1 DEF ScanInit, Unfinished
<1>3. Reading(s, 0) /\ Number(s, 1) = <<>>
  <2>1. Before(s, 1) = Len(s) /\ 1 \in 1 .. 4
    BY <1>2 DEF Before
  <2>2. Ends(s)[1] = Len(s) + 1 /\ Number(s, 1) = <<>>
    BY <1>2, <2>1, StartsEmpty
  <2> QED BY <2>2 DEF Reading
<1>4. SegmentsRead(s, isIPV4)
  <2>1. /\ isIPV4 \in [segs : Nat, chcnt : Nat, accum : Nat, result : 0 .. 2]
        /\ isIPV4.segs = 0 /\ isIPV4.chcnt = 0 /\ isIPV4.result = 2
    <3>1. isIPV4 = [segs |-> 0, chcnt |-> 0, accum |-> 0, result |-> 2]
      BY <1>2
    <3> QED BY ONLY <3>1, 0 \in Nat, 2 \in 0 .. 2, SegmentRecord
  <2>2. Len(Number(s, isIPV4.segs + 1)) = 0 /\ isIPV4.result # 0 /\ isIPV4.result # 1
    BY <1>3, <2>1
  <2>3. \A k \in 1 .. isIPV4.segs : Number(s, k) # <<>>
    BY <2>1
  <2> QED BY <1>3, <2>1, <2>2, <2>3 DEF SegmentsRead
<1>5. IPRead(s, strToIP)
  <2>1. /\ strToIP \in [n : Nat, ip : Seq(Nat), result : 0 .. 2]
        /\ strToIP.n = 0 /\ Len(strToIP.ip) = 0 /\ strToIP.result = 2
    <3>1. <<>> \in Seq(Nat) /\ Len(<<>>) = 0
      OBVIOUS
    <3> QED BY <1>2, <3>1
  <2>2. Value(s, Len(strToIP.ip) + 1) = 0
    <3>1. Len(strToIP.ip) + 1 = 1
      BY <2>1
    <3> QED BY <1>3, <3>1, ValueOfEmpty DEF Value
  <2>3. Stored(s, strToIP) /\ strToIP.result # 0 /\ strToIP.result # 1
    BY <2>1 DEF Stored
  <2> QED BY <1>3, <2>1, <2>2, <2>3 DEF IPRead
<1>6. HexIsRead(s, atoh)
  <2>1. After(s, HexDigits, 0) = 1
    <3>1. {j \in 0 + 1 .. Len(s) : s[j] \notin HexDigits} = {}
      BY <1>2
    <3> QED BY <1>2, <3>1 DEF After
  <2>2. HexValue(s) = 0
    <3>1. SubSeq(s, 1, 1 - 1) = <<>>
      BY <1>2
    <3> QED BY <2>1, <3>1, ValueOfEmpty DEF HexValue
  <2>3. 0 % Word = 0
    BY DEF UtilsAssumption
  <2>4. atoh \in [value : Nat, result : 1 .. 2] /\ atoh.value = 0 /\ atoh.result = 2
    BY <1>2
  <2>5. 1 \notin DOMAIN s /\ atoh.result # 1
    BY <1>2, <2>4
  <2> QED BY <2>1, <2>2, <2>3, <2>4, <2>5 DEF HexIsRead
<1> QED BY <1>1, <1>2, <1>4, <1>5, <1>6 DEF Scanned

(* and every character keeps it. *)
LEMMA ScannedStep == ASSUME UtilsAssumption, Scanned, [ScanNext]_scanVars PROVE Scanned'
<1>1. CASE UNCHANGED scanVars
  BY <1>1 DEF Scanned, SegmentsRead, NoNumbers, IPRead, Stored, IsAddress, NoAddress, Value,
              Reading, HexIsRead, HexValue, scanVars
<1>2. CASE ScanNext
  <2>1. PICK c \in Alphabet : NUL \notin Range(string) /\ Read(c)
    BY <1>2 DEF ScanNext
  <2>2. /\ string' = Append(string, c) /\ strToIP' = UTILS_StrToIP(c)
        /\ isIPV4' = UTILS_IsIPV4(c) /\ atoh' = UTILS_Atoh(c)
        /\ c \in HexDigits => ~DigitsEnough
    BY <2>1 DEF Read
  <2>3. /\ string \in Seq(Alphabet) /\ string' \in Seq(Alphabet)
        /\ SegmentsRead(string, isIPV4) /\ IPRead(string, strToIP) /\ HexIsRead(string, atoh)
    BY <2>2 DEF Scanned
  <2>4. SegmentsRead(Append(string, c), isIPV4')
    <3>1. CASE isIPV4.result # 2
      <4>1. isIPV4' = isIPV4
        BY <2>2, <3>1 DEF UTILS_IsIPV4, Unfinished
      <4>2. /\ isIPV4 \in [segs : Nat, chcnt : Nat, accum : Nat, result : 0 .. 2]
            /\ isIPV4.result # 1 /\ (isIPV4.result = 0 => NoNumbers(string))
        BY <2>1, <2>3, NumbersEndAtNul DEF SegmentsRead
      <4>3. isIPV4.result = 0
        BY <3>1, <4>2
      <4>4. NoNumbers(Append(string, c))
        BY <2>3, <4>2, <4>3, NoNumbersStays
      <4> QED BY <3>1, <4>1, <4>2, <4>4 DEF SegmentsRead
    <3>2. CASE isIPV4.result = 2 /\ c \in Digits
      <4>1. isIPV4' = [isIPV4 EXCEPT !.chcnt = (@ + 1) % 256,
                                     !.accum = (@ * 10 + c - 48) % 256]
        <5>1. c # NUL /\ c # Dot
          BY <3>2 DEF Digits, NUL, Dot
        <5> QED BY <2>2, <3>2, <5>1 DEF UTILS_IsIPV4, Unfinished
      <4>2. Reading(string, isIPV4.segs) /\ isIPV4.chcnt = Len(Number(string, isIPV4.segs + 1))
        BY <2>3, <3>2 DEF SegmentsRead
      <4>3. ~DigitsEnough
        BY <2>2, <3>2 DEF HexDigits
      <4>4. isIPV4.chcnt \in 0 .. 8
        BY <2>3, <4>2, <4>3, FewDigits
      <4> QED BY <2>3, <3>2, <4>1, <4>4, SegmentDigit, ZenonT(60)
    <3>3. CASE isIPV4.result = 2 /\ c \notin Digits
      <4>1. isIPV4' =
              IF c = NUL
                THEN [isIPV4 EXCEPT !.result = IF isIPV4.segs = 3 /\ isIPV4.chcnt > 0 THEN 1 ELSE 0]
              ELSE IF c = Dot
                THEN IF isIPV4.chcnt = 0 \/ isIPV4.segs + 1 = 4 THEN [isIPV4 EXCEPT !.result = 0]
                     ELSE [isIPV4 EXCEPT !.segs = @ + 1, !.chcnt = 0, !.accum = 0]
              ELSE [isIPV4 EXCEPT !.result = 0]
        BY <2>2, <3>3, Zenon DEF UTILS_IsIPV4, Unfinished, Returns
      <4> QED BY <2>3, <3>3, <4>1, SegmentEnd
    <3> QED BY <3>1, <3>2, <3>3
  <2>5. IPRead(Append(string, c), strToIP')
    <3>1. CASE strToIP.result # 2
      <4>1. strToIP' = strToIP
        BY <2>2, <3>1 DEF UTILS_StrToIP, Unfinished
      <4>2. strToIP \in [n : Nat, ip : Seq(Nat), result : 0 .. 2]
        BY <2>3 DEF IPRead
      <4>3. IPRead(Append(string, c), strToIP)
        BY <2>3, <3>1, <4>2, AddressStays, NoAddressStays DEF IPRead
      <4> QED BY <4>1, <4>3
    <3>2. CASE strToIP.result = 2 /\ c \in Digits
      <4>1. strToIP' = [strToIP EXCEPT !.n = @ * 10 + c - 48]
        BY <2>2, <3>2 DEF UTILS_StrToIP, Unfinished
      <4> QED BY <2>3, <3>2, <4>1, IPDigit
    <3>3. CASE strToIP.result = 2 /\ c \notin Digits
      <4>1. strToIP' =
              IF Len(strToIP.ip) = 3 \/ c = Dot
                THEN IF ~(strToIP.n < 256) THEN [strToIP EXCEPT !.result = 0]
                     ELSE [n |-> 0, ip |-> Append(strToIP.ip, strToIP.n),
                           result |-> IF Len(strToIP.ip) = 3 THEN 1 ELSE 2]
              ELSE [strToIP EXCEPT !.result = 0]
        BY <2>2, <3>3 DEF UTILS_StrToIP, Unfinished, FitsByte, Returns
      <4> QED BY <2>3, <3>3, <4>1, IPEnd, ZenonT(60)
    <3> QED BY <3>1, <3>2, <3>3
  <2>6. HexIsRead(Append(string, c), atoh')
    <3>1. atoh' = IF atoh.result # 2 THEN atoh
                  ELSE IF c \notin HexDigits THEN [atoh EXCEPT !.result = 1]
                  ELSE [atoh EXCEPT !.value = (@ * 16 + HexOf(c)) % Word]
      BY <2>2 DEF UTILS_Atoh, Unfinished, Returns
    <3> QED BY <2>3, <3>1, HexIsReadStep DEF UtilsAssumption
  <2>7. (SegmentsRead(string, isIPV4) /\ IPRead(string, strToIP) /\ HexIsRead(string, atoh))'
    BY <2>2, <2>4, <2>5, <2>6
  <2> QED BY <2>3, <2>7 DEF Scanned
<1> QED BY <1>1, <1>2, SMTT(60)

(* So it holds as long as a text is read. *)
LEMMA AlwaysScanned == ScanSpec => []Scanned
<1>1. ScanInit => Scanned
  BY ScannedInit, UtilsAssumption
<1>2. Scanned /\ [ScanNext]_scanVars => Scanned'
  BY ScannedStep, UtilsAssumption
<1> QED BY <1>1, <1>2, PTL DEF ScanSpec

(* What UTILS_StrToIP takes for an address begins with four numbers that   *)
(* fit a byte, the first three in front of dots, and it stores these.      *)
THEOREM AddressIsRead == ScanSpec => []AddressRead
<1>1. Scanned => AddressRead
  BY DEF Scanned, IPRead, IsAddress, Value, AddressRead
<1> QED BY <1>1, AlwaysScanned, PTL

(* A text of four numbers has read them all. *)
LEMMA NumbersRead ==
  ASSUME NEW A, NEW s \in Seq(A), FourNumbers(s)
  PROVE  /\ \A k \in 1 .. 4 : Ends(s)[k] \in DOMAIN s
         /\ \A m : ~Reading(s, m)
         /\ ~NoNumbers(s)
<1>1. /\ \A k \in 1 .. 3 : Ends(s)[k] \in DOMAIN s /\ s[Ends(s)[k]] = Dot
      /\ \A k \in 1 .. 4 : Number(s, k) # <<>>
      /\ Ends(s)[4] = Len(s) /\ s[Ends(s)[4]] = NUL
  BY DEF FourNumbers, Dotted
<1>2. Ends(s)[4] \in DOMAIN s
  <2>1. Ends(s)[3] \in DOMAIN s
    BY <1>1
  <2> QED BY <1>1, <2>1
<1>3. \A k \in 1 .. 4 : k = 4 \/ k \in 1 .. 3
  OBVIOUS
<1>4. \A k \in 1 .. 4 : Ends(s)[k] \in DOMAIN s
  BY <1>1, <1>2, <1>3, Zenon
<1>5. ASSUME NEW m, Reading(s, m) PROVE FALSE
  <2>1. m + 1 \in 1 .. 4 /\ Ends(s)[m + 1] = Len(s) + 1
    BY <1>5, ReadingOpen
  <2>2. Len(s) + 1 \in DOMAIN s
    BY <1>4, <2>1
  <2> QED BY <2>2
<1>6. ~NoNumbers(s)
  BY <1>1, <1>3, Zenon DEF NoNumbers
<1> QED BY <1>4, <1>5, <1>6

(* Every dotted quad is taken for an address by UTILS_StrToIP and          *)
(* UTILS_IsIPV4, and the latter accepts nothing but four numbers between   *)
(* dots.                                                                   *)
THEOREM QuadsAreAccepted == ScanSpec => []QuadsAccepted
<1>1. ASSUME Scanned PROVE QuadsAccepted
  <2>1. /\ string \in Seq(Alphabet)
        /\ SegmentsRead(string, isIPV4) /\ IPRead(string, strToIP)
    BY <1>1 DEF Scanned
  <2>2. isIPV4.result = 1 => FourNumbers(string)
    BY <2>1 DEF SegmentsRead
  <2>3. ASSUME DottedQuad(string) PROVE strToIP.result = 1 /\ isIPV4.result = 1
    <3>1. FourNumbers(string) /\ \A k \in 1 .. 4 : Value(string, k) < 256
      BY <2>3 DEF DottedQuad, Value
    <3>2. /\ \A m : ~Reading(string, m)
          /\ ~NoNumbers(string)
      BY <2>1, <3>1, NumbersRead
    <3>3. ~NoAddress(string)
      <4>1. \A k \in 1 .. 3 : string[Ends(string)[k]] = Dot
        BY <3>1 DEF FourNumbers, Dotted
      <4>2. \A k \in 1 .. 4 : k < 4 => k \in 1 .. 3
        OBVIOUS
      <4>3. \A k \in 1 .. 4 : ~(Value(string, k) \in Nat /\ Value(string, k) >= 256)
        BY <3>1
      <4> QED BY <4>1, <4>2, <4>3, Zenon DEF NoAddress
    <3>4. isIPV4.result \in 0 .. 2 /\ isIPV4.result # 2 /\ isIPV4.result # 0
      BY <2>1, <3>2 DEF SegmentsRead
    <3>5. strToIP.result \in 0 .. 2 /\ strToIP.result # 2 /\ strToIP.result # 0
      BY <2>1, <3>2, <3>3 DEF IPRead
    <3> QED BY <3>4, <3>5
  <2> QED BY <2>2, <2>3 DEF QuadsAccepted
<1> QED BY <1>1, AlwaysScanned, PTL

(* UTILS_Atoh has read the number that the hex digits in front of the      *)
(* first other character write, modulo the width of its word.              *)
THEOREM HexIsAlwaysRead == ScanSpec => []HexRead
<1>1. Scanned => HexRead
  BY DEF Scanned, HexIsRead, HexValue, HexRead
<1> QED BY <1>1, AlwaysScanned, PTL

=============================================================================
