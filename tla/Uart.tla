-------------------------------- MODULE Uart --------------------------------
(***************************************************************************)
(* uart.c, the serial port the log is printed on: the program fills a FIFO *)
(* that the hardware empties, and the handler of the receive interrupt     *)
(* comes between any two steps of it.                                      *)
(*                                                                         *)
(* UART1 has the same transmit path and no caller.  Nothing in uart.c, and *)
(* nothing else in src/, reads a received byte, so they are only counted.  *)
(***************************************************************************)
EXTENDS Integers, Sequences, FiniteSets, SequencesExt

CONSTANTS
  TxSize, RxSize,   \* bytes in each hardware FIFO, 128
  TxLimit,          \* uart_tx_one_char writes below this count, 126
  RxTrigger,        \* UART_RXFIFO_FULL_THRHD, 127
  Chars,            \* what is printed
  MaxText           \* bound: characters the program prints

ASSUME UartAssumption ==
  /\ TxSize \in Nat \ {0} /\ TxLimit \in 1 .. TxSize
  /\ RxSize \in Nat \ {0} /\ RxTrigger \in 1 .. RxSize
  /\ MaxText \in Nat
  /\ {"\n", "\r"} \subseteq Chars

VARIABLES
  ready,            \* uart_init has run
  text,             \* history: what the program printed, and by which call
  todo,             \* what the running call still has to write
  room,             \* uart_tx_one_char has seen room and not yet written
  txFifo, wire,     \* what waits in the FIFO, and history: what left it
  rxCount,          \* UART_RXFIFO_CNT
  raw, ena,         \* interrupts raised, and UART_INT_ENA
  draining          \* the handler loops until the receive FIFO is empty

rxVars == <<rxCount, raw, ena, draining>>
vars == <<ready, text, todo, room, txFifo, wire, rxVars>>

(* The boot loader has used the port before. *)
Init ==
  /\ ready = FALSE
  /\ text = <<>> /\ todo = <<>> /\ room = FALSE /\ wire = <<>>
  /\ txFifo \in {<<>>} \cup {<<c>> : c \in Chars}
  /\ rxCount \in 0 .. RxSize
  /\ raw \in {{}, {"RXFIFO_FULL"}} /\ ena = {} /\ draining = FALSE

-----------------------------------------------------------------------------
(* The hardware *)

(* Mutant: the trigger level is masked away. *)
FirstByteTriggers(n) == n >= 1

Triggered(n) == n >= RxTrigger

(* A byte arrives, perhaps badly framed.  A full FIFO loses it.  The timeout*)
(* is not turned on (UART_RX_TOUT_EN).                                     *)
ByteArrives ==
  /\ rxCount' = IF rxCount < RxSize THEN rxCount + 1 ELSE rxCount
  /\ \E framed \in BOOLEAN :
       raw' = raw \cup (IF framed THEN {} ELSE {"FRM_ERR"})
                  \cup (IF Triggered(rxCount') THEN {"RXFIFO_FULL"} ELSE {})
                  \cup (IF rxCount = RxSize THEN {"RXFIFO_OVF"} ELSE {})
  /\ UNCHANGED <<ready, text, todo, room, txFifo, wire, ena, draining>>

(* A byte leaves the transmit FIFO. *)
ByteLeaves ==
  /\ txFifo # <<>>
  /\ txFifo' = Tail(txFifo) /\ wire' = Append(wire, Head(txFifo))
  /\ raw' = IF txFifo' = <<>> THEN raw \cup {"TXFIFO_EMPTY"} ELSE raw
  /\ UNCHANGED <<ready, text, todo, room, rxCount, ena, draining>>

(* A write to the FIFO register. *)
Put(c) == txFifo' = IF Len(txFifo) < TxSize THEN Append(txFifo, c) ELSE txFifo

-----------------------------------------------------------------------------
(* The program, which runs while the handler does not *)

Running == ready /\ ~draining

(* uart_init, with uart_config for UART0: interrupts come after it. *)
uart_init ==
  /\ ~ready /\ ready' = TRUE
  /\ txFifo' = <<>> /\ wire' = <<>>
  /\ rxCount' = 0
  /\ raw' = {} /\ ena' = {"FRM_ERR", "RXFIFO_FULL", "RXFIFO_TOUT", "RXFIFO_OVF"}
  /\ UNCHANGED <<text, todo, room, draining>>

(* A call starts when the one before has returned. *)
Call(how, c, bytes) ==
  /\ Running /\ todo = <<>> /\ Len(text) < MaxText
  /\ text' = Append(text, [call |-> how, char |-> c])
  /\ todo' = bytes
  /\ UNCHANGED <<ready, room, txFifo, wire, rxVars>>

uart0_write_char(c) ==
  Call("write_char", c, CASE c = "\n" -> <<"\r", "\n">> [] c = "\r" -> <<>> [] OTHER -> <<c>>)

(* A character of uart0_sendStr or uart0_tx_buffer. *)
uart0_sendStr(c) == Call("sendStr", c, <<c>>)

(* Mutant: the FIFO is taken to be one byte longer than it is. *)
RoomOneTooMany == Len(txFifo) <= TxSize

(* Mutant: the comparison is the other way round. *)
RoomWhenFull == Len(txFifo) >= TxLimit

Room == Len(txFifo) < TxLimit

(* uart_tx_one_char: the wait for room ends. *)
SeeRoom ==
  /\ Running /\ todo # <<>> /\ ~room
  /\ Room
  /\ room' = TRUE
  /\ UNCHANGED <<ready, text, todo, txFifo, wire, rxVars>>

(* uart_tx_one_char: the byte is written. *)
WriteByte ==
  /\ Running /\ room
  /\ Put(Head(todo))
  /\ room' = FALSE
  /\ todo' = Tail(todo)
  /\ UNCHANGED <<ready, text, wire, rxVars>>

-----------------------------------------------------------------------------
(* The handler *)

(* UART_INT_ST *)
Pending == raw \cap ena

Sources == {"FRM_ERR", "RXFIFO_FULL", "RXFIFO_TOUT", "RXFIFO_OVF", "TXFIFO_EMPTY"}

(* The branch taken: the first whose bit is set. *)
Served ==
  IF "FRM_ERR" \in Pending THEN "FRM_ERR"
  ELSE IF "RXFIFO_FULL" \in Pending THEN "RXFIFO_FULL"
  ELSE IF "RXFIFO_TOUT" \in Pending THEN "RXFIFO_TOUT"
  ELSE IF "RXFIFO_OVF" \in Pending THEN "RXFIFO_OVF"
  ELSE "TXFIFO_EMPTY"

(* A source that is only cleared.  TXFIFO_EMPTY is disabled as well. *)
HandlerClears ==
  /\ Running /\ Pending # {}
  /\ Served \in {"FRM_ERR", "RXFIFO_OVF", "TXFIFO_EMPTY"}
  /\ raw' = raw \ {Served}
  /\ ena' = ena \ ({Served} \cap {"TXFIFO_EMPTY"})
  /\ UNCHANGED <<ready, text, todo, room, txFifo, wire, rxCount, draining>>

(* A full FIFO, or a timeout: both are disabled while a loop waits for the *)
(* FIFO to be empty, of which it reads nothing, and enabled again after it.*)
HandlerDrains ==
  /\ Running /\ Pending # {}
  /\ Served \in {"RXFIFO_FULL", "RXFIFO_TOUT"}
  /\ raw' = raw \ {Served}
  /\ draining' = (rxCount > 0)
  /\ ena' = IF draining' THEN ena \ {"RXFIFO_FULL", "RXFIFO_TOUT"}
                         ELSE ena \cup {"RXFIFO_FULL", "RXFIFO_TOUT"}
  /\ UNCHANGED <<ready, text, todo, room, txFifo, wire, rxCount>>

-----------------------------------------------------------------------------

Next ==
  \/ uart_init \/ SeeRoom \/ WriteByte
  \/ \E c \in Chars : uart0_write_char(c) \/ uart0_sendStr(c)
  \/ HandlerClears \/ HandlerDrains
  \/ ByteArrives \/ ByteLeaves

Spec == Init /\ [][Next]_vars

(* The program goes on whenever no handler runs, and the hardware sends. *)
FairSpec == Spec /\ WF_vars(SeeRoom) /\ WF_vars(WriteByte) /\ WF_vars(ByteLeaves)

-----------------------------------------------------------------------------
(* Properties *)

(* The FIFO is not filled beyond the count uart_tx_one_char waits for. *)
TypeOK ==
  /\ ready \in BOOLEAN /\ room \in BOOLEAN /\ draining \in BOOLEAN
  /\ text \in Seq([call : {"write_char", "sendStr"}, char : Chars])
  /\ todo \in Seq(Chars) /\ wire \in Seq(Chars)
  /\ txFifo \in Seq(Chars) /\ Len(txFifo) <= TxLimit
  /\ rxCount \in 0 .. RxSize
  /\ raw \subseteq Sources /\ ena \subseteq Sources

(* What printing t puts on the wire: a line end is two characters, but not *)
(* for a string sent as it is.                                             *)
Output(t) ==
  FlattenSeq([i \in DOMAIN t |->
    IF t[i].call = "sendStr" THEN <<t[i].char>>
    ELSE CASE t[i].char = "\n" -> <<"\r", "\n">>
           [] t[i].char = "\r" -> <<>>
           [] OTHER -> <<t[i].char>>])

(* Nothing that is printed is lost, doubled or out of order, however full  *)
(* the FIFO is and whatever interrupts the writer between its look at the  *)
(* count and its write, and nothing of the boot loader's is mixed in.      *)
OutputRight == ready => wire \o txFifo \o todo = Output(text)

(* The loop that never ends is entered at the trigger level, not below it: *)
(* the timeout and the other sources never lead there.                     *)
HangsAtTriggerOnly == draining => rxCount >= RxTrigger

(* The handler's last two branches, overflow and empty transmit FIFO, are  *)
(* never what it serves.                                                   *)
LastBranchesDead ==
  Running /\ Pending # {} => Served \in {"FRM_ERR", "RXFIFO_FULL"}

(* Each character printed gets out in the end, unless so many bytes were   *)
(* received that the handler does not return.                              *)
TextComesOut ==
  \A k \in 1 .. 2 * MaxText :
    Len(Output(text)) >= k ~> Len(wire) >= k \/ rxCount >= RxTrigger

=============================================================================
