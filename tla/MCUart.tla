------------------------------- MODULE MCUart -------------------------------
(***************************************************************************)
(* Small instances of Uart.                                                *)
(***************************************************************************)
EXTENDS Uart

(* The two characters of a line end, and another. *)
LineChars == {"\n", "\r", "a"}

=============================================================================
