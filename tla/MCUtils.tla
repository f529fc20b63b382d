------------------------------ MODULE MCUtils -------------------------------
(***************************************************************************)
(* Small instances of Utils.                                               *)
(***************************************************************************)
EXTENDS Utils

(* NUL, the dot, the digits of 255 and 256, and hex digits that are no     *)
(* decimal ones.                                                           *)
TextAlphabet == {0, 46, 50, 53, 54, 70, 97}

=============================================================================
