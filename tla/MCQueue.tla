------------------------------ MODULE MCQueue ------------------------------
(***************************************************************************)
(* The small instance of Queue.                                            *)
(***************************************************************************)
EXTENDS Queue

(* An empty packet, packets with and without reserved bytes, two whose     *)
(* frames fill the ring exactly, and one whose frame never fits.           *)
MCPackets == {<<>>, <<65>>, <<126>>, <<127, 93>>, <<125, 126, 127>>}

=============================================================================
