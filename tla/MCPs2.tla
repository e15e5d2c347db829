-------------------------------- MODULE MCPs2 -------------------------------
(***************************************************************************)
(* Ps2 with a letter, the point that counts when it is released, and the   *)
(* key past the end of the row of q.  The packets: moves with and without  *)
(* a button, whose bytes are codes of keys too, an overflow, and a move    *)
(* that does not fit in a signed byte.                                     *)
(***************************************************************************)
EXTENDS Ps2

MCPackets == {<<41, 16, 255>>, <<56, 251, 250>>, <<72, 1, 1>>, <<8, 200, 1>>}
=============================================================================
