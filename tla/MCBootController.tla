--------------------------- MODULE MCBootController ---------------------------
(***************************************************************************)
(* The boot policy with two updates and at most two power cycles, which is *)
(* one less than the trials of a pending image.                            *)
(***************************************************************************)
EXTENDS BootController, TLC

=============================================================================
