---------------------------- MODULE MCHardwareStart ----------------------------
(***************************************************************************)
(* Two slots, a sequence register of two bits, so that the complement of a  *)
(* sequence number can be zero, one engine of each kind, two pairs of pads *)
(* and the registers that are read back, in the order they are written.    *)
(***************************************************************************)
EXTENDS HardwareStart, TLC

MCRegisterOrder == <<"power", "format", "route">>
=============================================================================
