---------------------------- MODULE MCRecoveryUsb ----------------------------
(***************************************************************************)
(* Two requests that differ, sent in any order and with repetitions.       *)
(***************************************************************************)
EXTENDS RecoveryUsb
=============================================================================
