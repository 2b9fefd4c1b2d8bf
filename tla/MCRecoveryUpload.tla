--------------------------- MODULE MCRecoveryUpload ---------------------------
(***************************************************************************)
(* Two runs of pedalctl, an upload of one image or a restore of the chip,  *)
(* with a report lost, an answer late and the flash failing.               *)
(***************************************************************************)
EXTENDS RecoveryUpload

CONSTANTS P1, P2

MCImages == {<<P1, P2>>}
MCWholeChip == [d \in {"chip"} |-> [c \in Cells |-> IF c = 1 THEN P2 ELSE P1]]

MCUploadInit ==
    /\ UploadInit
    /\ durable.sequence = 0 /\ durable.trials = 0 /\ durable.confirmed = SlotB

MCUploadSpec == MCUploadInit /\ [][UploadNext]_uploadVars /\ UploadFairness
=============================================================================
