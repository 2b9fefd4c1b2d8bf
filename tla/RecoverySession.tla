--------------------------- MODULE RecoverySession ---------------------------
(***************************************************************************)
(* The update protocol of recovery_engine.c seen from the boot policy: the *)
(* session of BootController is what is left of an A/B session when cells, *)
(* sequence numbers and the retry cache are forgotten.                     *)
(***************************************************************************)
EXTENDS RecoveryEngine

\* A slot would boot once its cells hold an image, whatever the phase says.
Bootable(s) == HoldsImage(s, SlotCells)

SessionPhase ==
    CASE ~on -> "idle"
      [] on /\ phase \in {"erased", "writing"} ->
            IF Bootable(target) THEN "written" ELSE "erased"
      [] OTHER -> phase

Policy == INSTANCE BootController WITH
    RamPersonality <- TRUE,
    Faults <- {MayFail},
    MaxCuts <- 0,
    image <- [s \in Slots |-> IF Bootable(s) THEN "app" ELSE "invalid"],
    ram <- IF on THEN boot ELSE DefaultState,
    mail <- [kind |-> "none", slot |-> NoSlot, sequence |-> 0],
    request <- FALSE,
    watchdog <- FALSE,
    pc <- IF on THEN "session" ELSE "reset",
    token <- [kind |-> "none", slot |-> NoSlot, sequence |-> 0],
    selected <- SlotA,
    active <- IF on THEN active ELSE SlotA,
    session <- IF on THEN target ELSE NoSlot,
    phase <- SessionPhase,
    jumps <- 0,
    faulty <- MayFail,
    cuts <- 0

\* Every request that the engine answers, in the A/B personality, is a step of
\* a session of the boot policy or changes nothing that the policy sees: the
\* properties of the policy hold of a pedal that runs this engine.
ImplementsPolicy == [][Policy!RecoveryStep]_(Policy!vars)

\* The slot that every rollback falls back to still boots, whatever the host
\* asked for and whatever failed.
RollbackSlotBoots == ~FullFlashEnabled => Bootable(durable.confirmed)
=============================================================================
