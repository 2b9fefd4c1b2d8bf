------------------------------ MODULE BootState ------------------------------
(***************************************************************************)
(* boot_state.c: the record that the journal keeps and the only operations *)
(* by which the boot controller and the recovery engine change it.         *)
(***************************************************************************)
EXTENDS BootSequence

CONSTANTS SlotA, SlotB,  \* BOOT_SLOT_A, BOOT_SLOT_B
          NoSlot,        \* BOOT_SLOT_NONE
          MaxTrials      \* BOOT_DEFAULT_MAX_TRIALS

ASSUME BootStateAssumption ==
    /\ SlotA # SlotB
    /\ NoSlot \notin {SlotA, SlotB}
    /\ MaxTrials \in Nat \ {0}

Slots == {SlotA, SlotB}

States == [sequence : SeqNums, confirmed : Slots,
           pending : Slots \cup {NoSlot}, trials : 0 .. MaxTrials]

DefaultState ==
    [sequence |-> 0, confirmed |-> SlotA, pending |-> NoSlot, trials |-> 0]

OtherSlot(s) == IF s = SlotA THEN SlotB ELSE SlotA

\* boot_record_decode refuses a pending slot that is the confirmed one.
Decodes(s) == s \in States /\ s.pending # s.confirmed

\* Faulty variant: gives up one trial too early.
TrialsExhaustedEarly(s) == s.trials + 1 >= MaxTrials

TrialsExhausted(s) == s.trials >= MaxTrials

SelectedSlot(s) ==
    IF s.pending # NoSlot /\ ~TrialsExhausted(s) THEN s.pending ELSE s.confirmed

BeginUpdate(s, slot) ==
    IF slot \notin Slots \/ slot = s.confirmed THEN s
    ELSE [sequence |-> Succ(s.sequence), confirmed |-> s.confirmed,
          pending |-> slot, trials |-> 0]

\* Faulty variant: boots the pending slot without counting the attempt.
RecordTrialUncounted(s) ==
    [sequence |-> Succ(s.sequence), confirmed |-> s.confirmed,
     pending |-> s.pending, trials |-> s.trials]

RecordTrial(s) ==
    IF s.pending = NoSlot \/ TrialsExhausted(s) THEN s
    ELSE [sequence |-> Succ(s.sequence), confirmed |-> s.confirmed,
          pending |-> s.pending, trials |-> s.trials + 1]

ConfirmPending(s) ==
    IF s.pending = NoSlot THEN s
    ELSE [sequence |-> Succ(s.sequence), confirmed |-> s.pending,
          pending |-> NoSlot, trials |-> 0]

Rollback(s) ==
    IF s.pending = NoSlot THEN s
    ELSE [sequence |-> Succ(s.sequence), confirmed |-> s.confirmed,
          pending |-> NoSlot, trials |-> 0]
=============================================================================
