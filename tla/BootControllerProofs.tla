------------------------- MODULE BootControllerProofs -------------------------
(***************************************************************************)
(* The boot policy keeps BootInv when recovery runs from RAM, for every    *)
(* number of trials, of power cycles and of updates and every pattern of   *)
(* flash failures; the safety properties of BootController follow.         *)
(***************************************************************************)
EXTENDS BootController, TLAPS

-----------------------------------------------------------------------------
(* What the operations of boot_state.c return.                             *)

\* The constants, in the form that the provers use.
LEMMA Parameters ==
    /\ SlotA # SlotB
    /\ NoSlot \notin Slots
    /\ MaxTrials \in Nat \ {0}
    /\ 0 \in SeqNums
    /\ \A n \in SeqNums : Succ(n) \in SeqNums
<1>1. HalfSeq \in Nat \ {0}
  BY HalfSeqAssumption
<1>2. QED
  BY <1>1, BootStateAssumption DEF Slots, SeqNums, SeqMod, Succ

\* The boot state operations return boot states.
LEMMA OperationsReturnStates ==
    ASSUME NEW s \in States
    PROVE  /\ DefaultState \in States
           /\ \A slot : BeginUpdate(s, slot) \in States
           /\ RecordTrial(s) \in States
           /\ ConfirmPending(s) \in States
           /\ Rollback(s) \in States
           /\ SelectedSlot(s) \in Slots
<1>1. SlotA \in Slots
  BY DEF Slots
<1>2. s \in [sequence : SeqNums, confirmed : Slots,
             pending : Slots \cup {NoSlot}, trials : 0 .. MaxTrials]
  BY DEF States
<1>3. DefaultState \in States
  BY <1>1, Parameters DEF DefaultState, States
<1>4. \A slot : BeginUpdate(s, slot) \in States
  BY <1>2, Parameters DEF BeginUpdate, States
<1>5. RecordTrial(s) \in States
  BY <1>2, Parameters DEF RecordTrial, TrialsExhausted, States
<1>6. ConfirmPending(s) \in States
  BY <1>2, Parameters DEF ConfirmPending, States
<1>7. Rollback(s) \in States
  BY <1>2, Parameters DEF Rollback, States
<1>8. SelectedSlot(s) \in Slots
  BY <1>2, Parameters DEF SelectedSlot, TrialsExhausted
<1>9. QED
  BY <1>3, <1>4, <1>5, <1>6, <1>7, <1>8

\* What the operations do to a state with a pending slot.
LEMMA OperationEffects ==
    ASSUME NEW s \in States, s.pending # NoSlot
    PROVE  /\ ConfirmPending(s).confirmed = s.pending
           /\ ConfirmPending(s).pending = NoSlot
           /\ Rollback(s).confirmed = s.confirmed
           /\ Rollback(s).pending = NoSlot
           /\ ~TrialsExhausted(s) =>
                 /\ RecordTrial(s).confirmed = s.confirmed
                 /\ RecordTrial(s).pending = s.pending
                 /\ RecordTrial(s).trials = s.trials + 1
BY DEF ConfirmPending, Rollback, RecordTrial

LEMMA BeginUpdateEffect ==
    ASSUME NEW s \in States, NEW slot \in Slots, slot # s.confirmed
    PROVE  /\ BeginUpdate(s, slot).confirmed = s.confirmed
           /\ BeginUpdate(s, slot).pending = slot
           /\ BeginUpdate(s, slot).trials = 0
BY DEF BeginUpdate

\* The fields of a boot state and the values that a reset restores.
LEMMA StateFields ==
    ASSUME NEW s \in States
    PROVE  /\ s.sequence \in SeqNums
           /\ s.confirmed \in Slots
           /\ s.pending \in Slots \cup {NoSlot}
           /\ s.trials \in 0 .. MaxTrials
BY DEF States

-----------------------------------------------------------------------------
(* What the handlers work with.                                            *)

LEMMA ResetValues ==
    /\ DefaultState \in States
    /\ SlotA \in Slots
    /\ NoMail \in Mails
    /\ NoMail.kind = "none"
BY Parameters DEF DefaultState, States, Slots, NoMail, Mails

LEMMA TokensAreMails ==
    ASSUME NEW k \in {"handoff", "confirm"}, NEW s \in Slots, NEW n \in SeqNums
    PROVE  /\ Token(k, s, n) \in Mails
           /\ Token(k, s, n) # NoMail
           /\ Token(k, s, n).kind = k
           /\ Token(k, s, n).slot = s
           /\ Token(k, s, n).sequence = n
<1>1. /\ Token(k, s, n) \in Mails
      /\ Token(k, s, n).kind = k
      /\ Token(k, s, n).slot = s
      /\ Token(k, s, n).sequence = n
  BY DEF Token, Mails
<1>2. QED
  BY <1>1, ResetValues

LEMMA InitHolds == Init => BootInv
<1> SUFFICES ASSUME Init PROVE BootInv
  OBVIOUS
<1>0. /\ durable = DefaultState /\ ram = DefaultState
      /\ mail = NoMail /\ token = NoMail
      /\ request = FALSE /\ watchdog = FALSE
      /\ pc = "reset" /\ phase = "idle"
      /\ selected = SlotA /\ active = SlotA /\ session = NoSlot
      /\ jumps = 0 /\ cuts = 0 /\ updates = 0
      /\ faulty \in BOOLEAN
  BY BootControllerAssumption DEF Init
<1>1. DefaultState \in States /\ SlotA \in Slots /\ SlotB \in Slots
  BY Parameters DEF DefaultState, States, Slots
<1>2. image \in [Slots -> Images] /\ image[SlotA] \in Healthy
  BY <1>1 DEF Init, Images, Healthy
<1>3. NoMail \in Mails
  BY Parameters DEF NoMail, Mails
<1>4. TypeOK
  <2>1. 0 \in 0 .. MaxCuts /\ 0 \in 0 .. MaxUpdates
    BY BootControllerAssumption
  <2>2. mail \in Mails /\ token \in Mails /\ ram \in States /\ durable \in States
    BY <1>0, <1>1, <1>3
  <2>3. QED
    BY <1>0, <1>1, <1>2, <2>1, <2>2 DEF TypeOK, BootSteps
<1>5. MailInv
  BY <1>0 DEF MailInv, NoMail, AppSteps
<1>6. LoadInv
  BY <1>0, <1>1, Parameters DEF LoadInv, DefaultState, Slots
<1>7. TrialInv
  BY <1>0 DEF TrialInv, DefaultState
<1>8. AppInv
  BY <1>0 DEF AppInv, AppSteps
<1>9. SessionInv
  BY <1>0, <1>2, Parameters DEF SessionInv, DefaultState, Slots
<1>10. QED
  BY <1>4, <1>5, <1>6, <1>7, <1>8, <1>9 DEF BootInv

-----------------------------------------------------------------------------

LEMMA ConsumeConfirmationKeeps == ASSUME RamPersonality, BootInv, ConsumeConfirmation PROVE BootInv'
<1> USE DEF BootInv, ConsumeConfirmation, bootVars, engineVars, boundVars
<1>1. /\ durable \in States /\ ram \in States
      /\ durable.confirmed \in Slots
      /\ durable.pending \in Slots \cup {NoSlot}
      /\ durable.trials \in 0 .. MaxTrials
      /\ ram.sequence \in SeqNums
  BY StateFields DEF TypeOK
<1>1a. NoMail \in Mails /\ NoMail.kind = "none" /\ DefaultState \in States /\ SlotA \in Slots
  BY ResetValues
<1>2. TypeOK'
  BY <1>1, <1>1a, Parameters, OperationsReturnStates DEF TypeOK, BootSteps, AppSteps, RecoverySteps
<1>3. MailInv'
  BY <1>1, <1>1a, Parameters DEF TypeOK, MailInv, IsPendingTrial, AppSteps
<1>4. LoadInv'
  BY <1>1, <1>1a, Parameters DEF TypeOK, MailInv, LoadInv
<1>5. TrialInv'
  BY <1>1, <1>1a, Parameters DEF TypeOK, LoadInv, TrialInv
<1>6. AppInv'
  BY <1>1, <1>1a, Parameters DEF TypeOK, MailInv, LoadInv, AppInv, TrialRuns, AppSteps
<1>7. SessionInv'
  BY <1>1, <1>1a, Parameters DEF TypeOK, MailInv, SessionInv
<1>8. QED
  BY <1>2, <1>3, <1>4, <1>5, <1>6, <1>7

LEMMA ForcedRecoveryKeeps == ASSUME RamPersonality, BootInv, ForcedRecovery PROVE BootInv'
<1> USE DEF BootInv, ForcedRecovery, bootVars, engineVars, boundVars
<1>1. /\ durable \in States /\ ram \in States
      /\ durable.confirmed \in Slots
      /\ durable.pending \in Slots \cup {NoSlot}
      /\ durable.trials \in 0 .. MaxTrials
      /\ ram.sequence \in SeqNums
  BY StateFields DEF TypeOK
<1>1a. NoMail \in Mails /\ NoMail.kind = "none" /\ DefaultState \in States /\ SlotA \in Slots
  BY ResetValues
<1>2. TypeOK'
  BY <1>1, <1>1a, Parameters, OperationsReturnStates DEF TypeOK, BootSteps, AppSteps, RecoverySteps
<1>3. MailInv'
  BY <1>1, <1>1a, Parameters DEF TypeOK, MailInv, IsPendingTrial, AppSteps
<1>4. LoadInv'
  BY <1>1, <1>1a, Parameters DEF TypeOK, MailInv, LoadInv
<1>5. TrialInv'
  BY <1>1, <1>1a, Parameters DEF TypeOK, LoadInv, TrialInv
<1>6. AppInv'
  BY <1>1, <1>1a, Parameters DEF TypeOK, MailInv, LoadInv, AppInv, TrialRuns, AppSteps
<1>7. SessionInv'
  BY <1>1, <1>1a, Parameters DEF TypeOK, MailInv, SessionInv
<1>8. QED
  BY <1>2, <1>3, <1>4, <1>5, <1>6, <1>7

LEMMA NoRecoveryRequestKeeps == ASSUME RamPersonality, BootInv, NoRecoveryRequest PROVE BootInv'
<1> USE DEF BootInv, NoRecoveryRequest, bootVars, engineVars, boundVars
<1>1. /\ durable \in States /\ ram \in States
      /\ durable.confirmed \in Slots
      /\ durable.pending \in Slots \cup {NoSlot}
      /\ durable.trials \in 0 .. MaxTrials
      /\ ram.sequence \in SeqNums
  BY StateFields DEF TypeOK
<1>1a. NoMail \in Mails /\ NoMail.kind = "none" /\ DefaultState \in States /\ SlotA \in Slots
  BY ResetValues
<1>2. TypeOK'
  BY <1>1, <1>1a, Parameters, OperationsReturnStates DEF TypeOK, BootSteps, AppSteps, RecoverySteps
<1>3. MailInv'
  BY <1>1, <1>1a, Parameters DEF TypeOK, MailInv, IsPendingTrial, AppSteps
<1>4. LoadInv'
  BY <1>1, <1>1a, Parameters DEF TypeOK, MailInv, LoadInv
<1>5. TrialInv'
  BY <1>1, <1>1a, Parameters DEF TypeOK, LoadInv, TrialInv
<1>6. AppInv'
  BY <1>1, <1>1a, Parameters DEF TypeOK, MailInv, LoadInv, AppInv, TrialRuns, AppSteps
<1>7. SessionInv'
  BY <1>1, <1>1a, Parameters DEF TypeOK, MailInv, SessionInv
<1>8. QED
  BY <1>2, <1>3, <1>4, <1>5, <1>6, <1>7

LEMMA LoadFailsKeeps == ASSUME RamPersonality, BootInv, LoadFails PROVE BootInv'
<1> USE DEF BootInv, LoadFails, bootVars, engineVars, boundVars
<1>1. /\ durable \in States /\ ram \in States
      /\ durable.confirmed \in Slots
      /\ durable.pending \in Slots \cup {NoSlot}
      /\ durable.trials \in 0 .. MaxTrials
      /\ ram.sequence \in SeqNums
  BY StateFields DEF TypeOK
<1>1a. NoMail \in Mails /\ NoMail.kind = "none" /\ DefaultState \in States /\ SlotA \in Slots
  BY ResetValues
<1>2. TypeOK'
  BY <1>1, <1>1a, Parameters, OperationsReturnStates DEF TypeOK, BootSteps, AppSteps, RecoverySteps
<1>3. MailInv'
  BY <1>1, <1>1a, Parameters DEF TypeOK, MailInv, IsPendingTrial, AppSteps
<1>4. LoadInv'
  BY <1>1, <1>1a, Parameters DEF TypeOK, MailInv, LoadInv
<1>5. TrialInv'
  BY <1>1, <1>1a, Parameters DEF TypeOK, LoadInv, TrialInv
<1>6. AppInv'
  BY <1>1, <1>1a, Parameters DEF TypeOK, MailInv, LoadInv, AppInv, TrialRuns, AppSteps
<1>7. SessionInv'
  BY <1>1, <1>1a, Parameters DEF TypeOK, MailInv, SessionInv
<1>8. QED
  BY <1>2, <1>3, <1>4, <1>5, <1>6, <1>7

LEMMA ConfirmKeeps == ASSUME RamPersonality, BootInv, Confirm PROVE BootInv'
<1> USE DEF BootInv, Confirm, Store, bootVars, engineVars, boundVars
<1>1. /\ durable \in States /\ ram \in States
      /\ durable.confirmed \in Slots
      /\ durable.pending \in Slots \cup {NoSlot}
      /\ durable.trials \in 0 .. MaxTrials
      /\ ram.sequence \in SeqNums
  BY StateFields DEF TypeOK
<1>1a. NoMail \in Mails /\ NoMail.kind = "none" /\ DefaultState \in States /\ SlotA \in Slots
  BY ResetValues
<1>2. durable.pending # NoSlot /\ image[durable.pending] \in Healthy
  BY <1>1, Parameters DEF MailInv, IsPendingTrial
<1>3. /\ ConfirmPending(durable) \in States
      /\ ConfirmPending(durable).confirmed = durable.pending
      /\ ConfirmPending(durable).pending = NoSlot
  BY <1>1, <1>2, OperationsReturnStates, OperationEffects
<1>4. /\ durable' \in {durable, ConfirmPending(durable)}
      /\ ram' \in {durable, ConfirmPending(durable)}
      /\ pc' \in {"prepare", "recovery"}
  OBVIOUS
<1>5. TypeOK'
  BY <1>1, <1>1a, <1>2, <1>3, <1>4, Parameters, OperationsReturnStates DEF TypeOK, BootSteps, AppSteps, RecoverySteps
<1>6. MailInv'
  BY <1>1, <1>1a, <1>2, <1>3, <1>4, Parameters DEF TypeOK, MailInv, IsPendingTrial, AppSteps
<1>7. LoadInv'
  BY <1>1, <1>1a, <1>2, <1>3, <1>4, Parameters DEF TypeOK, MailInv, LoadInv
<1>8. TrialInv'
  BY <1>1, <1>1a, <1>2, <1>3, <1>4, Parameters DEF TypeOK, LoadInv, TrialInv
<1>9. AppInv'
  BY <1>1, <1>1a, <1>2, <1>3, <1>4, Parameters DEF TypeOK, MailInv, LoadInv, AppInv, TrialRuns, AppSteps
<1>10. SessionInv'
  BY <1>1, <1>1a, <1>2, <1>3, <1>4, Parameters DEF TypeOK, MailInv, SessionInv
<1>11. QED
  BY <1>5, <1>6, <1>7, <1>8, <1>9, <1>10

LEMMA PrepareConfirmedKeeps == ASSUME RamPersonality, BootInv, PrepareConfirmed PROVE BootInv'
<1> USE DEF BootInv, PrepareConfirmed, bootVars, engineVars, boundVars
<1>1. /\ durable \in States /\ ram \in States
      /\ durable.confirmed \in Slots
      /\ durable.pending \in Slots \cup {NoSlot}
      /\ durable.trials \in 0 .. MaxTrials
      /\ ram.sequence \in SeqNums
  BY StateFields DEF TypeOK
<1>1a. NoMail \in Mails /\ NoMail.kind = "none" /\ DefaultState \in States /\ SlotA \in Slots
  BY ResetValues
<1>2. TypeOK'
  BY <1>1, <1>1a, Parameters, OperationsReturnStates DEF TypeOK, BootSteps, AppSteps, RecoverySteps
<1>3. MailInv'
  BY <1>1, <1>1a, Parameters DEF TypeOK, MailInv, IsPendingTrial, AppSteps
<1>4. LoadInv'
  BY <1>1, <1>1a, Parameters DEF TypeOK, MailInv, LoadInv
<1>5. TrialInv'
  BY <1>1, <1>1a, Parameters DEF TypeOK, LoadInv, TrialInv
<1>6. AppInv'
  BY <1>1, <1>1a, Parameters DEF TypeOK, MailInv, LoadInv, AppInv, TrialRuns, AppSteps
<1>7. SessionInv'
  BY <1>1, <1>1a, Parameters DEF TypeOK, MailInv, SessionInv
<1>8. QED
  BY <1>2, <1>3, <1>4, <1>5, <1>6, <1>7

LEMMA PrepareRollbackKeeps == ASSUME RamPersonality, BootInv, PrepareRollback PROVE BootInv'
<1> USE DEF BootInv, PrepareRollback, Store, bootVars, engineVars, boundVars
<1>1. /\ durable \in States /\ ram \in States
      /\ durable.confirmed \in Slots
      /\ durable.pending \in Slots \cup {NoSlot}
      /\ durable.trials \in 0 .. MaxTrials
      /\ ram.sequence \in SeqNums
  BY StateFields DEF TypeOK
<1>1a. NoMail \in Mails /\ NoMail.kind = "none" /\ DefaultState \in States /\ SlotA \in Slots
  BY ResetValues
<1>2. durable.pending # NoSlot
  OBVIOUS
<1>3. /\ Rollback(durable) \in States
      /\ Rollback(durable).confirmed = durable.confirmed
      /\ Rollback(durable).pending = NoSlot
  BY <1>1, <1>2, OperationsReturnStates, OperationEffects
<1>4. /\ durable' \in {durable, Rollback(durable)}
      /\ ram' = Rollback(durable)
      /\ pc' \in {"primary", "recovery"}
      /\ pc' = "primary" => durable' = Rollback(durable)
  OBVIOUS
<1>5. TypeOK'
  BY <1>1, <1>1a, <1>2, <1>3, <1>4, Parameters, OperationsReturnStates DEF TypeOK, BootSteps, AppSteps, RecoverySteps
<1>6. MailInv'
  BY <1>1, <1>1a, <1>2, <1>3, <1>4, Parameters DEF TypeOK, MailInv, IsPendingTrial, AppSteps
<1>7. LoadInv'
  BY <1>1, <1>1a, <1>2, <1>3, <1>4, Parameters DEF TypeOK, MailInv, LoadInv
<1>8. TrialInv'
  BY <1>1, <1>1a, <1>2, <1>3, <1>4, Parameters DEF TypeOK, LoadInv, TrialInv
<1>9. AppInv'
  BY <1>1, <1>1a, <1>2, <1>3, <1>4, Parameters DEF TypeOK, MailInv, LoadInv, AppInv, TrialRuns, AppSteps
<1>10. SessionInv'
  BY <1>1, <1>1a, <1>2, <1>3, <1>4, Parameters DEF TypeOK, MailInv, SessionInv
<1>11. QED
  BY <1>5, <1>6, <1>7, <1>8, <1>9, <1>10

LEMMA PrepareTrialKeeps == ASSUME RamPersonality, BootInv, PrepareTrial PROVE BootInv'
<1> USE DEF BootInv, PrepareTrial, Store, bootVars, engineVars, boundVars
<1>1. /\ durable \in States /\ ram \in States
      /\ durable.confirmed \in Slots
      /\ durable.pending \in Slots \cup {NoSlot}
      /\ durable.trials \in 0 .. MaxTrials
      /\ ram.sequence \in SeqNums
  BY StateFields DEF TypeOK
<1>1a. NoMail \in Mails /\ NoMail.kind = "none" /\ DefaultState \in States /\ SlotA \in Slots
  BY ResetValues
<1>2. durable.pending # NoSlot
  OBVIOUS
<1>3. /\ RecordTrial(durable) \in States
      /\ RecordTrial(durable).confirmed = durable.confirmed
      /\ RecordTrial(durable).pending = durable.pending
      /\ RecordTrial(durable).trials = durable.trials + 1
  BY <1>1, <1>2, OperationsReturnStates, OperationEffects
<1>4. /\ durable' \in {durable, RecordTrial(durable)}
      /\ ram' = RecordTrial(durable)
      /\ pc' \in {"primary", "recovery"}
      /\ pc' = "primary" => durable' = RecordTrial(durable)
  OBVIOUS
<1>5. TypeOK'
  BY <1>1, <1>1a, <1>2, <1>3, <1>4, Parameters, OperationsReturnStates DEF TypeOK, BootSteps, AppSteps, RecoverySteps
<1>6. MailInv'
  BY <1>1, <1>1a, <1>2, <1>3, <1>4, Parameters DEF TypeOK, MailInv, IsPendingTrial, AppSteps
<1>7. LoadInv'
  BY <1>1, <1>1a, <1>2, <1>3, <1>4, Parameters DEF TypeOK, MailInv, LoadInv
<1>8. TrialInv'
  BY <1>1, <1>1a, <1>2, <1>3, <1>4, Parameters DEF TypeOK, LoadInv, TrialInv
<1>9. AppInv'
  BY <1>1, <1>1a, <1>2, <1>3, <1>4, Parameters DEF TypeOK, MailInv, LoadInv, AppInv, TrialRuns, AppSteps
<1>10. SessionInv'
  BY <1>1, <1>1a, <1>2, <1>3, <1>4, Parameters DEF TypeOK, MailInv, SessionInv
<1>11. QED
  BY <1>5, <1>6, <1>7, <1>8, <1>9, <1>10

LEMMA SlotLoadsKeeps == ASSUME RamPersonality, BootInv, SlotLoads PROVE BootInv'
<1> USE DEF BootInv, SlotLoads, bootVars, engineVars, boundVars
<1>1. /\ durable \in States /\ ram \in States
      /\ durable.confirmed \in Slots
      /\ durable.pending \in Slots \cup {NoSlot}
      /\ durable.trials \in 0 .. MaxTrials
      /\ ram.sequence \in SeqNums
  BY StateFields DEF TypeOK
<1>1a. NoMail \in Mails /\ NoMail.kind = "none" /\ DefaultState \in States /\ SlotA \in Slots
  BY ResetValues
<1>2. TypeOK'
  BY <1>1, <1>1a, Parameters, OperationsReturnStates DEF TypeOK, BootSteps, AppSteps, RecoverySteps
<1>3. MailInv'
  BY <1>1, <1>1a, Parameters DEF TypeOK, MailInv, IsPendingTrial, AppSteps
<1>4. LoadInv'
  BY <1>1, <1>1a, Parameters DEF TypeOK, MailInv, LoadInv
<1>5. TrialInv'
  BY <1>1, <1>1a, Parameters DEF TypeOK, LoadInv, TrialInv
<1>6. AppInv'
  BY <1>1, <1>1a, Parameters DEF TypeOK, MailInv, LoadInv, AppInv, TrialRuns, AppSteps
<1>7. SessionInv'
  BY <1>1, <1>1a, Parameters DEF TypeOK, MailInv, SessionInv
<1>8. QED
  BY <1>2, <1>3, <1>4, <1>5, <1>6, <1>7

LEMMA PrimaryFailsKeeps == ASSUME RamPersonality, BootInv, PrimaryFails PROVE BootInv'
<1> USE DEF BootInv, PrimaryFails, SlotFails, bootVars, engineVars, boundVars
<1>1. /\ durable \in States /\ ram \in States
      /\ durable.confirmed \in Slots
      /\ durable.pending \in Slots \cup {NoSlot}
      /\ durable.trials \in 0 .. MaxTrials
      /\ ram.sequence \in SeqNums
  BY StateFields DEF TypeOK
<1>1a. NoMail \in Mails /\ NoMail.kind = "none" /\ DefaultState \in States /\ SlotA \in Slots
  BY ResetValues
<1>2. OtherSlot(selected) \in Slots
  BY <1>1 DEF OtherSlot, Slots
<1>3. TypeOK'
  BY <1>1, <1>1a, <1>2, Parameters, OperationsReturnStates DEF TypeOK, BootSteps, AppSteps, RecoverySteps
<1>4. MailInv'
  BY <1>1, <1>1a, <1>2, Parameters DEF TypeOK, MailInv, IsPendingTrial, AppSteps
<1>5. LoadInv'
  BY <1>1, <1>1a, <1>2, Parameters DEF TypeOK, MailInv, LoadInv
<1>6. TrialInv'
  BY <1>1, <1>1a, <1>2, Parameters DEF TypeOK, LoadInv, TrialInv
<1>7. AppInv'
  BY <1>1, <1>1a, <1>2, Parameters DEF TypeOK, MailInv, LoadInv, AppInv, TrialRuns, AppSteps
<1>8. SessionInv'
  BY <1>1, <1>1a, <1>2, Parameters DEF TypeOK, MailInv, SessionInv
<1>9. QED
  BY <1>3, <1>4, <1>5, <1>6, <1>7, <1>8

LEMMA RejectPendingKeeps == ASSUME RamPersonality, BootInv, RejectPending PROVE BootInv'
<1> USE DEF BootInv, RejectPending, Store, bootVars, engineVars, boundVars
<1>1. /\ durable \in States /\ ram \in States
      /\ durable.confirmed \in Slots
      /\ durable.pending \in Slots \cup {NoSlot}
      /\ durable.trials \in 0 .. MaxTrials
      /\ ram.sequence \in SeqNums
  BY StateFields DEF TypeOK
<1>1a. NoMail \in Mails /\ NoMail.kind = "none" /\ DefaultState \in States /\ SlotA \in Slots
  BY ResetValues
<1>2. durable.pending # NoSlot
  BY <1>1, Parameters DEF TypeOK, LoadInv
<1>3. /\ Rollback(durable) \in States
      /\ Rollback(durable).confirmed = durable.confirmed
      /\ Rollback(durable).pending = NoSlot
  BY <1>1, <1>2, OperationsReturnStates, OperationEffects
<1>4. /\ durable' \in {durable, Rollback(durable)}
      /\ ram' = Rollback(durable)
      /\ pc' \in {"fallback", "recovery"}
      /\ pc' = "fallback" => durable' = Rollback(durable)
  OBVIOUS
<1>5. TypeOK'
  BY <1>1, <1>1a, <1>2, <1>3, <1>4, Parameters, OperationsReturnStates DEF TypeOK, BootSteps, AppSteps, RecoverySteps
<1>6. MailInv'
  BY <1>1, <1>1a, <1>2, <1>3, <1>4, Parameters DEF TypeOK, MailInv, IsPendingTrial, AppSteps
<1>7. LoadInv'
  BY <1>1, <1>1a, <1>2, <1>3, <1>4, Parameters DEF TypeOK, MailInv, LoadInv
<1>8. TrialInv'
  BY <1>1, <1>1a, <1>2, <1>3, <1>4, Parameters DEF TypeOK, LoadInv, TrialInv
<1>9. AppInv'
  BY <1>1, <1>1a, <1>2, <1>3, <1>4, Parameters DEF TypeOK, MailInv, LoadInv, AppInv, TrialRuns, AppSteps
<1>10. SessionInv'
  BY <1>1, <1>1a, <1>2, <1>3, <1>4, Parameters DEF TypeOK, MailInv, SessionInv
<1>11. QED
  BY <1>5, <1>6, <1>7, <1>8, <1>9, <1>10

LEMMA NoValidSlotKeeps == ASSUME RamPersonality, BootInv, NoValidSlot PROVE BootInv'
<1> USE DEF BootInv, NoValidSlot, SlotFails, bootVars, engineVars, boundVars
<1>1. /\ durable \in States /\ ram \in States
      /\ durable.confirmed \in Slots
      /\ durable.pending \in Slots \cup {NoSlot}
      /\ durable.trials \in 0 .. MaxTrials
      /\ ram.sequence \in SeqNums
  BY StateFields DEF TypeOK
<1>1a. NoMail \in Mails /\ NoMail.kind = "none" /\ DefaultState \in States /\ SlotA \in Slots
  BY ResetValues
<1>2. TypeOK'
  BY <1>1, <1>1a, Parameters, OperationsReturnStates DEF TypeOK, BootSteps, AppSteps, RecoverySteps
<1>3. MailInv'
  BY <1>1, <1>1a, Parameters DEF TypeOK, MailInv, IsPendingTrial, AppSteps
<1>4. LoadInv'
  BY <1>1, <1>1a, Parameters DEF TypeOK, MailInv, LoadInv
<1>5. TrialInv'
  BY <1>1, <1>1a, Parameters DEF TypeOK, LoadInv, TrialInv
<1>6. AppInv'
  BY <1>1, <1>1a, Parameters DEF TypeOK, MailInv, LoadInv, AppInv, TrialRuns, AppSteps
<1>7. SessionInv'
  BY <1>1, <1>1a, Parameters DEF TypeOK, MailInv, SessionInv
<1>8. QED
  BY <1>2, <1>3, <1>4, <1>5, <1>6, <1>7

LEMMA PublishTrialKeeps == ASSUME RamPersonality, BootInv, PublishTrial PROVE BootInv'
<1> USE DEF BootInv, PublishTrial, bootVars, engineVars, boundVars
<1>1. /\ durable \in States /\ ram \in States
      /\ durable.confirmed \in Slots
      /\ durable.pending \in Slots \cup {NoSlot}
      /\ durable.trials \in 0 .. MaxTrials
      /\ ram.sequence \in SeqNums
  BY StateFields DEF TypeOK
<1>1a. NoMail \in Mails /\ NoMail.kind = "none" /\ DefaultState \in States /\ SlotA \in Slots
  BY ResetValues
<1>2. ram = durable /\ durable.pending = selected /\ selected \in Slots /\ durable.sequence \in SeqNums
  BY <1>1, Parameters DEF TypeOK, LoadInv
<1>3. /\ mail' \in Mails /\ mail' # NoMail /\ mail'.kind = "handoff"
      /\ mail'.slot = selected /\ mail'.sequence = durable.sequence
  BY <1>2, TokensAreMails
<1>4. TypeOK'
  BY <1>1, <1>1a, <1>2, <1>3, Parameters, OperationsReturnStates DEF TypeOK, BootSteps, AppSteps, RecoverySteps
<1>5. MailInv'
  BY <1>1, <1>1a, <1>2, <1>3, Parameters DEF TypeOK, MailInv, IsPendingTrial, AppSteps, LoadInv, AppInv, TrialRuns
<1>6. LoadInv'
  BY <1>1, <1>1a, <1>2, <1>3, Parameters DEF TypeOK, MailInv, LoadInv
<1>7. TrialInv'
  BY <1>1, <1>1a, <1>2, <1>3, Parameters DEF TypeOK, LoadInv, TrialInv
<1>8. AppInv'
  BY <1>1, <1>1a, <1>2, <1>3, Parameters DEF TypeOK, MailInv, LoadInv, AppInv, TrialRuns, AppSteps
<1>9. SessionInv'
  BY <1>1, <1>1a, <1>2, <1>3, Parameters DEF TypeOK, MailInv, SessionInv
<1>10. QED
  BY <1>4, <1>5, <1>6, <1>7, <1>8, <1>9

LEMMA StartTrialKeeps == ASSUME RamPersonality, BootInv, StartTrial PROVE BootInv'
<1> USE DEF BootInv, StartTrial, CountJump, bootVars, engineVars, boundVars
<1>1. /\ durable \in States /\ ram \in States
      /\ durable.confirmed \in Slots
      /\ durable.pending \in Slots \cup {NoSlot}
      /\ durable.trials \in 0 .. MaxTrials
      /\ ram.sequence \in SeqNums
  BY StateFields DEF TypeOK
<1>1a. NoMail \in Mails /\ NoMail.kind = "none" /\ DefaultState \in States /\ SlotA \in Slots
  BY ResetValues
<1>2. TypeOK'
  BY <1>1, <1>1a, Parameters, OperationsReturnStates DEF TypeOK, BootSteps, AppSteps, RecoverySteps
<1>3. MailInv'
  BY <1>1, <1>1a, Parameters DEF TypeOK, MailInv, IsPendingTrial, AppSteps, LoadInv, AppInv, TrialRuns
<1>4. LoadInv'
  BY <1>1, <1>1a, Parameters DEF TypeOK, MailInv, LoadInv
<1>5. TrialInv'
  BY <1>1, <1>1a, Parameters DEF TypeOK, LoadInv, TrialInv
<1>6. AppInv'
  BY <1>1, <1>1a, Parameters DEF TypeOK, MailInv, LoadInv, AppInv, TrialRuns, AppSteps
<1>7. SessionInv'
  BY <1>1, <1>1a, Parameters DEF TypeOK, MailInv, SessionInv
<1>8. QED
  BY <1>2, <1>3, <1>4, <1>5, <1>6, <1>7

LEMMA StartConfirmedKeeps == ASSUME RamPersonality, BootInv, StartConfirmed PROVE BootInv'
<1> USE DEF BootInv, StartConfirmed, bootVars, engineVars, boundVars
<1>1. /\ durable \in States /\ ram \in States
      /\ durable.confirmed \in Slots
      /\ durable.pending \in Slots \cup {NoSlot}
      /\ durable.trials \in 0 .. MaxTrials
      /\ ram.sequence \in SeqNums
  BY StateFields DEF TypeOK
<1>1a. NoMail \in Mails /\ NoMail.kind = "none" /\ DefaultState \in States /\ SlotA \in Slots
  BY ResetValues
<1>2. TypeOK'
  BY <1>1, <1>1a, Parameters, OperationsReturnStates DEF TypeOK, BootSteps, AppSteps, RecoverySteps
<1>3. MailInv'
  BY <1>1, <1>1a, Parameters DEF TypeOK, MailInv, IsPendingTrial, AppSteps
<1>4. LoadInv'
  BY <1>1, <1>1a, Parameters DEF TypeOK, MailInv, LoadInv
<1>5. TrialInv'
  BY <1>1, <1>1a, Parameters DEF TypeOK, LoadInv, TrialInv
<1>6. AppInv'
  BY <1>1, <1>1a, Parameters DEF TypeOK, MailInv, LoadInv, AppInv, TrialRuns, AppSteps
<1>7. SessionInv'
  BY <1>1, <1>1a, Parameters DEF TypeOK, MailInv, SessionInv
<1>8. QED
  BY <1>2, <1>3, <1>4, <1>5, <1>6, <1>7

LEMMA AppConfirmsKeeps == ASSUME RamPersonality, BootInv, AppConfirms PROVE BootInv'
<1> USE DEF BootInv, AppConfirms, ArmConfirmation, bootVars, engineVars, boundVars
<1>1. /\ durable \in States /\ ram \in States
      /\ durable.confirmed \in Slots
      /\ durable.pending \in Slots \cup {NoSlot}
      /\ durable.trials \in 0 .. MaxTrials
      /\ ram.sequence \in SeqNums
  BY StateFields DEF TypeOK
<1>1a. NoMail \in Mails /\ NoMail.kind = "none" /\ DefaultState \in States /\ SlotA \in Slots
  BY ResetValues
<1>2. /\ mail.kind = "handoff" => mail' \in Mails /\ mail'.kind = "confirm" /\ mail' # NoMail
                                  /\ mail'.slot = mail.slot /\ mail'.sequence = mail.sequence
      /\ mail.kind # "handoff" => mail' = NoMail
  <2>1. mail \in Mails /\ (mail.kind = "handoff" => mail.slot \in Slots /\ mail.sequence \in SeqNums)
    BY <1>1a DEF TypeOK, MailInv, Mails
  <2>2. QED
    BY <2>1, TokensAreMails
<1>3. image[selected] \in Healthy
  BY DEF AppInv, Healthy
<1>4. mail.kind = "handoff" => mail.slot = selected /\ durable.pending = selected /\ watchdog
  BY <1>1a DEF AppInv, TrialRuns, MailInv, IsPendingTrial, AppSteps
<1>5. mail.kind # "handoff" => durable.pending = NoSlot
  <2>1. mail.kind \in {"none", "handoff", "confirm"}
    BY DEF TypeOK, Mails
  <2>2. QED
    BY <2>1 DEF AppInv, TrialRuns, MailInv, AppSteps
<1>6. TypeOK'
  BY <1>1, <1>1a, <1>2, <1>3, <1>4, <1>5, Parameters, OperationsReturnStates DEF TypeOK, BootSteps, AppSteps, RecoverySteps
<1>7. MailInv'
  BY <1>1, <1>1a, <1>2, <1>3, <1>4, <1>5, Parameters DEF TypeOK, MailInv, IsPendingTrial, AppSteps, AppInv, TrialRuns
<1>8. LoadInv'
  BY <1>1, <1>1a, <1>2, <1>3, <1>4, <1>5, Parameters DEF TypeOK, MailInv, LoadInv
<1>9. TrialInv'
  BY <1>1, <1>1a, <1>2, <1>3, <1>4, <1>5, Parameters DEF TypeOK, LoadInv, TrialInv
<1>10. AppInv'
  BY <1>1, <1>1a, <1>2, <1>3, <1>4, <1>5, Parameters DEF TypeOK, MailInv, LoadInv, AppInv, TrialRuns, AppSteps
<1>11. SessionInv'
  BY <1>1, <1>1a, <1>2, <1>3, <1>4, <1>5, Parameters DEF TypeOK, MailInv, SessionInv
<1>12. QED
  BY <1>6, <1>7, <1>8, <1>9, <1>10, <1>11

LEMMA HardwareArmsRecoveryKeeps == ASSUME RamPersonality, BootInv, HardwareArmsRecovery PROVE BootInv'
<1> USE DEF BootInv, HardwareArmsRecovery, bootVars, engineVars, boundVars
<1>1. /\ durable \in States /\ ram \in States
      /\ durable.confirmed \in Slots
      /\ durable.pending \in Slots \cup {NoSlot}
      /\ durable.trials \in 0 .. MaxTrials
      /\ ram.sequence \in SeqNums
  BY StateFields DEF TypeOK
<1>1a. NoMail \in Mails /\ NoMail.kind = "none" /\ DefaultState \in States /\ SlotA \in Slots
  BY ResetValues
<1>2. TypeOK'
  BY <1>1, <1>1a, Parameters, OperationsReturnStates DEF TypeOK, BootSteps, AppSteps, RecoverySteps
<1>3. MailInv'
  BY <1>1, <1>1a, Parameters DEF TypeOK, MailInv, IsPendingTrial, AppSteps
<1>4. LoadInv'
  BY <1>1, <1>1a, Parameters DEF TypeOK, MailInv, LoadInv
<1>5. TrialInv'
  BY <1>1, <1>1a, Parameters DEF TypeOK, LoadInv, TrialInv
<1>6. AppInv'
  BY <1>1, <1>1a, Parameters DEF TypeOK, MailInv, LoadInv, AppInv, TrialRuns, AppSteps
<1>7. SessionInv'
  BY <1>1, <1>1a, Parameters DEF TypeOK, MailInv, SessionInv
<1>8. QED
  BY <1>2, <1>3, <1>4, <1>5, <1>6, <1>7

LEMMA HardwareStartsWatchdogKeeps == ASSUME RamPersonality, BootInv, HardwareStartsWatchdog PROVE BootInv'
<1> USE DEF BootInv, HardwareStartsWatchdog, bootVars, engineVars, boundVars
<1>1. /\ durable \in States /\ ram \in States
      /\ durable.confirmed \in Slots
      /\ durable.pending \in Slots \cup {NoSlot}
      /\ durable.trials \in 0 .. MaxTrials
      /\ ram.sequence \in SeqNums
  BY StateFields DEF TypeOK
<1>1a. NoMail \in Mails /\ NoMail.kind = "none" /\ DefaultState \in States /\ SlotA \in Slots
  BY ResetValues
<1>2. TypeOK'
  BY <1>1, <1>1a, Parameters, OperationsReturnStates DEF TypeOK, BootSteps, AppSteps, RecoverySteps
<1>3. MailInv'
  BY <1>1, <1>1a, Parameters DEF TypeOK, MailInv, IsPendingTrial, AppSteps
<1>4. LoadInv'
  BY <1>1, <1>1a, Parameters DEF TypeOK, MailInv, LoadInv
<1>5. TrialInv'
  BY <1>1, <1>1a, Parameters DEF TypeOK, LoadInv, TrialInv
<1>6. AppInv'
  BY <1>1, <1>1a, Parameters DEF TypeOK, MailInv, LoadInv, AppInv, TrialRuns, AppSteps
<1>7. SessionInv'
  BY <1>1, <1>1a, Parameters DEF TypeOK, MailInv, SessionInv
<1>8. QED
  BY <1>2, <1>3, <1>4, <1>5, <1>6, <1>7

LEMMA HardwareConfirmsKeeps == ASSUME RamPersonality, BootInv, HardwareConfirms PROVE BootInv'
<1> USE DEF BootInv, HardwareConfirms, ArmConfirmation, bootVars, engineVars, boundVars
<1>1. /\ durable \in States /\ ram \in States
      /\ durable.confirmed \in Slots
      /\ durable.pending \in Slots \cup {NoSlot}
      /\ durable.trials \in 0 .. MaxTrials
      /\ ram.sequence \in SeqNums
  BY StateFields DEF TypeOK
<1>1a. NoMail \in Mails /\ NoMail.kind = "none" /\ DefaultState \in States /\ SlotA \in Slots
  BY ResetValues
<1>2. /\ mail.kind = "handoff" => mail' \in Mails /\ mail'.kind = "confirm" /\ mail' # NoMail
                                  /\ mail'.slot = mail.slot /\ mail'.sequence = mail.sequence
      /\ mail.kind # "handoff" => mail' = NoMail
  <2>1. mail \in Mails /\ (mail.kind = "handoff" => mail.slot \in Slots /\ mail.sequence \in SeqNums)
    BY <1>1a DEF TypeOK, MailInv, Mails
  <2>2. QED
    BY <2>1, TokensAreMails
<1>3. image[selected] \in Healthy
  BY DEF AppInv, Healthy
<1>4. mail.kind = "handoff" => mail.slot = selected /\ durable.pending = selected /\ watchdog
  BY <1>1a DEF AppInv, TrialRuns, MailInv, IsPendingTrial, AppSteps
<1>5. mail.kind # "handoff" => durable.pending = NoSlot
  <2>1. mail.kind \in {"none", "handoff", "confirm"}
    BY DEF TypeOK, Mails
  <2>2. QED
    BY <2>1 DEF AppInv, TrialRuns, MailInv, AppSteps
<1>6. TypeOK'
  BY <1>1, <1>1a, <1>2, <1>3, <1>4, <1>5, Parameters, OperationsReturnStates DEF TypeOK, BootSteps, AppSteps, RecoverySteps
<1>7. MailInv'
  BY <1>1, <1>1a, <1>2, <1>3, <1>4, <1>5, Parameters DEF TypeOK, MailInv, IsPendingTrial, AppSteps, AppInv, TrialRuns
<1>8. LoadInv'
  BY <1>1, <1>1a, <1>2, <1>3, <1>4, <1>5, Parameters DEF TypeOK, MailInv, LoadInv
<1>9. TrialInv'
  BY <1>1, <1>1a, <1>2, <1>3, <1>4, <1>5, Parameters DEF TypeOK, LoadInv, TrialInv
<1>10. AppInv'
  BY <1>1, <1>1a, <1>2, <1>3, <1>4, <1>5, Parameters DEF TypeOK, MailInv, LoadInv, AppInv, TrialRuns, AppSteps
<1>11. SessionInv'
  BY <1>1, <1>1a, <1>2, <1>3, <1>4, <1>5, Parameters DEF TypeOK, MailInv, SessionInv
<1>12. QED
  BY <1>6, <1>7, <1>8, <1>9, <1>10, <1>11

LEMMA HardwareClearsRecoveryKeeps == ASSUME RamPersonality, BootInv, HardwareClearsRecovery PROVE BootInv'
<1> USE DEF BootInv, HardwareClearsRecovery, bootVars, engineVars, boundVars
<1>1. /\ durable \in States /\ ram \in States
      /\ durable.confirmed \in Slots
      /\ durable.pending \in Slots \cup {NoSlot}
      /\ durable.trials \in 0 .. MaxTrials
      /\ ram.sequence \in SeqNums
  BY StateFields DEF TypeOK
<1>1a. NoMail \in Mails /\ NoMail.kind = "none" /\ DefaultState \in States /\ SlotA \in Slots
  BY ResetValues
<1>2. TypeOK'
  BY <1>1, <1>1a, Parameters, OperationsReturnStates DEF TypeOK, BootSteps, AppSteps, RecoverySteps
<1>3. MailInv'
  BY <1>1, <1>1a, Parameters DEF TypeOK, MailInv, IsPendingTrial, AppSteps
<1>4. LoadInv'
  BY <1>1, <1>1a, Parameters DEF TypeOK, MailInv, LoadInv
<1>5. TrialInv'
  BY <1>1, <1>1a, Parameters DEF TypeOK, LoadInv, TrialInv
<1>6. AppInv'
  BY <1>1, <1>1a, Parameters DEF TypeOK, MailInv, LoadInv, AppInv, TrialRuns, AppSteps
<1>7. SessionInv'
  BY <1>1, <1>1a, Parameters DEF TypeOK, MailInv, SessionInv
<1>8. QED
  BY <1>2, <1>3, <1>4, <1>5, <1>6, <1>7

LEMMA LeaveForBootloaderKeeps == ASSUME RamPersonality, BootInv, LeaveForBootloader PROVE BootInv'
<1> USE DEF BootInv, LeaveForBootloader, WarmReset, RamLost, bootVars, engineVars, boundVars
<1>1. /\ durable \in States /\ ram \in States
      /\ durable.confirmed \in Slots
      /\ durable.pending \in Slots \cup {NoSlot}
      /\ durable.trials \in 0 .. MaxTrials
      /\ ram.sequence \in SeqNums
  BY StateFields DEF TypeOK
<1>1a. NoMail \in Mails /\ NoMail.kind = "none" /\ DefaultState \in States /\ SlotA \in Slots
  BY ResetValues
<1>2. TypeOK'
  BY <1>1, <1>1a, Parameters, OperationsReturnStates DEF TypeOK, BootSteps, AppSteps, RecoverySteps
<1>3. MailInv'
  BY <1>1, <1>1a, Parameters DEF TypeOK, MailInv, IsPendingTrial, AppSteps
<1>4. LoadInv'
  BY <1>1, <1>1a, Parameters DEF TypeOK, MailInv, LoadInv
<1>5. TrialInv'
  BY <1>1, <1>1a, Parameters DEF TypeOK, LoadInv, TrialInv
<1>6. AppInv'
  BY <1>1, <1>1a, Parameters DEF TypeOK, MailInv, LoadInv, AppInv, TrialRuns, AppSteps
<1>7. SessionInv'
  BY <1>1, <1>1a, Parameters DEF TypeOK, MailInv, SessionInv
<1>8. QED
  BY <1>2, <1>3, <1>4, <1>5, <1>6, <1>7

LEMMA ReturnToRecoveryKeeps == ASSUME RamPersonality, BootInv, ReturnToRecovery PROVE BootInv'
<1> USE DEF BootInv, ReturnToRecovery, bootVars, engineVars, boundVars
<1>1. /\ durable \in States /\ ram \in States
      /\ durable.confirmed \in Slots
      /\ durable.pending \in Slots \cup {NoSlot}
      /\ durable.trials \in 0 .. MaxTrials
      /\ ram.sequence \in SeqNums
  BY StateFields DEF TypeOK
<1>1a. NoMail \in Mails /\ NoMail.kind = "none" /\ DefaultState \in States /\ SlotA \in Slots
  BY ResetValues
<1>2. TypeOK'
  BY <1>1, <1>1a, Parameters, OperationsReturnStates DEF TypeOK, BootSteps, AppSteps, RecoverySteps
<1>3. MailInv'
  BY <1>1, <1>1a, Parameters DEF TypeOK, MailInv, IsPendingTrial, AppSteps
<1>4. LoadInv'
  BY <1>1, <1>1a, Parameters DEF TypeOK, MailInv, LoadInv
<1>5. TrialInv'
  BY <1>1, <1>1a, Parameters DEF TypeOK, LoadInv, TrialInv
<1>6. AppInv'
  BY <1>1, <1>1a, Parameters DEF TypeOK, MailInv, LoadInv, AppInv, TrialRuns, AppSteps
<1>7. SessionInv'
  BY <1>1, <1>1a, Parameters DEF TypeOK, MailInv, SessionInv
<1>8. QED
  BY <1>2, <1>3, <1>4, <1>5, <1>6, <1>7

LEMMA WatchdogResetKeeps == ASSUME RamPersonality, BootInv, WatchdogReset PROVE BootInv'
<1> USE DEF BootInv, WatchdogReset, WarmReset, RamLost, bootVars, engineVars, boundVars
<1>1. /\ durable \in States /\ ram \in States
      /\ durable.confirmed \in Slots
      /\ durable.pending \in Slots \cup {NoSlot}
      /\ durable.trials \in 0 .. MaxTrials
      /\ ram.sequence \in SeqNums
  BY StateFields DEF TypeOK
<1>1a. NoMail \in Mails /\ NoMail.kind = "none" /\ DefaultState \in States /\ SlotA \in Slots
  BY ResetValues
<1>2. TypeOK'
  BY <1>1, <1>1a, Parameters, OperationsReturnStates DEF TypeOK, BootSteps, AppSteps, RecoverySteps
<1>3. MailInv'
  BY <1>1, <1>1a, Parameters DEF TypeOK, MailInv, IsPendingTrial, AppSteps, LoadInv, AppInv, TrialRuns
<1>4. LoadInv'
  BY <1>1, <1>1a, Parameters DEF TypeOK, MailInv, LoadInv
<1>5. TrialInv'
  BY <1>1, <1>1a, Parameters DEF TypeOK, LoadInv, TrialInv
<1>6. AppInv'
  BY <1>1, <1>1a, Parameters DEF TypeOK, MailInv, LoadInv, AppInv, TrialRuns, AppSteps
<1>7. SessionInv'
  BY <1>1, <1>1a, Parameters DEF TypeOK, MailInv, SessionInv
<1>8. QED
  BY <1>2, <1>3, <1>4, <1>5, <1>6, <1>7

LEMMA EnterRecoveryKeeps == ASSUME RamPersonality, BootInv, EnterRecovery PROVE BootInv'
<1> USE DEF BootInv, EnterRecovery, bootVars, engineVars, boundVars
<1>1. /\ durable \in States /\ ram \in States
      /\ durable.confirmed \in Slots
      /\ durable.pending \in Slots \cup {NoSlot}
      /\ durable.trials \in 0 .. MaxTrials
      /\ ram.sequence \in SeqNums
  BY StateFields DEF TypeOK
<1>1a. NoMail \in Mails /\ NoMail.kind = "none" /\ DefaultState \in States /\ SlotA \in Slots
  BY ResetValues
<1>2. SelectedSlot(durable) \in Slots
  BY <1>1, OperationsReturnStates
<1>3. TypeOK'
  BY <1>1, <1>1a, <1>2, Parameters, OperationsReturnStates DEF TypeOK, BootSteps, AppSteps, RecoverySteps
<1>4. MailInv'
  BY <1>1, <1>1a, <1>2, Parameters DEF TypeOK, MailInv, IsPendingTrial, AppSteps
<1>5. LoadInv'
  BY <1>1, <1>1a, <1>2, Parameters DEF TypeOK, MailInv, LoadInv
<1>6. TrialInv'
  BY <1>1, <1>1a, <1>2, Parameters DEF TypeOK, LoadInv, TrialInv
<1>7. AppInv'
  BY <1>1, <1>1a, <1>2, Parameters DEF TypeOK, MailInv, LoadInv, AppInv, TrialRuns, AppSteps
<1>8. SessionInv'
  BY <1>1, <1>1a, <1>2, Parameters DEF TypeOK, MailInv, SessionInv
<1>9. QED
  BY <1>3, <1>4, <1>5, <1>6, <1>7, <1>8

LEMMA BeginImageKeeps ==
    ASSUME NEW s \in Slots, RamPersonality, BootInv, BeginImage(s)
    PROVE  BootInv'
<1> USE DEF BootInv, BeginImage, MayBegin, bootVars, engineVars, boundVars
<1>1. /\ durable \in States /\ ram \in States
      /\ durable.confirmed \in Slots
      /\ durable.pending \in Slots \cup {NoSlot}
      /\ durable.trials \in 0 .. MaxTrials
      /\ ram.sequence \in SeqNums
  BY StateFields DEF TypeOK
<1>1a. NoMail \in Mails /\ NoMail.kind = "none" /\ DefaultState \in States /\ SlotA \in Slots
  BY ResetValues
<1>2. TypeOK'
  BY <1>1, <1>1a, Parameters, OperationsReturnStates DEF TypeOK, BootSteps, AppSteps, RecoverySteps
<1>3. MailInv'
  BY <1>1, <1>1a, Parameters DEF TypeOK, MailInv, IsPendingTrial, AppSteps
<1>4. LoadInv'
  BY <1>1, <1>1a, Parameters DEF TypeOK, MailInv, LoadInv
<1>5. TrialInv'
  BY <1>1, <1>1a, Parameters DEF TypeOK, LoadInv, TrialInv
<1>6. AppInv'
  BY <1>1, <1>1a, Parameters DEF TypeOK, MailInv, LoadInv, AppInv, TrialRuns, AppSteps
<1>7. SessionInv'
  BY <1>1, <1>1a, Parameters DEF TypeOK, MailInv, SessionInv
<1>8. QED
  BY <1>2, <1>3, <1>4, <1>5, <1>6, <1>7

LEMMA EraseSlotKeeps == ASSUME RamPersonality, BootInv, EraseSlot PROVE BootInv'
<1> USE DEF BootInv, EraseSlot, bootVars, engineVars, boundVars
<1>1. /\ durable \in States /\ ram \in States
      /\ durable.confirmed \in Slots
      /\ durable.pending \in Slots \cup {NoSlot}
      /\ durable.trials \in 0 .. MaxTrials
      /\ ram.sequence \in SeqNums
  BY StateFields DEF TypeOK
<1>1a. NoMail \in Mails /\ NoMail.kind = "none" /\ DefaultState \in States /\ SlotA \in Slots
  BY ResetValues
<1>2. session \in Slots /\ session # durable.confirmed
  BY <1>1 DEF TypeOK, SessionInv
<1>3. image' \in [Slots -> Images] /\ image'[durable.confirmed] = image[durable.confirmed]
  BY <1>1, <1>2 DEF TypeOK, Images
<1>4. TypeOK'
  BY <1>1, <1>1a, <1>2, <1>3, Parameters, OperationsReturnStates DEF TypeOK, BootSteps, AppSteps, RecoverySteps
<1>5. MailInv'
  BY <1>1, <1>1a, <1>2, <1>3, Parameters DEF TypeOK, MailInv, IsPendingTrial, AppSteps
<1>6. LoadInv'
  BY <1>1, <1>1a, <1>2, <1>3, Parameters DEF TypeOK, MailInv, LoadInv
<1>7. TrialInv'
  BY <1>1, <1>1a, <1>2, <1>3, Parameters DEF TypeOK, LoadInv, TrialInv
<1>8. AppInv'
  BY <1>1, <1>1a, <1>2, <1>3, Parameters DEF TypeOK, MailInv, LoadInv, AppInv, TrialRuns, AppSteps
<1>9. SessionInv'
  BY <1>1, <1>1a, <1>2, <1>3, Parameters DEF TypeOK, MailInv, SessionInv
<1>10. QED
  BY <1>4, <1>5, <1>6, <1>7, <1>8, <1>9

LEMMA WriteImageKeeps ==
    ASSUME NEW i \in Images, RamPersonality, BootInv, WriteImage(i)
    PROVE  BootInv'
<1> USE DEF BootInv, WriteImage, bootVars, engineVars, boundVars
<1>1. /\ durable \in States /\ ram \in States
      /\ durable.confirmed \in Slots
      /\ durable.pending \in Slots \cup {NoSlot}
      /\ durable.trials \in 0 .. MaxTrials
      /\ ram.sequence \in SeqNums
  BY StateFields DEF TypeOK
<1>1a. NoMail \in Mails /\ NoMail.kind = "none" /\ DefaultState \in States /\ SlotA \in Slots
  BY ResetValues
<1>2. session \in Slots /\ session # durable.confirmed
  BY <1>1 DEF TypeOK, SessionInv
<1>3. image' \in [Slots -> Images] /\ image'[durable.confirmed] = image[durable.confirmed]
  BY <1>1, <1>2 DEF TypeOK, Images
<1>4. TypeOK'
  BY <1>1, <1>1a, <1>2, <1>3, Parameters, OperationsReturnStates DEF TypeOK, BootSteps, AppSteps, RecoverySteps
<1>5. MailInv'
  BY <1>1, <1>1a, <1>2, <1>3, Parameters DEF TypeOK, MailInv, IsPendingTrial, AppSteps
<1>6. LoadInv'
  BY <1>1, <1>1a, <1>2, <1>3, Parameters DEF TypeOK, MailInv, LoadInv
<1>7. TrialInv'
  BY <1>1, <1>1a, <1>2, <1>3, Parameters DEF TypeOK, LoadInv, TrialInv
<1>8. AppInv'
  BY <1>1, <1>1a, <1>2, <1>3, Parameters DEF TypeOK, MailInv, LoadInv, AppInv, TrialRuns, AppSteps
<1>9. SessionInv'
  BY <1>1, <1>1a, <1>2, <1>3, Parameters DEF TypeOK, MailInv, SessionInv
<1>10. QED
  BY <1>4, <1>5, <1>6, <1>7, <1>8, <1>9

LEMMA FinalizeImageKeeps == ASSUME RamPersonality, BootInv, FinalizeImage PROVE BootInv'
<1> USE DEF BootInv, FinalizeImage, bootVars, engineVars, boundVars
<1>1. /\ durable \in States /\ ram \in States
      /\ durable.confirmed \in Slots
      /\ durable.pending \in Slots \cup {NoSlot}
      /\ durable.trials \in 0 .. MaxTrials
      /\ ram.sequence \in SeqNums
  BY StateFields DEF TypeOK
<1>1a. NoMail \in Mails /\ NoMail.kind = "none" /\ DefaultState \in States /\ SlotA \in Slots
  BY ResetValues
<1>2. session \in Slots /\ session # durable.confirmed
  BY <1>1 DEF TypeOK, SessionInv
<1>3. image' \in [Slots -> Images] /\ image'[durable.confirmed] = image[durable.confirmed]
  BY <1>1, <1>2 DEF TypeOK, Images
<1>4. TypeOK'
  BY <1>1, <1>1a, <1>2, <1>3, Parameters, OperationsReturnStates DEF TypeOK, BootSteps, AppSteps, RecoverySteps
<1>5. MailInv'
  BY <1>1, <1>1a, <1>2, <1>3, Parameters DEF TypeOK, MailInv, IsPendingTrial, AppSteps
<1>6. LoadInv'
  BY <1>1, <1>1a, <1>2, <1>3, Parameters DEF TypeOK, MailInv, LoadInv
<1>7. TrialInv'
  BY <1>1, <1>1a, <1>2, <1>3, Parameters DEF TypeOK, LoadInv, TrialInv
<1>8. AppInv'
  BY <1>1, <1>1a, <1>2, <1>3, Parameters DEF TypeOK, MailInv, LoadInv, AppInv, TrialRuns, AppSteps
<1>9. SessionInv'
  BY <1>1, <1>1a, <1>2, <1>3, Parameters DEF TypeOK, MailInv, SessionInv
<1>10. QED
  BY <1>4, <1>5, <1>6, <1>7, <1>8, <1>9

LEMMA SetPendingKeeps == ASSUME RamPersonality, BootInv, SetPending PROVE BootInv'
<1> USE DEF BootInv, SetPending, JournalTakes, bootVars, engineVars, boundVars
<1>1. /\ durable \in States /\ ram \in States
      /\ durable.confirmed \in Slots
      /\ durable.pending \in Slots \cup {NoSlot}
      /\ durable.trials \in 0 .. MaxTrials
      /\ ram.sequence \in SeqNums
  BY StateFields DEF TypeOK
<1>1a. NoMail \in Mails /\ NoMail.kind = "none" /\ DefaultState \in States /\ SlotA \in Slots
  BY ResetValues
<1>2. ram.confirmed = durable.confirmed /\ session \in Slots /\ session # ram.confirmed
  BY <1>1, Parameters DEF TypeOK, SessionInv
<1>3. /\ BeginUpdate(ram, session) \in States
      /\ BeginUpdate(ram, session).confirmed = durable.confirmed
      /\ BeginUpdate(ram, session).pending = session
      /\ BeginUpdate(ram, session).trials = 0
  BY <1>1, <1>2, OperationsReturnStates, BeginUpdateEffect
<1>4. /\ durable' \in {durable, BeginUpdate(ram, session)}
      /\ ram' \in {ram, BeginUpdate(ram, session)}
      /\ phase' \in {phase, "pending"}
      /\ durable' # durable => jumps' = 0
      /\ durable' = durable => jumps' = jumps
  OBVIOUS
<1>5. TypeOK'
  BY <1>1, <1>1a, <1>2, <1>3, <1>4, Parameters, BootControllerAssumption, OperationsReturnStates DEF TypeOK, BootSteps, AppSteps, RecoverySteps
<1>6. MailInv'
  BY <1>1, <1>1a, <1>2, <1>3, <1>4, Parameters DEF TypeOK, MailInv, IsPendingTrial, AppSteps
<1>7. LoadInv'
  BY <1>1, <1>1a, <1>2, <1>3, <1>4, Parameters DEF TypeOK, MailInv, LoadInv
<1>8. TrialInv'
  BY <1>1, <1>1a, <1>2, <1>3, <1>4, Parameters DEF TypeOK, LoadInv, TrialInv
<1>9. AppInv'
  BY <1>1, <1>1a, <1>2, <1>3, <1>4, Parameters DEF TypeOK, MailInv, LoadInv, AppInv, TrialRuns, AppSteps
<1>10. SessionInv'
  BY <1>1, <1>1a, <1>2, <1>3, <1>4, Parameters DEF TypeOK, MailInv, SessionInv
<1>11. QED
  BY <1>5, <1>6, <1>7, <1>8, <1>9, <1>10

LEMMA RebootKeeps == ASSUME RamPersonality, BootInv, Reboot PROVE BootInv'
<1> USE DEF BootInv, Reboot, WarmReset, RamLost, bootVars, engineVars, boundVars
<1>1. /\ durable \in States /\ ram \in States
      /\ durable.confirmed \in Slots
      /\ durable.pending \in Slots \cup {NoSlot}
      /\ durable.trials \in 0 .. MaxTrials
      /\ ram.sequence \in SeqNums
  BY StateFields DEF TypeOK
<1>1a. NoMail \in Mails /\ NoMail.kind = "none" /\ DefaultState \in States /\ SlotA \in Slots
  BY ResetValues
<1>2. TypeOK'
  BY <1>1, <1>1a, Parameters, OperationsReturnStates DEF TypeOK, BootSteps, AppSteps, RecoverySteps
<1>3. MailInv'
  BY <1>1, <1>1a, Parameters DEF TypeOK, MailInv, IsPendingTrial, AppSteps
<1>4. LoadInv'
  BY <1>1, <1>1a, Parameters DEF TypeOK, MailInv, LoadInv
<1>5. TrialInv'
  BY <1>1, <1>1a, Parameters DEF TypeOK, LoadInv, TrialInv
<1>6. AppInv'
  BY <1>1, <1>1a, Parameters DEF TypeOK, MailInv, LoadInv, AppInv, TrialRuns, AppSteps
<1>7. SessionInv'
  BY <1>1, <1>1a, Parameters DEF TypeOK, MailInv, SessionInv
<1>8. QED
  BY <1>2, <1>3, <1>4, <1>5, <1>6, <1>7

LEMMA PowerCycleKeeps == ASSUME RamPersonality, BootInv, PowerCycle PROVE BootInv'
<1> USE DEF BootInv, PowerCycle, RamLost, bootVars, engineVars, boundVars
<1>1. /\ durable \in States /\ ram \in States
      /\ durable.confirmed \in Slots
      /\ durable.pending \in Slots \cup {NoSlot}
      /\ durable.trials \in 0 .. MaxTrials
      /\ ram.sequence \in SeqNums
  BY StateFields DEF TypeOK
<1>1a. NoMail \in Mails /\ NoMail.kind = "none" /\ DefaultState \in States /\ SlotA \in Slots
  BY ResetValues
<1>2. cuts' \in 0 .. MaxCuts /\ updates' \in 0 .. MaxUpdates
  BY BootControllerAssumption DEF TypeOK
<1>3. TypeOK'
  BY <1>1, <1>1a, <1>2, Parameters, OperationsReturnStates DEF TypeOK, BootSteps, AppSteps, RecoverySteps
<1>4. MailInv'
  BY <1>1, <1>1a, <1>2, Parameters DEF TypeOK, MailInv, IsPendingTrial, AppSteps
<1>5. LoadInv'
  BY <1>1, <1>1a, <1>2, Parameters DEF TypeOK, MailInv, LoadInv
<1>6. TrialInv'
  BY <1>1, <1>1a, <1>2, Parameters DEF TypeOK, LoadInv, TrialInv
<1>7. AppInv'
  BY <1>1, <1>1a, <1>2, Parameters DEF TypeOK, MailInv, LoadInv, AppInv, TrialRuns, AppSteps
<1>8. SessionInv'
  BY <1>1, <1>1a, <1>2, Parameters DEF TypeOK, MailInv, SessionInv
<1>9. QED
  BY <1>3, <1>4, <1>5, <1>6, <1>7, <1>8

-----------------------------------------------------------------------------

LEMMA NextKeeps == ASSUME RamPersonality, BootInv, [Next]_vars PROVE BootInv'
<1>1. CASE BootStep
  BY <1>1, ConsumeConfirmationKeeps, ForcedRecoveryKeeps, NoRecoveryRequestKeeps, LoadFailsKeeps, ConfirmKeeps, PrepareConfirmedKeeps, PrepareRollbackKeeps, PrepareTrialKeeps,
     SlotLoadsKeeps, PrimaryFailsKeeps, RejectPendingKeeps, NoValidSlotKeeps, PublishTrialKeeps, StartTrialKeeps, StartConfirmedKeeps DEF BootStep
<1>2. CASE AppStep
  BY <1>2, AppConfirmsKeeps, HardwareArmsRecoveryKeeps, HardwareStartsWatchdogKeeps, HardwareConfirmsKeeps, HardwareClearsRecoveryKeeps, LeaveForBootloaderKeeps DEF AppStep
<1>3. CASE RecoveryStep
  BY <1>3, EnterRecoveryKeeps, BeginImageKeeps, EraseSlotKeeps, WriteImageKeeps, FinalizeImageKeeps, SetPendingKeeps, RebootKeeps DEF RecoveryStep
<1>4. CASE WatchdogReset \/ ReturnToRecovery \/ PowerCycle
  BY <1>4, WatchdogResetKeeps, ReturnToRecoveryKeeps, PowerCycleKeeps
<1>5. CASE UNCHANGED vars
  BY <1>5 DEF vars, BootInv, TypeOK, MailInv, LoadInv, TrialInv, AppInv, SessionInv, TrialRuns, IsPendingTrial
<1>6. QED
  BY <1>1, <1>2, <1>3, <1>4, <1>5 DEF Next

\* BootInv holds in every state that the policy, the applications and a RAM
\* recovery session can reach, whatever fails.
THEOREM BootInvariant == RamPersonality /\ Spec => []BootInv
<1> SUFFICES ASSUME RamPersonality PROVE Spec => []BootInv
  OBVIOUS
<1>1. Init => BootInv
  BY InitHolds
<1>2. BootInv /\ [Next]_vars => BootInv'
  BY NextKeeps
<1>3. QED
  BY <1>1, <1>2, PTL DEF Spec

\* The retained token always names the trial that is the newest journal
\* record: no stale or replayed confirmation is ever taken.
THEOREM TokensAreFresh == RamPersonality /\ Spec => []MailNamesDurableTrial
<1>1. BootInv => MailNamesDurableTrial
  BY DEF BootInv, MailInv, MailNamesDurableTrial
<1>2. QED
  BY <1>1, BootInvariant, PTL

\* No pending image is started more often than the journal records.
THEOREM TrialBudgetHolds == RamPersonality /\ Spec => []TrialsAreBudgeted
<1>1. BootInv => TrialsAreBudgeted
  BY DEF BootInv, TrialInv, TrialsAreBudgeted
<1>2. QED
  BY <1>1, BootInvariant, PTL

\* A trial runs only under the watchdog and with the token to confirm.
THEOREM TrialsAreGuarded == RamPersonality /\ Spec => []TrialIsGuarded
<1>1. BootInv => TrialIsGuarded
  BY DEF BootInv, AppInv, TrialRuns, TrialIsGuarded
<1>2. QED
  BY <1>1, BootInvariant, PTL

\* The confirmed slot always holds an image that proved its health.
THEOREM RollbackTargetWorks == RamPersonality /\ Spec => []ConfirmedImageWorks
<1>1. BootInv => ConfirmedImageWorks
  BY DEF BootInv, SessionInv, ConfirmedImageWorks
<1>2. QED
  BY <1>1, BootInvariant, PTL

\* A RAM recovery session never has the confirmed slot as its target.
THEOREM ConfirmedSlotProtected == RamPersonality /\ Spec => []TargetIsNotConfirmed
<1>1. BootInv => TargetIsNotConfirmed
  BY DEF BootInv, SessionInv, TargetIsNotConfirmed
<1>2. QED
  BY <1>1, BootInvariant, PTL
=============================================================================
