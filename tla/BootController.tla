---------------------------- MODULE BootController ----------------------------
(***************************************************************************)
(* The A/B boot policy: boot_controller_run with boot_lifecycle.c and      *)
(* boot_handoff.c, the applications it hands over to, and the recovery     *)
(* session that replaces an image and makes it pending.                    *)
(*                                                                         *)
(* The journal is the atomic register that BootJournal implements: a store *)
(* that reports an error may still have become durable.  The retained      *)
(* mailboxes hold whole tokens, which WarmResetMailboxes justifies word by *)
(* word.  Power can fail before every step; a watchdog reset keeps the     *)
(* mailboxes and a power cycle clears them.                                *)
(***************************************************************************)
EXTENDS BootState

CONSTANTS RamPersonality, \* recovery runs from RAM and loads the journal anew
          Faults,         \* whether flash reads, stores and SDRAM copies can fail
          MaxCuts,        \* bound on power cycles
          MaxUpdates      \* bound on SET_PENDING requests

ASSUME BootControllerAssumption ==
    /\ RamPersonality \in BOOLEAN
    /\ Faults \subseteq BOOLEAN
    /\ MaxCuts \in Nat
    /\ MaxUpdates \in Nat

\* What a slot holds: the diagnostic app of app/, the pedal firmware of
\* hardware_app/, an image that loads but never reports its health, or
\* bytes that do not validate.
Images == {"app", "hardware", "faulty", "invalid"}
Healthy == {"app", "hardware"}

Mails == [kind : {"none", "handoff", "confirm"},
          slot : Slots \cup {NoSlot}, sequence : SeqNums]
NoMail == [kind |-> "none", slot |-> NoSlot, sequence |-> 0]
Token(kind, s, n) == [kind |-> kind, slot |-> s, sequence |-> n]

VARIABLES durable,   \* what the journal holds
          image,     \* what each slot holds
          ram,       \* result->state, later the engine's boot_state
          mail,      \* trial mailbox, SRC_GPR3..6
          request,   \* recovery mailbox, SRC_GPR8..9: a whole token is there
          watchdog,  \* WDOG1 is running
          pc,        \* where the processor is
          token,     \* the confirmation that this boot consumed, or NoMail
          selected,  \* slot being loaded or running
          active,    \* engine->active_slot
          session,   \* engine->target_slot while a session is open
          phase,     \* engine->phase
          jumps,     \* jumps to the pending slot since it became pending (history)
          faulty,    \* on this pedal they can fail; never changes
          cuts, updates

bootVars == <<ram, token, selected>>
engineVars == <<active, session, phase>>
boundVars == <<faulty, cuts, updates>>
vars == <<durable, image, ram, mail, request, watchdog, pc, token, selected,
          active, session, phase, jumps, faulty, cuts, updates>>

BootSteps == {"reset", "requested", "confirm", "prepare", "primary", "reject",
              "fallback", "handoff", "watchdog"}
AppSteps == {"app", "guarded", "checking", "clearing", "leaving", "running"}
RecoverySteps == {"recovery", "session"}

TypeOK ==
    /\ durable \in States
    /\ image \in [Slots -> Images]
    /\ ram \in States
    /\ mail \in Mails
    /\ request \in BOOLEAN
    /\ watchdog \in BOOLEAN
    /\ pc \in BootSteps \cup AppSteps \cup RecoverySteps \cup {"stopped"}
    /\ token \in Mails
    /\ selected \in Slots
    /\ active \in Slots
    /\ session \in Slots \cup {NoSlot}
    /\ phase \in {"idle", "begun", "erased", "written", "finalized", "pending"}
    /\ jumps \in Nat
    /\ faulty \in BOOLEAN
    /\ cuts \in 0 .. MaxCuts
    /\ updates \in 0 .. MaxUpdates

\* A pedal as it is delivered: a working image in the confirmed slot.
Init ==
    /\ durable = DefaultState
    /\ image \in {[s \in Slots |-> IF s = SlotA THEN i ELSE "invalid"] : i \in Healthy}
    /\ ram = DefaultState
    /\ mail = NoMail
    /\ request = FALSE
    /\ watchdog = FALSE
    /\ pc = "reset"
    /\ token = NoMail
    /\ selected = SlotA
    /\ active = SlotA
    /\ session = NoSlot
    /\ phase = "idle"
    /\ jumps = 0
    /\ faulty \in Faults
    /\ cuts = 0
    /\ updates = 0

-----------------------------------------------------------------------------

\* boot_journal_store as the callers see it: next is the step after a success.
Store(s, next) ==
    /\ ram' = s
    /\ \/ durable' = s /\ pc' = next
       \/ faulty /\ durable' \in {durable, s} /\ pc' = "recovery"

\* Everything in RAM starts anew; the retained mailboxes stay.
RamLost ==
    /\ pc' = "reset"
    /\ ram' = DefaultState
    /\ token' = NoMail
    /\ selected' = SlotA
    /\ active' = SlotA
    /\ session' = NoSlot
    /\ phase' = "idle"
    /\ watchdog' = FALSE

WarmReset ==
    /\ RamLost
    /\ UNCHANGED <<durable, image, jumps, boundVars>>

-----------------------------------------------------------------------------
(* boot_controller_run.                                                    *)

\* Faulty variant: takes a handoff for a confirmation.
ConsumeAnyToken ==
    /\ pc = "reset"
    /\ token' = mail
    /\ mail' = NoMail
    /\ pc' = "requested"
    /\ UNCHANGED <<durable, image, ram, request, watchdog, selected, engineVars, jumps, boundVars>>

ConsumeConfirmation ==
    /\ pc = "reset"
    /\ token' = IF mail.kind = "confirm" THEN mail ELSE NoMail
    /\ mail' = NoMail
    /\ pc' = "requested"
    /\ UNCHANGED <<durable, image, ram, request, watchdog, selected, engineVars, jumps, boundVars>>

\* A software request, or a footswitch that may be held at any boot: the
\* state is loaded for status only, and a failing load leaves the default.
ForcedRecovery ==
    /\ pc = "requested"
    /\ \/ ram' = durable
       \/ faulty /\ ram' = DefaultState
    /\ request' = FALSE
    /\ pc' = "recovery"
    /\ UNCHANGED <<durable, image, mail, watchdog, token, selected, engineVars, jumps, boundVars>>

NoRecoveryRequest ==
    /\ pc = "requested"
    /\ ~request
    /\ pc' = IF token # NoMail THEN "confirm" ELSE "prepare"
    /\ UNCHANGED <<durable, image, bootVars, mail, request, watchdog, engineVars, jumps, boundVars>>

\* A load of the journal fails: recovery with the state there was.
LoadFails ==
    /\ pc \in {"confirm", "prepare", "reject"}
    /\ faulty
    /\ pc' = "recovery"
    /\ UNCHANGED <<durable, image, bootVars, mail, request, watchdog, engineVars, jumps, boundVars>>

IsPendingTrial(t) == durable.pending = t.slot /\ durable.sequence = t.sequence

\* The consumed confirmation is compared with the journal; then
\* boot_lifecycle_confirm loads again, and when this load fails the state of
\* the first one stays.  A stale confirmation is dropped.
Confirm ==
    /\ pc = "confirm"
    /\ IF IsPendingTrial(token)
       THEN \/ Store(ConfirmPending(durable), "prepare")
            \/ faulty /\ ram' = durable /\ pc' = "recovery" /\ UNCHANGED durable
       ELSE ram' = durable /\ pc' = "prepare" /\ UNCHANGED durable
    /\ jumps' = IF durable'.pending = NoSlot THEN 0 ELSE jumps
    /\ UNCHANGED <<image, mail, request, watchdog, token, selected, engineVars, boundVars>>

PrepareConfirmed ==
    /\ pc = "prepare"
    /\ durable.pending = NoSlot
    /\ ram' = durable
    /\ selected' = durable.confirmed
    /\ pc' = "primary"
    /\ UNCHANGED <<durable, image, mail, request, watchdog, token, engineVars, jumps, boundVars>>

PrepareRollback ==
    /\ pc = "prepare"
    /\ durable.pending # NoSlot
    /\ TrialsExhausted(durable)
    /\ Store(Rollback(durable), "primary")
    /\ selected' = durable.confirmed
    /\ jumps' = IF durable'.pending = NoSlot THEN 0 ELSE jumps
    /\ UNCHANGED <<image, mail, request, watchdog, token, engineVars, boundVars>>

PrepareTrial ==
    /\ pc = "prepare"
    /\ durable.pending # NoSlot
    /\ ~TrialsExhausted(durable)
    /\ Store(RecordTrial(durable), "primary")
    /\ selected' = durable.pending
    /\ UNCHANGED <<image, mail, request, watchdog, token, engineVars, jumps, boundVars>>

\* try_load: manifest, vectors, hash, copy to SDRAM and hash of the copy.
SlotLoads ==
    /\ pc \in {"primary", "fallback"}
    /\ image[selected] # "invalid"
    /\ pc' = "handoff"
    /\ UNCHANGED <<durable, image, bootVars, mail, request, watchdog, engineVars, jumps, boundVars>>

SlotFails == image[selected] = "invalid" \/ faulty

PrimaryFails ==
    /\ pc = "primary"
    /\ SlotFails
    /\ IF ram.pending = selected
       THEN pc' = "reject" /\ UNCHANGED selected
       ELSE pc' = "fallback" /\ selected' = OtherSlot(selected)
    /\ UNCHANGED <<durable, image, ram, mail, request, watchdog, token, engineVars, jumps, boundVars>>

RejectPending ==
    /\ pc = "reject"
    /\ Store(Rollback(durable), "fallback")
    /\ selected' = durable.confirmed
    /\ jumps' = IF durable'.pending = NoSlot THEN 0 ELSE jumps
    /\ UNCHANGED <<image, mail, request, watchdog, token, engineVars, boundVars>>

NoValidSlot ==
    /\ pc = "fallback"
    /\ SlotFails
    /\ pc' = "recovery"
    /\ UNCHANGED <<durable, image, bootVars, mail, request, watchdog, engineVars, jumps, boundVars>>

-----------------------------------------------------------------------------
(* boot_handoff_prepare and the jump.                                      *)

\* One more than is ever allowed is enough to count.
CountJump == IF jumps > MaxTrials THEN jumps ELSE jumps + 1

\* Faulty variant: publishes the token and jumps without the watchdog.
PublishTrialUnguarded ==
    /\ pc = "handoff"
    /\ ram.pending = selected
    /\ mail' = Token("handoff", selected, ram.sequence)
    /\ pc' = "app"
    /\ jumps' = CountJump
    /\ UNCHANGED <<durable, image, bootVars, request, watchdog, engineVars, boundVars>>

PublishTrial ==
    /\ pc = "handoff"
    /\ ram.pending = selected
    /\ mail' = Token("handoff", selected, ram.sequence)
    /\ pc' = "watchdog"
    /\ UNCHANGED <<durable, image, bootVars, request, watchdog, engineVars, jumps, boundVars>>

StartTrial ==
    /\ pc = "watchdog"
    /\ watchdog' = TRUE
    /\ jumps' = CountJump
    /\ pc' = "app"
    /\ UNCHANGED <<durable, image, bootVars, mail, request, engineVars, boundVars>>

StartConfirmed ==
    /\ pc = "handoff"
    /\ ram.pending # selected
    /\ mail' = NoMail
    /\ pc' = "app"
    /\ UNCHANGED <<durable, image, bootVars, request, watchdog, engineVars, jumps, boundVars>>

-----------------------------------------------------------------------------
(* The applications.                                                       *)

\* boot_trial_arm_confirmation.
ArmConfirmation ==
    mail' = IF mail.kind = "handoff"
            THEN Token("confirm", mail.slot, mail.sequence) ELSE NoMail

\* app/: ncr2_boot_confirm_healthy_and_reset once both health gates passed.
AppConfirms ==
    /\ pc = "app"
    /\ image[selected] = "app"
    /\ ArmConfirmation
    /\ pc' = IF mail.kind = "handoff" THEN "leaving" ELSE "running"
    /\ UNCHANGED <<durable, image, bootVars, request, watchdog, engineVars, jumps, boundVars>>

\* hardware_app/: until it is healthy every reset is to end in recovery.
HardwareArmsRecovery ==
    /\ pc = "app"
    /\ image[selected] = "hardware"
    /\ request' = TRUE
    /\ pc' = "guarded"
    /\ UNCHANGED <<durable, image, bootVars, mail, watchdog, engineVars, jumps, boundVars>>

HardwareStartsWatchdog ==
    /\ pc = "guarded"
    /\ watchdog' = TRUE
    /\ pc' = "checking"
    /\ UNCHANGED <<durable, image, bootVars, mail, request, engineVars, jumps, boundVars>>

HardwareConfirms ==
    /\ pc = "checking"
    /\ ArmConfirmation
    /\ pc' = IF mail.kind = "handoff" THEN "clearing" ELSE "running"
    /\ UNCHANGED <<durable, image, bootVars, request, watchdog, engineVars, jumps, boundVars>>

HardwareClearsRecovery ==
    /\ pc = "clearing"
    /\ request' = FALSE
    /\ pc' = "leaving"
    /\ UNCHANGED <<durable, image, bootVars, mail, watchdog, engineVars, jumps, boundVars>>

LeaveForBootloader ==
    /\ pc = "leaving"
    /\ WarmReset
    /\ UNCHANGED <<mail, request>>

\* NCR2_APP_RETURN_TO_RECOVERY_AFTER_CONFIRM.
ReturnToRecovery ==
    /\ pc = "running"
    /\ image[selected] = "app"
    /\ request' = TRUE
    /\ pc' = "leaving"
    /\ UNCHANGED <<durable, image, bootVars, mail, watchdog, engineVars, jumps, boundVars>>

\* The diagnostic app confirms well within the eight seconds; any other
\* image may hang anywhere.
WatchdogReset ==
    /\ watchdog
    /\ pc \in AppSteps
    /\ image[selected] # "app"
    /\ WarmReset
    /\ UNCHANGED <<mail, request>>

-----------------------------------------------------------------------------
(* Recovery: an update session of recovery_engine.c.                       *)

\* The RAM personality loads the journal and stops when it cannot; the XIP
\* one goes on with the state of the boot controller.
EnterRecovery ==
    /\ pc = "recovery"
    /\ IF RamPersonality
       THEN \/ ram' = durable /\ active' = SelectedSlot(durable) /\ pc' = "session"
            \/ faulty /\ pc' = "stopped" /\ UNCHANGED <<ram, active>>
       ELSE ram' = ram /\ active' = ram.confirmed /\ pc' = "session"
    /\ UNCHANGED <<durable, image, mail, request, watchdog, token, selected, session, phase, jumps, boundVars>>

\* Faulty variant: protects only the slot that would boot.
MayBeginActiveOnly(s) == s # active

MayBegin(s) == s # ram.confirmed /\ s # active

BeginImage(s) ==
    /\ pc = "session"
    /\ MayBegin(s)
    /\ session' = s
    /\ phase' = "begun"
    /\ UNCHANGED <<durable, image, bootVars, mail, request, watchdog, pc, active, jumps, boundVars>>

EraseSlot ==
    /\ pc = "session"
    /\ phase = "begun"
    /\ image' = [image EXCEPT ![session] = "invalid"]
    /\ phase' \in IF faulty THEN {"begun", "erased"} ELSE {"erased"}
    /\ UNCHANGED <<durable, bootVars, mail, request, watchdog, pc, active, session, jumps, boundVars>>

\* The write that completes an image: from here on the slot would boot,
\* unless the same write, repeated with other data, spoils it.
WriteImage(i) ==
    /\ pc = "session"
    /\ phase = IF i = "invalid" THEN "written" ELSE "erased"
    /\ image' = [image EXCEPT ![session] = i]
    /\ phase' = IF i = "invalid" THEN "erased" ELSE "written"
    /\ UNCHANGED <<durable, bootVars, mail, request, watchdog, pc, active, session, jumps, boundVars>>

\* FINALIZE_IMAGE reads the image back; one that fails changes nothing.
FinalizeImage ==
    /\ pc = "session"
    /\ phase = "written"
    /\ phase' = "finalized"
    /\ UNCHANGED <<durable, image, bootVars, mail, request, watchdog, pc, active, session, jumps, boundVars>>

\* The journal holds s already, or s is newer than what it holds.
JournalTakes(s) == s = durable \/ IsNewer(s.sequence, durable.sequence)

\* handle_set_pending: the engine's state follows only a reported success.
SetPending ==
    /\ pc = "session"
    /\ phase = "finalized"
    /\ updates < MaxUpdates
    /\ updates' = updates + 1
    /\ LET next == BeginUpdate(ram, session)
       IN  \/ JournalTakes(next) /\ durable' = next /\ ram' = next /\ phase' = "pending"
           \/ faulty /\ JournalTakes(next) /\ durable' = next /\ UNCHANGED <<ram, phase>>
           \/ (faulty \/ ~JournalTakes(next)) /\ UNCHANGED <<durable, ram, phase>>
    /\ jumps' = IF durable' = durable THEN jumps ELSE 0
    /\ UNCHANGED <<image, mail, request, watchdog, pc, token, selected, active, session, faulty, cuts>>

Reboot ==
    /\ pc = "session"
    /\ phase = "pending"
    /\ WarmReset
    /\ UNCHANGED <<mail, request>>

-----------------------------------------------------------------------------

\* Power is lost at any moment and comes back.
PowerCycle ==
    /\ cuts < MaxCuts
    /\ cuts' = cuts + 1
    /\ RamLost
    /\ mail' = NoMail
    /\ request' = FALSE
    /\ UNCHANGED <<durable, image, jumps, faulty, updates>>

BootStep ==
    \/ ConsumeConfirmation \/ ForcedRecovery \/ NoRecoveryRequest \/ LoadFails
    \/ Confirm
    \/ PrepareConfirmed \/ PrepareRollback \/ PrepareTrial
    \/ SlotLoads \/ PrimaryFails \/ RejectPending \/ NoValidSlot
    \/ PublishTrial \/ StartTrial \/ StartConfirmed

AppStep ==
    \/ AppConfirms \/ HardwareArmsRecovery \/ HardwareStartsWatchdog
    \/ HardwareConfirms \/ HardwareClearsRecovery \/ LeaveForBootloader

RecoveryStep ==
    \/ EnterRecovery
    \/ \E s \in Slots : BeginImage(s)
    \/ EraseSlot
    \/ \E i \in Images : WriteImage(i)
    \/ FinalizeImage
    \/ SetPending
    \/ Reboot

Next == BootStep \/ AppStep \/ WatchdogReset \/ ReturnToRecovery \/ RecoveryStep \/ PowerCycle

Spec == Init /\ [][Next]_vars

\* The processor runs the boot code and the start of an application to their
\* end, and a running watchdog fires.  Nothing is assumed of the host, of
\* the user, or of an application that is already running.
FairSpec == Spec /\ WF_vars(BootStep) /\ WF_vars(AppStep) /\ WF_vars(WatchdogReset)

-----------------------------------------------------------------------------
(* Properties.                                                             *)

\* Whatever is in the retained trial mailbox names the slot and the sequence
\* of the trial that is now the newest journal record, across resets, power
\* losses and stores that fail after having become durable; so does the
\* confirmation that a boot has taken from it and not yet used.
MailNamesDurableTrial ==
    /\ mail # NoMail => IsPendingTrial(mail)
    /\ pc = "confirm" => IsPendingTrial(token)

\* A pending image is never started more often than the journal has recorded,
\* so that it is never started more than MaxTrials times.
TrialsAreBudgeted ==
    durable.pending # NoSlot => jumps <= durable.trials

\* An application that runs as a trial can be stopped by the watchdog and
\* holds the token with which to confirm; one that is not the pending slot
\* runs only when nothing is pending.
TrialIsGuarded ==
    pc \in AppSteps =>
        \/ durable.pending = NoSlot /\ mail = NoMail
        \/ durable.pending = selected /\ watchdog /\ mail # NoMail

\* The slot that every rollback falls back to always holds an image that has
\* proved its health: no image is confirmed that never reported it, and no
\* session erases the confirmed one.
ConfirmedImageWorks == image[durable.confirmed] \in Healthy

\* A session never has the durably confirmed slot as its target.
\* OPEN_RECOVERY_PROTOCOL.md: "the target selected by BEGIN_IMAGE must be
\* different from both the confirmed and active slot".
TargetIsNotConfirmed == session # durable.confirmed

\* From every state of a boot with a pending image, without any help from the
\* host or the user, the image is confirmed or rolled back, or the pedal
\* waits in recovery.
TrialIsSettled ==
    durable.pending # NoSlot
        ~> (durable.pending = NoSlot \/ pc \in RecoverySteps \cup {"stopped"})

\* Where the flash works, a healthy image that has just become pending is
\* confirmed although power fails during its trials, if it fails less often
\* than there are trials, unless recovery is entered.
HealthyIsConfirmed ==
    \A s \in Slots :
        (~faulty /\ pc = "reset" /\ durable.pending = s /\ durable.trials = 0 /\ image[s] = "app")
            ~> (durable.confirmed = s \/ pc \in RecoverySteps)

-----------------------------------------------------------------------------
(* The inductive invariant behind the safety properties, for the RAM       *)
(* personality.                                                            *)

TrialRuns == durable.pending = selected /\ watchdog /\ mail # NoMail

\* Tokens exist only between a handoff and the next boot, and a confirmation
\* only for an image that has proved its health.
MailInv ==
    /\ mail # NoMail =>
          /\ IsPendingTrial(mail)
          /\ mail.slot \in Slots
          /\ pc \in {"reset", "watchdog"} \cup AppSteps
    /\ mail.kind = "confirm" => image[mail.slot] \in Healthy
    /\ mail.kind = "none" => mail = NoMail
    /\ pc \in {"app", "guarded", "checking"} => mail.kind # "confirm"
    /\ pc \in {"requested", "confirm"} /\ token # NoMail =>
          /\ IsPendingTrial(token)
          /\ token.slot \in Slots
          /\ image[token.slot] \in Healthy
    /\ pc = "confirm" => token # NoMail

\* After boot_lifecycle_prepare the state in RAM is the durable one, and what
\* is being loaded is the pending slot, if there is one.
LoadInv ==
    /\ durable.pending # durable.confirmed
    /\ pc \in {"primary", "fallback", "handoff", "watchdog"} => ram = durable
    /\ pc \in {"primary", "handoff"} => durable.pending \in {NoSlot, selected}
    /\ pc \in {"reject", "watchdog"} => durable.pending = selected
    /\ pc = "fallback" => durable.pending = NoSlot
    /\ pc = "watchdog" => mail # NoMail /\ mail.kind = "handoff"

\* While a trial is being loaded the journal is one ahead of the jumps.
TrialInv ==
    durable.pending # NoSlot =>
        /\ jumps <= durable.trials
        /\ pc \in {"primary", "handoff", "watchdog"} => jumps < durable.trials

AppInv ==
    /\ pc \in AppSteps => (durable.pending = NoSlot /\ mail = NoMail) \/ TrialRuns
    /\ pc = "running" => mail = NoMail
    /\ pc \in {"guarded", "checking"} => image[selected] = "hardware"

\* A session protects the slot that is durably confirmed.
SessionInv ==
    /\ image[durable.confirmed] \in Healthy
    /\ pc = "session" => ram.confirmed = durable.confirmed
    /\ session # durable.confirmed
    /\ pc # "session" => session = NoSlot
    /\ phase # "idle" => session # NoSlot

BootInv == TypeOK /\ MailInv /\ LoadInv /\ TrialInv /\ AppInv /\ SessionInv
=============================================================================
