-------------------------- MODULE WarmResetMailboxes --------------------------
(***************************************************************************)
(* The SRC general purpose registers through which the bootloader and the  *)
(* applications talk across a warm reset: the trial mailbox (boot_trial.c),*)
(* the recovery request (boot_recovery_request.c) and the engine request   *)
(* (factory_engine_request.c).                                             *)
(*                                                                         *)
(* Every register write is a step of its own, and a reset can come between *)
(* any two of them: the registers keep what was written so far, and the    *)
(* side that was writing never writes the rest.  HardwareStart composes     *)
(* these actions with what else hardware_app does when it starts.          *)
(***************************************************************************)
EXTENDS BootSequence, Sequences

CONSTANTS Slots, Engines, NoToken

Trials == Slots \X SeqNums

Zero == <<"zero">>
HandoffToken(s) == <<"handoff", s>>
ConfirmToken(s) == <<"confirm", s>>

\* ~n on the register's width.
Complement(n) == SeqMod - 1 - n

VARIABLES gpr,    \* the registers; an inverse register holds the token it inverts
          todo,   \* the writes that the running operation has left
          goal,   \* the trial token it will leave (a history variable)
          at,     \* what runs, and how far it is
          taken,  \* the trial whose confirmation this boot has consumed
          engine  \* the engine request this start of hardware_app consumed

vars == <<gpr, todo, goal, at, taken, engine>>

Blank == [token |-> Zero, token_inverse |-> Zero, sequence |-> 0,
          sequence_inverse |-> 0, magic |-> FALSE, inverse |-> FALSE,
          engine |-> NoToken]

Init ==
    /\ gpr = Blank
    /\ todo = << >>
    /\ goal = NoToken
    /\ at = "boot"
    /\ taken = NoToken
    /\ engine = NoToken

-----------------------------------------------------------------------------
(* Reading the registers.                                                  *)

\* Faulty variant: checks the inverse but not the magic and the slot.
TokenIsValidAnyMagic(g, t) == g.token # Zero /\ g.token_inverse = g.token

\* token_is_valid for one magic and slot: t is the token expected.
TokenIsValid(g, t) == g.token = t /\ g.token_inverse = t

SequenceIsValid(g) == g.sequence_inverse = Complement(g.sequence)

HoldsHandoff(g, s) == TokenIsValid(g, HandoffToken(s)) /\ SequenceIsValid(g)
HoldsConfirm(g, s) == TokenIsValid(g, ConfirmToken(s)) /\ SequenceIsValid(g)

RecoveryAsked(g) == g.magic /\ g.inverse

-----------------------------------------------------------------------------
(* The writes of each operation, in program order.                         *)

\* Faulty variant: leaves the token in place.
ClearTrialSequenceOnly(g) == <<<<"sequence", 0>>>>

ClearTrial(g) == <<<<"token", Zero>>, <<"token_inverse", Zero>>,
                   <<"sequence", 0>>, <<"sequence_inverse", 0>>>>

PublishTrial(s, n) ==
    ClearTrial(gpr) \o <<<<"sequence_inverse", Complement(n)>>, <<"sequence", n>>,
                         <<"token_inverse", HandoffToken(s)>>, <<"token", HandoffToken(s)>>>>

ArmTrial(s) == <<<<"token", Zero>>, <<"token_inverse", ConfirmToken(s)>>,
                 <<"token", ConfirmToken(s)>>>>

\* Faulty variant: arms half of the pair.
ArmRecoveryHalf == <<<<"magic", TRUE>>>>

ArmRecovery == <<<<"inverse", TRUE>>, <<"magic", TRUE>>>>

ClearRecovery == <<<<"magic", FALSE>>, <<"inverse", FALSE>>>>

\* Start an operation: its writes follow one by one.
Do(writes, next) ==
    /\ todo' = writes
    /\ at' = next
    /\ UNCHANGED gpr

WriteRegister ==
    /\ todo # << >>
    /\ gpr' = [gpr EXCEPT ![Head(todo)[1]] = Head(todo)[2]]
    /\ todo' = Tail(todo)
    /\ UNCHANGED <<goal, at, taken, engine>>

\* The operation that was running has made its last write.
Ready(place) == todo = << >> /\ at = place

-----------------------------------------------------------------------------
(* The bootloader.                                                         *)

ConsumeConfirmation ==
    /\ Ready("boot")
    /\ taken' = IF \E s \in Slots : HoldsConfirm(gpr, s)
                THEN <<CHOOSE s \in Slots : HoldsConfirm(gpr, s), gpr.sequence>>
                ELSE NoToken
    /\ Do(ClearTrial(gpr), "recovery_check")
    /\ goal' = NoToken
    /\ UNCHANGED engine

\* Consumes whole and torn requests alike; the footswitch may be held.
ConsumeRecoveryRequest ==
    /\ Ready("recovery_check")
    /\ \E physical \in BOOLEAN :
          Do(ClearRecovery, IF RecoveryAsked(gpr) \/ physical THEN "recovery" ELSE "hand_off")
    /\ UNCHANGED <<goal, taken, engine>>

HandOffTrial(s, n) ==
    /\ Ready("hand_off")
    /\ Do(PublishTrial(s, n), "jump")
    /\ goal' = [kind |-> "handoff", trial |-> <<s, n>>]
    /\ UNCHANGED <<taken, engine>>

HandOffConfirmed ==
    /\ Ready("hand_off")
    /\ Do(ClearTrial(gpr), "jump")
    /\ UNCHANGED <<goal, taken, engine>>

Jump(app) ==
    /\ Ready("jump")
    /\ Do(<< >>, app)
    /\ UNCHANGED <<goal, taken, engine>>

-----------------------------------------------------------------------------
(* The applications.                                                       *)

\* boot_trial_arm_confirmation: done after a valid handoff, otherwise.
ArmConfirmation(confirmed, otherwise) ==
    \/ \E s \in Slots :
          /\ HoldsHandoff(gpr, s)
          /\ Do(ArmTrial(s), confirmed)
          /\ goal' = [kind |-> "confirm", trial |-> <<s, gpr.sequence>>]
    \/ /\ \A s \in Slots : ~HoldsHandoff(gpr, s)
       /\ Do(ClearTrial(gpr), otherwise)
       /\ goal' = NoToken

AppConfirms ==
    /\ Ready("app")
    /\ ArmConfirmation("leaving", "running")
    /\ UNCHANGED <<taken, engine>>

AppAsksForRecovery ==
    /\ Ready("running")
    /\ Do(ArmRecovery, "leaving")
    /\ UNCHANGED <<goal, taken, engine>>

HardwareConsumesEngineRequest ==
    /\ Ready("hw_start")
    /\ engine' = gpr.engine
    /\ Do(<<<<"engine", NoToken>>>>, "hw_guard")
    /\ UNCHANGED <<goal, taken>>

\* A valid factory engine takes the processor over for good.
LaunchEngine ==
    /\ Ready("hw_guard")
    /\ engine # NoToken
    /\ Do(<< >>, "engine")
    /\ UNCHANGED <<goal, taken, engine>>

\* No request, an open engine, or a launch that fails closed.
HardwareArmsRecovery ==
    /\ Ready("hw_guard")
    /\ Do(ArmRecovery, "hw_trial")
    /\ UNCHANGED <<goal, taken, engine>>

HardwareConfirms ==
    /\ Ready("hw_trial")
    /\ ArmConfirmation("hw_clear", "hw_run")
    /\ UNCHANGED <<taken, engine>>

HardwareClearsRecovery ==
    /\ Ready("hw_clear")
    /\ Do(ClearRecovery, "leaving")
    /\ UNCHANGED <<goal, taken, engine>>

\* reset_into_engine_slot: the engine request replaces the recovery request.
SelectEngine(e) ==
    /\ Ready("hw_run")
    /\ Do(ClearRecovery \o <<<<"engine", e>>>>, "leaving")
    /\ UNCHANGED <<goal, taken, engine>>

\* reset_into_recovery: the request is armed again, and the reset follows.
HardwareGivesUp ==
    /\ Ready("hw_run")
    /\ Do(ArmRecovery, "leaving")
    /\ UNCHANGED <<goal, taken, engine>>

\* The monitor in a factory engine's main loop stages the next engine.
EngineSelects(e) ==
    /\ Ready("engine")
    /\ Do(<<<<"engine", e>>>>, "leaving")
    /\ UNCHANGED <<goal, taken, engine>>

-----------------------------------------------------------------------------
(* Resets.                                                                 *)

Restart ==
    /\ todo' = << >>
    /\ goal' = NoToken
    /\ at' = "boot"
    /\ taken' = NoToken
    /\ engine' = NoToken

\* NVIC_SystemReset, the watchdog, REBOOT of the recovery engine.
WarmReset == Restart /\ UNCHANGED gpr

PowerCycle == Restart /\ gpr' = Blank

-----------------------------------------------------------------------------
(* Properties.                                                             *)

\* The four trial registers, written one at a time and cut by a reset
\* anywhere, behave as one mailbox whose content changes at once.
Content ==
    LET token(kind, s) == [kind |-> kind, trial |-> <<s, gpr.sequence>>]
    IN  IF \E s \in Slots : HoldsHandoff(gpr, s)
        THEN token("handoff", CHOOSE s \in Slots : HoldsHandoff(gpr, s))
        ELSE IF \E s \in Slots : HoldsConfirm(gpr, s)
        THEN token("confirm", CHOOSE s \in Slots : HoldsConfirm(gpr, s))
        ELSE NoToken

Mailbox == INSTANCE TrialMailbox WITH content <- Content

ImplementsMailbox == Mailbox!MailSpec

\* A consumed token is gone before the boot or the application acts on it: a
\* later reset never sees the same confirmation, recovery request or engine
\* request a second time.
TokensAreOneShot ==
    todo = << >> =>
        /\ at \in {"recovery_check", "recovery", "hand_off"} => Content = NoToken
        /\ at \in {"recovery", "hand_off"} => ~RecoveryAsked(gpr)
        /\ at \in {"hw_guard", "engine"} => gpr.engine = NoToken

\* hardware_app/src/main.c: once it has armed the request, "either the sweep
\* finishes and resets, or the watchdog resets us, and both land in open
\* recovery" - also while the confirmation is being written.  The reset by
\* which a healthy application confirms itself must not ask for recovery at
\* the same time: the bootloader would drop the confirmation.
HangEndsInRecovery ==
    /\ at = "hw_trial" /\ todo = << >> => RecoveryAsked(gpr)
    /\ at \in {"hw_clear", "hw_run"} => RecoveryAsked(gpr)
    /\ at = "leaving" /\ todo = << >> /\ Content # NoToken => ~RecoveryAsked(gpr)
=============================================================================
