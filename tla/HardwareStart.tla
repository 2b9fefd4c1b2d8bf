---------------------------- MODULE HardwareStart ----------------------------
(***************************************************************************)
(* application_main() of hardware_app from its first line to its control   *)
(* loop (Stompbox.tla): the engine request and the launch of a factory     *)
(* engine, the confirmation of a trial, the board's outputs, the search    *)
(* for the converter, its configuration and its verification.  It composes *)
(* the mailboxes with the launcher, the board and the control bus; a reset *)
(* can come between any two of their writes.                               *)
(*                                                                         *)
(* ncr2_factory_audio_init always succeeds in this application's build,    *)
(* and a failed verification is followed by nothing but reports: the tests *)
(* of the power-down lines behind them are never reached.                  *)
(***************************************************************************)
EXTENDS WarmResetMailboxes, EngineLauncher, CodecBus

CONSTANT FactoryEngines  \* the engines below NCR2_OPEN_ENGINE_FIRST

ASSUME HardwareStartAssumption == FactoryEngines \subseteq Engines

\* Where application_main() is, once at = "hw_run": "reset", "audio",
\* "release", "probe", "configure", "verify", "loop".
VARIABLE step

boardAndBus == <<boardVars, codecBusVars>>
startVars == <<vars, launchVars, boardAndBus, step>>

StartInit == Init /\ LaunchInit /\ BoardInit /\ CodecInit /\ step = "reset"

-----------------------------------------------------------------------------
(* The bootloader, the other application, and the registers.               *)

WriteMailbox == WriteRegister /\ UNCHANGED <<launchVars, boardAndBus, step>>

\* Everything but hardware_app and the resets.
Elsewhere ==
    /\ \/ ConsumeConfirmation
       \/ ConsumeRecoveryRequest
       \/ \E s \in Slots, n \in SeqNums : HandOffTrial(s, n)
       \/ HandOffConfirmed
       \/ \E app \in {"app", "hw_start"} : Jump(app)
       \/ AppConfirms
       \/ AppAsksForRecovery
    /\ UNCHANGED <<launchVars, boardAndBus, step>>

-----------------------------------------------------------------------------
(* Before the board is touched.                                            *)

Consume == HardwareConsumesEngineRequest /\ UNCHANGED <<launchVars, boardAndBus, step>>

\* A request for a factory engine: ncr2_factory_engine_launch.
Launch ==
    /\ Ready("hw_guard") /\ engine \in FactoryEngines
    /\ CheckEngine \/ PrepareMachine \/ CopyEngine \/ PatchMonitor
    /\ UNCHANGED <<vars, boardAndBus, step>>

Enter ==
    /\ launch = "jump"
    /\ LaunchEngine
    /\ UNCHANGED <<launchVars, boardAndBus, step>>

\* No request, an open engine, or a refused launch.
Guard ==
    /\ engine \in FactoryEngines => launch = "refused"
    /\ HardwareArmsRecovery
    /\ UNCHANGED <<launchVars, boardAndBus, step>>

Settle ==
    /\ HardwareConfirms \/ HardwareClearsRecovery
    /\ UNCHANGED <<launchVars, boardAndBus, step>>

-----------------------------------------------------------------------------
(* The board and the converter.                                            *)

\* application_main() goes on: the outputs have had their last write.
Goes(from, to) ==
    /\ Ready("hw_run") /\ step = from /\ drives = << >>
    /\ step' = to

DriveBoard ==
    /\ DriveOutputs
    /\ CodecFollowsPads
    /\ UNCHANGED <<vars, launchVars, busVars, step>>

PrepareBoard ==
    /\ Goes("reset", "audio")
    /\ drives' = PrepareAudio \o RestoreIdle \o SetRelay(FALSE)
    /\ UNCHANGED <<vars, launchVars, high, codecBusVars>>

\* The audio clocks run, and the converter leaves its reset.
StartAudio ==
    /\ Goes("audio", "release")
    /\ drives' = ReleaseAudio
    /\ UNCHANGED <<vars, launchVars, high, codecBusVars>>

ReleaseReset ==
    /\ Goes("release", "probe")
    /\ drives' = ReleaseResetCandidates \o SetRelay(FALSE)
    /\ UNCHANGED <<vars, launchVars, high, codecBusVars>>

ProbeCodec ==
    /\ Goes("probe", "probe")
    /\ StartProbe \/ Probe
    /\ UNCHANGED <<vars, launchVars, boardVars>>

FoundCodec ==
    /\ Goes("probe", "configure") /\ transfer = "found"
    /\ transfer' = "configure"
    /\ UNCHANGED <<vars, launchVars, boardVars, device, bus, ok, clean, index, codecVars>>

ConfigureCodec ==
    /\ Goes("configure", "configure")
    /\ Configure
    /\ UNCHANGED <<vars, launchVars, boardVars>>

\* Every write was acknowledged: the running state of the outputs.
Activate ==
    /\ Goes("configure", "verify") /\ transfer = "configured" /\ clean
    /\ transfer' = "verify"
    /\ drives' = RestoreAudioActive \o SetRelay(FALSE)
    /\ UNCHANGED <<vars, launchVars, high, device, bus, ok, clean, index, codecVars>>

VerifyCodec ==
    /\ Goes("verify", "verify")
    /\ ReadBack
    /\ UNCHANGED <<vars, launchVars, boardVars>>

EnterLoop ==
    /\ Goes("verify", "loop") /\ transfer = "verified" /\ clean
    /\ drives' = SetRelay(FALSE)
    /\ UNCHANGED <<vars, launchVars, high, codecBusVars>>

\* No converter, a write or a register that failed: reported, and given up.
GiveUp ==
    /\ Ready("hw_run") /\ drives = << >>
    /\ \/ transfer = "missing"
       \/ transfer \in {"configured", "verified"} /\ ~clean
    /\ HardwareGivesUp
    /\ UNCHANGED <<launchVars, boardAndBus, step>>

\* What the control loop does to the jack, and how it leaves.
Loop ==
    /\ Ready("hw_run") /\ step = "loop" /\ drives = << >>
    /\ \/ \E engaged \in BOOLEAN :
            /\ drives' = SetRelay(engaged)
            /\ UNCHANGED <<vars, high>>
       \/ \E e \in Engines : SelectEngine(e) /\ UNCHANGED boardVars
    /\ UNCHANGED <<launchVars, codecBusVars, step>>

\* The monitor that was patched into the engine.
LeaveEngine ==
    /\ \E e \in Engines : EngineSelects(e)
    /\ UNCHANGED <<launchVars, boardAndBus, step>>

StartStep ==
    \/ Consume \/ Launch \/ Enter \/ Guard \/ Settle
    \/ DriveBoard \/ PrepareBoard \/ StartAudio \/ ReleaseReset
    \/ ProbeCodec \/ FoundCodec \/ ConfigureCodec \/ Activate
    \/ VerifyCodec \/ EnterLoop \/ GiveUp

-----------------------------------------------------------------------------
(* Resets.  A warm reset does not reach the converter, which goes on with  *)
(* what it was doing; only power, or its power-down, ends that.            *)

Forget ==
    /\ step' = "reset" /\ transfer' = "none" /\ device' = "nothing" /\ bus' = <<1, 0>>
    /\ ok' = FALSE /\ clean' = TRUE /\ index' = 1
    /\ ForgetLaunch /\ ResetPads

WarmResets == WarmReset /\ Forget /\ UNCHANGED codecVars

PowerCycles == PowerCycle /\ Forget /\ holds' = FALSE /\ registers' = Erased

StartNext == Elsewhere \/ WriteMailbox \/ StartStep \/ Loop \/ LeaveEngine \/ WarmResets \/ PowerCycles

\* The processor executes the start; nothing makes it reset.
StartSpec == StartInit /\ [][StartNext]_startVars /\ WF_startVars(StartStep \/ WriteMailbox)

-----------------------------------------------------------------------------
(* Properties.                                                             *)

\* The jack is on the processor only inside the control loop; until then no
\* start and no failed start takes the dry signal away.
ProcessorOnlyInLoop ==
    "processor" \in high => at \in {"hw_run", "leaving"} /\ step = "loop"

\* The relay's pair, at every single write.
RouteIsSafe == RouteIsExclusive /\ ProcessorOnlyInLoop

\* "as soon as configuration and post-routing readback succeed": the control
\* loop runs only on the converter's bus, with the converter out of reset and
\* the three registers that make the sound as they should be, whatever was
\* on the other pads and however an earlier start was cut short.
LoopHasCodec ==
    step = "loop" =>
        /\ IsCodec /\ "pdn" \in high
        /\ \A i \in DOMAIN Verified : registers[Verified[i]] = "image"

\* An engine is entered only with a whole patched image and the factory's own
\* machine set up; a refused one leaves everything as it was.
EngineIsWhole ==
    /\ ItcmIsGenuine
    /\ at = "engine" => /\ itcm = {"stack", "reset", "led", "monitor"}
                        /\ machine = "factory"
    /\ at = "hw_trial" => machine = "open"

\* No stuck line, missing acknowledge or absent converter keeps the start
\* from ending: in the loop, in an engine or in a reset.
StartEnds ==
    at \in {"hw_start", "hw_guard", "hw_run"} /\ step # "loop" ~>
        step = "loop" \/ at \in {"engine", "leaving", "boot"}

-----------------------------------------------------------------------------
(* Inductive invariants, one for each part of the start.                   *)

\* How far a launch is, and where application_main() is meanwhile.
LaunchInv ==
    /\ launch \in {"none", "prepare", "copy", "patch", "jump", "refused"}
    /\ launch \in {"prepare", "copy", "patch"} => preserved = Parts
    /\ itcm = IF launch = "patch" THEN Parts
              ELSE IF launch = "jump" THEN {"stack", "reset", "led", "monitor"} ELSE {}
    /\ machine = IF launch \in {"copy", "patch", "jump"} THEN "factory" ELSE "open"
    /\ at \notin {"hw_guard", "engine", "leaving"} => launch \in {"none", "refused"}
    /\ \/ at \in {"boot", "recovery_check", "recovery", "hand_off", "jump", "app", "running", "hw_start"}
       \/ at = "hw_guard" /\ engine \notin FactoryEngines
       => launch = "none"
    /\ at = "engine" => launch = "jump"

Outputs == {"pdn", "processor", "dry", "driven"}
Drives == [set : SUBSET Outputs, clear : SUBSET Outputs]
Quiet == {d \in Drives : "processor" \notin d.set}
Relay == {Drive({"processor"}, {"dry"}), Drive({"dry"}, {"processor"})}

\* Before the loop no write that is left raises the processor's output; in the
\* loop every write sets one of the pair and clears the other.
RouteInv ==
    /\ step # "reset" => at \in {"hw_run", "leaving"}
    /\ step # "loop" => "processor" \notin high /\ drives \in Seq(Quiet)
    /\ step = "loop" => RouteIsExclusive /\ drives \in Seq(Relay)

Powered == {d \in Drives : "pdn" \notin d.clear}

\* What a transfer has made sure of, and that no write of the outputs is left
\* while one is under way.
CodecInv ==
    /\ step \in {"reset", "audio", "release"} => transfer = "none"
    /\ transfer \in {"idle", "select", "receive", "stop", "found", "missing"} => step = "probe"
    /\ transfer \in {"configure", "configured"} => step = "configure"
    /\ transfer \in {"verify", "verified"} => step \in {"verify", "loop"}
    /\ transfer \notin {"none", "verify", "verified"} => drives = << >>
    /\ transfer = "receive" => Answers(bus[2])
    /\ transfer = "stop" /\ ok => IsCodec /\ Answers(bus[2]) /\ ~holds
    /\ FoundIsCodec
    /\ transfer = "configured" => index = 1
    /\ transfer \in {"verify", "verified"} =>
         /\ IsCodec /\ "pdn" \in high /\ drives \in Seq(Powered)
         /\ index \in 1 .. 3
         /\ clean => \A i \in 1 .. 3 :
              transfer = "verified" \/ i < index => registers[Verified[i]] = "image"
    /\ step = "loop" => transfer = "verified" /\ clean

\* After the writes that are left the register r holds v, and until then at
\* most what it holds now.
WillBe(r, v) ==
    /\ gpr[r] = v \/ \E i \in DOMAIN todo : todo[i][1] = r
    /\ \A i \in DOMAIN todo : todo[i][1] = r => todo[i][2] = v

\* What each place of the boot and of the applications leaves in the mailboxes.
MailInv ==
    /\ DOMAIN gpr = DOMAIN Blank
    /\ todo \in Seq({todo[i] : i \in DOMAIN todo})
    /\ at \in {"recovery_check", "recovery", "hand_off", "running", "hw_run"} => WillBe("token", Zero)
    /\ at \in {"recovery", "hand_off", "jump", "app", "running", "hw_start", "hw_guard", "engine"} =>
         WillBe("magic", FALSE)
    /\ at \in {"hw_guard", "engine"} => WillBe("engine", NoToken)
    /\ at \in {"hw_trial", "hw_clear", "hw_run"} => WillBe("magic", TRUE) /\ WillBe("inverse", TRUE)
    /\ at \in {"hw_clear", "hw_run"} => RecoveryAsked(gpr)
    /\ at = "leaving" => WillBe("magic", FALSE) \/ WillBe("token", Zero)

\* After the writes that are left the register r holds v.
EndsAs(r, v) ==
    \/ \E i \in DOMAIN todo :
          todo[i] = <<r, v>> /\ \A j \in DOMAIN todo : j > i => todo[j][1] # r
    \/ gpr[r] = v /\ \A j \in DOMAIN todo : todo[j][1] # r

\* The token t will stand for the trial that the operation has in mind.
Promised(s, n, t) ==
    /\ \/ t = HandoffToken(s) /\ goal = [kind |-> "handoff", trial |-> <<s, n>>]
       \/ t = ConfirmToken(s) /\ goal = [kind |-> "confirm", trial |-> <<s, n>>]
    /\ EndsAs("token_inverse", t)
    /\ EndsAs("sequence", n) /\ EndsAs("sequence_inverse", Complement(n))

\* The order of the writes of boot_trial.c: what belongs to a token changes
\* only while the token is zero, and the token itself is the last write.
TrialInv ==
    /\ gpr.sequence \in SeqNums
    /\ \A i \in DOMAIN todo : todo[i][1] = "sequence" => todo[i][2] \in SeqNums
    /\ \A i \in DOMAIN todo : todo[i][1] \in {"token_inverse", "sequence", "sequence_inverse"} =>
         gpr.token = Zero \/ \E j \in DOMAIN todo : j < i /\ todo[j] = <<"token", Zero>>
    /\ \A i \in DOMAIN todo : todo[i][1] = "token" /\ todo[i][2] # Zero =>
         i = Len(todo) /\ \E s \in Slots, n \in SeqNums : Promised(s, n, todo[i][2])
=============================================================================
