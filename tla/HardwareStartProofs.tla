-------------------------- MODULE HardwareStartProofs --------------------------
(***************************************************************************)
(* The start of hardware_app, for every engine, number of candidate pads   *)
(* and register image: what is entered is whole, the jack stays on the dry *)
(* route, only the converter is configured, and what a reset leaves in the *)
(* mailboxes is what the bootloader may act on.                            *)
(***************************************************************************)
EXTENDS HardwareStart, SequenceTheorems, TLAPS

-----------------------------------------------------------------------------
(* The launch of a factory engine.                                         *)

\* A step that leaves the launch, the place and the request leaves LaunchInv.
LEMMA LaunchUntouched ==
    ASSUME LaunchInv, UNCHANGED <<launchVars, at, engine>>
    PROVE  LaunchInv'
BY DEF LaunchInv, launchVars, Parts

\* The steps of the launch itself.
LEMMA LaunchMoves ==
    ASSUME LaunchInv, Launch
    PROVE  LaunchInv'
<1>1. at = "hw_guard" /\ engine \in FactoryEngines /\ UNCHANGED <<at, engine>>
  BY DEF Launch, Ready, vars
<1>2. CASE CheckEngine
  <2>1. launch = "none" /\ UNCHANGED <<itcm, machine>> /\ launch' \in {"prepare", "refused"}
    BY <1>2 DEF CheckEngine
  <2>2. launch' = "prepare" => preserved' = Parts
    BY <1>2 DEF CheckEngine, MatchesPatchContract, Parts
  <2> QED
    BY <1>1, <2>1, <2>2 DEF LaunchInv
<1>3. CASE PrepareMachine
  BY <1>1, <1>3 DEF LaunchInv, PrepareMachine
<1>4. CASE CopyEngine
  BY <1>1, <1>4 DEF LaunchInv, CopyEngine
<1>5. CASE PatchMonitor
  <2>1. itcm = Parts /\ itcm' = {"stack", "reset", "led", "monitor"}
    BY <1>5 DEF LaunchInv, PatchMonitor, Parts
  <2> QED
    BY <1>1, <1>5, <2>1 DEF LaunchInv, PatchMonitor
<1> QED
  BY <1>2, <1>3, <1>4, <1>5 DEF Launch

\* The steps of the bootloader and of the other application.
LEMMA LaunchElsewhere ==
    ASSUME LaunchInv, Elsewhere
    PROVE  LaunchInv'
<1>1. UNCHANGED launchVars
  BY DEF Elsewhere
<1>2. at \in {"boot", "recovery_check", "hand_off", "jump", "app", "running"}
  BY DEF Elsewhere, ConsumeConfirmation, ConsumeRecoveryRequest, HandOffTrial,
         HandOffConfirmed, Jump, AppConfirms, AppAsksForRecovery, Ready
<1>3. at' \in {"recovery_check", "recovery", "hand_off", "jump", "app", "hw_start", "leaving", "running"}
  BY DEF Elsewhere, ConsumeConfirmation, ConsumeRecoveryRequest, HandOffTrial,
         HandOffConfirmed, Jump, AppConfirms, AppAsksForRecovery, ArmConfirmation, Do
<1>4. launch = "none"
  BY <1>2 DEF LaunchInv
<1> QED
  BY <1>1, <1>3, <1>4 DEF LaunchInv, launchVars

LEMMA LaunchStep ==
    ASSUME LaunchInv, [StartNext]_startVars
    PROVE  LaunchInv'
<1>1. CASE UNCHANGED startVars
  BY <1>1, LaunchUntouched DEF startVars, vars
<1>2. CASE Elsewhere
  BY <1>2, LaunchElsewhere
<1>3. CASE WriteMailbox
  BY <1>3, LaunchUntouched DEF WriteMailbox, WriteRegister
<1>4. CASE Consume
  BY <1>4 DEF LaunchInv, Consume, HardwareConsumesEngineRequest, Ready, Do, launchVars
<1>5. CASE Launch
  BY <1>5, LaunchMoves
<1>6. CASE Enter
  BY <1>6 DEF LaunchInv, Enter, LaunchEngine, Ready, Do, launchVars
<1>7. CASE Guard
  BY <1>7 DEF LaunchInv, Guard, HardwareArmsRecovery, Ready, Do, launchVars
<1>8. CASE Settle
  BY <1>8 DEF LaunchInv, Settle, HardwareConfirms, HardwareClearsRecovery, ArmConfirmation,
              Ready, Do, launchVars
<1>9. CASE DriveBoard \/ PrepareBoard \/ StartAudio \/ ReleaseReset \/ ProbeCodec \/ FoundCodec
           \/ ConfigureCodec \/ Activate \/ VerifyCodec \/ EnterLoop
  BY <1>9, LaunchUntouched DEF DriveBoard, PrepareBoard, StartAudio, ReleaseReset, ProbeCodec,
              FoundCodec, ConfigureCodec, Activate, VerifyCodec, EnterLoop, vars
<1>10. CASE GiveUp
  BY <1>10 DEF LaunchInv, GiveUp, HardwareGivesUp, Ready, Do, launchVars
<1>11. CASE Loop
  <2>1. UNCHANGED launchVars /\ at = "hw_run" /\ (at' = "leaving" \/ UNCHANGED <<at, engine>>)
    BY <1>11 DEF Loop, SelectEngine, Ready, Do, vars
  <2> QED
    BY <2>1, LaunchUntouched DEF LaunchInv, launchVars
<1>12. CASE LeaveEngine
  BY <1>12 DEF LaunchInv, LeaveEngine, EngineSelects, Ready, Do, launchVars
<1>13. CASE WarmResets \/ PowerCycles
  BY <1>13 DEF LaunchInv, WarmResets, PowerCycles, WarmReset, PowerCycle, Restart, Forget, ForgetLaunch
<1> QED
  BY <1>1, <1>2, <1>3, <1>4, <1>5, <1>6, <1>7, <1>8, <1>9, <1>10, <1>11, <1>12, <1>13
     DEF StartNext, StartStep

\* A factory engine is entered only as a whole: every part that the patch
\* relies on was found in flash before ITCM was touched, the monitor is linked
\* in, and the machine is the factory's; after a refused launch it is not.
THEOREM EngineIsEnteredWhole == StartSpec => []EngineIsWhole
<1>1. StartInit => LaunchInv
  BY DEF StartInit, Init, LaunchInit, LaunchInv
<1>2. LaunchInv => EngineIsWhole
  BY DEF LaunchInv, EngineIsWhole, ItcmIsGenuine, Parts
<1> QED
  BY <1>1, <1>2, LaunchStep, PTL DEF StartSpec

-----------------------------------------------------------------------------
(* The writes of the board's outputs.                                      *)

\* The functions of board_control.c that run before the loop write only what
\* is quiet, and the relay's writes are those of a pair.
LEMMA WritesOfTheBoard ==
    /\ PrepareAudio \o RestoreIdle \o SetRelay(FALSE) \in Seq(Quiet)
    /\ ReleaseAudio \in Seq(Quiet)
    /\ ReleaseResetCandidates \o SetRelay(FALSE) \in Seq(Quiet)
    /\ RestoreAudioActive \o SetRelay(FALSE) \in Seq(Quiet \cap Powered)
    /\ \A engaged \in BOOLEAN : SetRelay(engaged) \in Seq(Relay \cap Powered)
<1>1. /\ Drive({}, {"pdn"}) \in Quiet /\ Drive({}, {"processor", "dry"}) \in Quiet
      /\ Drive({"driven"}, {}) \in Quiet /\ Drive({}, {"processor"}) \in Quiet
      /\ Drive({}, {"dry"}) \in Quiet
  BY DEF Quiet, Drives, Drive, Outputs
<1>2. /\ Drive({"pdn"}, {}) \in Quiet \cap Powered
      /\ Drive({"dry"}, {}) \in Quiet \cap Powered
      /\ Drive({"dry"}, {"processor"}) \in Quiet \cap Powered
  BY DEF Quiet, Powered, Drives, Drive, Outputs
<1>3. /\ Drive({"dry"}, {"processor"}) \in Relay \cap Powered
      /\ Drive({"processor"}, {"dry"}) \in Relay \cap Powered
  BY DEF Relay, Powered, Drives, Drive, Outputs
<1>4. PrepareAudio \in Seq(Quiet) /\ RestoreIdle \in Seq(Quiet) /\ ReleaseAudio \in Seq(Quiet)
      /\ ReleaseResetCandidates \in Seq(Quiet) /\ SetRelay(FALSE) \in Seq(Quiet)
  BY <1>1, <1>2 DEF PrepareAudio, RestoreIdle, ReleaseAudio, ReleaseResetCandidates, SetRelay
<1>5. RestoreAudioActive \in Seq(Quiet \cap Powered) /\ SetRelay(FALSE) \in Seq(Quiet \cap Powered)
  BY <1>2 DEF RestoreAudioActive, SetRelay
<1>6. \A engaged \in BOOLEAN : SetRelay(engaged) \in Seq(Relay \cap Powered)
  <2>1. SetRelay(TRUE) \in Seq(Relay \cap Powered) /\ SetRelay(FALSE) \in Seq(Relay \cap Powered)
    BY <1>3 DEF SetRelay
  <2> QED
    BY <2>1, Zenon
<1>7. PrepareAudio \o RestoreIdle \in Seq(Quiet)
  BY <1>4, ConcatProperties
<1>8. PrepareAudio \o RestoreIdle \o SetRelay(FALSE) \in Seq(Quiet)
  BY <1>4, <1>7, ConcatProperties
<1>9. ReleaseResetCandidates \o SetRelay(FALSE) \in Seq(Quiet)
  BY <1>4, ConcatProperties
<1>10. RestoreAudioActive \o SetRelay(FALSE) \in Seq(Quiet \cap Powered)
  BY <1>5, ConcatProperties
<1> QED
  BY <1>4, <1>6, <1>8, <1>9, <1>10

\* A step that leaves the outputs, the place and the position leaves RouteInv.
LEMMA RouteUntouched ==
    ASSUME RouteInv, UNCHANGED <<boardVars, at, step>>
    PROVE  RouteInv'
BY DEF RouteInv, RouteIsExclusive, boardVars

\* A step of the start: quiet writes and a new position.
LEMMA RouteGoesOn ==
    ASSUME RouteInv, NEW from \in {"reset", "audio", "release", "probe", "configure", "verify"},
           NEW to \in {"audio", "release", "probe", "configure", "verify"},
           Goes(from, to), UNCHANGED <<high, at>>, drives' \in Seq(Quiet)
    PROVE  RouteInv'
BY DEF RouteInv, Goes, Ready

LEMMA RouteStep ==
    ASSUME RouteInv, [StartNext]_startVars
    PROVE  RouteInv'
<1> USE WritesOfTheBoard
<1>0. << >> \in Seq(Quiet) /\ << >> \in Seq(Relay)
  BY EmptySeq
<1>1. CASE UNCHANGED startVars
  BY <1>1, RouteUntouched DEF startVars, vars, boardAndBus
<1>2. CASE Elsewhere
  <2>1. UNCHANGED <<high, drives, step>>
    BY <1>2 DEF Elsewhere, boardAndBus, boardVars
  <2>2. at \in {"boot", "recovery_check", "hand_off", "jump", "app", "running"}
    BY <1>2 DEF Elsewhere, ConsumeConfirmation, ConsumeRecoveryRequest, HandOffTrial,
           HandOffConfirmed, Jump, AppConfirms, AppAsksForRecovery, Ready
  <2>3. step = "reset"
    BY <2>2 DEF RouteInv
  <2> QED
    BY <2>1, <2>3 DEF RouteInv
<1>3. CASE WriteMailbox
  BY <1>3, RouteUntouched DEF WriteMailbox, WriteRegister, boardAndBus
<1>4. CASE Consume \/ Launch \/ Enter \/ Guard \/ Settle \/ LeaveEngine
  <2>1. UNCHANGED <<high, drives, step>>
    BY <1>4 DEF Consume, Launch, Enter, Guard, Settle, LeaveEngine, boardAndBus, boardVars
  <2>2. at \in {"hw_start", "hw_guard", "hw_trial", "hw_clear", "engine"}
    BY <1>4 DEF Consume, Launch, Enter, Guard, Settle, LeaveEngine, Ready,
           HardwareConsumesEngineRequest, LaunchEngine, HardwareArmsRecovery,
           HardwareConfirms, HardwareClearsRecovery, EngineSelects
  <2>3. step = "reset"
    BY <2>2 DEF RouteInv
  <2> QED
    BY <2>1, <2>3 DEF RouteInv
<1>5. CASE DriveBoard
  <2>1. drives # << >> /\ UNCHANGED <<at, step>>
    BY <1>5 DEF DriveBoard, DriveOutputs, vars
  <2>2. high' = (high \ Head(drives).clear) \cup Head(drives).set /\ drives' = Tail(drives)
    BY <1>5 DEF DriveBoard, DriveOutputs
  <2>3. CASE step = "loop"
    <3>1. Head(drives) \in Relay /\ Tail(drives) \in Seq(Relay)
      BY <2>1, <2>3, HeadTailProperties DEF RouteInv
    <3>2. RouteIsExclusive'
      BY <2>2, <3>1 DEF Relay, Drive, RouteIsExclusive
    <3> QED
      BY <2>1, <2>2, <2>3, <3>1, <3>2 DEF RouteInv
  <2>4. CASE step # "loop"
    <3>1. Head(drives) \in Quiet /\ Tail(drives) \in Seq(Quiet)
      BY <2>1, <2>4, HeadTailProperties DEF RouteInv
    <3>2. "processor" \notin high'
      BY <2>2, <2>4, <3>1 DEF RouteInv, Quiet
    <3> QED
      BY <2>1, <2>2, <2>4, <3>1, <3>2 DEF RouteInv
  <2> QED
    BY <2>3, <2>4
<1>6. CASE PrepareBoard
  BY <1>6, RouteGoesOn DEF PrepareBoard, vars
<1>7. CASE StartAudio
  BY <1>7, RouteGoesOn DEF StartAudio, vars
<1>8. CASE ReleaseReset
  BY <1>8, RouteGoesOn DEF ReleaseReset, vars
<1>9. CASE ProbeCodec
  BY <1>9, RouteUntouched DEF ProbeCodec, Goes, vars
<1>10. CASE FoundCodec
  <2>1. drives = << >> /\ drives' = << >>
    BY <1>10 DEF FoundCodec, Goes, boardVars
  <2> QED
    BY <1>0, <1>10, <2>1, RouteGoesOn DEF FoundCodec, boardVars, vars
<1>11. CASE ConfigureCodec \/ VerifyCodec
  BY <1>11, RouteUntouched DEF ConfigureCodec, VerifyCodec, Goes, vars
<1>12. CASE Activate
  <2>1. drives' \in Seq(Quiet)
    <3>1. drives' \in Seq(Quiet \cap Powered)
      BY <1>12 DEF Activate
    <3> QED
      BY <3>1, SeqMonotonic
  <2> QED
    BY <1>12, <2>1, RouteGoesOn DEF Activate, vars
<1>13. CASE EnterLoop
  <2>1. drives' \in Seq(Relay)
    <3>1. drives' \in Seq(Relay \cap Powered)
      BY <1>13 DEF EnterLoop
    <3> QED
      BY <3>1, SeqMonotonic
  <2> QED
    BY <1>13, <2>1 DEF EnterLoop, Goes, Ready, RouteInv, RouteIsExclusive, vars
<1>14. CASE GiveUp
  <2>1. at = "hw_run" /\ at' = "leaving" /\ UNCHANGED <<high, drives, step>>
    BY <1>14 DEF GiveUp, HardwareGivesUp, Ready, Do, boardAndBus, boardVars
  <2> QED
    BY <2>1 DEF RouteInv, RouteIsExclusive
<1>15. CASE Loop
  <2>1. step = "loop" /\ step' = "loop" /\ at' \in {"hw_run", "leaving"} /\ high' = high
    BY <1>15 DEF Loop, SelectEngine, Ready, Do, boardVars, vars
  <2>2. drives' \in Seq(Relay)
    <3>1. CASE UNCHANGED boardVars
      BY <2>1, <3>1 DEF RouteInv, boardVars
    <3>2. ASSUME NEW engaged \in BOOLEAN, drives' = SetRelay(engaged)
          PROVE  drives' \in Seq(Relay)
      <4>1. drives' \in Seq(Relay \cap Powered)
        BY <3>2
      <4> QED
        BY <4>1, SeqMonotonic
    <3> QED
      BY <1>15, <3>1, <3>2 DEF Loop
  <2> QED
    BY <2>1, <2>2 DEF RouteInv, RouteIsExclusive
<1>16. CASE WarmResets \/ PowerCycles
  BY <1>0, <1>16 DEF RouteInv, WarmResets, PowerCycles, Forget, ResetPads
<1> QED
  BY <1>1, <1>2, <1>3, <1>4, <1>5, <1>6, <1>7, <1>8, <1>9, <1>10, <1>11, <1>12, <1>13,
     <1>14, <1>15, <1>16 DEF StartNext, StartStep

LEMMA RouteInitially == StartInit => RouteInv
BY EmptySeq DEF StartInit, BoardInit, RouteInv

\* The two halves of the relay are never high together, at no single write of
\* a register, and the processor is on the jack only inside the control loop.
THEOREM RouteStaysSafe == StartSpec => []RouteIsSafe
<1>1. RouteInv => RouteIsSafe
  BY DEF RouteInv, RouteIsSafe, RouteIsExclusive, ProcessorOnlyInLoop
<1> QED
  BY <1>1, RouteInitially, RouteStep, PTL DEF StartSpec

-----------------------------------------------------------------------------
(* The converter.                                                          *)

\* A step that leaves the outputs, the bus and the position leaves CodecInv.
LEMMA CodecUntouched ==
    ASSUME CodecInv, UNCHANGED <<boardVars, codecBusVars, step>>
    PROVE  CodecInv'
BY DEF CodecInv, boardVars, codecBusVars, busVars, codecVars, IsCodec, Answers, LinesHigh,
       FoundIsCodec, Verified

\* With the power-down high a write that is left does not reset the converter;
\* before the probe it may.
LEMMA CodecDriven ==
    ASSUME CodecInv, DriveBoard
    PROVE  CodecInv'
<1>1. drives # << >> /\ UNCHANGED <<busVars, step>>
  BY DEF DriveBoard, DriveOutputs
<1>2. transfer \in {"none", "verify", "verified"}
  BY <1>1 DEF CodecInv
<1>3. CASE transfer = "none"
  BY <1>1, <1>3 DEF CodecInv, busVars, FoundIsCodec
<1>4. CASE transfer # "none"
  <2>1. transfer \in {"verify", "verified"} /\ "pdn" \in high /\ drives \in Seq(Powered)
    BY <1>2, <1>4 DEF CodecInv
  <2>2. Head(drives) \in Powered /\ Tail(drives) \in Seq(Powered)
    BY <1>1, <2>1, HeadTailProperties
  <2>3. high' = (high \ Head(drives).clear) \cup Head(drives).set /\ drives' = Tail(drives)
    BY DEF DriveBoard, DriveOutputs
  <2>4. "pdn" \in high'
    BY <2>1, <2>2, <2>3 DEF Powered
  <2>5. UNCHANGED codecVars
    BY <2>4 DEF DriveBoard, CodecFollowsPads
  <2>6. UNCHANGED <<transfer, device, index, clean, registers, step>>
    BY <1>1, <2>5 DEF busVars, codecVars
  <2>7. IsCodec'
    BY <2>1, <2>6 DEF CodecInv, IsCodec
  <2>8. \A i \in 1 .. 3 : Verified'[i] = Verified[i]
    BY DEF Verified
  <2> QED
    BY <2>1, <2>2, <2>3, <2>4, <2>6, <2>7 DEF CodecInv, FoundIsCodec, Verified
<1> QED
  BY <1>3, <1>4

\* The next address, or the end of the probe: nothing is known of a device.
LEMMA CodecNextAddress ==
    ASSUME CodecInv, step = "probe", drives = << >>, UNCHANGED <<boardVars, step>>, NextAddress
    PROVE  CodecInv'
<1>1. transfer' \in {"missing", "idle"}
  BY DEF NextAddress
<1> QED
  BY <1>1 DEF CodecInv, FoundIsCodec, boardVars

\* The probe: what is found has sent the signature and let go of the lines.
LEMMA CodecProbed ==
    ASSUME CodecInv, ProbeCodec
    PROVE  CodecInv'
<1>1. step = "probe" /\ drives = << >> /\ UNCHANGED <<high, drives, step>>
  BY DEF ProbeCodec, Goes, boardVars
<1>2. UNCHANGED boardVars
  BY DEF ProbeCodec
<1>3. CASE StartProbe
  BY <1>1, <1>3 DEF CodecInv, StartProbe, FoundIsCodec
<1>4. CASE ProbeIdle
  <2>1. CASE transfer' = "select"
    BY <1>1, <2>1 DEF CodecInv, FoundIsCodec
  <2>2. CASE NextAddress
    BY <1>1, <1>2, <2>2, CodecNextAddress
  <2> QED
    BY <1>4, <2>1, <2>2 DEF ProbeIdle
<1>5. CASE ProbeSelect
  <2>1. UNCHANGED <<device, bus>> /\ ok' = FALSE
    BY <1>5 DEF ProbeSelect
  <2>2. \/ transfer' = "receive" /\ Answers(bus[2])
        \/ transfer' = "stop"
    BY <1>5 DEF ProbeSelect
  <2>3. Answers(bus[2]) => Answers(bus[2])'
    BY <1>1, <2>1 DEF Answers
  <2> QED
    BY <1>1, <2>1, <2>2, <2>3 DEF CodecInv, FoundIsCodec
<1>6. CASE ProbeReceive
  <2>1. transfer = "receive" /\ transfer' = "stop" /\ UNCHANGED <<device, bus>>
    BY <1>6 DEF ProbeReceive
  <2>2. Answers(bus[2])'
    BY <1>1, <2>1 DEF CodecInv, Answers
  <2>3. ok' => IsCodec' /\ ~holds'
    BY <1>6, <2>1 DEF ProbeReceive, SignatureIsRight, IsCodec
  <2> QED
    BY <1>1, <2>1, <2>2, <2>3 DEF CodecInv, FoundIsCodec
<1>7. CASE ProbeStop
  <2>1. CASE NextAddress
    BY <1>1, <1>2, <2>1, CodecNextAddress
  <2>2. CASE ~NextAddress
    <3>1. ok /\ LinesHigh /\ transfer = "stop" /\ transfer' = "found"
      BY <1>7, <2>2 DEF ProbeStop
    <3>2. UNCHANGED <<device, bus, holds>>
      BY <1>7, <2>2 DEF ProbeStop, codecVars
    <3>3. IsCodec /\ Answers(bus[2])
      BY <3>1 DEF CodecInv
    <3>4. IsCodec' /\ Answers(bus[2])' /\ LinesHigh'
      BY <1>1, <3>1, <3>2, <3>3 DEF IsCodec, Answers, LinesHigh
    <3> QED
      BY <1>1, <3>1, <3>4 DEF CodecInv, FoundIsCodec
  <2> QED
    BY <2>1, <2>2
<1> QED
  BY <1>3, <1>4, <1>5, <1>6, <1>7 DEF ProbeCodec, Probe

LEMMA CodecConfigured ==
    ASSUME CodecInv, ConfigureCodec
    PROVE  CodecInv'
<1>1. step = "configure" /\ drives = << >> /\ UNCHANGED <<high, drives, step>>
  BY DEF ConfigureCodec, Goes, boardVars
<1>2. transfer = "configure" /\ UNCHANGED <<device, bus, holds>>
  BY DEF ConfigureCodec, Configure
<1>3. \/ transfer' = "configure"
      \/ transfer' = "configured" /\ index' = 1
  BY DEF ConfigureCodec, Configure
<1>4. IsCodec /\ Answers(bus[2]) /\ LinesHigh
  BY <1>2 DEF CodecInv, FoundIsCodec
<1>5. IsCodec' /\ Answers(bus[2])' /\ LinesHigh'
  BY <1>1, <1>2, <1>4 DEF IsCodec, Answers, LinesHigh
<1> QED
  BY <1>1, <1>3, <1>5 DEF CodecInv, FoundIsCodec

\* The running state: the converter is out of reset and stays so.
LEMMA CodecActivated ==
    ASSUME CodecInv, Activate
    PROVE  CodecInv'
<1>1. transfer = "configured" /\ transfer' = "verify" /\ step' = "verify"
      /\ UNCHANGED <<high, device, index, clean>>
  BY DEF Activate, Goes
<1>2. IsCodec /\ "pdn" \in high /\ index = 1
  BY <1>1 DEF CodecInv, FoundIsCodec, IsCodec, Answers
<1>3. drives' \in Seq(Powered)
  <2>1. drives' \in Seq(Quiet \cap Powered)
    BY WritesOfTheBoard DEF Activate
  <2> QED
    BY <2>1, SeqMonotonic
<1>4. IsCodec'
  BY <1>1, <1>2 DEF IsCodec
<1> QED
  BY <1>1, <1>2, <1>3, <1>4 DEF CodecInv, FoundIsCodec

\* Nothing is written while the three registers are read back.
LEMMA CodecReadBack ==
    ASSUME CodecInv, VerifyCodec
    PROVE  CodecInv'
<1>1. step = "verify" /\ drives = << >> /\ UNCHANGED <<high, drives, step>>
  BY DEF VerifyCodec, Goes, boardVars
<1>2. transfer = "verify" /\ UNCHANGED <<device, registers>>
  BY DEF VerifyCodec, ReadBack
<1>3. IsCodec /\ "pdn" \in high /\ drives \in Seq(Powered) /\ index \in 1 .. 3
  BY <1>2 DEF CodecInv
<1>4. IsCodec'
  BY <1>2, <1>3 DEF IsCodec
<1>5. clean' => clean /\ registers[Verified[index]] = "image"
  BY DEF VerifyCodec, ReadBack, ReadsBack
<1>6. clean' => \A i \in 1 .. 3 : i <= index => registers[Verified[i]] = "image"
  BY <1>2, <1>3, <1>5 DEF CodecInv
<1>7. \/ index < 3 /\ index' = index + 1 /\ transfer' = "verify"
      \/ index = 3 /\ index' = 1 /\ transfer' = "verified"
  BY <1>2, <1>3 DEF VerifyCodec, ReadBack, Verified
<1>8. clean' => \A i \in 1 .. 3 :
        transfer' = "verified" \/ i < index' => registers'[Verified[i]] = "image"
  BY <1>2, <1>3, <1>6, <1>7
<1> QED
  BY <1>1, <1>3, <1>4, <1>7, <1>8 DEF CodecInv, FoundIsCodec, Verified

LEMMA CodecStep ==
    ASSUME CodecInv, [StartNext]_startVars
    PROVE  CodecInv'
<1>1. CASE UNCHANGED startVars
  BY <1>1, CodecUntouched DEF startVars, boardAndBus
<1>2. CASE Elsewhere \/ WriteMailbox \/ Consume \/ Enter \/ Guard \/ Settle \/ GiveUp \/ LeaveEngine
  BY <1>2, CodecUntouched DEF Elsewhere, WriteMailbox, Consume, Enter, Guard, Settle, GiveUp,
              LeaveEngine, boardAndBus
<1>3. CASE Launch
  BY <1>3, CodecUntouched DEF Launch, boardAndBus
<1>4. CASE DriveBoard
  BY <1>4, CodecDriven
<1>5. CASE PrepareBoard \/ StartAudio \/ ReleaseReset
  <2>1. step \in {"reset", "audio", "release"} /\ step' \in {"audio", "release", "probe"}
        /\ UNCHANGED codecBusVars
    BY <1>5 DEF PrepareBoard, StartAudio, ReleaseReset, Goes
  <2>2. transfer' = "none"
    BY <2>1 DEF CodecInv, codecBusVars, busVars
  <2> QED
    BY <2>1, <2>2 DEF CodecInv, FoundIsCodec
<1>6. CASE ProbeCodec
  BY <1>6, CodecProbed
<1>7. CASE FoundCodec
  <2>1. transfer = "found" /\ transfer' = "configure" /\ step' = "configure"
        /\ UNCHANGED <<high, drives, device, bus, holds>> /\ drives = << >>
    BY <1>7 DEF FoundCodec, Goes, boardVars, codecVars
  <2>2. IsCodec' /\ Answers(bus[2])' /\ LinesHigh'
    BY <2>1 DEF CodecInv, FoundIsCodec, IsCodec, Answers, LinesHigh
  <2> QED
    BY <2>1, <2>2 DEF CodecInv, FoundIsCodec
<1>8. CASE ConfigureCodec
  BY <1>8, CodecConfigured
<1>9. CASE Activate
  BY <1>9, CodecActivated
<1>10. CASE VerifyCodec
  BY <1>10, CodecReadBack
<1>11. CASE EnterLoop \/ Loop
  <2>1. transfer = "verified" /\ clean /\ UNCHANGED <<high, codecBusVars>> /\ step' = "loop"
    BY <1>11 DEF CodecInv, EnterLoop, Loop, Goes, boardVars
  <2>2. UNCHANGED <<transfer, device, index, clean, registers>>
    BY <2>1 DEF codecBusVars, busVars, codecVars
  <2>3. IsCodec' /\ "pdn" \in high'
    BY <2>1, <2>2 DEF CodecInv, IsCodec
  <2>4. drives' \in Seq(Powered)
    <3>1. CASE UNCHANGED drives
      BY <2>1, <3>1 DEF CodecInv
    <3>2. ASSUME NEW engaged \in BOOLEAN, drives' = SetRelay(engaged)
          PROVE  drives' \in Seq(Powered)
      <4>1. drives' \in Seq(Relay \cap Powered)
        BY <3>2, WritesOfTheBoard
      <4> QED
        BY <4>1, SeqMonotonic
    <3> QED
      BY <1>11, <3>1, <3>2 DEF EnterLoop, Loop, boardVars
  <2> QED
    BY <2>1, <2>2, <2>3, <2>4 DEF CodecInv, FoundIsCodec, Verified
<1>12. CASE WarmResets \/ PowerCycles
  <2>1. transfer' = "none" /\ step' = "reset"
    BY <1>12 DEF WarmResets, PowerCycles, Forget
  <2> QED
    BY <2>1 DEF CodecInv, FoundIsCodec
<1> QED
  BY <1>1, <1>2, <1>3, <1>4, <1>5, <1>6, <1>7, <1>8, <1>9, <1>10, <1>11, <1>12
     DEF StartNext, StartStep

LEMMA CodecInitially == StartInit => CodecInv
BY DEF StartInit, CodecInit, CodecInv, FoundIsCodec

\* The bus that the probe ends at is the converter's, at its address, and its
\* lines are free - whatever is on the other pads, and though a reset may have
\* left the converter in the middle of a byte.
THEOREM FoundCodecIsGenuine == StartSpec => []FoundIsCodec
<1>1. CodecInv => FoundIsCodec
  BY DEF CodecInv
<1> QED
  BY <1>1, CodecInitially, CodecStep, PTL DEF StartSpec

\* The control loop runs with a converter that is out of its reset and whose
\* three registers hold the image.
THEOREM LoopRunsWithCodec == StartSpec => []LoopHasCodec
<1>1. CodecInv => LoopHasCodec
  BY DEF CodecInv, LoopHasCodec, Verified
<1> QED
  BY <1>1, CodecInitially, CodecStep, PTL DEF StartSpec

-----------------------------------------------------------------------------
(* What is left of an operation's writes.                                  *)

IsSequence(w) == w \in Seq({w[i] : i \in DOMAIN w})

\* The writes w leave the register r alone or write v to it.
Spares(w, r, v) == \A i \in DOMAIN w : w[i][1] = r => w[i][2] = v

\* And one of them writes it.
Gives(w, r, v) == Spares(w, r, v) /\ \E i \in DOMAIN w : w[i][1] = r

LEMMA TypedIsSequence ==
    ASSUME NEW S, NEW w \in Seq(S)
    PROVE  IsSequence(w)
<1>1. w \in [1 .. Len(w) -> S] /\ DOMAIN w = 1 .. Len(w) /\ Len(w) \in Nat
  BY LenProperties
<1> QED
  BY <1>1 DEF IsSequence

\* The elements of a concatenation are those of its parts.
LEMMA ConcatElements ==
    ASSUME NEW S, NEW v \in Seq(S), NEW w \in Seq(S)
    PROVE  /\ v \o w \in Seq(S)
           /\ \A i \in DOMAIN (v \o w) : \/ \E j \in DOMAIN v : (v \o w)[i] = v[j]
                                         \/ \E j \in DOMAIN w : (v \o w)[i] = w[j]
           /\ \A i \in DOMAIN v : i \in DOMAIN (v \o w) /\ (v \o w)[i] = v[i]
<1> DEFINE c == v \o w
<1>1. /\ Len(v) \in Nat /\ DOMAIN v = 1 .. Len(v)
      /\ Len(w) \in Nat /\ DOMAIN w = 1 .. Len(w)
  BY LenProperties
<1>2. /\ c \in Seq(S) /\ Len(c) = Len(v) + Len(w)
      /\ \A i \in 1 .. Len(v) + Len(w) :
           c[i] = IF i <= Len(v) THEN v[i] ELSE w[i - Len(v)]
  BY ConcatProperties
<1>3. DOMAIN c = 1 .. Len(v) + Len(w)
  BY <1>2, LenProperties
<1> HIDE DEF c
<1>4. \A i \in DOMAIN c : i > Len(v) => i - Len(v) \in DOMAIN w
  BY <1>1, <1>3
<1>5. \A i \in DOMAIN c : ~(i > Len(v)) => i \in DOMAIN v
  BY <1>1, <1>3
<1>6. \A i \in DOMAIN v : i \in DOMAIN c /\ c[i] = v[i]
  BY <1>1, <1>2, <1>3
<1>7. \A i \in DOMAIN c : \/ \E j \in DOMAIN v : c[i] = v[j]
                          \/ \E j \in DOMAIN w : c[i] = w[j]
  <2> TAKE i \in DOMAIN c
  <2>1. CASE i > Len(v)
    BY <1>1, <1>2, <1>3, <1>4, <2>1
  <2>2. CASE ~(i > Len(v))
    BY <1>1, <1>2, <1>3, <1>5, <2>2
  <2> QED
    BY <2>1, <2>2
<1> QED
  BY <1>2, <1>6, <1>7 DEF c

\* What the operations write, register by register.
LEMMA ClearTrialWrites ==
    ASSUME NEW g
    PROVE  /\ IsSequence(ClearTrial(g)) /\ Gives(ClearTrial(g), "token", Zero)
           /\ \A r \in {"magic", "inverse"}, v \in BOOLEAN : Spares(ClearTrial(g), r, v)
<1>1. ClearTrial(g) \in Seq({<<"token", Zero>>, <<"token_inverse", Zero>>,
                             <<"sequence", 0>>, <<"sequence_inverse", 0>>})
  BY DEF ClearTrial
<1>2. IsSequence(ClearTrial(g))
  BY <1>1, TypedIsSequence
<1>3. /\ DOMAIN ClearTrial(g) = {1, 2, 3, 4}
      /\ ClearTrial(g)[1][1] = "token" /\ ClearTrial(g)[1][2] = Zero
      /\ ClearTrial(g)[2][1] = "token_inverse" /\ ClearTrial(g)[3][1] = "sequence"
      /\ ClearTrial(g)[4][1] = "sequence_inverse"
  BY DEF ClearTrial
<1>4. \A i \in DOMAIN ClearTrial(g) : ClearTrial(g)[i][1] \notin {"magic", "inverse"}
  BY <1>3
<1>5. Gives(ClearTrial(g), "token", Zero)
  BY <1>3 DEF Gives, Spares
<1> QED
  BY <1>2, <1>4, <1>5, Zenon DEF Spares

LEMMA ArmTrialWrites ==
    ASSUME NEW s
    PROVE  /\ IsSequence(ArmTrial(s))
           /\ \A r \in {"magic", "inverse"}, v \in BOOLEAN : Spares(ArmTrial(s), r, v)
<1>1. ArmTrial(s) \in Seq({<<"token", Zero>>, <<"token_inverse", ConfirmToken(s)>>,
                           <<"token", ConfirmToken(s)>>})
  BY DEF ArmTrial
<1>2. IsSequence(ArmTrial(s))
  BY <1>1, TypedIsSequence
<1>3. /\ DOMAIN ArmTrial(s) = {1, 2, 3}
      /\ ArmTrial(s)[1][1] = "token" /\ ArmTrial(s)[2][1] = "token_inverse"
      /\ ArmTrial(s)[3][1] = "token"
  BY DEF ArmTrial
<1>4. \A i \in DOMAIN ArmTrial(s) : ArmTrial(s)[i][1] \notin {"magic", "inverse"}
  BY <1>3
<1> QED
  BY <1>2, <1>4, Zenon DEF Spares

LEMMA ArmRecoveryWrites ==
    /\ IsSequence(ArmRecovery) /\ Spares(ArmRecovery, "token", Zero)
    /\ Gives(ArmRecovery, "magic", TRUE) /\ Gives(ArmRecovery, "inverse", TRUE)
<1>1. ArmRecovery \in Seq({<<"inverse", TRUE>>, <<"magic", TRUE>>})
  BY DEF ArmRecovery
<1>2. IsSequence(ArmRecovery)
  BY <1>1, TypedIsSequence
<1>3. /\ DOMAIN ArmRecovery = {1, 2}
      /\ ArmRecovery[1][1] = "inverse" /\ ArmRecovery[2][1] = "magic"
  BY DEF ArmRecovery
<1>4. ArmRecovery[1][2] = TRUE /\ ArmRecovery[2][2] = TRUE
  BY DEF ArmRecovery
<1>5. \A i \in DOMAIN ArmRecovery : ArmRecovery[i][2] = TRUE /\ ArmRecovery[i][1] # "token"
  BY <1>3, <1>4
<1> QED
  BY <1>2, <1>3, <1>5 DEF Gives, Spares

LEMMA ClearRecoveryWrites ==
    /\ IsSequence(ClearRecovery) /\ Spares(ClearRecovery, "token", Zero)
    /\ Gives(ClearRecovery, "magic", FALSE)
<1>1. ClearRecovery \in Seq({<<"magic", FALSE>>, <<"inverse", FALSE>>})
  BY DEF ClearRecovery
<1>2. IsSequence(ClearRecovery)
  BY <1>1, TypedIsSequence
<1>3. /\ DOMAIN ClearRecovery = {1, 2}
      /\ ClearRecovery[1][1] = "magic" /\ ClearRecovery[2][1] = "inverse"
  BY DEF ClearRecovery
<1>4. ClearRecovery[1][2] = FALSE /\ ClearRecovery[2][2] = FALSE
  BY DEF ClearRecovery
<1>5. \A i \in DOMAIN ClearRecovery : ClearRecovery[i][2] = FALSE /\ ClearRecovery[i][1] # "token"
  BY <1>3, <1>4
<1> QED
  BY <1>2, <1>3, <1>5 DEF Gives, Spares

LEMMA EngineWrites ==
    ASSUME NEW e
    PROVE  /\ IsSequence(<<<<"engine", e>>>>) /\ Gives(<<<<"engine", e>>>>, "engine", e)
           /\ Spares(<<<<"engine", e>>>>, "magic", FALSE)
<1>1. <<<<"engine", e>>>> \in Seq({<<"engine", e>>})
  OBVIOUS
<1>2. IsSequence(<<<<"engine", e>>>>)
  BY <1>1, TypedIsSequence
<1> DEFINE w == <<<<"engine", e>>>>
<1>3. DOMAIN w = {1} /\ w[1][1] = "engine" /\ w[1][2] = e
  OBVIOUS
<1> HIDE DEF w
<1>4. Gives(w, "engine", e) /\ Spares(w, "magic", FALSE)
  BY <1>3 DEF Gives, Spares
<1> QED
  BY <1>2, <1>4 DEF w

LEMMA SelectWrites ==
    ASSUME NEW e
    PROVE  /\ IsSequence(ClearRecovery \o <<<<"engine", e>>>>)
           /\ Gives(ClearRecovery \o <<<<"engine", e>>>>, "magic", FALSE)
<1> DEFINE S == {<<"magic", FALSE>>, <<"inverse", FALSE>>, <<"engine", e>>}
           w == ClearRecovery \o <<<<"engine", e>>>>
<1>1. ClearRecovery \in Seq(S) /\ <<<<"engine", e>>>> \in Seq(S)
  BY DEF ClearRecovery
<1>2. /\ \A i \in DOMAIN w : w[i] \in S
      /\ 1 \in DOMAIN w /\ w[1] = <<"magic", FALSE>>
      /\ w \in Seq(S)
  <2>1. /\ \A i \in DOMAIN ClearRecovery : ClearRecovery[i] \in S
        /\ \A i \in DOMAIN <<<<"engine", e>>>> : <<<<"engine", e>>>>[i] \in S
        /\ 1 \in DOMAIN ClearRecovery /\ ClearRecovery[1] = <<"magic", FALSE>>
    <3>1. DOMAIN ClearRecovery = {1, 2}
      BY DEF ClearRecovery
    <3>2. ClearRecovery[1] = <<"magic", FALSE>> /\ ClearRecovery[2] = <<"inverse", FALSE>>
      BY DEF ClearRecovery
    <3>3. DOMAIN <<<<"engine", e>>>> = {1} /\ <<<<"engine", e>>>>[1] = <<"engine", e>>
      OBVIOUS
    <3> QED
      BY <3>1, <3>2, <3>3
  <2> HIDE DEF S
  <2>2. /\ w \in Seq(S)
        /\ \A i \in DOMAIN w : \/ \E j \in DOMAIN ClearRecovery : w[i] = ClearRecovery[j]
                               \/ \E j \in DOMAIN <<<<"engine", e>>>> : w[i] = <<<<"engine", e>>>>[j]
        /\ \A i \in DOMAIN ClearRecovery : i \in DOMAIN w /\ w[i] = ClearRecovery[i]
    BY <1>1, ConcatElements
  <2> HIDE DEF w
  <2> QED
    BY <2>1, <2>2
<1>3. IsSequence(w)
  BY <1>2, TypedIsSequence
<1>4. Gives(w, "magic", FALSE)
  <2>1. \A x \in S : x[1] = "magic" => x[2] = FALSE
    <3>1. \A x \in S : x = <<"magic", FALSE>> \/ x = <<"inverse", FALSE>> \/ x = <<"engine", e>>
      BY Zenon
    <3>2. <<"magic", FALSE>>[2] = FALSE /\ <<"inverse", FALSE>>[1] # "magic"
          /\ <<"engine", e>>[1] # "magic"
      OBVIOUS
    <3> HIDE DEF S
    <3> QED
      BY <3>1, <3>2, Zenon
  <2>2. w[1][1] = "magic"
    BY <1>2
  <2> HIDE DEF w, S
  <2> QED
    BY <1>2, <2>1, <2>2, Zenon DEF Gives, Spares
<1> QED
  BY <1>3, <1>4

\* A handoff writes the registers of the trial only.
LEMMA PublishedWrites ==
    ASSUME NEW s, NEW n
    PROVE  /\ IsSequence(PublishTrial(s, n))
           /\ Spares(PublishTrial(s, n), "magic", FALSE)
<1> DEFINE a == ClearTrial(gpr)
           b == <<<<"sequence_inverse", Complement(n)>>, <<"sequence", n>>,
                  <<"token_inverse", HandoffToken(s)>>, <<"token", HandoffToken(s)>>>>
           S == {<<"token", Zero>>, <<"token_inverse", Zero>>, <<"sequence", 0>>,
                 <<"sequence_inverse", 0>>, <<"sequence_inverse", Complement(n)>>, <<"sequence", n>>,
                 <<"token_inverse", HandoffToken(s)>>, <<"token", HandoffToken(s)>>}
           w == PublishTrial(s, n)
<1>1. a \in Seq(S) /\ b \in Seq(S)
  BY DEF ClearTrial
<1>2. (\A i \in DOMAIN a : a[i] \in S) /\ (\A i \in DOMAIN b : b[i] \in S)
  BY DEF ClearTrial
<1>3. w = a \o b
  BY DEF PublishTrial
<1>4. w \in Seq(S) /\ \A i \in DOMAIN w : w[i] \in S
  <2> HIDE DEF a, b, S, w
  <2> QED
    BY <1>1, <1>2, <1>3, ConcatElements
<1>5. \A i \in DOMAIN w : w[i][1] # "magic"
  <2> HIDE DEF w
  <2> QED
    BY <1>4
<1>6. IsSequence(w)
  BY <1>4, TypedIsSequence
<1> QED
  BY <1>5, <1>6 DEF Spares

-----------------------------------------------------------------------------
(* What the registers will hold.                                           *)

\* A write keeps what is still to come of a register, and what has come.
LEMMA WrittenWillBe ==
    ASSUME NEW r, r \in DOMAIN gpr, NEW v, IsSequence(todo), WriteRegister, WillBe(r, v)
    PROVE  WillBe(r, v)'
<1> DEFINE T == {todo[i] : i \in DOMAIN todo}
<1>1. todo \in Seq(T) /\ todo # << >> /\ todo' = Tail(todo)
  BY DEF IsSequence, WriteRegister
<1> HIDE DEF T
<1>2. DOMAIN todo = 1 .. Len(todo) /\ Len(todo) \in Nat \ {0}
  BY <1>1, LenProperties, EmptySeq
<1>3. /\ todo' \in Seq(T) /\ Len(todo') = Len(todo) - 1
      /\ \A i \in 1 .. Len(todo') : todo'[i] = todo[i + 1]
  BY <1>1, HeadTailProperties
<1>4. DOMAIN todo' = 1 .. Len(todo) - 1
  BY <1>3, LenProperties
<1>5. \A i \in DOMAIN todo' : i + 1 \in DOMAIN todo /\ todo'[i] = todo[i + 1]
  BY <1>2, <1>3, <1>4
<1>6. Head(todo) = todo[1] /\ 1 \in DOMAIN todo
  BY <1>2
<1>7. gpr'[r] = IF todo[1][1] = r THEN todo[1][2] ELSE gpr[r]
  BY <1>6 DEF WriteRegister
<1>8. \A i \in DOMAIN todo' : todo'[i][1] = r => todo'[i][2] = v
  BY <1>5 DEF WillBe
<1>9. CASE todo[1][1] = r
  <2>1. gpr'[r] = v
    BY <1>6, <1>7, <1>9 DEF WillBe
  <2> QED
    BY <1>8, <2>1 DEF WillBe
<1>10. CASE todo[1][1] # r
  <2>1. CASE gpr[r] = v
    BY <1>7, <1>8, <1>10, <2>1 DEF WillBe
  <2>2. CASE gpr[r] # v
    <3>1. PICK i \in DOMAIN todo : todo[i][1] = r
      BY <2>2 DEF WillBe
    <3>2. i # 1
      BY <1>10, <3>1
    <3>3. i - 1 \in DOMAIN todo' /\ todo'[i - 1] = todo[i]
      BY <1>2, <1>3, <1>4, <3>1, <3>2
    <3> QED
      BY <1>8, <3>1, <3>3 DEF WillBe
  <2> QED
    BY <2>1, <2>2
<1> QED
  BY <1>9, <1>10

\* A new operation: the registers it spares and those it gives a value.
LEMMA BegunWillBe ==
    ASSUME NEW r, NEW v, UNCHANGED gpr
    PROVE  /\ Gives(todo', r, v) => WillBe(r, v)'
           /\ todo = << >> /\ WillBe(r, v) /\ Spares(todo', r, v) => WillBe(r, v)'
<1>1. ASSUME Gives(todo', r, v) PROVE WillBe(r, v)'
  BY <1>1 DEF Gives, Spares, WillBe
<1>2. ASSUME todo = << >>, WillBe(r, v), Spares(todo', r, v) PROVE WillBe(r, v)'
  <2>1. DOMAIN todo = {}
    BY <1>2
  <2>2. gpr[r] = v
    BY <1>2, <2>1 DEF WillBe
  <2> QED
    BY <1>2, <2>2 DEF Spares, WillBe
<1> QED
  BY <1>1, <1>2

\* With nothing left to write the register holds it.
LEMMA WillBeIs ==
    ASSUME NEW r, NEW v, todo = << >>, WillBe(r, v)
    PROVE  gpr[r] = v
<1>1. DOMAIN todo = {}
  OBVIOUS
<1> QED
  BY <1>1 DEF WillBe

LEMMA MailUntouched ==
    ASSUME MailInv, UNCHANGED <<gpr, todo, at>>
    PROVE  MailInv'
BY DEF MailInv, WillBe, RecoveryAsked, Blank

\* The next write of whoever is writing.
LEMMA MailWritten ==
    ASSUME MailInv, WriteRegister
    PROVE  MailInv'
<1> USE DEF IsSequence
<1>1. IsSequence(todo) /\ UNCHANGED at /\ DOMAIN gpr = DOMAIN Blank
  BY DEF MailInv, WriteRegister
<1>2. DOMAIN gpr' = DOMAIN Blank
  BY <1>1 DEF WriteRegister
<1>3. {"token", "magic", "inverse", "engine"} \subseteq DOMAIN gpr
  BY <1>1 DEF Blank
<1>4. IsSequence(todo')
  <2>1. todo \in Seq({todo[i] : i \in DOMAIN todo}) /\ todo # << >> /\ todo' = Tail(todo)
    BY <1>1 DEF WriteRegister
  <2>2. todo' \in Seq({todo[i] : i \in DOMAIN todo})
    BY <2>1, HeadTailProperties
  <2> QED
    BY <2>2, TypedIsSequence
<1>5. /\ WillBe("token", Zero) => WillBe("token", Zero)'
      /\ WillBe("magic", FALSE) => WillBe("magic", FALSE)'
      /\ WillBe("magic", TRUE) => WillBe("magic", TRUE)'
      /\ WillBe("inverse", TRUE) => WillBe("inverse", TRUE)'
      /\ WillBe("engine", NoToken) => WillBe("engine", NoToken)'
  BY <1>1, <1>3, WrittenWillBe
<1>6. WillBe("magic", TRUE) /\ WillBe("inverse", TRUE) /\ RecoveryAsked(gpr) => RecoveryAsked(gpr')
  <2> SUFFICES ASSUME WillBe("magic", TRUE), WillBe("inverse", TRUE), gpr.magic, gpr.inverse
               PROVE  gpr'.magic /\ gpr'.inverse
    BY DEF RecoveryAsked
  <2>1. gpr' = [gpr EXCEPT ![todo[1][1]] = todo[1][2]] /\ 1 \in DOMAIN todo
    <3>1. todo \in Seq({todo[i] : i \in DOMAIN todo}) /\ todo # << >>
      BY <1>1 DEF WriteRegister
    <3>2. DOMAIN todo = 1 .. Len(todo) /\ Len(todo) \in Nat \ {0}
      BY <3>1, LenProperties, EmptySeq
    <3>3. Head(todo) = todo[1] /\ 1 \in DOMAIN todo
      BY <3>2
    <3> QED
      BY <3>3 DEF WriteRegister
  <2>2. gpr'["magic"] = IF todo[1][1] = "magic" THEN todo[1][2] ELSE gpr["magic"]
    BY <1>3, <2>1
  <2>3. gpr'["inverse"] = IF todo[1][1] = "inverse" THEN todo[1][2] ELSE gpr["inverse"]
    BY <1>3, <2>1
  <2>4. /\ todo[1][1] = "magic" => todo[1][2] = TRUE
        /\ todo[1][1] = "inverse" => todo[1][2] = TRUE
    BY <2>1 DEF WillBe
  <2> QED
    BY <2>2, <2>3, <2>4
<1> QED
  BY <1>1, <1>2, <1>4, <1>5, <1>6 DEF MailInv

-----------------------------------------------------------------------------
(* The mailboxes: one lemma for the bootloader, one for the applications,  *)
(* one for hardware_app.                                                   *)

LEMMA MailBootloader ==
    ASSUME MailInv,
           \/ ConsumeConfirmation \/ ConsumeRecoveryRequest
           \/ (\E s \in Slots, n \in SeqNums : HandOffTrial(s, n)) \/ HandOffConfirmed
           \/ (\E app \in {"app", "hw_start"} : Jump(app))
    PROVE  MailInv'
<1>1. CASE ConsumeConfirmation
  <2>1. at' = "recovery_check" /\ gpr' = gpr /\ todo' = ClearTrial(gpr)
    BY <1>1 DEF ConsumeConfirmation, Do
  <2>2. IsSequence(todo') /\ Gives(todo', "token", Zero)
    BY <2>1, ClearTrialWrites
  <2>3. WillBe("token", Zero)'
    BY <2>1, <2>2, BegunWillBe
  <2> QED
    BY <2>1, <2>2, <2>3 DEF MailInv, IsSequence
<1>2. CASE ConsumeRecoveryRequest
  <2>1. at = "recovery_check" /\ at' \in {"recovery", "hand_off"}
        /\ gpr' = gpr /\ todo = << >> /\ todo' = ClearRecovery
    BY <1>2 DEF ConsumeRecoveryRequest, Do, Ready
  <2>2. IsSequence(todo') /\ Gives(todo', "magic", FALSE) /\ Spares(todo', "token", Zero)
    BY <2>1, ClearRecoveryWrites
  <2>3. WillBe("token", Zero)
    BY <2>1 DEF MailInv
  <2>4. WillBe("token", Zero)' /\ WillBe("magic", FALSE)'
    BY <2>1, <2>2, <2>3, BegunWillBe
  <2> QED
    BY <2>1, <2>2, <2>4 DEF MailInv, IsSequence
<1>3. ASSUME NEW s \in Slots, NEW n \in SeqNums, HandOffTrial(s, n) PROVE MailInv'
  <2>1. at = "hand_off" /\ at' = "jump" /\ gpr' = gpr /\ todo = << >> /\ todo' = PublishTrial(s, n)
    BY <1>3 DEF HandOffTrial, Do, Ready
  <2>2. IsSequence(todo') /\ Spares(todo', "magic", FALSE)
    BY <2>1, PublishedWrites
  <2>3. WillBe("magic", FALSE)
    BY <2>1 DEF MailInv
  <2>4. WillBe("magic", FALSE)'
    BY <2>1, <2>2, <2>3, BegunWillBe
  <2> QED
    BY <2>1, <2>2, <2>4 DEF MailInv, IsSequence
<1>4. CASE HandOffConfirmed
  <2>1. at = "hand_off" /\ at' = "jump" /\ gpr' = gpr /\ todo = << >> /\ todo' = ClearTrial(gpr)
    BY <1>4 DEF HandOffConfirmed, Do, Ready
  <2>2. IsSequence(todo') /\ Spares(todo', "magic", FALSE)
    BY <2>1, ClearTrialWrites
  <2>3. WillBe("magic", FALSE)
    BY <2>1 DEF MailInv
  <2>4. WillBe("magic", FALSE)'
    BY <2>1, <2>2, <2>3, BegunWillBe
  <2> QED
    BY <2>1, <2>2, <2>4 DEF MailInv, IsSequence
<1>5. ASSUME NEW app \in {"app", "hw_start"}, Jump(app) PROVE MailInv'
  <2>1. at = "jump" /\ at' = app /\ UNCHANGED <<gpr, todo>>
    BY <1>5 DEF Jump, Do, Ready
  <2>2. WillBe("magic", FALSE)'
    BY <2>1 DEF MailInv, WillBe
  <2> QED
    BY <2>1, <2>2 DEF MailInv
<1> QED
  BY <1>1, <1>2, <1>3, <1>4, <1>5

LEMMA MailApplications ==
    ASSUME MailInv, AppConfirms \/ AppAsksForRecovery
    PROVE  MailInv'
<1>1. CASE AppConfirms
  <2>1. at = "app" /\ gpr' = gpr /\ todo = << >>
    BY <1>1 DEF AppConfirms, ArmConfirmation, Do, Ready
  <2>2. WillBe("magic", FALSE)
    BY <2>1 DEF MailInv
  <2>3. CASE at' = "leaving" /\ \E s \in Slots : todo' = ArmTrial(s)
    <3>1. IsSequence(todo') /\ Spares(todo', "magic", FALSE)
      BY <2>3, ArmTrialWrites
    <3>2. WillBe("magic", FALSE)'
      BY <2>1, <2>2, <3>1, BegunWillBe
    <3> QED
      BY <2>1, <2>3, <3>1, <3>2 DEF MailInv, IsSequence
  <2>4. CASE at' = "running" /\ todo' = ClearTrial(gpr)
    <3>1. IsSequence(todo') /\ Spares(todo', "magic", FALSE) /\ Gives(todo', "token", Zero)
      BY <2>4, ClearTrialWrites
    <3>2. WillBe("magic", FALSE)' /\ WillBe("token", Zero)'
      BY <2>1, <2>2, <3>1, BegunWillBe
    <3> QED
      BY <2>1, <2>4, <3>1, <3>2 DEF MailInv, IsSequence
  <2> QED
    BY <1>1, <2>3, <2>4 DEF AppConfirms, ArmConfirmation, Do
<1>2. CASE AppAsksForRecovery
  <2>1. at = "running" /\ at' = "leaving" /\ gpr' = gpr /\ todo = << >> /\ todo' = ArmRecovery
    BY <1>2 DEF AppAsksForRecovery, Do, Ready
  <2>2. IsSequence(todo') /\ Spares(todo', "token", Zero)
    BY <2>1, ArmRecoveryWrites
  <2>3. WillBe("token", Zero)
    BY <2>1 DEF MailInv
  <2>4. WillBe("token", Zero)'
    BY <2>1, <2>2, <2>3, BegunWillBe
  <2> QED
    BY <2>1, <2>2, <2>4 DEF MailInv, IsSequence
<1> QED
  BY <1>1, <1>2

\* The engine request is cleared before it is acted on.
LEMMA MailEngine ==
    ASSUME MailInv,
           HardwareConsumesEngineRequest \/ LaunchEngine \/ \E e \in Engines : EngineSelects(e)
    PROVE  MailInv'
<1>1. CASE HardwareConsumesEngineRequest
  <2>1. at = "hw_start" /\ at' = "hw_guard" /\ gpr' = gpr /\ todo = << >>
        /\ todo' = <<<<"engine", NoToken>>>>
    BY <1>1 DEF HardwareConsumesEngineRequest, Do, Ready
  <2>2. IsSequence(todo') /\ Gives(todo', "engine", NoToken) /\ Spares(todo', "magic", FALSE)
    BY <2>1, EngineWrites
  <2>3. WillBe("magic", FALSE)
    BY <2>1 DEF MailInv
  <2>4. WillBe("magic", FALSE)' /\ WillBe("engine", NoToken)'
    BY <2>1, <2>2, <2>3, BegunWillBe
  <2> QED
    BY <2>1, <2>2, <2>4 DEF MailInv, IsSequence
<1>2. CASE LaunchEngine
  <2>1. at = "hw_guard" /\ at' = "engine" /\ UNCHANGED <<gpr, todo>>
    BY <1>2 DEF LaunchEngine, Do, Ready
  <2>2. WillBe("magic", FALSE)' /\ WillBe("engine", NoToken)'
    BY <2>1 DEF MailInv, WillBe
  <2> QED
    BY <2>1, <2>2 DEF MailInv
<1>3. ASSUME NEW e \in Engines, EngineSelects(e) PROVE MailInv'
  <2>1. at = "engine" /\ at' = "leaving" /\ gpr' = gpr /\ todo = << >> /\ todo' = <<<<"engine", e>>>>
    BY <1>3 DEF EngineSelects, Do, Ready
  <2>2. IsSequence(todo') /\ Spares(todo', "magic", FALSE)
    BY <2>1, EngineWrites
  <2>3. WillBe("magic", FALSE)
    BY <2>1 DEF MailInv
  <2>4. WillBe("magic", FALSE)'
    BY <2>1, <2>2, <2>3, BegunWillBe
  <2> QED
    BY <2>1, <2>2, <2>4 DEF MailInv, IsSequence
<1> QED
  BY <1>1, <1>2, <1>3

\* From the armed request to the reset that confirms or gives up.
LEMMA MailHardware ==
    ASSUME MailInv,
           \/ HardwareArmsRecovery \/ HardwareConfirms \/ HardwareClearsRecovery
           \/ HardwareGivesUp \/ \E e \in Engines : SelectEngine(e)
    PROVE  MailInv'
<1>1. CASE HardwareArmsRecovery
  <2>1. at' = "hw_trial" /\ gpr' = gpr /\ todo' = ArmRecovery
    BY <1>1 DEF HardwareArmsRecovery, Do
  <2>2. IsSequence(todo') /\ Gives(todo', "magic", TRUE) /\ Gives(todo', "inverse", TRUE)
    BY <2>1, ArmRecoveryWrites
  <2>3. WillBe("magic", TRUE)' /\ WillBe("inverse", TRUE)'
    BY <2>1, <2>2, BegunWillBe
  <2> QED
    BY <2>1, <2>2, <2>3 DEF MailInv, IsSequence
<1>2. CASE HardwareConfirms
  <2>1. at = "hw_trial" /\ gpr' = gpr /\ todo = << >>
    BY <1>2 DEF HardwareConfirms, ArmConfirmation, Do, Ready
  <2>2. WillBe("magic", TRUE) /\ WillBe("inverse", TRUE)
    BY <2>1 DEF MailInv
  <2>3. gpr["magic"] = TRUE /\ gpr["inverse"] = TRUE
    BY <2>1, <2>2, WillBeIs
  <2>4. RecoveryAsked(gpr')
    BY <2>1, <2>3 DEF RecoveryAsked
  <2>5. CASE at' = "hw_clear" /\ \E s \in Slots : todo' = ArmTrial(s)
    <3>1. IsSequence(todo') /\ Spares(todo', "magic", TRUE) /\ Spares(todo', "inverse", TRUE)
      BY <2>5, ArmTrialWrites
    <3>2. WillBe("magic", TRUE)' /\ WillBe("inverse", TRUE)'
      BY <2>1, <2>2, <3>1, BegunWillBe
    <3> QED
      BY <2>1, <2>4, <2>5, <3>1, <3>2 DEF MailInv, IsSequence
  <2>6. CASE at' = "hw_run" /\ todo' = ClearTrial(gpr)
    <3>1. IsSequence(todo') /\ Spares(todo', "magic", TRUE) /\ Spares(todo', "inverse", TRUE)
          /\ Gives(todo', "token", Zero)
      BY <2>6, ClearTrialWrites
    <3>2. WillBe("magic", TRUE)' /\ WillBe("inverse", TRUE)' /\ WillBe("token", Zero)'
      BY <2>1, <2>2, <3>1, BegunWillBe
    <3> QED
      BY <2>1, <2>4, <2>6, <3>1, <3>2 DEF MailInv, IsSequence
  <2> QED
    BY <1>2, <2>5, <2>6 DEF HardwareConfirms, ArmConfirmation, Do
<1>3. CASE HardwareClearsRecovery
  <2>1. at' = "leaving" /\ gpr' = gpr /\ todo' = ClearRecovery
    BY <1>3 DEF HardwareClearsRecovery, Do
  <2>2. IsSequence(todo') /\ Gives(todo', "magic", FALSE)
    BY <2>1, ClearRecoveryWrites
  <2>3. WillBe("magic", FALSE)'
    BY <2>1, <2>2, BegunWillBe
  <2> QED
    BY <2>1, <2>2, <2>3 DEF MailInv, IsSequence
<1>4. CASE HardwareGivesUp
  <2>1. at = "hw_run" /\ at' = "leaving" /\ gpr' = gpr /\ todo = << >> /\ todo' = ArmRecovery
    BY <1>4 DEF HardwareGivesUp, Do, Ready
  <2>2. IsSequence(todo') /\ Spares(todo', "token", Zero)
    BY <2>1, ArmRecoveryWrites
  <2>3. WillBe("token", Zero)
    BY <2>1 DEF MailInv
  <2>4. WillBe("token", Zero)'
    BY <2>1, <2>2, <2>3, BegunWillBe
  <2> QED
    BY <2>1, <2>2, <2>4 DEF MailInv, IsSequence
<1>5. ASSUME NEW e \in Engines, SelectEngine(e) PROVE MailInv'
  <2>1. at' = "leaving" /\ gpr' = gpr /\ todo' = ClearRecovery \o <<<<"engine", e>>>>
    BY <1>5 DEF SelectEngine, Do
  <2>2. IsSequence(todo') /\ Gives(todo', "magic", FALSE)
    BY <2>1, SelectWrites
  <2>3. WillBe("magic", FALSE)'
    BY <2>1, <2>2, BegunWillBe
  <2> QED
    BY <2>1, <2>2, <2>3 DEF MailInv, IsSequence
<1> QED
  BY <1>1, <1>2, <1>3, <1>4, <1>5

LEMMA MailStep ==
    ASSUME MailInv, [StartNext]_startVars
    PROVE  MailInv'
<1>1. CASE UNCHANGED startVars
  BY <1>1, MailUntouched DEF startVars, vars
<1>2. CASE Elsewhere
  BY <1>2, MailBootloader, MailApplications DEF Elsewhere
<1>3. CASE WriteMailbox
  BY <1>3, MailWritten DEF WriteMailbox
<1>4. CASE Consume \/ Enter \/ LeaveEngine
  BY <1>4, MailEngine DEF Consume, Enter, LeaveEngine
<1>5. CASE Guard \/ Settle \/ GiveUp
  BY <1>5, MailHardware DEF Guard, Settle, GiveUp
<1>6. CASE Launch \/ DriveBoard \/ PrepareBoard \/ StartAudio \/ ReleaseReset \/ ProbeCodec
           \/ FoundCodec \/ ConfigureCodec \/ Activate \/ VerifyCodec \/ EnterLoop
  BY <1>6, MailUntouched DEF Launch, DriveBoard, PrepareBoard, StartAudio, ReleaseReset,
              ProbeCodec, FoundCodec, ConfigureCodec, Activate, VerifyCodec, EnterLoop, vars
<1>7. CASE Loop
  <2>1. UNCHANGED vars \/ \E e \in Engines : SelectEngine(e)
    BY <1>7 DEF Loop
  <2>2. UNCHANGED vars => UNCHANGED <<gpr, todo, at>>
    BY DEF vars
  <2> QED
    BY <2>1, <2>2, MailUntouched, MailHardware
<1>8. CASE WarmResets \/ PowerCycles
  <2>1. at' = "boot" /\ todo' = << >> /\ (gpr' = gpr \/ gpr' = Blank)
    BY <1>8 DEF WarmResets, PowerCycles, WarmReset, PowerCycle, Restart
  <2>2. IsSequence(todo')
    BY <2>1, EmptySeq, TypedIsSequence
  <2> QED
    BY <2>1, <2>2 DEF MailInv, IsSequence
<1> QED
  BY <1>1, <1>2, <1>3, <1>4, <1>5, <1>6, <1>7, <1>8 DEF StartNext, StartStep

LEMMA MailInitially == StartInit => MailInv
<1> SUFFICES ASSUME StartInit PROVE MailInv
  OBVIOUS
<1>1. at = "boot" /\ todo = << >> /\ gpr = Blank
  BY DEF StartInit, Init
<1>2. IsSequence(todo)
  BY <1>1, EmptySeq, TypedIsSequence
<1> QED
  BY <1>1, <1>2 DEF MailInv, IsSequence

\* Tokens name their kind and slot.
LEMMA TokensDiffer ==
    ASSUME NEW s, NEW t
    PROVE  /\ HandoffToken(s) # Zero /\ ConfirmToken(s) # Zero
           /\ HandoffToken(s) # ConfirmToken(t)
           /\ HandoffToken(s) = HandoffToken(t) => s = t
           /\ ConfirmToken(s) = ConfirmToken(t) => s = t
BY DEF HandoffToken, ConfirmToken, Zero

\* What a reader of the registers g accepts.
ContentOf(g) ==
    LET token(kind, s) == [kind |-> kind, trial |-> <<s, g.sequence>>]
    IN  IF \E s \in Slots : HoldsHandoff(g, s)
        THEN token("handoff", CHOOSE s \in Slots : HoldsHandoff(g, s))
        ELSE IF \E s \in Slots : HoldsConfirm(g, s)
        THEN token("confirm", CHOOSE s \in Slots : HoldsConfirm(g, s))
        ELSE NoToken

LEMMA ContentIsOf == Content = ContentOf(gpr) /\ Content' = ContentOf(gpr')
BY DEF Content, ContentOf

\* Without a token the mailbox is empty, whatever the other registers hold.
LEMMA NoContentOf ==
    ASSUME NEW g, g.token = Zero
    PROVE  ContentOf(g) = NoToken
<1>1. \A s : ~HoldsHandoff(g, s) /\ ~HoldsConfirm(g, s)
  BY TokensDiffer DEF HoldsHandoff, HoldsConfirm, TokenIsValid
<1> QED
  BY <1>1 DEF ContentOf

\* A confirmation, a recovery request and an engine request are gone before
\* they are acted on: no reset makes the bootloader or hardware_app see one a
\* second time.
THEOREM TokensAreConsumed == StartSpec => []TokensAreOneShot
<1>1. MailInv => TokensAreOneShot
  <2> SUFFICES ASSUME MailInv, todo = << >>
               PROVE  /\ at \in {"recovery_check", "recovery", "hand_off"} => Content = NoToken
                      /\ at \in {"recovery", "hand_off"} => ~RecoveryAsked(gpr)
                      /\ at \in {"hw_guard", "engine"} => gpr.engine = NoToken
    BY DEF TokensAreOneShot
  <2>1. ASSUME at \in {"recovery_check", "recovery", "hand_off"} PROVE Content = NoToken
    <3>1. gpr["token"] = Zero
      BY <2>1, WillBeIs DEF MailInv
    <3> QED
      BY <3>1, NoContentOf, ContentIsOf
  <2>2. ASSUME at \in {"recovery", "hand_off"} PROVE ~RecoveryAsked(gpr)
    <3>1. gpr["magic"] = FALSE
      BY <2>2, WillBeIs DEF MailInv
    <3> QED
      BY <3>1 DEF RecoveryAsked
  <2>3. ASSUME at \in {"hw_guard", "engine"} PROVE gpr.engine = NoToken
    <3>1. gpr["engine"] = NoToken
      BY <2>3, WillBeIs DEF MailInv
    <3> QED
      BY <3>1
  <2> QED
    BY <2>1, <2>2, <2>3
<1> QED
  BY <1>1, MailInitially, MailStep, PTL DEF StartSpec

\* From the armed request on every reset of hardware_app lands in recovery,
\* up to the one by which it confirms itself: that one asks for nothing.
THEOREM HangLandsInRecovery == StartSpec => []HangEndsInRecovery
<1>1. MailInv => HangEndsInRecovery
  <2> SUFFICES ASSUME MailInv
               PROVE  /\ at = "hw_trial" /\ todo = << >> => RecoveryAsked(gpr)
                      /\ at \in {"hw_clear", "hw_run"} => RecoveryAsked(gpr)
                      /\ at = "leaving" /\ todo = << >> /\ Content # NoToken => ~RecoveryAsked(gpr)
    BY DEF HangEndsInRecovery
  <2>1. ASSUME at = "hw_trial", todo = << >> PROVE RecoveryAsked(gpr)
    <3>1. gpr["magic"] = TRUE /\ gpr["inverse"] = TRUE
      BY <2>1, WillBeIs DEF MailInv
    <3> QED
      BY <3>1 DEF RecoveryAsked
  <2>2. ASSUME at = "leaving", todo = << >>, Content # NoToken PROVE ~RecoveryAsked(gpr)
    <3>1. CASE WillBe("token", Zero)
      <4>1. gpr["token"] = Zero
        BY <2>2, <3>1, WillBeIs
      <4> QED
        BY <2>2, <4>1, NoContentOf, ContentIsOf
    <3>2. CASE WillBe("magic", FALSE)
      <4>1. gpr["magic"] = FALSE
        BY <2>2, <3>2, WillBeIs
      <4> QED
        BY <4>1 DEF RecoveryAsked
    <3> QED
      BY <2>2, <3>1, <3>2 DEF MailInv
  <2> QED
    BY <2>1, <2>2 DEF MailInv
<1> QED
  BY <1>1, MailInitially, MailStep, PTL DEF StartSpec

-----------------------------------------------------------------------------
(* The mailbox that the registers implement.                               *)

TrialRegisters == {"token", "token_inverse", "sequence", "sequence_inverse"}

\* What the registers hold, when they hold a whole token.
LEMMA HandoffContent ==
    ASSUME NEW g, NEW s \in Slots, HoldsHandoff(g, s)
    PROVE  ContentOf(g) = [kind |-> "handoff", trial |-> <<s, g.sequence>>]
<1>1. \A t \in Slots : HoldsHandoff(g, t) => t = s
  BY TokensDiffer DEF HoldsHandoff, TokenIsValid
<1>2. (CHOOSE t \in Slots : HoldsHandoff(g, t)) = s
  BY <1>1
<1> QED
  BY <1>2 DEF ContentOf

LEMMA ConfirmContent ==
    ASSUME NEW g, NEW s \in Slots, HoldsConfirm(g, s)
    PROVE  ContentOf(g) = [kind |-> "confirm", trial |-> <<s, g.sequence>>]
<1>1. \A t \in Slots : ~HoldsHandoff(g, t)
  BY TokensDiffer DEF HoldsHandoff, HoldsConfirm, TokenIsValid
<1>2. \A t \in Slots : HoldsConfirm(g, t) => t = s
  BY TokensDiffer DEF HoldsConfirm, TokenIsValid
<1>3. (CHOOSE t \in Slots : HoldsConfirm(g, t)) = s
  BY <1>2
<1> QED
  BY <1>1, <1>3 DEF ContentOf

\* Only the trial's registers are read.
LEMMA SameContent ==
    ASSUME NEW g, NEW h, \A r \in TrialRegisters : g[r] = h[r]
    PROVE  ContentOf(g) = ContentOf(h)
<1>1. /\ g.token = h.token /\ g.token_inverse = h.token_inverse
      /\ g.sequence = h.sequence /\ g.sequence_inverse = h.sequence_inverse
  BY DEF TrialRegisters
<1>2. \A s : /\ HoldsHandoff(g, s) = HoldsHandoff(h, s)
             /\ HoldsConfirm(g, s) = HoldsConfirm(h, s)
  BY <1>1 DEF HoldsHandoff, HoldsConfirm, TokenIsValid, SequenceIsValid
<1>3. /\ (CHOOSE s \in Slots : HoldsHandoff(g, s)) = (CHOOSE s \in Slots : HoldsHandoff(h, s))
      /\ (CHOOSE s \in Slots : HoldsConfirm(g, s)) = (CHOOSE s \in Slots : HoldsConfirm(h, s))
  BY <1>2, Zenon
<1> QED
  BY <1>1, <1>2, <1>3 DEF ContentOf

\* An operation that writes none of the trial's registers.
LEMMA TrialSpared ==
    ASSUME TrialInv, UNCHANGED gpr,
           \A i \in DOMAIN todo' : todo'[i][1] \in {"magic", "inverse", "engine"}
    PROVE  TrialInv'
BY DEF TrialInv

\* The next write, unrolled.
LEMMA NextWrite ==
    ASSUME MailInv, WriteRegister
    PROVE  /\ 1 \in DOMAIN todo /\ Len(todo) \in Nat
           /\ DOMAIN todo = 1 .. Len(todo)
           /\ Len(todo') = Len(todo) - 1
           /\ DOMAIN todo' = 1 .. Len(todo) - 1
           /\ \A i \in DOMAIN todo' : i + 1 \in DOMAIN todo /\ todo'[i] = todo[i + 1]
           /\ gpr' = [gpr EXCEPT ![todo[1][1]] = todo[1][2]]
<1> DEFINE T == {todo[i] : i \in DOMAIN todo}
<1>1. todo \in Seq(T) /\ todo # << >> /\ todo' = Tail(todo)
  BY DEF MailInv, WriteRegister
<1> HIDE DEF T
<1>2. DOMAIN todo = 1 .. Len(todo) /\ Len(todo) \in Nat \ {0}
  BY <1>1, LenProperties, EmptySeq
<1>3. /\ todo' \in Seq(T) /\ Len(todo') = Len(todo) - 1
      /\ \A i \in 1 .. Len(todo') : todo'[i] = todo[i + 1]
  BY <1>1, HeadTailProperties
<1>4. DOMAIN todo' = 1 .. Len(todo) - 1
  BY <1>3, LenProperties
<1>5. Head(todo) = todo[1] /\ 1 \in DOMAIN todo
  BY <1>2
<1>6. gpr' = [gpr EXCEPT ![todo[1][1]] = todo[1][2]]
  BY <1>5 DEF WriteRegister
<1>7. \A i \in DOMAIN todo' : i + 1 \in DOMAIN todo /\ todo'[i] = todo[i + 1]
  BY <1>2, <1>3, <1>4
<1> QED
  BY <1>2, <1>3, <1>4, <1>5, <1>6, <1>7

\* Where a register will end does not change on the way.
LEMMA WrittenEndsAs ==
    ASSUME MailInv, WriteRegister, NEW r \in DOMAIN Blank, NEW v, EndsAs(r, v)
    PROVE  EndsAs(r, v)'
<1>1. /\ 1 \in DOMAIN todo /\ Len(todo) \in Nat
      /\ DOMAIN todo = 1 .. Len(todo)
      /\ DOMAIN todo' = 1 .. Len(todo) - 1
      /\ \A i \in DOMAIN todo' : i + 1 \in DOMAIN todo /\ todo'[i] = todo[i + 1]
  BY NextWrite
<1>2. gpr'[r] = IF todo[1][1] = r THEN todo[1][2] ELSE gpr[r]
  BY NextWrite DEF MailInv
<1>3. CASE gpr[r] = v /\ \A j \in DOMAIN todo : todo[j][1] # r
  <2>1. gpr'[r] = v
    BY <1>1, <1>2, <1>3
  <2>2. \A j \in DOMAIN todo' : todo'[j][1] # r
    BY <1>1, <1>3
  <2> QED
    BY <2>1, <2>2 DEF EndsAs
<1>4. ASSUME NEW i \in DOMAIN todo, todo[i] = <<r, v>>,
             \A j \in DOMAIN todo : j > i => todo[j][1] # r
      PROVE  EndsAs(r, v)'
  <2>1. CASE i = 1
    <3>1. gpr'[r] = v
      BY <1>2, <1>4, <2>1
    <3>2. \A j \in DOMAIN todo' : todo'[j][1] # r
      <4> TAKE j \in DOMAIN todo'
      <4>1. j + 1 \in DOMAIN todo /\ todo'[j] = todo[j + 1] /\ j + 1 > 1
        BY <1>1
      <4> QED
        BY <1>4, <2>1, <4>1
    <3> QED
      BY <3>1, <3>2 DEF EndsAs
  <2>2. CASE i # 1
    <3>1. i - 1 \in DOMAIN todo' /\ todo'[i - 1] = <<r, v>>
      BY <1>1, <1>4, <2>2
    <3>2. \A j \in DOMAIN todo' : j > i - 1 => todo'[j][1] # r
      <4> TAKE j \in DOMAIN todo'
      <4> HAVE j > i - 1
      <4>1. j + 1 \in DOMAIN todo /\ todo'[j] = todo[j + 1] /\ j + 1 > i
        BY <1>1
      <4> QED
        BY <1>4, <4>1
    <3> QED
      BY <3>1, <3>2 DEF EndsAs
  <2> QED
    BY <2>1, <2>2
<1> QED
  BY <1>3, <1>4 DEF EndsAs

LEMMA WrittenPromised ==
    ASSUME MailInv, WriteRegister, NEW s, NEW n, NEW t, Promised(s, n, t)
    PROVE  Promised(s, n, t)'
<1>1. {"token_inverse", "sequence", "sequence_inverse"} \subseteq DOMAIN Blank
  BY DEF Blank
<1>2. EndsAs("token_inverse", t)' /\ EndsAs("sequence", n)'
      /\ EndsAs("sequence_inverse", Complement(n))'
  BY <1>1, WrittenEndsAs DEF Promised
<1>3. goal' = goal
  BY DEF WriteRegister
<1> QED
  BY <1>2, <1>3 DEF Promised

\* One write of a trial's registers: the mailbox's content becomes what the
\* operation has in mind, becomes nothing, or stays.
LEMMA TrialWritten ==
    ASSUME MailInv, TrialInv, WriteRegister
    PROVE  TrialInv' /\ Content' \in {Content, goal, NoToken}
<1> DEFINE r == todo[1][1]
           v == todo[1][2]
<1>1. /\ 1 \in DOMAIN todo /\ Len(todo) \in Nat
      /\ DOMAIN todo = 1 .. Len(todo)
      /\ Len(todo') = Len(todo) - 1
      /\ DOMAIN todo' = 1 .. Len(todo) - 1
      /\ \A i \in DOMAIN todo' : i + 1 \in DOMAIN todo /\ todo'[i] = todo[i + 1]
  BY NextWrite
<1>2. \A q \in DOMAIN Blank : gpr'[q] = IF r = q THEN v ELSE gpr[q]
  BY NextWrite DEF MailInv
<1>3. TrialRegisters \subseteq DOMAIN Blank
  BY DEF TrialRegisters, Blank
<1>4. r = "sequence" => v \in SeqNums
  BY <1>1 DEF TrialInv
<1>5. r \in {"token_inverse", "sequence", "sequence_inverse"} => gpr.token = Zero
  <2>1. \A j \in DOMAIN todo : ~(j < 1)
    BY <1>1
  <2> QED
    BY <1>1, <2>1 DEF TrialInv
<1>6. r = "token" /\ v # Zero =>
        Len(todo) = 1 /\ \E s \in Slots, n \in SeqNums : Promised(s, n, v)
  BY <1>1 DEF TrialInv
<1> HIDE DEF r, v
<1>7. TrialInv'
  <2>1. (gpr.sequence \in SeqNums)'
    BY <1>2, <1>3, <1>4 DEF TrialInv, TrialRegisters
  <2>2. \A i \in DOMAIN todo' : todo'[i][1] = "sequence" => todo'[i][2] \in SeqNums
    BY <1>1 DEF TrialInv
  <2>3. ASSUME NEW i \in DOMAIN todo',
               todo'[i][1] \in {"token_inverse", "sequence", "sequence_inverse"}
        PROVE  gpr'.token = Zero \/ \E j \in DOMAIN todo' : j < i /\ todo'[j] = <<"token", Zero>>
    <3>1. i + 1 \in DOMAIN todo /\ todo[i + 1] = todo'[i] /\ Len(todo) # 1
      BY <1>1
    <3>2. CASE gpr.token = Zero
      BY <1>2, <1>3, <1>6, <3>1, <3>2 DEF TrialRegisters
    <3>3. ASSUME NEW j \in DOMAIN todo, j < i + 1, todo[j] = <<"token", Zero>>
          PROVE  gpr'.token = Zero \/ \E k \in DOMAIN todo' : k < i /\ todo'[k] = <<"token", Zero>>
      <4>1. CASE j = 1
        <5>1. r = "token" /\ v = Zero
          BY <3>3, <4>1 DEF r, v
        <5> QED
          BY <1>2, <1>3, <5>1 DEF TrialRegisters
      <4>2. CASE j # 1
        <5>1. j - 1 \in DOMAIN todo' /\ j - 1 < i /\ todo'[j - 1] = <<"token", Zero>>
          BY <1>1, <3>3, <4>2
        <5> QED
          BY <5>1
      <4> QED
        BY <4>1, <4>2
    <3> QED
      BY <2>3, <3>1, <3>2, <3>3 DEF TrialInv
  <2>4. ASSUME NEW i \in DOMAIN todo', todo'[i][1] = "token", todo'[i][2] # Zero
        PROVE  i = Len(todo') /\ \E s \in Slots, n \in SeqNums : Promised(s, n, todo[i][2])'
    <3>1. i + 1 \in DOMAIN todo /\ todo[i + 1] = todo'[i]
      BY <1>1
    <3>2. i + 1 = Len(todo) /\ \E s \in Slots, n \in SeqNums : Promised(s, n, todo[i + 1][2])
      BY <2>4, <3>1 DEF TrialInv
    <3>3. PICK s \in Slots, n \in SeqNums : Promised(s, n, todo[i + 1][2])
      BY <3>2
    <3>4. PICK t : t = todo[i + 1][2]
      OBVIOUS
    <3>5. Promised(s, n, t)'
      BY <3>3, <3>4, WrittenPromised
    <3>6. Promised(s, n, todo[i][2])'
      BY <3>1, <3>4, <3>5 DEF Promised, EndsAs
    <3> QED
      BY <1>1, <3>1, <3>2, <3>6
  <2> QED
    BY <2>1, <2>2, <2>3, <2>4 DEF TrialInv
<1>8. CASE r \notin TrialRegisters
  <2>1. \A q \in TrialRegisters : gpr'[q] = gpr[q]
    BY <1>2, <1>3, <1>8
  <2> QED
    BY <1>7, <2>1, SameContent, ContentIsOf
<1>9. CASE r \in {"token_inverse", "sequence", "sequence_inverse"}
  <2>1. gpr'.token = Zero
    BY <1>2, <1>3, <1>5, <1>9 DEF TrialRegisters
  <2>2. Content' = NoToken
    BY <2>1, NoContentOf, ContentIsOf
  <2> QED
    BY <1>7, <2>2
<1>10. CASE r = "token" /\ v = Zero
  <2>1. gpr'.token = Zero
    BY <1>2, <1>3, <1>10 DEF TrialRegisters
  <2>2. Content' = NoToken
    BY <2>1, NoContentOf, ContentIsOf
  <2> QED
    BY <1>7, <2>2
<1>11. CASE r = "token" /\ v # Zero
  <2>1. PICK s \in Slots, n \in SeqNums : Promised(s, n, v)
    BY <1>6, <1>11
  <2>2. DOMAIN todo' = {} /\ gpr'["token"] = v
    <3>1. DOMAIN todo' = {}
      <4>1. Len(todo) = 1
        BY <1>6, <1>11
      <4> QED
        BY <1>1, <4>1
    <3>2. gpr'["token"] = v
      BY <1>2, <1>3, <1>11 DEF TrialRegisters
    <3> QED
      BY <3>1, <3>2
  <2>3. PICK t : t = v
    OBVIOUS
  <2>4. Promised(s, n, t)'
    BY <2>1, <2>3, WrittenPromised
  <2>5. gpr'["token_inverse"] = v /\ gpr'["sequence"] = n /\ gpr'["sequence_inverse"] = Complement(n)
    BY <2>2, <2>3, <2>4 DEF Promised, EndsAs
  <2>6. SequenceIsValid(gpr')
    BY <2>5 DEF SequenceIsValid
  <2>7. CASE v = HandoffToken(s)
    <3>1. HoldsHandoff(gpr', s)
      BY <2>2, <2>5, <2>6, <2>7 DEF HoldsHandoff, TokenIsValid
    <3>2. Content' = [kind |-> "handoff", trial |-> <<s, n>>]
      BY <2>5, <3>1, HandoffContent, ContentIsOf
    <3>3. goal = [kind |-> "handoff", trial |-> <<s, n>>]
      BY <2>1, <2>7, TokensDiffer DEF Promised
    <3> QED
      BY <1>7, <3>2, <3>3
  <2>8. CASE v = ConfirmToken(s)
    <3>1. HoldsConfirm(gpr', s)
      BY <2>2, <2>5, <2>6, <2>8 DEF HoldsConfirm, TokenIsValid
    <3>2. Content' = [kind |-> "confirm", trial |-> <<s, n>>]
      BY <2>5, <3>1, ConfirmContent, ContentIsOf
    <3>3. goal = [kind |-> "confirm", trial |-> <<s, n>>]
      BY <2>1, <2>8, TokensDiffer DEF Promised
    <3> QED
      BY <1>7, <3>2, <3>3
  <2> QED
    BY <2>1, <2>7, <2>8 DEF Promised
<1> QED
  BY <1>8, <1>9, <1>10, <1>11 DEF TrialRegisters

\* The writes of an operation, one by one.
LEMMA ClearTrialList ==
    ASSUME NEW g
    PROVE  /\ DOMAIN ClearTrial(g) = {1, 2, 3, 4} /\ Len(ClearTrial(g)) = 4
           /\ ClearTrial(g)[1] = <<"token", Zero>> /\ ClearTrial(g)[2] = <<"token_inverse", Zero>>
           /\ ClearTrial(g)[3] = <<"sequence", 0>> /\ ClearTrial(g)[4] = <<"sequence_inverse", 0>>
BY DEF ClearTrial

LEMMA ArmTrialList ==
    ASSUME NEW s
    PROVE  /\ DOMAIN ArmTrial(s) = {1, 2, 3} /\ Len(ArmTrial(s)) = 3
           /\ ArmTrial(s)[1] = <<"token", Zero>>
           /\ ArmTrial(s)[2] = <<"token_inverse", ConfirmToken(s)>>
           /\ ArmTrial(s)[3] = <<"token", ConfirmToken(s)>>
BY DEF ArmTrial

LEMMA RecoveryList ==
    /\ \A i \in DOMAIN ClearRecovery : ClearRecovery[i][1] \in {"magic", "inverse", "engine"}
    /\ \A i \in DOMAIN ArmRecovery : ArmRecovery[i][1] \in {"magic", "inverse", "engine"}
BY DEF ClearRecovery, ArmRecovery

LEMMA SelectList ==
    ASSUME NEW e
    PROVE  LET w == ClearRecovery \o <<<<"engine", e>>>>
           IN  \A i \in DOMAIN w : w[i][1] \in {"magic", "inverse", "engine"}
<1> DEFINE S == {<<"magic", FALSE>>, <<"inverse", FALSE>>, <<"engine", e>>}
           b == <<<<"engine", e>>>>
<1>1. ClearRecovery \in Seq(S) /\ b \in Seq(S)
  BY DEF ClearRecovery
<1>2. \A i \in DOMAIN b : b[i][1] = "engine"
  OBVIOUS
<1> HIDE DEF S, b
<1>3. \A i \in DOMAIN (ClearRecovery \o b) :
        \/ \E j \in DOMAIN ClearRecovery : (ClearRecovery \o b)[i] = ClearRecovery[j]
        \/ \E j \in DOMAIN b : (ClearRecovery \o b)[i] = b[j]
  BY <1>1, ConcatElements
<1>4. \A i \in DOMAIN (ClearRecovery \o b) :
        (ClearRecovery \o b)[i][1] \in {"magic", "inverse", "engine"}
  BY <1>2, <1>3, RecoveryList
<1> QED
  BY <1>4 DEF b

LEMMA PublishTrialList ==
    ASSUME NEW s, NEW n
    PROVE  LET w == PublishTrial(s, n)
           IN  /\ DOMAIN w = 1 .. 8 /\ Len(w) = 8
               /\ w[1] = <<"token", Zero>> /\ w[2] = <<"token_inverse", Zero>>
               /\ w[3] = <<"sequence", 0>> /\ w[4] = <<"sequence_inverse", 0>>
               /\ w[5] = <<"sequence_inverse", Complement(n)>> /\ w[6] = <<"sequence", n>>
               /\ w[7] = <<"token_inverse", HandoffToken(s)>> /\ w[8] = <<"token", HandoffToken(s)>>
<1> DEFINE a == ClearTrial(gpr)
           b == <<<<"sequence_inverse", Complement(n)>>, <<"sequence", n>>,
                  <<"token_inverse", HandoffToken(s)>>, <<"token", HandoffToken(s)>>>>
           S == {<<"token", Zero>>, <<"token_inverse", Zero>>, <<"sequence", 0>>,
                 <<"sequence_inverse", 0>>, <<"sequence_inverse", Complement(n)>>, <<"sequence", n>>,
                 <<"token_inverse", HandoffToken(s)>>, <<"token", HandoffToken(s)>>}
           w == PublishTrial(s, n)
<1>1. a \in Seq(S) /\ b \in Seq(S) /\ Len(a) = 4 /\ Len(b) = 4
  BY DEF ClearTrial
<1>2. /\ b[1] = <<"sequence_inverse", Complement(n)>> /\ b[2] = <<"sequence", n>>
      /\ b[3] = <<"token_inverse", HandoffToken(s)>> /\ b[4] = <<"token", HandoffToken(s)>>
  OBVIOUS
<1>3. w = a \o b
  BY DEF PublishTrial
<1>4. /\ a[1] = <<"token", Zero>> /\ a[2] = <<"token_inverse", Zero>>
      /\ a[3] = <<"sequence", 0>> /\ a[4] = <<"sequence_inverse", 0>>
  BY ClearTrialList
<1> HIDE DEF a, b, S, w
<1>5. /\ w \in Seq(S) /\ Len(w) = 8
      /\ \A i \in 1 .. 8 : w[i] = IF i <= 4 THEN a[i] ELSE b[i - 4]
  <2>1. /\ w \in Seq(S) /\ Len(w) = Len(a) + Len(b)
        /\ \A i \in 1 .. Len(a) + Len(b) : w[i] = IF i <= Len(a) THEN a[i] ELSE b[i - Len(a)]
    BY <1>1, <1>3, ConcatProperties, Zenon
  <2>2. Len(a) + Len(b) = 8
    BY <1>1
  <2> QED
    BY <1>1, <2>1, <2>2
<1>6. DOMAIN w = 1 .. 8
  BY <1>5, LenProperties
<1>7. /\ w[1] = a[1] /\ w[2] = a[2] /\ w[3] = a[3] /\ w[4] = a[4]
      /\ w[5] = b[1] /\ w[6] = b[2] /\ w[7] = b[3] /\ w[8] = b[4]
  BY <1>5
<1> QED
  BY <1>2, <1>4, <1>5, <1>6, <1>7 DEF w

\* The mailbox is cleared.
LEMMA TrialCleared ==
    ASSUME TrialInv, gpr' = gpr, todo' = ClearTrial(gpr)
    PROVE  TrialInv'
<1>1. /\ DOMAIN todo' = {1, 2, 3, 4}
      /\ todo'[1] = <<"token", Zero>> /\ todo'[2] = <<"token_inverse", Zero>>
      /\ todo'[3] = <<"sequence", 0>> /\ todo'[4] = <<"sequence_inverse", 0>>
  BY ClearTrialList
<1>2. 0 \in SeqNums
  BY HalfSeqAssumption DEF SeqNums, SeqMod
<1>3. \A i \in DOMAIN todo' : todo'[i][1] = "sequence" => todo'[i][2] \in SeqNums
  BY <1>1, <1>2
<1>4. \A i \in DOMAIN todo' : todo'[i][1] \in {"token_inverse", "sequence", "sequence_inverse"} =>
         \E j \in DOMAIN todo' : j < i /\ todo'[j] = <<"token", Zero>>
  BY <1>1
<1>5. \A i \in DOMAIN todo' : todo'[i][1] = "token" => todo'[i][2] = Zero
  BY <1>1
<1> QED
  BY <1>3, <1>4, <1>5 DEF TrialInv

\* A handoff is published: its token is the last write.
LEMMA TrialPublished ==
    ASSUME TrialInv, NEW s \in Slots, NEW n \in SeqNums,
           gpr' = gpr, todo' = PublishTrial(s, n),
           goal' = [kind |-> "handoff", trial |-> <<s, n>>]
    PROVE  TrialInv'
<1>1. /\ DOMAIN todo' = 1 .. 8 /\ Len(todo') = 8
      /\ todo'[1] = <<"token", Zero>> /\ todo'[2] = <<"token_inverse", Zero>>
      /\ todo'[3] = <<"sequence", 0>> /\ todo'[4] = <<"sequence_inverse", 0>>
      /\ todo'[5] = <<"sequence_inverse", Complement(n)>> /\ todo'[6] = <<"sequence", n>>
      /\ todo'[7] = <<"token_inverse", HandoffToken(s)>> /\ todo'[8] = <<"token", HandoffToken(s)>>
  BY PublishTrialList
<1>2. 0 \in SeqNums
  BY HalfSeqAssumption DEF SeqNums, SeqMod
<1>3. \A i \in DOMAIN todo' : i \in {1, 2, 3, 4, 5, 6, 7, 8}
  BY <1>1
<1>4. \A i \in DOMAIN todo' : todo'[i][1] = "sequence" => todo'[i][2] \in SeqNums
  BY <1>1, <1>2, <1>3
<1>5. \A i \in DOMAIN todo' : todo'[i][1] \in {"token_inverse", "sequence", "sequence_inverse"} =>
         \E j \in DOMAIN todo' : j < i /\ todo'[j] = <<"token", Zero>>
  <2>1. 1 \in DOMAIN todo' /\ \A i \in DOMAIN todo' : i = 1 \/ 1 < i
    BY <1>1
  <2> QED
    BY <1>1, <2>1
<1>6. Promised(s, n, HandoffToken(s))'
  <2>1. EndsAs("token_inverse", HandoffToken(s))'
    <3>1. 7 \in DOMAIN todo' /\ \A j \in DOMAIN todo' : j > 7 => todo'[j][1] # "token_inverse"
      BY <1>1, <1>3
    <3> QED
      BY <1>1, <3>1 DEF EndsAs, HandoffToken
  <2>2. EndsAs("sequence", n)'
    <3>1. 6 \in DOMAIN todo' /\ \A j \in DOMAIN todo' : j > 6 => todo'[j][1] # "sequence"
      BY <1>1, <1>3
    <3> QED
      BY <1>1, <3>1 DEF EndsAs
  <2>3. EndsAs("sequence_inverse", Complement(n))'
    <3>1. 5 \in DOMAIN todo' /\ \A j \in DOMAIN todo' : j > 5 => todo'[j][1] # "sequence_inverse"
      BY <1>1, <1>3
    <3> QED
      BY <1>1, <3>1 DEF EndsAs, Complement
  <2> QED
    BY <2>1, <2>2, <2>3 DEF Promised, HandoffToken, Complement
<1>7. \A i \in DOMAIN todo' : todo'[i][1] = "token" /\ todo'[i][2] # Zero =>
         i = 8 /\ todo'[i][2] = HandoffToken(s)
  BY <1>1, <1>3
<1>8. \A i \in DOMAIN todo' : todo'[i][1] = "token" /\ todo'[i][2] # Zero =>
         i = Len(todo') /\ Promised(s, n, todo[i][2])'
  BY <1>1, <1>6, <1>7 DEF Promised, EndsAs, HandoffToken, Complement
<1> QED
  BY <1>4, <1>5, <1>8 DEF TrialInv

\* The confirmation of the trial that was handed over.
LEMMA TrialArmed ==
    ASSUME TrialInv, NEW s \in Slots, HoldsHandoff(gpr, s),
           gpr' = gpr, todo' = ArmTrial(s),
           goal' = [kind |-> "confirm", trial |-> <<s, gpr.sequence>>]
    PROVE  TrialInv'
<1>1. /\ DOMAIN todo' = {1, 2, 3} /\ Len(todo') = 3
      /\ todo'[1] = <<"token", Zero>> /\ todo'[2] = <<"token_inverse", ConfirmToken(s)>>
      /\ todo'[3] = <<"token", ConfirmToken(s)>>
  BY ArmTrialList
<1>2. PICK n \in SeqNums : n = gpr.sequence
  BY DEF TrialInv
<1>3. gpr.sequence_inverse = Complement(n)
  BY <1>2 DEF HoldsHandoff, SequenceIsValid
<1>4. \A i \in DOMAIN todo' : todo'[i][1] \in {"token", "token_inverse"}
  BY <1>1
<1>5. \A i \in DOMAIN todo' : todo'[i][1] = "token_inverse" =>
         \E j \in DOMAIN todo' : j < i /\ todo'[j] = <<"token", Zero>>
  BY <1>1
<1>6. Promised(s, n, ConfirmToken(s))'
  <2>1. EndsAs("token_inverse", ConfirmToken(s))'
    <3>1. 2 \in DOMAIN todo' /\ \A j \in DOMAIN todo' : j > 2 => todo'[j][1] # "token_inverse"
      BY <1>1
    <3> QED
      BY <1>1, <3>1 DEF EndsAs, ConfirmToken
  <2>2. EndsAs("sequence", n)'
    <3>1. gpr'["sequence"] = n /\ \A j \in DOMAIN todo' : todo'[j][1] # "sequence"
      BY <1>2, <1>4
    <3> QED
      BY <3>1 DEF EndsAs
  <2>3. EndsAs("sequence_inverse", Complement(n))'
    <3>1. gpr'["sequence_inverse"] = Complement(n)
          /\ \A j \in DOMAIN todo' : todo'[j][1] # "sequence_inverse"
      BY <1>3, <1>4
    <3> QED
      BY <3>1 DEF EndsAs, Complement
  <2> QED
    BY <1>2, <2>1, <2>2, <2>3 DEF Promised, ConfirmToken, Complement
<1>7. \A i \in DOMAIN todo' : todo'[i][1] = "token" /\ todo'[i][2] # Zero =>
         i = 3 /\ todo'[i][2] = ConfirmToken(s)
  BY <1>1
<1>8. \A i \in DOMAIN todo' : todo'[i][1] = "token" /\ todo'[i][2] # Zero =>
         i = Len(todo') /\ Promised(s, n, todo[i][2])'
  BY <1>1, <1>6, <1>7 DEF Promised, EndsAs, ConfirmToken, Complement
<1> QED
  BY <1>4, <1>5, <1>8 DEF TrialInv

\* A step of the mailbox, or none.
MailboxStep == [Mailbox!MailNext]_(Mailbox!mailVars)

LEMMA ContentFollows == gpr' = gpr => Content' = Content
BY ContentIsOf

\* A step that leaves the mailboxes alone.
LEMMA MailboxUntouched ==
    ASSUME TrialInv, UNCHANGED <<gpr, todo, goal>>
    PROVE  TrialInv' /\ MailboxStep
<1>1. TrialInv'
  BY DEF TrialInv, Promised, EndsAs, HandoffToken, ConfirmToken, Complement
<1>2. UNCHANGED <<Content, goal>>
  BY ContentFollows
<1> QED
  BY <1>1, <1>2 DEF MailboxStep, Mailbox!mailVars

\* An operation that has nothing to do with trials.
LEMMA MailboxSpared ==
    ASSUME TrialInv, UNCHANGED <<gpr, goal>>,
           \A i \in DOMAIN todo' : todo'[i][1] \in {"magic", "inverse", "engine"}
    PROVE  TrialInv' /\ MailboxStep
<1>1. TrialInv'
  BY TrialSpared
<1>2. UNCHANGED <<Content, goal>>
  BY ContentFollows
<1> QED
  BY <1>1, <1>2 DEF MailboxStep, Mailbox!mailVars

\* An operation that clears the mailbox.
LEMMA MailboxCleared ==
    ASSUME TrialInv, gpr' = gpr, todo' = ClearTrial(gpr), goal' \in {goal, NoToken}
    PROVE  TrialInv' /\ MailboxStep
<1>1. TrialInv'
  BY TrialCleared
<1>2. Content' = Content
  BY ContentFollows
<1>3. CASE goal' = goal
  BY <1>1, <1>2, <1>3 DEF MailboxStep, Mailbox!mailVars
<1>4. CASE goal' = NoToken
  <2>1. Mailbox!Leave
    BY <1>2, <1>4 DEF Mailbox!Leave
  <2> QED
    BY <1>1, <2>1 DEF MailboxStep, Mailbox!MailNext
<1> QED
  BY <1>3, <1>4

\* An application's answer to the trial it was handed.
LEMMA MailboxConfirmed ==
    ASSUME TrialInv, NEW confirmed, NEW otherwise, ArmConfirmation(confirmed, otherwise)
    PROVE  TrialInv' /\ MailboxStep
<1>1. ASSUME NEW s \in Slots, HoldsHandoff(gpr, s), gpr' = gpr, todo' = ArmTrial(s),
             goal' = [kind |-> "confirm", trial |-> <<s, gpr.sequence>>]
      PROVE  TrialInv' /\ MailboxStep
  <2>1. TrialInv'
    BY <1>1, TrialArmed
  <2>2. Content = [kind |-> "handoff", trial |-> <<s, gpr.sequence>>] /\ Content' = Content
    BY <1>1, HandoffContent, ContentIsOf
  <2>3. PICK t : t = <<s, gpr.sequence>>
    OBVIOUS
  <2>4. t \in Trials
    BY <2>3 DEF Trials, TrialInv
  <2>5. Mailbox!Arm(t)
    BY <1>1, <2>2, <2>3 DEF Mailbox!Arm, Mailbox!Handoff, Mailbox!Confirmation
  <2> QED
    BY <2>1, <2>4, <2>5 DEF MailboxStep, Mailbox!MailNext
<1>2. CASE gpr' = gpr /\ todo' = ClearTrial(gpr) /\ goal' = NoToken
  BY <1>2, MailboxCleared
<1> QED
  BY <1>1, <1>2 DEF ArmConfirmation, Do

\* A single write.
LEMMA MailboxWritten ==
    ASSUME MailInv, TrialInv, WriteRegister
    PROVE  TrialInv' /\ MailboxStep
<1>1. TrialInv' /\ Content' \in {Content, goal, NoToken} /\ goal' = goal
  BY TrialWritten DEF WriteRegister
<1>2. CASE Content' = Content
  BY <1>1, <1>2 DEF MailboxStep, Mailbox!mailVars
<1>3. CASE Content' = goal
  BY <1>1, <1>3 DEF MailboxStep, Mailbox!MailNext, Mailbox!Write
<1>4. CASE Content' = NoToken
  BY <1>1, <1>4 DEF MailboxStep, Mailbox!MailNext, Mailbox!Empty
<1> QED
  BY <1>1, <1>2, <1>3, <1>4

\* A reset drops the writes that were left, wherever it comes.
LEMMA MailboxReset ==
    ASSUME TrialInv, WarmReset \/ PowerCycle
    PROVE  TrialInv' /\ MailboxStep
<1>1. todo' = << >> /\ goal' = NoToken
  BY DEF WarmReset, PowerCycle, Restart
<1>2. DOMAIN todo' = {}
  BY <1>1
<1>3. CASE gpr' = gpr
  <2>1. TrialInv'
    BY <1>2, <1>3 DEF TrialInv
  <2>2. Mailbox!Leave
    BY <1>1, <1>3, ContentFollows DEF Mailbox!Leave
  <2> QED
    BY <2>1, <2>2 DEF MailboxStep, Mailbox!MailNext
<1>4. CASE gpr' = Blank
  <2>1. 0 \in SeqNums
    BY HalfSeqAssumption DEF SeqNums, SeqMod
  <2>2. TrialInv'
    BY <1>2, <1>4, <2>1 DEF TrialInv, Blank
  <2>3. gpr'.token = Zero
    BY <1>4 DEF Blank
  <2>4. Content' = NoToken
    BY <2>3, NoContentOf, ContentIsOf
  <2>5. Mailbox!Empty
    BY <1>1, <2>4 DEF Mailbox!Empty
  <2> QED
    BY <2>2, <2>5 DEF MailboxStep, Mailbox!MailNext
<1> QED
  BY <1>3, <1>4 DEF WarmReset, PowerCycle

\* The other operations of the bootloader and of the applications.
LEMMA MailboxElsewhere ==
    ASSUME TrialInv, Elsewhere
    PROVE  TrialInv' /\ MailboxStep
<1>1. CASE ConsumeConfirmation \/ HandOffConfirmed
  BY <1>1, MailboxCleared DEF ConsumeConfirmation, HandOffConfirmed, Do
<1>2. CASE ConsumeRecoveryRequest \/ AppAsksForRecovery
  <2>1. (todo' = ClearRecovery \/ todo' = ArmRecovery) /\ UNCHANGED <<gpr, goal>>
    BY <1>2 DEF ConsumeRecoveryRequest, AppAsksForRecovery, Do
  <2>2. /\ \A i \in DOMAIN ClearRecovery : ClearRecovery[i][1] \in {"magic", "inverse", "engine"}
        /\ \A i \in DOMAIN ArmRecovery : ArmRecovery[i][1] \in {"magic", "inverse", "engine"}
    BY RecoveryList
  <2> QED
    BY <2>1, <2>2, MailboxSpared
<1>3. ASSUME NEW s \in Slots, NEW n \in SeqNums, HandOffTrial(s, n)
      PROVE  TrialInv' /\ MailboxStep
  <2>1. gpr' = gpr /\ todo' = PublishTrial(s, n)
        /\ goal' = [kind |-> "handoff", trial |-> <<s, n>>]
    BY <1>3 DEF HandOffTrial, Do
  <2>2. TrialInv'
    BY <2>1, TrialPublished
  <2>3. Mailbox!Publish(<<s, n>>) /\ <<s, n>> \in Trials
    BY <2>1, ContentFollows DEF Mailbox!Publish, Mailbox!Handoff, Trials
  <2> QED
    BY <2>2, <2>3 DEF MailboxStep, Mailbox!MailNext
<1>4. ASSUME NEW app \in {"app", "hw_start"}, Jump(app)
      PROVE  TrialInv' /\ MailboxStep
  <2>1. todo' = << >> /\ UNCHANGED <<gpr, goal>>
    BY <1>4 DEF Jump, Do
  <2>2. DOMAIN todo' = {}
    BY <2>1
  <2> QED
    BY <2>1, <2>2, MailboxSpared
<1>5. CASE AppConfirms
  BY <1>5, MailboxConfirmed DEF AppConfirms
<1> QED
  BY <1>1, <1>2, <1>3, <1>4, <1>5 DEF Elsewhere

\* The operations of hardware_app.
LEMMA MailboxHardware ==
    ASSUME TrialInv,
           \/ HardwareConsumesEngineRequest \/ LaunchEngine \/ HardwareArmsRecovery
           \/ HardwareConfirms \/ HardwareClearsRecovery \/ HardwareGivesUp
           \/ (\E e \in Engines : SelectEngine(e)) \/ (\E e \in Engines : EngineSelects(e))
    PROVE  TrialInv' /\ MailboxStep
<1>1. CASE HardwareConfirms
  BY <1>1, MailboxConfirmed DEF HardwareConfirms
<1>2. CASE HardwareArmsRecovery \/ HardwareClearsRecovery \/ HardwareGivesUp
  <2>1. (todo' = ClearRecovery \/ todo' = ArmRecovery) /\ UNCHANGED <<gpr, goal>>
    BY <1>2 DEF HardwareArmsRecovery, HardwareClearsRecovery, HardwareGivesUp, Do
  <2>2. /\ \A i \in DOMAIN ClearRecovery : ClearRecovery[i][1] \in {"magic", "inverse", "engine"}
        /\ \A i \in DOMAIN ArmRecovery : ArmRecovery[i][1] \in {"magic", "inverse", "engine"}
    BY RecoveryList
  <2> QED
    BY <2>1, <2>2, MailboxSpared
<1>3. CASE LaunchEngine
  <2>1. todo' = << >> /\ UNCHANGED <<gpr, goal>>
    BY <1>3 DEF LaunchEngine, Do
  <2>2. DOMAIN todo' = {}
    BY <2>1
  <2> QED
    BY <2>1, <2>2, MailboxSpared
<1>4. ASSUME NEW e, todo' = <<<<"engine", e>>>>, UNCHANGED <<gpr, goal>>
      PROVE  TrialInv' /\ MailboxStep
  <2>1. DOMAIN todo' = {1} /\ todo'[1][1] = "engine"
    BY <1>4
  <2> QED
    BY <1>4, <2>1, MailboxSpared
<1>5. ASSUME NEW e, todo' = ClearRecovery \o <<<<"engine", e>>>>, UNCHANGED <<gpr, goal>>
      PROVE  TrialInv' /\ MailboxStep
  <2>1. \A i \in DOMAIN todo' : todo'[i][1] \in {"magic", "inverse", "engine"}
    BY <1>5, SelectList
  <2> QED
    BY <1>5, <2>1, MailboxSpared
<1>6. CASE HardwareConsumesEngineRequest
  BY <1>4, <1>6 DEF HardwareConsumesEngineRequest, Do
<1>7. CASE \E e \in Engines : EngineSelects(e)
  BY <1>4, <1>7 DEF EngineSelects, Do
<1>8. CASE \E e \in Engines : SelectEngine(e)
  BY <1>5, <1>8 DEF SelectEngine, Do
<1> QED
  BY <1>1, <1>2, <1>3, <1>6, <1>7, <1>8

LEMMA TrialStep ==
    ASSUME MailInv, TrialInv, [StartNext]_startVars
    PROVE  TrialInv' /\ MailboxStep
<1>1. CASE UNCHANGED vars
  BY <1>1, MailboxUntouched DEF vars
<1>2. CASE UNCHANGED startVars
  BY <1>1, <1>2 DEF startVars
<1>3. CASE Elsewhere
  BY <1>3, MailboxElsewhere
<1>4. CASE WriteMailbox
  BY <1>4, MailboxWritten DEF WriteMailbox
<1>5. CASE Consume \/ Enter \/ Guard \/ Settle \/ GiveUp \/ LeaveEngine
  BY <1>5, MailboxHardware DEF Consume, Enter, Guard, Settle, GiveUp, LeaveEngine
<1>6. CASE Launch \/ DriveBoard \/ PrepareBoard \/ StartAudio \/ ReleaseReset \/ ProbeCodec
           \/ FoundCodec \/ ConfigureCodec \/ Activate \/ VerifyCodec \/ EnterLoop
  BY <1>1, <1>6 DEF Launch, DriveBoard, PrepareBoard, StartAudio, ReleaseReset,
              ProbeCodec, FoundCodec, ConfigureCodec, Activate, VerifyCodec, EnterLoop
<1>7. CASE Loop
  BY <1>1, <1>7, MailboxHardware DEF Loop
<1>8. CASE WarmResets \/ PowerCycles
  BY <1>8, MailboxReset DEF WarmResets, PowerCycles
<1> QED
  BY <1>2, <1>3, <1>4, <1>5, <1>6, <1>7, <1>8 DEF StartNext, StartStep

\* The four trial registers, written one by one and cut by a reset anywhere,
\* are one mailbox whose content changes at once, and in which only a handoff
\* becomes a confirmation - whatever else the start of hardware_app does.
THEOREM RegistersImplementMailbox == StartSpec => ImplementsMailbox
<1>1. StartInit => TrialInv /\ Mailbox!MailInit
  <2> SUFFICES ASSUME StartInit PROVE TrialInv /\ Mailbox!MailInit
    OBVIOUS
  <2>1. gpr = Blank /\ todo = << >> /\ goal = NoToken
    BY DEF StartInit, Init
  <2>2. 0 \in SeqNums
    BY HalfSeqAssumption DEF SeqNums, SeqMod
  <2>3. DOMAIN todo = {} /\ gpr.sequence = 0 /\ gpr.token = Zero
    BY <2>1 DEF Blank
  <2>4. Content = NoToken
    BY <2>3, NoContentOf, ContentIsOf
  <2> QED
    BY <2>1, <2>2, <2>3, <2>4 DEF TrialInv, Mailbox!MailInit
<1>2. MailInv /\ TrialInv /\ [StartNext]_startVars =>
        MailInv' /\ TrialInv' /\ [Mailbox!MailNext]_(Mailbox!mailVars)
  BY MailStep, TrialStep DEF MailboxStep
<1> QED
  BY <1>1, <1>2, MailInitially, PTL DEF StartSpec, ImplementsMailbox, Mailbox!MailSpec
=============================================================================
