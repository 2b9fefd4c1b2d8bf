---------------------------- MODULE EngineLauncher ----------------------------
(***************************************************************************)
(* factory_engine_launcher.c: one of the preserved factory engines is      *)
(* checked where it lies, copied to ITCM and patched with the monitor that *)
(* brings the pedal back.  Nothing returns once the checks have passed.    *)
(*                                                                         *)
(* What is checked of an engine are its parts: the two vectors, the        *)
(* instruction the monitor hooks, the first word of the updater it calls   *)
(* and the zeroed cave it is copied to.  The size of the monitor is        *)
(* settled when it is linked.                                              *)
(***************************************************************************)

Parts == {"stack", "reset", "hook", "led", "cave"}

VARIABLES launch,     \* what ncr2_factory_engine_launch has to do next
          preserved,  \* the parts of the engine in flash that are as traced
          itcm,       \* the parts in ITCM, and "monitor" when it is linked in
          machine     \* whose clocks, pins and protection are set up

launchVars == <<launch, preserved, itcm, machine>>

LaunchInit == launch = "none" /\ preserved = {} /\ itcm = {} /\ machine = "open"

\* Faulty variant: the vectors are taken for the whole engine.
ContractIsNotChecked(parts) == TRUE

\* source_matches_patch_contract.
MatchesPatchContract(parts) == {"hook", "led", "cave"} \subseteq parts

\* The checks: nothing has been touched when one fails.
CheckEngine ==
    /\ launch = "none"
    /\ preserved' \in SUBSET Parts
    /\ launch' = IF {"stack", "reset"} \subseteq preserved' /\ MatchesPatchContract(preserved')
                 THEN "prepare" ELSE "refused"
    /\ UNCHANGED <<itcm, machine>>

\* ncr2_factory_compat_prepare, with the interrupts off.
PrepareMachine ==
    /\ launch = "prepare" /\ launch' = "copy"
    /\ machine' = "factory"
    /\ UNCHANGED <<preserved, itcm>>

\* ncr2_factory_engine_copy_to_itcm.
CopyEngine ==
    /\ launch = "copy" /\ launch' = "patch"
    /\ itcm' = preserved
    /\ UNCHANGED <<preserved, machine>>

\* patch_factory_return_monitor: the hook calls the monitor in the cave, and
\* the monitor the updater that the hook called.
PatchMonitor ==
    /\ launch = "patch" /\ launch' = "jump"
    /\ itcm' = (itcm \ {"hook", "cave"}) \cup {"monitor"}
    /\ UNCHANGED <<preserved, machine>>

\* A reset gives the machine back; what is left in ITCM is copied over before
\* anything runs there again.
ForgetLaunch == launch' = "none" /\ preserved' = {} /\ itcm' = {} /\ machine' = "open"

-----------------------------------------------------------------------------
\* factory_engine_launcher.h: "an invalid index or changed vector/hook/cave
\* fails closed before ITCM is modified": whatever is in ITCM was copied from
\* an engine in which everything the monitor relies on is as traced.
ItcmIsGenuine ==
    itcm # {} => \/ itcm = Parts
                 \/ itcm = {"stack", "reset", "led", "monitor"}
=============================================================================
