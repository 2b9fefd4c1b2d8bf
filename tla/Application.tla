----------------------------- MODULE Application -----------------------------
(***************************************************************************)
(* main.c of the open application: it carries a library, selects its first *)
(* program, confirms the image that it runs from, and then only counts;    *)
(* the board calls application_navigation_sample.                          *)
(***************************************************************************)
EXTENDS ProgramSelector, ProgramLibrary, BuiltinPrograms

CONSTANTS Builds   \* values of NCR2_APP_RETURN_TO_RECOVERY_AFTER_CONFIRM

ASSUME ApplicationAssumption == Builds \subseteq BOOLEAN

VARIABLES app_pc,    \* "start", "confirm", "loop", or what application_main left for
          active,    \* g_active_program
          advances   \* g_program_change_count

applicationVars == <<app_pc, active, advances, selectorVars>>

ApplicationInit ==
    /\ app_pc = "start"
    /\ active = 0 /\ advances = 0
    /\ count = 0 /\ SelectorIdle

LibraryStatus == LibraryValidate(ncr2_builtin_program_library, ncr2_basic_effect_registry)

\* application_programs_ready, from application_main: without a valid library
\* there is one program, and no confirmation.
ProgramsReady ==
    /\ app_pc = "start"
    /\ SelectorInitialize(IF LibraryStatus = "OK"
                          THEN Len(ncr2_starter_program_bank.programs) ELSE 1)
    /\ active' = 0 /\ advances' = 0
    /\ app_pc' = IF LibraryStatus = "OK" THEN "confirm" ELSE "loop"

\* ncr2_boot_confirm_healthy_and_reset returns unless there is a trial to confirm.
Confirm ==
    /\ app_pc = "confirm"
    /\ \/ app_pc' = "confirmed"
       \/ \E returns \in Builds : app_pc' = IF returns THEN "recovery" ELSE "loop"
    /\ UNCHANGED <<active, advances, selectorVars>>

\* application_navigation_sample
NavigationSample(pressed, elapsed) ==
    /\ app_pc = "loop"
    /\ SelectorSample(pressed, elapsed)
    /\ active' = IF selected' # selected THEN selected' ELSE active
    /\ advances' = IF selected' # selected THEN (advances + 1) % (Word + 1) ELSE advances
    /\ UNCHANGED app_pc

ApplicationNext ==
    \/ ProgramsReady \/ Confirm
    \/ \E pressed \in BOOLEAN, elapsed \in Elapsed : NavigationSample(pressed, elapsed)
=============================================================================
