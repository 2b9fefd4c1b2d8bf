----------------------------- MODULE FactoryBoard -----------------------------
(***************************************************************************)
(* board_control.c: the outputs of the pedal's board.  Of the nine traced  *)
(* outputs three are told apart here: the converter's power-down (GPIO1    *)
(* IO26) and the pair of the jack's relay, IO24 (the processor) and IO25   *)
(* (the dry route) of GPIO2.  The indicator and the others drive nothing   *)
(* that the modules know of.                                               *)
(*                                                                         *)
(* A function of board_control.c is the sequence of its register writes:   *)
(* DR_SET and DR_CLEAR change one output, a write of DR a whole port.      *)
(***************************************************************************)
EXTENDS Sequences

VARIABLES high,    \* the bits of DR that are set, and "driven": GDIR is output
          drives   \* the writes that the running function has left

boardVars == <<high, drives>>

Drive(set, clear) == [set |-> set, clear |-> clear]

BoardInit == high = {} /\ drives = << >>

\* ncr2_factory_board_prepare_audio: levels first, directions last.
PrepareAudio ==
    <<Drive({}, {"pdn"}), Drive({}, {"processor", "dry"}), Drive({"driven"}, {})>>

\* ncr2_factory_board_restore_idle: one candidate after the other.
RestoreIdle == <<Drive({}, {"pdn"}), Drive({}, {"processor"}), Drive({}, {"dry"})>>

\* ncr2_factory_board_release_audio.
ReleaseAudio == <<Drive({"pdn"}, {})>>

\* Faulty variant: raises the whole table, as the probe of a line would.
ReleaseEveryCandidate ==
    <<Drive({"pdn"}, {}), Drive({"processor"}, {}), Drive({"dry"}, {})>>

\* ncr2_factory_board_release_reset_candidates: all of them but IO24.
ReleaseResetCandidates == <<Drive({"pdn"}, {}), Drive({"dry"}, {})>>

\* ncr2_factory_board_restore_audio_active: one write per port.
RestoreAudioActive == <<Drive({"pdn"}, {}), Drive({"dry"}, {"processor"})>>

\* ncr2_factory_board_set_relay: both controls with one write.
SetRelay(engaged) ==
    IF engaged THEN <<Drive({"processor"}, {"dry"})>> ELSE <<Drive({"dry"}, {"processor"})>>

\* One register write.
DriveOutputs ==
    /\ drives # << >>
    /\ high' = (high \ Head(drives).clear) \cup Head(drives).set
    /\ drives' = Tail(drives)

\* A reset makes inputs of all pads.
ResetPads == high' = {} /\ drives' = << >>

-----------------------------------------------------------------------------
\* factory_board.h: "The pair must never be left high together."
RouteIsExclusive == ~({"processor", "dry"} \subseteq high)
=============================================================================
