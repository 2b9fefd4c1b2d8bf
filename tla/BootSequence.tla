---------------------------- MODULE BootSequence ----------------------------
(***************************************************************************)
(* The journal sequence number of boot_state.c and boot_journal.c: a       *)
(* uint32_t that is incremented once per appended record and compared by   *)
(* the sign of a 32-bit difference.                                        *)
(*                                                                         *)
(* HalfSeq stands for 2^31, so that a sequence number is a point of a ring *)
(* of 2 * HalfSeq values.  The ring is written without the modulo operator *)
(* so that its facts stay linear: see BootJournalProofs.                  *)
(***************************************************************************)
EXTENDS Integers

CONSTANT HalfSeq

ASSUME HalfSeqAssumption == HalfSeq \in Nat \ {0}

SeqMod == 2 * HalfSeq

SeqNums == 0 .. (SeqMod - 1)

\* ++state->sequence on a uint32_t.
Succ(n) == IF n = SeqMod - 1 THEN 0 ELSE n + 1

\* candidate - current on uint32_t: how far candidate is ahead of current.
SeqDist(candidate, current) ==
    IF candidate >= current THEN candidate - current
                            ELSE candidate - current + SeqMod

\* (int32_t)(candidate - current) > 0.
IsNewer(candidate, current) ==
    /\ SeqDist(candidate, current) > 0
    /\ SeqDist(candidate, current) < HalfSeq
=============================================================================
