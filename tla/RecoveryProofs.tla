---------------------------- MODULE RecoveryProofs ----------------------------
(***************************************************************************)
(* The recovery engine keeps EngineInv for every size of the flash, every  *)
(* image, every number of sessions and requests and every pattern of flash *)
(* failures; the properties of RecoveryEngine follow, and that it          *)
(* implements the boot policy's update session.                            *)
(*                                                                         *)
(* pedalctl and the engine together keep UploadInv for every file, every   *)
(* number of retries, of lost and of late reports and of runs; the         *)
(* properties of RecoveryUpload follow.                                    *)
(***************************************************************************)
EXTENDS RecoverySession, RecoveryUpload, TLAPS

LEMMA Geometry ==
    /\ BootCells \in Nat /\ SlotCells \in Nat \ {0} /\ MinImage \in 1 .. SlotCells
    /\ EraseChunk \in Nat \ {0}
    /\ FlashCells \in Nat \ {0}
    /\ \A s : /\ SlotBase(s) \in Nat
              /\ SlotBase(s) + SlotCells <= FlashCells
              /\ SlotBase(s) > 0
BY RecoveryEngineAssumption DEF FlashCells, SlotBase

LEMMA Bounds ==
    /\ MaxSessions \in Nat /\ MaxSequence \in Nat \ {0} /\ MaxUpdates \in Nat
    /\ FullFlashEnabled \in BOOLEAN
    /\ Erased \in Contents /\ Torn \in Contents
    /\ Payloads \subseteq Contents
    /\ Erased \notin Payloads /\ Torn \notin Payloads
    /\ NoData \notin DOMAIN WholeChip
    /\ NoState \notin States
BY RecoveryEngineAssumption DEF Contents

\* A chip that was restored starts from the default state.
LEMMA DefaultIsState == DefaultState \in States
<1>1. 0 \in SeqNums /\ 0 \in 0 .. MaxTrials
  BY HalfSeqAssumption, BootStateAssumption DEF SeqNums, SeqMod
<1>2. QED
  BY <1>1 DEF DefaultState, States, Slots

\* What the engine uses of a boot state, and what becomes of one when it
\* starts an update.
LEMMA BootStates ==
    ASSUME NEW s \in States
    PROVE  /\ s.confirmed \in Slots
           /\ SelectedSlot(s) \in Slots
           /\ \A slot :
                /\ BeginUpdate(s, slot) \in States
                /\ BeginUpdate(s, slot).confirmed = s.confirmed
                /\ slot \in Slots /\ slot # s.confirmed =>
                      BeginUpdate(s, slot).pending = slot
<1>1. s \in [sequence : SeqNums, confirmed : Slots,
             pending : Slots \cup {NoSlot}, trials : 0 .. MaxTrials]
  BY DEF States
<1>2. 0 \in 0 .. MaxTrials /\ \A n \in SeqNums : Succ(n) \in SeqNums
  BY HalfSeqAssumption, BootStateAssumption DEF SeqNums, SeqMod, Succ
<1>3. QED
  BY <1>1, <1>2 DEF BeginUpdate, SelectedSlot, TrialsExhausted, States

\* What the type invariant says of the variables that the handlers use.
LEMMA FieldTypes ==
    ASSUME TypeOK
    PROVE  /\ flash \in [Cells -> Contents]
           /\ boot \in States
           /\ next \in Nat /\ size \in Nat
           /\ erased \in Nat /\ erased <= FlashCells
           /\ session \in Nat /\ expected \in Nat /\ updates \in Nat
           /\ sent \in Seq(Payloads)
           /\ phase \in Phases
           /\ full \in BOOLEAN /\ on \in BOOLEAN
BY Geometry, Bounds DEF TypeOK

\* A packet that is a command of the session carries the flags of its target.
LEMMA Executed ==
    ASSUME NEW r \in Packets, Executes(r)
    PROVE  /\ r.offset \in Nat
           /\ r.command \in {"erase", "write", "read", "finalize", "set_pending",
                             "reboot", "erase_full", "finalize_full"} =>
                 /\ phase # "idle"
                 /\ r.flags = IF full THEN Full ELSE target
           /\ r.command \in {"erase", "finalize", "set_pending"} => ~full
           /\ r.command = "erase_full" => full
           /\ r.command = "begin" => r.flags \in Slots
           /\ r.command = "begin_full" => r.data \in DOMAIN WholeChip
           /\ r.command = "write" => r.data \in Payloads
<1>1. WellFormed(r) /\ Addressed(r) /\ Allowed(r)
  BY DEF Executes
<1>2. r.offset \in Nat /\ r.flags \in Slots \cup {Full}
  BY DEF Packets
<1>3. r.command \in {"erase", "write", "read", "finalize", "set_pending",
                     "reboot", "erase_full", "finalize_full"} =>
          phase # "idle" /\ r.flags = IF full THEN Full ELSE target
  BY <1>1 DEF Addressed, InSession, SessionCommands
<1>4. r.command \in {"erase", "finalize", "set_pending", "begin"} => r.flags # Full
  BY <1>1 DEF WellFormed, FullOnly
<1>5. r.command \in {"erase", "finalize", "set_pending"} => ~full
  BY <1>3, <1>4
<1>6. r.command = "erase_full" => full
  BY <1>1 DEF Allowed
<1>7. r.command = "begin_full" => r.data \in DOMAIN WholeChip
  BY <1>1 DEF WellFormed
<1>8. r.command = "write" => r.data \in Payloads
  BY <1>1 DEF WellFormed
<1>9. QED
  BY <1>2, <1>3, <1>4, <1>5, <1>6, <1>7, <1>8

-----------------------------------------------------------------------------
(* The retry cache and the sequence.                                       *)

LEMMA SettleSequence ==
    ASSUME EngineInv, NEW r \in Packets, NEW status, WithinBounds(r), Settle(r, status)
    PROVE  expected' \in 0 .. MaxSequence
<1>1. expected \in Nat /\ expected <= MaxSequence /\ MaxSequence \in Nat \ {0}
  BY Bounds DEF EngineInv, TypeOK
<1>2. CASE status # "ok"
  BY <1>1, <1>2 DEF Settle
<1>3. CASE status = "ok" /\ r.command \in SessionCommands
  <2>1. expected < MaxSequence
    BY <1>3 DEF WithinBounds
  <2>2. expected' = expected + 1
    BY <1>3 DEF Settle, SessionCommands
  <2>3. QED
    BY <1>1, <2>1, <2>2
<1>4. CASE status = "ok" /\ r.command \notin SessionCommands
  <2>1. expected' \in {1, expected}
    BY <1>4 DEF Settle
  <2>2. QED
    BY <1>1, <2>1
<1>5. QED
  BY <1>2, <1>3, <1>4

LEMMA ReplayKeeps ==
    ASSUME ReplayedInfoIsCurrent, NEW r \in Packets, NEW status, Settle(r, status),
           \/ boot' = boot /\ phase' = phase
           \/ status = "ok" /\ r.command \notin {"get_info", "read_knobs"}
    PROVE  ReplayedInfoIsCurrent'
<1>1. CASE previous' = previous /\ boot' = boot /\ phase' = phase
  BY <1>1 DEF ReplayedInfoIsCurrent, Info
<1>2. CASE status = "ok" /\ r.command # "read_knobs"
  <2>1. previous' = [request |-> r, response |-> Answer(r, status)]
    BY <1>2 DEF Settle
  <2>2. CASE r.command # "get_info"
    BY <2>1, <2>2 DEF ReplayedInfoIsCurrent
  <2>3. CASE r.command = "get_info"
    <3>1. Answer(r, status).data = Info
      BY <1>2, <2>3 DEF Answer
    <3>2. Info' = Info
      BY <2>3 DEF Info
    <3>3. QED
      BY <2>1, <3>1, <3>2 DEF ReplayedInfoIsCurrent
  <2>4. QED
    BY <2>2, <2>3
<1>3. CASE ~(status = "ok" /\ r.command # "read_knobs")
  <2>1. previous' = previous
    BY <1>3 DEF Settle
  <2>2. QED
    BY <1>1, <1>3, <2>1
<1>4. QED
  BY <1>2, <1>3

-----------------------------------------------------------------------------
(* One lemma per handler.                                                  *)

LEMMA UnchangedKeeps ==
    ASSUME EngineInv, NEW r \in Packets, NEW status,
           WithinBounds(r), Settle(r, status), active' = active, Unchanged
    PROVE  EngineInv'
<1> USE DEF Unchanged, sessionVars, progressVars, journalVars
<1>1. expected' \in 0 .. MaxSequence
  BY SettleSequence
<1>2. ReplayedInfoIsCurrent'
  BY ReplayKeeps DEF EngineInv
<1>3. TypeOK'
  BY <1>1 DEF EngineInv, TypeOK
<1>4. SessionInv' /\ ErasedIsEmpty' /\ JournalFollows'
  BY DEF EngineInv, SessionInv, ErasedIsEmpty, JournalFollows
<1>5. AcknowledgedIsStored' /\ EraseProgressIsReal'
  BY DEF EngineInv, AcknowledgedIsStored, EraseProgressIsReal, Base
<1>6. FinalizedIsVerified' /\ PendingIsDurable'
  BY DEF EngineInv, FinalizedIsVerified, PendingIsDurable, Verified, HoldsImage
<1>7. QED
  BY <1>2, <1>3, <1>4, <1>5, <1>6 DEF EngineInv

LEMMA BeginImageKeeps ==
    ASSUME EngineInv, NEW r \in Packets, NEW status, Executes(r),
           WithinBounds(r), Settle(r, status), active' = active, BeginImage(r, status)
    PROVE  EngineInv'
<1> USE DEF BeginImage, NewSession, journalVars
<1>0. TypeOK /\ MayBegin(r)
  BY DEF EngineInv, Executes, Allowed
<1>1. expected' \in 0 .. MaxSequence
  BY SettleSequence
<1>2. ReplayedInfoIsCurrent'
  BY ReplayKeeps DEF EngineInv
<1>3. /\ r.flags \in Slots \ {active, boot.confirmed}
      /\ r.offset \in MinImage .. SlotCells
  BY <1>0, Executed DEF MayBegin
<1>4. r.offset \in Nat
  BY <1>3, Geometry
<1>5. session' \in 0 .. MaxSessions
  BY <1>0, Bounds DEF TypeOK, WithinBounds
<1>6. sent' \in Seq(Payloads)
  OBVIOUS
<1>7. TypeOK'
  BY <1>0, <1>1, <1>3, <1>4, <1>5, <1>6 DEF TypeOK, Phases
<1>8. SessionInv' /\ ErasedIsEmpty' /\ JournalFollows'
  BY <1>3, <1>4 DEF EngineInv, SessionInv, ErasedIsEmpty, JournalFollows
<1>9. /\ AcknowledgedIsStored' /\ EraseProgressIsReal'
      /\ FinalizedIsVerified' /\ PendingIsDurable'
  BY DEF AcknowledgedIsStored, EraseProgressIsReal, FinalizedIsVerified, PendingIsDurable
<1>10. QED
  BY <1>2, <1>7, <1>8, <1>9 DEF EngineInv

LEMMA BeginFullFlashKeeps ==
    ASSUME EngineInv, NEW r \in Packets, NEW status, Executes(r),
           WithinBounds(r), Settle(r, status), active' = active, BeginFullFlash(r, status)
    PROVE  EngineInv'
<1> USE DEF BeginFullFlash, NewSession, journalVars
<1>0. TypeOK /\ FullFlashEnabled
  BY DEF EngineInv, Executes, Allowed
<1>1. expected' \in 0 .. MaxSequence
  BY SettleSequence
<1>2. ReplayedInfoIsCurrent'
  BY ReplayKeeps DEF EngineInv
<1>3. r.data \in DOMAIN WholeChip
  BY Executed
<1>5. session' \in 0 .. MaxSessions
  BY <1>0, Bounds DEF TypeOK, WithinBounds
<1>6. sent' \in Seq(Payloads)
  OBVIOUS
<1>7. TypeOK'
  BY <1>0, <1>1, <1>3, <1>5, <1>6, Geometry DEF TypeOK, Phases
<1>8. SessionInv' /\ ErasedIsEmpty' /\ JournalFollows'
  BY <1>0, Geometry DEF EngineInv, SessionInv, ErasedIsEmpty, JournalFollows
<1>9. AcknowledgedIsStored' /\ FinalizedIsVerified' /\ PendingIsDurable'
  BY DEF AcknowledgedIsStored, FinalizedIsVerified, PendingIsDurable
<1>10. EraseProgressIsReal'
  BY Geometry DEF EraseProgressIsReal, Cells
<1>11. QED
  BY <1>2, <1>7, <1>8, <1>9, <1>10 DEF EngineInv

LEMMA FinalizeKeeps ==
    ASSUME EngineInv, NEW r \in Packets, NEW status, Executes(r),
           WithinBounds(r), Settle(r, status), active' = active, Finalize(r, status)
    PROVE  EngineInv'
<1> USE DEF Finalize, sessionVars, journalVars
<1>0. TypeOK /\ phase = "writing"
  BY DEF EngineInv, Executes, Allowed
<1>1. expected' \in 0 .. MaxSequence
  BY SettleSequence
<1>2. ReplayedInfoIsCurrent'
  BY ReplayKeeps DEF EngineInv
<1>3. TypeOK'
  BY <1>0, <1>1 DEF TypeOK, Phases
<1>4. SessionInv' /\ ErasedIsEmpty' /\ JournalFollows'
  BY <1>0 DEF EngineInv, SessionInv, ErasedIsEmpty, JournalFollows
<1>5. AcknowledgedIsStored' /\ EraseProgressIsReal'
  BY <1>0 DEF EngineInv, AcknowledgedIsStored, EraseProgressIsReal, Base
<1>6. FinalizedIsVerified'
  BY <1>0 DEF FinalizedIsVerified, Verified, HoldsImage
<1>7. PendingIsDurable'
  BY <1>0 DEF PendingIsDurable
<1>8. QED
  BY <1>2, <1>3, <1>4, <1>5, <1>6, <1>7 DEF EngineInv

LEMMA RebootKeeps ==
    ASSUME EngineInv, NEW r \in Packets, NEW status,
           WithinBounds(r), Settle(r, status), active' = active, Reboot(r, status)
    PROVE  EngineInv'
<1> USE DEF Reboot, sessionVars, progressVars, journalVars
<1>1. expected' \in 0 .. MaxSequence
  BY SettleSequence
<1>2. ReplayedInfoIsCurrent'
  BY ReplayKeeps DEF EngineInv
<1>3. TypeOK'
  BY <1>1 DEF EngineInv, TypeOK
<1>4. SessionInv' /\ ErasedIsEmpty' /\ JournalFollows'
  BY DEF EngineInv, SessionInv, ErasedIsEmpty, JournalFollows
<1>5. AcknowledgedIsStored' /\ EraseProgressIsReal'
  BY DEF EngineInv, AcknowledgedIsStored, EraseProgressIsReal, Base
<1>6. FinalizedIsVerified' /\ PendingIsDurable'
  BY DEF EngineInv, FinalizedIsVerified, PendingIsDurable, Verified, HoldsImage
<1>7. QED
  BY <1>2, <1>3, <1>4, <1>5, <1>6 DEF EngineInv

LEMMA SetPendingKeeps ==
    ASSUME EngineInv, NEW r \in Packets, NEW status, Executes(r),
           WithinBounds(r), Settle(r, status), active' = active, SetPending(r, status)
    PROVE  EngineInv'
<1> DEFINE state == BeginUpdate(boot, target)
<1> USE DEF SetPending, sessionVars
<1>0. TypeOK /\ phase = "finalized" /\ state.pending = target
  BY DEF EngineInv, Executes, Allowed
<1>0a. ~full /\ target \in Slots /\ target # boot.confirmed
  BY <1>0, Executed DEF EngineInv, SessionInv
<1>0b. /\ state \in States /\ state.confirmed = boot.confirmed
       /\ boot \in States /\ durable \in States \cup {NoState}
       /\ state # NoState /\ state.pending # state.confirmed
  <2>1. boot \in States /\ durable \in States \cup {NoState}
    BY <1>0 DEF TypeOK
  <2>2. state \in States
    BY <2>1, BootStates
  <2>3. state.confirmed = boot.confirmed
    BY <2>1, <1>0a, BootStates
  <2>4. state # NoState
    BY <2>2, Bounds
  <2>5. QED
    BY <2>1, <2>2, <2>3, <2>4, <1>0, <1>0a
<1>0c. /\ boot' \in {boot, state}
       /\ durable' \in {durable, state}
       /\ phase' \in {"finalized", "pending"}
       /\ phase' = "pending" => durable' = boot' /\ boot' = state
  BY <1>0
<1>0d. updates' \in 0 .. MaxUpdates
  BY <1>0, Bounds DEF TypeOK, WithinBounds
<1>1. expected' \in 0 .. MaxSequence
  BY SettleSequence
<1>2. ReplayedInfoIsCurrent'
  <2>1. \/ boot' = boot /\ phase' = phase
        \/ status = "ok" /\ r.command \notin {"get_info", "read_knobs"}
    OBVIOUS
  <2>2. QED
    BY <2>1, ReplayKeeps DEF EngineInv
<1> HIDE DEF state
<1>3. TypeOK'
  BY <1>0, <1>0b, <1>0c, <1>0d, <1>1 DEF TypeOK, Phases
<1>4. SessionInv'
  BY <1>0, <1>0a, <1>0b, <1>0c DEF EngineInv, SessionInv, Decodes
<1>5. ErasedIsEmpty' /\ JournalFollows'
  BY <1>0b, <1>0c DEF EngineInv, ErasedIsEmpty, JournalFollows
<1>6. AcknowledgedIsStored' /\ EraseProgressIsReal'
  BY <1>0, <1>0c DEF EngineInv, AcknowledgedIsStored, EraseProgressIsReal, Base
<1>7. FinalizedIsVerified'
  BY <1>0 DEF EngineInv, FinalizedIsVerified, Verified, HoldsImage
<1>8. PendingIsDurable'
  BY <1>0, <1>0a, <1>0b, <1>0c DEF PendingIsDurable
<1>9. QED
  BY <1>2, <1>3, <1>4, <1>5, <1>6, <1>7, <1>8 DEF EngineInv

-----------------------------------------------------------------------------
(* The handlers that change the flash.                                     *)

LEMMA DeclaredIsErased ==
    ASSUME TypeOK, target \in Slots, size \in MinImage .. SlotCells
    PROVE  /\ DeclaredSectors \subseteq Cells
           /\ \A k \in 0 .. size - 1 : SlotBase(target) + k \in DeclaredSectors
<1>1. /\ SlotBase(target) \in Nat /\ SlotBase(target) + SlotCells <= FlashCells
      /\ SlotCells \in Nat /\ FlashCells \in Nat /\ size \in Nat /\ size <= SlotCells
  BY Geometry
<1>2. DeclaredSectors \subseteq Cells
  BY <1>1 DEF DeclaredSectors, SlotCellsOf, Cells
<1>3. ASSUME NEW k \in 0 .. size - 1 PROVE SlotBase(target) + k \in DeclaredSectors
  <2>1. SlotBase(target) + k \in SlotCellsOf(target)
    BY <1>1 DEF SlotCellsOf
  <2>2. QED
    BY <2>1 DEF DeclaredSectors
<1>4. QED
  BY <1>2, <1>3

\* What the backend leaves has the type of a flash content, and only the cells
\* that it was given have changed.
LEMMA BackendEffects ==
    ASSUME flash \in [Cells -> Contents], NEW cells
    PROVE  /\ EraseSucceeds(cells) \/ EraseFails(cells) =>
                 /\ flash' \in [Cells -> Contents]
                 /\ \A c \in Cells : flash'[c] # flash[c] => c \in cells
                 /\ \A c \in Cells : flash'[c] \in {flash[c], Erased, Torn}
           /\ EraseSucceeds(cells) => \A c \in Cells \cap cells : flash'[c] = Erased
<1>1. CASE EraseSucceeds(cells)
  BY <1>1, Bounds DEF EraseSucceeds
<1>2. CASE EraseFails(cells)
  <2>1. PICK failed \in cells, torn \in BOOLEAN :
           flash' = [c \in Cells |->
               IF c \in cells /\ Sector(c) < Sector(failed) THEN Erased
               ELSE IF torn /\ c \in cells /\ Sector(c) = Sector(failed) THEN Torn
               ELSE flash[c]]
    BY <1>2 DEF EraseFails
  <2>2. ASSUME NEW c \in Cells
        PROVE  \/ flash'[c] = flash[c]
               \/ c \in cells /\ flash'[c] \in {Erased, Torn}
    BY <2>1
  <2>3. flash' = [c \in Cells |-> flash'[c]]
    BY <2>1
  <2>4. \A c \in Cells : flash'[c] \in Contents
    BY <2>2, Bounds
  <2>5. flash' \in [Cells -> Contents]
    BY <2>3, <2>4
  <2>6. ~EraseSucceeds(cells) \/ \A c \in Cells \cap cells : flash'[c] = Erased
    BY DEF EraseSucceeds
  <2>7. QED
    BY <2>2, <2>5, <2>6
<1>3. QED
  BY <1>1, <1>2

LEMMA ProgramEffects ==
    ASSUME flash \in [Cells -> Contents], NEW cell \in Cells, NEW data \in Payloads
    PROVE  /\ ProgramSucceeds(cell, data) \/ ProgramFails(cell, data) =>
                 /\ flash' \in [Cells -> Contents]
                 /\ \A c \in Cells : c # cell => flash'[c] = flash[c]
           /\ ProgramSucceeds(cell, data) => flash'[cell] = data
<1>1. CASE ProgramSucceeds(cell, data)
  BY <1>1, Bounds DEF ProgramSucceeds
<1>2. CASE ProgramFails(cell, data)
  <2>1. PICK left \in {flash[cell], Torn, data} : flash' = [flash EXCEPT ![cell] = left]
    BY <1>2 DEF ProgramFails
  <2>2. left \in Contents
    BY Bounds
  <2>3. QED
    BY <2>1, <2>2, ~ProgramSucceeds(cell, data) \/ ProgramSucceeds(cell, data), <1>1
<1>3. QED
  BY <1>1, <1>2

LEMMA EraseSlotKeeps ==
    ASSUME EngineInv, NEW r \in Packets, NEW status, Executes(r),
           WithinBounds(r), Settle(r, status), active' = active, EraseSlot(r, status)
    PROVE  EngineInv'
<1> USE DEF EraseSlot, sessionVars, progressVars, journalVars
<1>0. TypeOK /\ phase \in {"begun", "erased"}
  BY DEF EngineInv, Executes, Allowed
<1>0a. ~full /\ target \in Slots /\ size \in MinImage .. SlotCells
  BY <1>0, Executed DEF EngineInv, SessionInv
<1>0b. size \in Nat /\ next \in Nat /\ next <= size
  BY <1>0 DEF EngineInv, TypeOK, SessionInv
<1>1. expected' \in 0 .. MaxSequence
  BY SettleSequence
<1>2. ReplayedInfoIsCurrent'
  <2>1. \/ boot' = boot /\ phase' = phase
        \/ status = "ok" /\ r.command \notin {"get_info", "read_knobs"}
    OBVIOUS
  <2>2. QED
    BY <2>1, ReplayKeeps DEF EngineInv
<1>3. flash \in [Cells -> Contents]
  BY <1>0 DEF TypeOK
<1>4. /\ flash' \in [Cells -> Contents]
      /\ \A c \in Cells : flash'[c] \in {flash[c], Erased, Torn}
  BY <1>3, BackendEffects
<1>5. TypeOK'
  <2>1. /\ next' \in Nat /\ sent' \in Seq(Payloads)
        /\ phase' \in Phases
    <3>1. next \in Nat /\ sent \in Seq(Payloads) /\ phase \in Phases
      BY <1>0 DEF TypeOK
    <3>2. "erased" \in Phases /\ << >> \in Seq(Payloads)
      BY DEF Phases
    <3>3. \/ next' = next /\ sent' = sent /\ phase' = phase
          \/ next' = 0 /\ sent' = << >> /\ phase' = "erased"
      OBVIOUS
    <3>4. CASE next' = next /\ sent' = sent /\ phase' = phase
      BY <3>1, <3>4
    <3>5. CASE next' = 0 /\ sent' = << >> /\ phase' = "erased"
      BY <3>2, <3>5
    <3>6. QED
      BY <3>3, <3>4, <3>5
  <2>2. QED
    BY <1>0, <1>1, <1>4, <2>1 DEF TypeOK
<1>6. SessionInv' /\ ErasedIsEmpty' /\ JournalFollows'
  BY <1>0, <1>0a, <1>0b DEF EngineInv, SessionInv, ErasedIsEmpty, JournalFollows
<1>7. AcknowledgedIsStored'
  <2>1. CASE status = "ok"
    <3>1. /\ next' = 0 /\ sent' = << >> /\ size' = size /\ Base' = SlotBase(target)
          /\ EraseSucceeds(DeclaredSectors)
      BY <2>1, <1>0a DEF Base
    <3>2. \A k \in 0 .. size - 1 : flash'[SlotBase(target) + k] = Erased
      BY <3>1, <1>0, <1>0a, <1>3, DeclaredIsErased, BackendEffects
    <3>3. QED
      BY <3>1, <3>2, <1>0b DEF AcknowledgedIsStored
  <2>2. CASE status = "failed"
    <3>1. /\ next' = next /\ sent' = sent /\ size' = size /\ phase' = phase
          /\ Base' = Base /\ Base = SlotBase(target)
      BY <2>2, <1>0a DEF Base
    <3>2. CASE phase = "begun"
      BY <3>1, <3>2 DEF AcknowledgedIsStored
    <3>3. CASE phase = "erased"
      <4>1. next = 0
        BY <3>3 DEF EngineInv, ErasedIsEmpty
      <4>2. /\ next = Len(sent)
            /\ \A k \in next + 1 .. size - 1 : flash[Base + k] \in {Erased, Torn}
        BY <3>3 DEF EngineInv, AcknowledgedIsStored
      <4>3. \A k \in 0 .. size - 1 : Base + k \in Cells
        BY <3>1, <1>0, <1>0a, DeclaredIsErased
      <4>4. \A k \in next + 1 .. size - 1 : flash'[Base + k] \in {Erased, Torn}
        BY <4>1, <4>2, <4>3, <1>4, <1>0b
      <4>5. QED
        BY <3>1, <4>1, <4>2, <4>4 DEF AcknowledgedIsStored
    <3>4. QED
      BY <1>0, <3>2, <3>3
  <2>3. QED
    BY <2>1, <2>2
<1>8. EraseProgressIsReal' /\ FinalizedIsVerified' /\ PendingIsDurable'
  BY <1>0, <1>0a DEF EraseProgressIsReal, FinalizedIsVerified, PendingIsDurable
<1>9. QED
  BY <1>2, <1>5, <1>6, <1>7, <1>8 DEF EngineInv

LEMMA EraseRangeBounds ==
    ASSUME TypeOK, erased < FlashCells
    PROVE  /\ FullEraseCount \in Nat \ {0}
           /\ erased + FullEraseCount <= FlashCells
           /\ EraseRange \subseteq Cells
<1>1. erased \in Nat /\ FlashCells \in Nat /\ EraseChunk \in Nat \ {0}
  BY Geometry DEF TypeOK
<1>2. QED
  BY <1>1 DEF FullEraseCount, EraseRange

LEMMA EraseFullFlashKeeps ==
    ASSUME EngineInv, NEW r \in Packets, NEW status, Executes(r),
           WithinBounds(r), Settle(r, status), active' = active, EraseFullFlash(r, status)
    PROVE  EngineInv'
<1> USE DEF sessionVars
<1>0. TypeOK /\ phase = "begun" /\ full
  BY DEF EngineInv, Executes, Allowed, EraseFullFlash
<1>0a. /\ erased \in Nat /\ erased < FlashCells /\ FlashCells \in Nat
       /\ size = FlashCells /\ target = NoSlot /\ FullFlashEnabled
  BY <1>0, Geometry DEF EngineInv, SessionInv, TypeOK
<1>0b. next \in Nat /\ next <= size
  BY <1>0 DEF EngineInv, TypeOK, SessionInv
<1>0c. /\ r.command = "erase_full"
       /\ session' = session /\ target' = target /\ full' = full
       /\ digest' = digest /\ size' = size
       /\ boot' = boot /\ updates' = updates /\ on' = on
  BY DEF EraseFullFlash
<1>0d. /\ FullEraseCount \in Nat \ {0}
       /\ erased + FullEraseCount <= FlashCells
       /\ EraseRange \subseteq Cells
  BY <1>0, <1>0a, EraseRangeBounds
<1>0e. \/ /\ status = "ok" /\ EraseSucceeds(EraseRange)
          /\ erased' = erased + FullEraseCount
          /\ erased' = FlashCells =>
                next' = 0 /\ sent' = << >> /\ phase' = "erased"
          /\ erased' # FlashCells => next' = next /\ sent' = sent /\ phase' = phase
       \/ /\ status = "failed" /\ EraseFails(EraseRange)
          /\ erased' = erased /\ next' = next /\ sent' = sent /\ phase' = phase
  BY DEF EraseFullFlash, AdvanceErase, progressVars
<1>0f. durable' \in {NoState, durable}
  BY DEF EraseFullFlash
<1>1. expected' \in 0 .. MaxSequence
  BY SettleSequence
<1>2. ReplayedInfoIsCurrent'
  <2>1. \/ boot' = boot /\ phase' = phase
        \/ status = "ok" /\ r.command \notin {"get_info", "read_knobs"}
    BY <1>0c, <1>0e
  <2>2. QED
    BY <2>1, ReplayKeeps DEF EngineInv
<1>3. flash \in [Cells -> Contents]
  BY <1>0 DEF TypeOK
<1>4. /\ flash' \in [Cells -> Contents]
      /\ \A c \in Cells : flash'[c] \in {flash[c], Erased, Torn}
      /\ \A c \in Cells : flash'[c] # flash[c] => c \in EraseRange
      /\ status = "ok" => \A c \in EraseRange : flash'[c] = Erased
  BY <1>3, <1>0d, <1>0e, BackendEffects
<1>5. TypeOK'
  <2>1. next' \in Nat /\ phase' \in Phases
    BY <1>0, <1>0b, <1>0e DEF Phases
  <2>2. sent' \in Seq(Payloads)
    <3>1. sent \in Seq(Payloads) /\ << >> \in Seq(Payloads)
      BY <1>0 DEF TypeOK
    <3>2. QED
      BY <3>1, <1>0e
  <2>3. erased' \in 0 .. FlashCells
    BY <1>0a, <1>0d, <1>0e
  <2>4. durable' \in States \cup {NoState}
    BY <1>0, <1>0f DEF TypeOK
  <2>5. QED
    BY <1>0, <1>0c, <1>1, <1>4, <2>1, <2>2, <2>3, <2>4 DEF TypeOK
<1>6. SessionInv' /\ ErasedIsEmpty' /\ JournalFollows'
  <2>1. next' <= size
    BY <1>0a, <1>0b, <1>0e
  <2>2. phase' = "begun" => erased' < FlashCells
    BY <1>0a, <1>0d, <1>0e
  <2>3. phase' = "erased" => next' = 0
    BY <1>0, <1>0e
  <2>4. QED
    BY <1>0, <1>0a, <1>0c, <2>1, <2>2, <2>3 DEF EngineInv, SessionInv, ErasedIsEmpty, JournalFollows
<1>7. \A c \in Cells : status = "ok" /\ c < erased' => flash'[c] = Erased
  <2>1. SUFFICES ASSUME NEW c \in Cells, status = "ok", c < erased'
                 PROVE  flash'[c] = Erased
    OBVIOUS
  <2>2. c \in Nat
    BY <1>0a DEF Cells
  <2>3. CASE c < erased
    <3>1. flash[c] = Erased
      BY <2>3, <1>0 DEF EngineInv, EraseProgressIsReal
    <3>2. c \notin EraseRange
      BY <2>2, <2>3, <1>0a DEF EraseRange
    <3>3. QED
      BY <3>1, <3>2, <1>4
  <2>4. CASE ~(c < erased)
    <3>1. c \in EraseRange
      BY <2>1, <2>2, <2>4, <1>0a, <1>0d, <1>0e DEF EraseRange
    <3>2. QED
      BY <2>1, <3>1, <1>4
  <2>5. QED
    BY <2>3, <2>4
<1>8. EraseProgressIsReal'
  <2>1. CASE status = "ok"
    BY <2>1, <1>7 DEF EraseProgressIsReal
  <2>2. CASE status = "failed"
    <3>1. SUFFICES ASSUME NEW c \in Cells, c < erased PROVE flash'[c] = Erased
      BY <2>2, <1>0e DEF EraseProgressIsReal
    <3>2. flash[c] = Erased
      BY <3>1, <1>0 DEF EngineInv, EraseProgressIsReal
    <3>3. c \notin EraseRange
      BY <3>1, <1>0a DEF EraseRange, Cells
    <3>4. QED
      BY <3>2, <3>3, <1>4
  <2>3. QED
    BY <2>1, <2>2, <1>0e
<1>9. AcknowledgedIsStored'
  <2>1. CASE status = "ok" /\ erased' = FlashCells
    <3>1. next' = 0 /\ sent' = << >> /\ size' = FlashCells /\ Base' = 0
      BY <2>1, <1>0, <1>0a, <1>0c, <1>0e DEF Base
    <3>2. \A k \in 0 .. FlashCells - 1 : flash'[k] = Erased
      BY <2>1, <1>7, <1>0a DEF Cells
    <3>3. QED
      BY <3>1, <3>2, <1>0a DEF AcknowledgedIsStored
  <2>2. CASE phase' = "begun"
    BY <2>2 DEF AcknowledgedIsStored
  <2>3. QED
    BY <2>1, <2>2, <1>0, <1>0e
<1>10. FinalizedIsVerified' /\ PendingIsDurable'
  BY <1>0, <1>0e DEF FinalizedIsVerified, PendingIsDurable
<1>11. QED
  BY <1>2, <1>5, <1>6, <1>8, <1>9, <1>10 DEF EngineInv

LEMMA WriteKeeps ==
    ASSUME EngineInv, NEW r \in Packets, NEW status, Executes(r),
           WithinBounds(r), Settle(r, status), active' = active, Write(r, status)
    PROVE  EngineInv'
<1> USE DEF sessionVars
<1>0. /\ TypeOK /\ phase \in {"erased", "writing"}
      /\ r.offset = next /\ next < size /\ r.command = "write"
  BY DEF EngineInv, Executes, Allowed, MayWrite, Write
<1>0a. next \in Nat /\ size \in Nat /\ r.data \in Payloads
  BY <1>0, Executed DEF TypeOK
<1>0b. TargetCell(r) = Base + next /\ Base \in Nat /\ Base + size <= FlashCells
  <2>1. TargetCell(r) = Base + next
    BY <1>0, <1>0a, Geometry DEF TargetCell, Base
  <2>2. CASE full
    BY <2>1, <2>2, <1>0, Geometry DEF EngineInv, SessionInv, Base
  <2>3. CASE ~full
    <3>1. size \in MinImage .. SlotCells
      BY <2>3, <1>0 DEF EngineInv, SessionInv
    <3>2. QED
      BY <2>1, <2>3, <3>1, <1>0a, Geometry DEF Base
  <2>4. QED
    BY <2>2, <2>3
<1>0c. \A k \in 0 .. size - 1 : Base + k \in Cells
  BY <1>0a, <1>0b, Geometry DEF Cells
<1>0d. TargetCell(r) \in Cells
  BY <1>0, <1>0a, <1>0b, <1>0c
<1>0e. \/ /\ status = "ok" /\ ProgramSucceeds(TargetCell(r), r.data)
          /\ next' = next + 1 /\ sent' = Append(sent, r.data) /\ phase' = "writing"
       \/ /\ status = "failed" /\ ProgramFails(TargetCell(r), r.data)
          /\ next' = next /\ sent' = sent /\ phase' = phase
  BY DEF Write, Acknowledge, progressVars
<1>0f. /\ session' = session /\ target' = target /\ full' = full
       /\ digest' = digest /\ size' = size /\ erased' = erased
       /\ boot' = boot /\ updates' = updates /\ on' = on
  BY DEF Write, Acknowledge, progressVars
<1>0g. durable' \in {NoState, DefaultState, durable} /\ (~full => durable' = durable)
  <2>1. ~full => TargetCell(r) # JournalCell
    <3>1. ~full => Base > 0
      BY Geometry DEF Base
    <3>2. QED
      BY <3>1, <1>0a, <1>0b DEF JournalCell
  <2>2. QED
    BY <2>1 DEF Write, JournalWritten
<1>1. expected' \in 0 .. MaxSequence
  BY SettleSequence
<1>2. ReplayedInfoIsCurrent'
  <2>1. \/ boot' = boot /\ phase' = phase
        \/ status = "ok" /\ r.command \notin {"get_info", "read_knobs"}
    BY <1>0, <1>0e, <1>0f
  <2>2. QED
    BY <2>1, ReplayKeeps DEF EngineInv
<1>3. flash \in [Cells -> Contents] /\ sent \in Seq(Payloads)
  BY <1>0 DEF TypeOK
<1>4. /\ flash' \in [Cells -> Contents]
      /\ \A c \in Cells : c # TargetCell(r) => flash'[c] = flash[c]
      /\ status = "ok" => flash'[TargetCell(r)] = r.data
  BY <1>0a, <1>0d, <1>0e, <1>3, ProgramEffects
<1>5. /\ Append(sent, r.data) \in Seq(Payloads)
      /\ Len(Append(sent, r.data)) = Len(sent) + 1
      /\ \A k \in 1 .. Len(sent) : Append(sent, r.data)[k] = sent[k]
      /\ Append(sent, r.data)[Len(sent) + 1] = r.data
  BY <1>0a, <1>3
<1>6. TypeOK'
  <2>1. next' \in Nat /\ phase' \in Phases
    BY <1>0, <1>0a, <1>0e DEF Phases
  <2>2. sent' \in Seq(Payloads)
    BY <1>0e, <1>3, <1>5
  <2>3. durable' \in States \cup {NoState}
    BY <1>0, <1>0g, FieldTypes, DefaultIsState DEF TypeOK
  <2>4. QED
    BY <1>0, <1>0f, <1>1, <1>4, <2>1, <2>2, <2>3 DEF TypeOK
<1>7. SessionInv' /\ ErasedIsEmpty' /\ JournalFollows'
  <2>1. next' <= size /\ phase' # "begun" /\ (phase' = "erased" => next' = 0)
    BY <1>0, <1>0a, <1>0e DEF EngineInv, ErasedIsEmpty
  <2>2. SessionInv'
    BY <1>0, <1>0f, <2>1 DEF EngineInv, SessionInv
  <2>3. JournalFollows'
    BY <1>0f, <1>0g DEF EngineInv, SessionInv, JournalFollows
  <2>4. QED
    BY <2>1, <2>2, <2>3 DEF ErasedIsEmpty
<1>8. /\ next = Len(sent)
      /\ \A k \in 1 .. next : flash[Base + k - 1] = sent[k]
      /\ \A k \in next + 1 .. size - 1 : flash[Base + k] \in {Erased, Torn}
  BY <1>0 DEF EngineInv, AcknowledgedIsStored
<1>9. AcknowledgedIsStored'
  <2>1. Base' = Base
    BY <1>0f DEF Base
  <2>2. \A k \in 1 .. next : flash'[Base + k - 1] = sent[k]
    <3>1. SUFFICES ASSUME NEW k \in 1 .. next PROVE flash'[Base + k - 1] = sent[k]
      OBVIOUS
    <3>2. Base + (k - 1) \in Cells /\ Base + (k - 1) # TargetCell(r)
      BY <1>0, <1>0a, <1>0b, <1>0c
    <3>3. Base + (k - 1) = Base + k - 1
      BY <1>0a, <1>0b
    <3>4. QED
      BY <3>2, <3>3, <1>4, <1>8
  <2>3. \A k \in next + 1 .. size - 1 : flash'[Base + k] \in {Erased, Torn}
    <3>1. SUFFICES ASSUME NEW k \in next + 1 .. size - 1
                   PROVE  flash'[Base + k] \in {Erased, Torn}
      OBVIOUS
    <3>2. Base + k \in Cells /\ Base + k # TargetCell(r)
      BY <1>0, <1>0a, <1>0b, <1>0c
    <3>3. QED
      BY <3>2, <1>4, <1>8
  <2>4. CASE status = "ok"
    <3>1. next' = Len(sent')
      BY <2>4, <1>0e, <1>5, <1>8
    <3>2. \A k \in 1 .. next' : flash'[Base + k - 1] = sent'[k]
      <4>1. SUFFICES ASSUME NEW k \in 1 .. next + 1
                     PROVE  flash'[Base + k - 1] = sent'[k]
        BY <2>4, <1>0e
      <4>2. CASE k \in 1 .. next
        BY <4>2, <2>2, <2>4, <1>0e, <1>5, <1>8
      <4>3. CASE k = next + 1
        <5>1. Base + k - 1 = TargetCell(r)
          BY <4>3, <1>0a, <1>0b
        <5>2. QED
          BY <4>3, <5>1, <2>4, <1>0e, <1>4, <1>5, <1>8
      <4>4. QED
        BY <4>2, <4>3, <1>0a
    <3>3. \A k \in next' + 1 .. size' - 1 : flash'[Base + k] \in {Erased, Torn}
      BY <2>3, <2>4, <1>0a, <1>0e, <1>0f
    <3>4. QED
      BY <2>1, <3>1, <3>2, <3>3 DEF AcknowledgedIsStored
  <2>5. CASE status = "failed"
    BY <2>1, <2>2, <2>3, <2>5, <1>0e, <1>0f, <1>8 DEF AcknowledgedIsStored
  <2>6. QED
    BY <2>4, <2>5, <1>0e
<1>10. EraseProgressIsReal' /\ FinalizedIsVerified' /\ PendingIsDurable'
  BY <1>0, <1>0e DEF EraseProgressIsReal, FinalizedIsVerified, PendingIsDurable
<1>11. QED
  BY <1>2, <1>6, <1>7, <1>9, <1>10 DEF EngineInv

-----------------------------------------------------------------------------
(* The theorems.                                                           *)

LEMMA InitHolds == Init => EngineInv
<1> SUFFICES ASSUME Init PROVE EngineInv
  OBVIOUS
<1>1. /\ durable \in States /\ Decodes(durable) /\ boot = durable
      /\ active = SelectedSlot(boot)
      /\ session = 0 /\ expected = 0 /\ next = 0 /\ size = 0
      /\ target = NoSlot /\ phase = "idle" /\ full = FALSE /\ erased = 0
      /\ digest = NoData /\ previous = NoPrevious /\ sent = << >>
      /\ updates = 0 /\ on = TRUE
  BY DEF Init
<1>2. flash \in [Cells -> Contents]
  <2>1. PICK im \in SlotImages :
          flash = [c \in Cells |->
                     LET k == c - SlotBase(durable.confirmed) + 1
                     IN  IF k \in DOMAIN im THEN im[k] ELSE Erased]
    BY DEF Init
  <2>2. im \in Seq(Payloads)
    BY RecoveryEngineAssumption
  <2>3. \A k \in DOMAIN im : im[k] \in Payloads
    BY <2>2
  <2>4. QED
    BY <2>1, <2>3, Bounds
<1>3. active \in Slots
  BY <1>1, BootStates
<1>4. TypeOK
  <2>1. /\ 0 \in 0 .. MaxSessions /\ 0 \in 0 .. MaxSequence /\ 0 \in 0 .. MaxUpdates
        /\ 0 \in 0 .. FlashCells
    BY Bounds, Geometry
  <2>2. sent \in Seq(Payloads)
    BY <1>1
  <2>3. QED
    BY <1>1, <1>2, <1>3, <2>1, <2>2 DEF TypeOK, Phases
<1>5. SessionInv /\ ErasedIsEmpty /\ JournalFollows
  BY <1>1, Bounds DEF SessionInv, ErasedIsEmpty, JournalFollows
<1>6. /\ AcknowledgedIsStored /\ EraseProgressIsReal
      /\ FinalizedIsVerified /\ PendingIsDurable /\ ReplayedInfoIsCurrent
  BY <1>1 DEF AcknowledgedIsStored, EraseProgressIsReal, FinalizedIsVerified,
              PendingIsDurable, ReplayedInfoIsCurrent
<1>7. QED
  BY <1>4, <1>5, <1>6 DEF EngineInv

LEMMA StutterKeeps == EngineInv /\ UNCHANGED vars => EngineInv'
<1> SUFFICES ASSUME EngineInv, UNCHANGED vars PROVE EngineInv'
  OBVIOUS
<1> USE DEF vars
<1>1. TypeOK' /\ SessionInv' /\ ErasedIsEmpty' /\ JournalFollows'
  BY DEF EngineInv, TypeOK, SessionInv, ErasedIsEmpty, JournalFollows
<1>2. AcknowledgedIsStored' /\ EraseProgressIsReal'
  BY DEF EngineInv, AcknowledgedIsStored, EraseProgressIsReal, Base
<1>3. FinalizedIsVerified' /\ PendingIsDurable' /\ ReplayedInfoIsCurrent'
  BY DEF EngineInv, FinalizedIsVerified, PendingIsDurable, Verified, HoldsImage,
         ReplayedInfoIsCurrent, Info
<1>4. QED
  BY <1>1, <1>2, <1>3 DEF EngineInv

LEMMA NextKeeps == EngineInv /\ [Next]_vars => EngineInv'
<1> SUFFICES ASSUME EngineInv, [Next]_vars PROVE EngineInv'
  OBVIOUS
<1>1. CASE UNCHANGED vars
  BY <1>1, StutterKeeps
<1>2. ASSUME NEW r \in Packets, NEW status \in Statuses, Process(r, status)
      PROVE  EngineInv'
  <2>1. CASE Refuse(r, status) \/ Replay(r, status)
    BY <2>1, StutterKeeps DEF Refuse, Replay
  <2>2. CASE Execute(r, status)
    <3>1. /\ Executes(r) /\ WithinBounds(r) /\ Settle(r, status)
          /\ active' = active /\ Handle(r, status)
      BY <2>2 DEF Execute
    <3>2. CASE Unchanged
      BY <3>1, <3>2, UnchangedKeeps
    <3>3. CASE BeginImage(r, status)
      BY <3>1, <3>3, BeginImageKeeps
    <3>4. CASE BeginFullFlash(r, status)
      BY <3>1, <3>4, BeginFullFlashKeeps
    <3>5. CASE EraseSlot(r, status)
      BY <3>1, <3>5, EraseSlotKeeps
    <3>6. CASE EraseFullFlash(r, status)
      BY <3>1, <3>6, EraseFullFlashKeeps
    <3>7. CASE Write(r, status)
      BY <3>1, <3>7, WriteKeeps
    <3>8. CASE Finalize(r, status)
      BY <3>1, <3>8, FinalizeKeeps
    <3>9. CASE SetPending(r, status)
      BY <3>1, <3>9, SetPendingKeeps
    <3>10. CASE Reboot(r, status)
      BY <3>1, <3>10, RebootKeeps
    <3>11. QED
      BY <3>1, <3>2, <3>3, <3>4, <3>5, <3>6, <3>7, <3>8, <3>9, <3>10
         DEF Handle, GetInfo, GetLog, ReadKnobs, Read
  <2>3. QED
    BY <1>2, <2>1, <2>2 DEF Process
<1>3. QED
  BY <1>1, <1>2 DEF Next

\* Whatever is requested in whatever order, and however the flash fails, the
\* engine stays in its inductive invariant.
THEOREM EngineInvariant == Spec => []EngineInv
<1>1. QED
  BY InitHolds, NextKeeps, PTL DEF Spec

\* handle_write acknowledges only what the flash holds from then on.
THEOREM AcknowledgedStays == Spec => []AcknowledgedIsStored
<1>1. EngineInv => AcknowledgedIsStored
  BY DEF EngineInv
<1>2. QED
  BY <1>1, EngineInvariant, PTL

\* What FINALIZE accepted is what will boot or be restored.
THEOREM FinalizedStaysVerified == Spec => []FinalizedIsVerified
<1>1. EngineInv => FinalizedIsVerified
  BY DEF EngineInv
<1>2. QED
  BY <1>1, EngineInvariant, PTL

\* SET_PENDING answers OK only for what the journal holds.
THEOREM PendingStaysDurable == Spec => []PendingIsDurable
<1>1. EngineInv => PendingIsDurable
  BY DEF EngineInv
<1>2. QED
  BY <1>1, EngineInvariant, PTL

\* A retried GET_INFO is answered from the cache with the current state.
THEOREM ReplaysAreCurrent == Spec => []ReplayedInfoIsCurrent
<1>1. EngineInv => ReplayedInfoIsCurrent
  BY DEF EngineInv
<1>2. QED
  BY <1>1, EngineInvariant, PTL

\* The progress of ERASE_FULL_FLASH never runs ahead of the erase.
THEOREM EraseProgressHolds == Spec => []EraseProgressIsReal
<1>1. EngineInv => EraseProgressIsReal
  BY DEF EngineInv
<1>2. QED
  BY <1>1, EngineInvariant, PTL

OnlyTargetCells ==
    \A c \in Cells : flash'[c] # flash[c] =>
        \/ full
        \/ /\ c \in SlotCellsOf(target)
           /\ target # active
           /\ target # boot.confirmed
           /\ ~FullFlashEnabled => target # durable.confirmed

LEMMA OpenTarget ==
    ASSUME EngineInv, phase # "idle", ~full
    PROVE  /\ target \in Slots /\ target # active /\ target # boot.confirmed
           /\ ~FullFlashEnabled => target # durable.confirmed
           /\ size \in MinImage .. SlotCells
BY DEF EngineInv, SessionInv, JournalFollows

LEMMA ExecuteKeepsOthers ==
    ASSUME EngineInv, NEW r \in Packets, NEW status, Executes(r), Handle(r, status), ~full,
           NEW c \in Cells, flash'[c] # flash[c]
    PROVE  phase # "idle" /\ c \in SlotCellsOf(target)
<1>0. flash \in [Cells -> Contents] /\ size \in Nat /\ next \in Nat
  BY DEF EngineInv, TypeOK
<1>1. CASE EraseSlot(r, status)
  <2>1. phase # "idle"
    BY <1>1, Executed DEF EraseSlot
  <2>2. c \in DeclaredSectors
    BY <1>0, <1>1, BackendEffects DEF EraseSlot
  <2>3. QED
    BY <2>1, <2>2 DEF DeclaredSectors
<1>2. CASE Write(r, status)
  <2>1. /\ phase # "idle" /\ r.data \in Payloads /\ r.offset = next /\ next < size
        /\ r.offset \in Nat
    BY <1>2, Executed DEF Write, Executes, Allowed, MayWrite
  <2>2. size \in MinImage .. SlotCells
    BY <2>1, OpenTarget
  <2>3. TargetCell(r) \in SlotCellsOf(target) /\ TargetCell(r) \in Cells
    BY <2>1, <2>2, <1>0, Geometry DEF TargetCell, SlotCellsOf, Cells
  <2>4. c = TargetCell(r)
    BY <1>0, <1>2, <2>1, <2>3, ProgramEffects DEF Write
  <2>5. QED
    BY <2>1, <2>3, <2>4
<1>3. CASE EraseFullFlash(r, status)
  BY <1>3, Executed DEF EraseFullFlash
<1>4. QED
  BY <1>1, <1>2, <1>3 DEF Handle, GetInfo, GetLog, ReadKnobs, Read, Unchanged,
      BeginImage, BeginFullFlash, Finalize, SetPending, Reboot

LEMMA StepKeepsOthers == EngineInv /\ [Next]_vars => [OnlyTargetCells]_vars
<1> SUFFICES ASSUME EngineInv, Next PROVE OnlyTargetCells \/ UNCHANGED vars
  OBVIOUS
<1>1. PICK r \in Packets, status \in Statuses : Process(r, status)
  BY DEF Next
<1>2. CASE Refuse(r, status) \/ Replay(r, status)
  BY <1>2 DEF Refuse, Replay
<1>3. CASE Execute(r, status)
  <2>1. Executes(r) /\ Handle(r, status)
    BY <1>3 DEF Execute
  <2>2. ASSUME NEW c \in Cells, flash'[c] # flash[c], ~full
        PROVE  /\ c \in SlotCellsOf(target)
               /\ target # active
               /\ target # boot.confirmed
               /\ ~FullFlashEnabled => target # durable.confirmed
    BY <2>1, <2>2, ExecuteKeepsOthers, OpenTarget
  <2>3. QED
    BY <2>2 DEF OnlyTargetCells
<1>4. QED
  BY <1>1, <1>2, <1>3 DEF Process

\* handle_begin's guard protects every cell outside the target for as long as
\* the session lasts.
THEOREM OthersAreUntouched == Spec => OnlyTargetChanges
<1>1. Spec => [][OnlyTargetCells]_vars
  BY EngineInvariant, StepKeepsOthers, PTL DEF Spec
<1>2. QED
  BY <1>1 DEF OnlyTargetChanges, OnlyTargetCells
-----------------------------------------------------------------------------
(* The engine implements the update session of the boot policy.            *)

PolicyStep == Policy!RecoveryStep \/ UNCHANGED Policy!vars

\* An image lies inside its slot.
LEMMA ImageCells ==
    ASSUME NEW s \in Slots, NEW im \in SlotImages, NEW k \in DOMAIN im
    PROVE  /\ SlotBase(s) + k - 1 \in Cells
           /\ SlotBase(s) + k - 1 \in SlotCellsOf(s)
           /\ im[k] \in Payloads
           /\ 1 \in DOMAIN im /\ Len(im) <= SlotCells
<1>1. im \in Seq(Payloads) /\ Len(im) \in MinImage .. SlotCells
  BY RecoveryEngineAssumption
<1>2. k \in 1 .. Len(im) /\ 1 \in 1 .. Len(im) /\ DOMAIN im = 1 .. Len(im)
  BY <1>1, Geometry
<1>3. SlotBase(s) \in Nat /\ SlotBase(s) + SlotCells <= FlashCells /\ SlotCells \in Nat
      /\ FlashCells \in Nat /\ Len(im) <= SlotCells /\ k \in Nat /\ k >= 1 /\ k <= SlotCells
  BY <1>1, <1>2, Geometry
<1>4. QED
  BY <1>1, <1>2, <1>3 DEF Cells, SlotCellsOf

\* The two slots share no cell.
LEMMA SlotsAreApart ==
    ASSUME NEW s \in Slots, NEW t \in Slots, s # t, NEW c \in SlotCellsOf(s)
    PROVE  c \notin SlotCellsOf(t)
BY Geometry DEF SlotCellsOf, SlotBase, Slots

\* An erase, whole or not, makes no image that was not there.
LEMMA EraseMakesNoImage ==
    ASSUME \A c \in Cells : flash'[c] \in {flash[c], Erased, Torn},
           NEW s \in Slots, Bootable(s)'
    PROVE  Bootable(s)
<1>1. PICK im \in SlotImages :
         Len(im) <= SlotCells /\ \A k \in DOMAIN im : flash'[SlotBase(s) + k - 1] = im[k]
  BY DEF Bootable, HoldsImage
<1>2. ASSUME NEW k \in DOMAIN im
      PROVE  flash[SlotBase(s) + k - 1] = im[k]
  BY <1>1, ImageCells, Bounds
<1>3. QED
  BY <1>1, <1>2 DEF Bootable, HoldsImage

\* Without its first cell a slot holds no image.
LEMMA NoFirstCellNoImage ==
    ASSUME NEW s \in Slots, flash[SlotBase(s)] \in {Erased, Torn}
    PROVE  ~Bootable(s)
<1> SUFFICES ASSUME NEW im \in SlotImages,
                    \A k \in DOMAIN im : flash[SlotBase(s) + k - 1] = im[k]
             PROVE  FALSE
  BY DEF Bootable, HoldsImage
<1>1. im \in Seq(Payloads) /\ Len(im) \in MinImage .. SlotCells
  BY RecoveryEngineAssumption
<1>2. 1 \in DOMAIN im
  BY <1>1, Geometry
<1>3. flash[SlotBase(s) + 1 - 1] \in Payloads
  BY <1>2, ImageCells
<1>4. SlotBase(s) + 1 - 1 = SlotBase(s)
  BY Geometry
<1>5. QED
  BY <1>3, <1>4, Bounds

\* A slot whose cells stay as they are holds what it held.
LEMMA OtherSlotKeepsImage ==
    ASSUME NEW s \in Slots, NEW t \in Slots, s # t,
           \A c \in Cells : flash'[c] # flash[c] => c \in SlotCellsOf(t)
    PROVE  Bootable(s)' <=> Bootable(s)
<1>1. ASSUME NEW im \in SlotImages, NEW k \in DOMAIN im
      PROVE  flash'[SlotBase(s) + k - 1] = flash[SlotBase(s) + k - 1]
  BY ImageCells, SlotsAreApart
<1>2. QED
  BY <1>1 DEF Bootable, HoldsImage

\* What the policy does not see.
LEMMA PolicyStutters ==
    ASSUME durable' = durable, boot' = boot, active' = active, target' = target,
           on' = on, updates' = updates, SessionPhase' = SessionPhase,
           \A s \in Slots : Bootable(s)' <=> Bootable(s)
    PROVE  PolicyStep
<1>1. [s \in Slots |-> IF Bootable(s)' THEN "app" ELSE "invalid"]
        = [s \in Slots |-> IF Bootable(s) THEN "app" ELSE "invalid"]
  OBVIOUS
<1>2. QED
  BY <1>1 DEF PolicyStep, Policy!vars

\* A request that leaves the cells and the session alone.
LEMMA UnchangedStutters ==
    ASSUME Unchanged, active' = active
    PROVE  PolicyStep
<1> USE DEF Unchanged, sessionVars, progressVars, journalVars
<1>1. \A s \in Slots : Bootable(s)' <=> Bootable(s)
  BY DEF Bootable, HoldsImage
<1>2. SessionPhase' = SessionPhase
  BY DEF SessionPhase, Bootable, HoldsImage
<1>3. QED
  BY <1>1, <1>2, PolicyStutters

\* handle_begin opens the policy's session.
LEMMA BeginIsPolicyStep ==
    ASSUME EngineInv, on, NEW r \in Packets, NEW status, Executes(r),
           active' = active, BeginImage(r, status)
    PROVE  PolicyStep
<1> USE DEF BeginImage, NewSession, journalVars
<1>1. r.flags \in Slots /\ r.flags # boot.confirmed /\ r.flags # active
  BY Executed DEF Executes, Allowed, MayBegin
<1>2. [s \in Slots |-> IF Bootable(s)' THEN "app" ELSE "invalid"]
        = [s \in Slots |-> IF Bootable(s) THEN "app" ELSE "invalid"]
  BY DEF Bootable, HoldsImage
<1>3. SessionPhase' = "begun" /\ on'
  BY DEF SessionPhase
<1>4. Policy!BeginImage(r.flags)
  BY <1>1, <1>2, <1>3
     DEF Policy!BeginImage, Policy!MayBegin, Policy!bootVars, Policy!boundVars
<1>5. QED
  BY <1>1, <1>4 DEF PolicyStep, Policy!RecoveryStep, Policy!Slots, Slots

\* What the flash holds of an open session, for the policy.
LEMMA PolicyImages ==
    ASSUME NEW t \in Slots, \A s \in Slots \ {t} : Bootable(s)' <=> Bootable(s)
    PROVE  [s \in Slots |-> IF Bootable(s)' THEN "app" ELSE "invalid"]
             = [[s \in Slots |-> IF Bootable(s) THEN "app" ELSE "invalid"]
                  EXCEPT ![t] = IF Bootable(t)' THEN "app" ELSE "invalid"]
OBVIOUS

\* A change of the target's cells before SET_PENDING is a write of the policy,
\* or is not seen.
LEMMA TargetChangeIsPolicyStep ==
    ASSUME EngineInv, on, on', ~full, target \in Slots,
           phase \in {"erased", "writing"}, phase' \in {"erased", "writing"},
           durable' = durable, boot' = boot, active' = active, target' = target,
           updates' = updates,
           \A c \in Cells : flash'[c] # flash[c] => c \in SlotCellsOf(target)
    PROVE  PolicyStep
<1>1. \A s \in Slots \ {target} : Bootable(s)' <=> Bootable(s)
  BY OtherSlotKeepsImage
<1>2. /\ SessionPhase = IF Bootable(target) THEN "written" ELSE "erased"
      /\ SessionPhase' = IF Bootable(target)' THEN "written" ELSE "erased"
  BY DEF SessionPhase
<1>3. CASE Bootable(target)' <=> Bootable(target)
  <2>1. \A s \in Slots : Bootable(s)' <=> Bootable(s)
    BY <1>1, <1>3
  <2>2. SessionPhase' = SessionPhase
    BY <1>2, <1>3
  <2>3. on' = on
    BY DEF EngineInv, TypeOK
  <2>4. QED
    BY <2>1, <2>2, <2>3, PolicyStutters
<1>4. CASE ~(Bootable(target)' <=> Bootable(target))
  <2> DEFINE i == IF Bootable(target)' THEN "app" ELSE "invalid"
  <2>1. [s \in Slots |-> IF Bootable(s)' THEN "app" ELSE "invalid"]
          = [[s \in Slots |-> IF Bootable(s) THEN "app" ELSE "invalid"] EXCEPT ![target] = i]
    BY <1>1, PolicyImages
  <2>2. /\ SessionPhase = IF i = "invalid" THEN "written" ELSE "erased"
        /\ SessionPhase' = IF i = "invalid" THEN "erased" ELSE "written"
        /\ i \in Policy!Images
    BY <1>2, <1>4 DEF Policy!Images
  <2> HIDE DEF i
  <2>3. Policy!WriteImage(i)
    BY <2>1, <2>2 DEF Policy!WriteImage, Policy!bootVars, Policy!boundVars
  <2>4. QED
    BY <2>2, <2>3 DEF PolicyStep, Policy!RecoveryStep
<1>5. QED
  BY <1>3, <1>4

\* handle_erase: of a slot that held an image nothing bootable is left, and the
\* phase follows only a reported success.
LEMMA EraseIsPolicyStep ==
    ASSUME EngineInv, ~FullFlashEnabled, on, NEW r \in Packets, NEW status, Executes(r),
           active' = active, EraseSlot(r, status)
    PROVE  PolicyStep
<1> USE DEF EraseSlot, sessionVars, progressVars, journalVars
<1>1. ~full /\ phase \in {"begun", "erased"} /\ target \in Slots
      /\ size \in MinImage .. SlotCells
  <2>1. ~full /\ phase # "idle" /\ phase \in {"begun", "erased"}
    BY Executed DEF Executes, Allowed
  <2>2. QED
    BY <2>1, OpenTarget
<1>2. /\ \A c \in Cells : flash'[c] # flash[c] => c \in SlotCellsOf(target)
      /\ \A c \in Cells : flash'[c] \in {flash[c], Erased, Torn}
      /\ status = "ok" => \A c \in Cells \cap DeclaredSectors : flash'[c] = Erased
  BY BackendEffects DEF EngineInv, TypeOK, DeclaredSectors
<1>3. CASE phase = "erased"
  BY <1>1, <1>2, <1>3, TargetChangeIsPolicyStep
<1>4. CASE phase = "begun"
  <2>1. \A s \in Slots \ {target} : Bootable(s)' <=> Bootable(s)
    BY <1>1, <1>2, OtherSlotKeepsImage
  <2>2. Bootable(target)' => Bootable(target)
    BY <1>1, <1>2, EraseMakesNoImage
  <2>3. status = "ok" => ~Bootable(target)'
    <3> SUFFICES ASSUME status = "ok" PROVE ~Bootable(target)'
      OBVIOUS
    <3>1. SlotBase(target) \in Cells \cap SlotCellsOf(target)
      BY <1>1, Geometry DEF Cells, SlotCellsOf
    <3>2. SlotBase(target) + 0 = SlotBase(target) /\ 0 \in 0 .. size - 1
      BY <1>1, Geometry
    <3>3. SlotBase(target) \in DeclaredSectors
      BY <3>1, <3>2 DEF DeclaredSectors
    <3>4. flash'[SlotBase(target)] = Erased /\ target' = target
      BY <1>2, <3>1, <3>3
    <3>5. QED
      <4>1. ASSUME NEW im \in SlotImages,
                   \A k \in DOMAIN im : flash'[SlotBase(target) + k - 1] = im[k]
            PROVE  FALSE
        <5>1. im \in Seq(Payloads) /\ Len(im) \in MinImage .. SlotCells
          BY RecoveryEngineAssumption
        <5>2. 1 \in DOMAIN im /\ SlotBase(target) + 1 - 1 = SlotBase(target)
          BY <5>1, Geometry
        <5>3. QED
          BY <1>1, <3>4, <4>1, <5>2, ImageCells, Bounds
      <4>2. QED
        BY <3>4, <4>1 DEF Bootable, HoldsImage
  <2>4. SessionPhase = "begun"
    BY <1>4 DEF SessionPhase
  <2>5. SessionPhase' = IF status = "ok" THEN "erased" ELSE "begun"
    BY <1>4, <2>3 DEF SessionPhase
  <2>6. CASE Bootable(target)'
    <3>1. status # "ok" /\ \A s \in Slots : Bootable(s)' <=> Bootable(s)
      BY <2>1, <2>2, <2>3, <2>6
    <3>2. SessionPhase' = SessionPhase
      BY <2>4, <2>5, <3>1
    <3>3. QED
      BY <3>1, <3>2, PolicyStutters
  <2>7. CASE ~Bootable(target)'
    <3>1. [s \in Slots |-> IF Bootable(s)' THEN "app" ELSE "invalid"]
            = [[s \in Slots |-> IF Bootable(s) THEN "app" ELSE "invalid"]
                 EXCEPT ![target] = "invalid"]
      BY <1>1, <2>1, <2>7, PolicyImages
    <3>2. SessionPhase' \in IF MayFail THEN {"begun", "erased"} ELSE {"erased"}
      BY <2>5 DEF EraseFails
    <3>3. Policy!EraseSlot
      BY <2>4, <3>1, <3>2 DEF Policy!EraseSlot, Policy!bootVars, Policy!boundVars
    <3>4. QED
      BY <3>3 DEF PolicyStep, Policy!RecoveryStep
  <2>8. QED
    BY <2>6, <2>7
<1>5. QED
  BY <1>1, <1>3, <1>4

\* handle_write: the cell that completes an image, spoils one, or neither.
LEMMA WriteIsPolicyStep ==
    ASSUME EngineInv, ~FullFlashEnabled, on, NEW r \in Packets, NEW status, Executes(r),
           active' = active, Write(r, status)
    PROVE  PolicyStep
<1> USE DEF Write, sessionVars, progressVars, journalVars
<1>1. /\ phase \in {"erased", "writing"} /\ ~full
      /\ r.offset \in Nat /\ r.offset < size /\ r.data \in Payloads
  BY Executed DEF Executes, Allowed, MayWrite, EngineInv, SessionInv
<1>2. target \in Slots /\ size \in MinImage .. SlotCells
  BY <1>1, OpenTarget
<1>3. /\ TargetCell(r) \in SlotCellsOf(target) /\ TargetCell(r) \in Cells
      /\ TargetCell(r) # JournalCell
  BY <1>1, <1>2, Geometry DEF TargetCell, SlotCellsOf, Cells, JournalCell
<1>4. \A c \in Cells : flash'[c] # flash[c] => c \in SlotCellsOf(target)
  BY <1>1, <1>3, ProgramEffects DEF EngineInv, TypeOK
<1>5. phase' \in {"erased", "writing"} /\ durable' = durable
  BY <1>1, <1>3 DEF Acknowledge, JournalWritten
<1>6. QED
  BY <1>1, <1>2, <1>4, <1>5, TargetChangeIsPolicyStep

\* FINALIZE_IMAGE verifies what makes the slot bootable.
LEMMA FinalizeIsPolicyStep ==
    ASSUME EngineInv, ~FullFlashEnabled, on, NEW r \in Packets, NEW status, Executes(r),
           active' = active, Finalize(r, status)
    PROVE  PolicyStep
<1> USE DEF Finalize, sessionVars, journalVars
<1>1. phase = "writing" /\ ~full /\ next = size
  BY Executed DEF Executes, Allowed, EngineInv, SessionInv
<1>2. target \in Slots /\ size \in MinImage .. SlotCells /\ MinImage \in Nat /\ SlotCells \in Nat
  BY <1>1, OpenTarget, Geometry
<1>3. /\ \A s \in Slots : Bootable(s)' <=> Bootable(s)
      /\ Bootable(target)' <=> Bootable(target)
  BY DEF Bootable, HoldsImage
<1>4. CASE status = "ok"
  <2>1. Bootable(target)
    <3>1. PICK im \in SlotImages :
             Len(im) <= next /\ \A k \in DOMAIN im : flash[SlotBase(target) + k - 1] = im[k]
      BY <1>1, <1>4 DEF Verified, HoldsImage
    <3>2. Len(im) <= SlotCells
      BY RecoveryEngineAssumption
    <3>3. QED
      BY <3>1, <3>2 DEF Bootable, HoldsImage
  <2>2. SessionPhase = "written" /\ SessionPhase' = "finalized"
    BY <1>1, <1>4, <2>1 DEF SessionPhase
  <2>3. [s \in Slots |-> IF Bootable(s)' THEN "app" ELSE "invalid"]
          = [s \in Slots |-> IF Bootable(s) THEN "app" ELSE "invalid"]
    BY <1>3
  <2>4. Policy!FinalizeImage
    BY <2>2, <2>3 DEF Policy!FinalizeImage, Policy!bootVars, Policy!boundVars
  <2>5. QED
    BY <2>4 DEF PolicyStep, Policy!RecoveryStep
<1>5. CASE status # "ok"
  <2>1. SessionPhase' = SessionPhase
    BY <1>3, <1>5 DEF SessionPhase
  <2>2. QED
    BY <1>3, <2>1, PolicyStutters
<1>6. QED
  BY <1>4, <1>5

\* The two modules extend BootState alike.
LEMMA SameBootState ==
    /\ Policy!Slots = Slots
    /\ \A s, slot : Policy!BeginUpdate(s, slot) = BeginUpdate(s, slot)
    /\ \A m, n : Policy!IsNewer(m, n) <=> IsNewer(m, n)
    /\ Policy!DefaultState = DefaultState
BY DEF Policy!Slots, Slots, Policy!BeginUpdate, BeginUpdate, Policy!IsNewer, IsNewer,
       Policy!SeqDist, SeqDist, Policy!SeqMod, SeqMod, Policy!Succ, Succ,
       Policy!DefaultState, DefaultState

\* SET_PENDING stores what the policy stores.
LEMMA SetPendingIsPolicyStep ==
    ASSUME EngineInv, ~FullFlashEnabled, on, NEW r \in Packets, NEW status, Executes(r),
           WithinBounds(r), active' = active, SetPending(r, status)
    PROVE  PolicyStep
<1> USE DEF SetPending, sessionVars
<1>1. phase = "finalized" /\ updates < MaxUpdates
  BY DEF Executes, Allowed, WithinBounds
<1>2. durable # NoState
  BY DEF EngineInv, JournalFollows
<1> DEFINE state == BeginUpdate(boot, target)
<1>3. Policy!JournalTakes(state) <=> JournalTakes(state)
  BY <1>2, SameBootState DEF Policy!JournalTakes, JournalTakes
<1>4. [s \in Slots |-> IF Bootable(s)' THEN "app" ELSE "invalid"]
        = [s \in Slots |-> IF Bootable(s) THEN "app" ELSE "invalid"]
  BY DEF Bootable, HoldsImage
<1>5. /\ SessionPhase = "finalized"
      /\ SessionPhase' = phase'
  BY <1>1 DEF SessionPhase
<1>6. \/ Policy!JournalTakes(state) /\ durable' = state /\ boot' = state
           /\ SessionPhase' = "pending"
      \/ MayFail /\ Policy!JournalTakes(state) /\ durable' = state /\ boot' = boot
           /\ SessionPhase' = SessionPhase
      \/ (MayFail \/ ~Policy!JournalTakes(state)) /\ durable' = durable /\ boot' = boot
           /\ SessionPhase' = SessionPhase
  BY <1>1, <1>3, <1>5
<1>7. Policy!BeginUpdate(boot, target) = state
  BY SameBootState
<1> HIDE DEF state
<1>8. Policy!SetPending
  BY <1>1, <1>4, <1>5, <1>6, <1>7 DEF Policy!SetPending
<1>9. QED
  BY <1>8 DEF PolicyStep, Policy!RecoveryStep

\* The reset ends the policy's session.
LEMMA RebootIsPolicyStep ==
    ASSUME EngineInv, ~FullFlashEnabled, on, NEW r \in Packets, NEW status, Executes(r),
           active' = active, Reboot(r, status)
    PROVE  PolicyStep
<1> USE DEF Reboot, sessionVars, progressVars, journalVars
<1>1. phase = "pending"
  BY DEF Executes, Allowed, EngineInv, SessionInv
<1>2. [s \in Slots |-> IF Bootable(s)' THEN "app" ELSE "invalid"]
        = [s \in Slots |-> IF Bootable(s) THEN "app" ELSE "invalid"]
  BY DEF Bootable, HoldsImage
<1>3. SessionPhase = "pending" /\ SessionPhase' = "idle"
  BY <1>1 DEF SessionPhase
<1>4. Policy!Reboot
  BY <1>2, <1>3, SameBootState
     DEF Policy!Reboot, Policy!WarmReset, Policy!RamLost, Policy!NoMail, Policy!boundVars
<1>5. QED
  BY <1>4 DEF PolicyStep, Policy!RecoveryStep

LEMMA EngineStepIsPolicyStep ==
    ASSUME EngineInv, ~FullFlashEnabled, [Next]_vars
    PROVE  PolicyStep
<1>1. ASSUME UNCHANGED vars
      PROVE  PolicyStep
  BY <1>1, UnchangedStutters
     DEF vars, Unchanged, sessionVars, progressVars, journalVars
<1>2. ASSUME Next
      PROVE  PolicyStep
  <2>1. PICK r \in Packets, status \in Statuses : Process(r, status)
    BY <1>2 DEF Next
  <2>2. CASE Refuse(r, status) \/ Replay(r, status)
    BY <1>1, <2>2 DEF Refuse, Replay
  <2>3. CASE Execute(r, status)
    <3>1. on /\ Executes(r) /\ WithinBounds(r) /\ Handle(r, status) /\ active' = active
      BY <2>1, <2>3 DEF Process, Execute
    <3>2. CASE GetInfo(r, status) \/ GetLog(r, status) \/ ReadKnobs(r, status) \/ Read(r, status)
      BY <3>1, <3>2, UnchangedStutters DEF GetInfo, GetLog, ReadKnobs, Read
    <3>3. CASE BeginImage(r, status)
      BY <3>1, <3>3, BeginIsPolicyStep
    <3>4. ~BeginFullFlash(r, status)
      BY <3>1 DEF BeginFullFlash, Executes, Allowed
    <3>5. CASE EraseSlot(r, status)
      BY <3>1, <3>5, EraseIsPolicyStep
    <3>6. ~EraseFullFlash(r, status)
      BY <3>1 DEF EraseFullFlash, Executes, Allowed, EngineInv, SessionInv
    <3>7. CASE Write(r, status)
      BY <3>1, <3>7, WriteIsPolicyStep
    <3>8. CASE Finalize(r, status)
      BY <3>1, <3>8, FinalizeIsPolicyStep
    <3>9. CASE SetPending(r, status)
      BY <3>1, <3>9, SetPendingIsPolicyStep
    <3>10. CASE Reboot(r, status)
      BY <3>1, <3>10, RebootIsPolicyStep
    <3>11. QED
      BY <3>1, <3>2, <3>3, <3>4, <3>5, <3>6, <3>7, <3>8, <3>9, <3>10 DEF Handle
  <2>4. QED
    BY <2>1, <2>2, <2>3 DEF Process
<1>3. QED
  BY <1>1, <1>2

\* What the boot policy assumes of a recovery session is what the engine does:
\* where whole-chip sessions are not enabled every request is a step of the
\* policy's session, or one that the policy does not see.
THEOREM EngineImplementsPolicy == ~FullFlashEnabled /\ Spec => ImplementsPolicy
<1> SUFFICES ASSUME ~FullFlashEnabled PROVE Spec => ImplementsPolicy
  OBVIOUS
<1>1. EngineInv /\ [Next]_vars => [Policy!RecoveryStep]_(Policy!vars)
  BY EngineStepIsPolicyStep DEF PolicyStep
<1>2. QED
  BY <1>1, EngineInvariant, PTL DEF Spec, ImplementsPolicy

\* A delivered pedal has an image in the confirmed slot.
LEMMA StartBoots == Init => RollbackSlotBoots
<1> SUFFICES ASSUME Init PROVE Bootable(durable.confirmed)
  BY DEF RollbackSlotBoots
<1> DEFINE s == durable.confirmed
<1>1. PICK im \in SlotImages :
         flash = [c \in Cells |->
                    LET k == c - SlotBase(s) + 1
                    IN  IF k \in DOMAIN im THEN im[k] ELSE Erased]
  BY DEF Init
<1>2. s \in Slots
  BY BootStates DEF Init
<1>3. ASSUME NEW k \in DOMAIN im
      PROVE  flash[SlotBase(s) + k - 1] = im[k]
  <2>1. SlotBase(s) + k - 1 \in Cells
    BY <1>2, ImageCells
  <2>2. im \in Seq(Payloads) /\ SlotBase(s) \in Nat
    BY RecoveryEngineAssumption, Geometry
  <2>3. (SlotBase(s) + k - 1) - SlotBase(s) + 1 = k
    BY <2>2
  <2>4. QED
    BY <1>1, <2>1, <2>3
<1>4. Len(im) <= SlotCells
  BY RecoveryEngineAssumption
<1>5. QED
  BY <1>3, <1>4 DEF Bootable, HoldsImage

\* An update writes no cell of the confirmed slot, and changes which slot that
\* is neither in RAM nor in the journal.
LEMMA StepKeepsRollbackSlot ==
    ASSUME EngineInv, RollbackSlotBoots, [Next]_vars
    PROVE  RollbackSlotBoots'
<1> SUFFICES ASSUME ~FullFlashEnabled PROVE Bootable(durable.confirmed)'
  BY DEF RollbackSlotBoots
<1>2. CASE UNCHANGED vars
  BY <1>2 DEF RollbackSlotBoots, Bootable, HoldsImage, vars
<1> SUFFICES ASSUME Next PROVE Bootable(durable.confirmed)'
  BY <1>2
<1>1. PICK r \in Packets, status \in Statuses : Process(r, status)
  BY DEF Next
<1>3. CASE Execute(r, status)
  <2>1. Executes(r) /\ Handle(r, status) /\ ~full
    BY <1>3 DEF Execute, EngineInv, SessionInv
  <2>2. durable \in States /\ durable.confirmed \in Slots /\ boot \in States
        /\ durable.confirmed = boot.confirmed
    BY BootStates DEF EngineInv, TypeOK, JournalFollows
  <2>3. durable'.confirmed = durable.confirmed
    <3>1. BeginUpdate(boot, target).confirmed = boot.confirmed
      BY DEF BeginUpdate
    <3>2. CASE SetPending(r, status)
      BY <2>2, <3>1, <3>2 DEF SetPending
    <3>3. CASE Write(r, status)
      <4>1. r.offset \in Nat /\ r.offset < size /\ phase # "idle"
        BY <2>1, <3>3, Executed DEF Write, Executes, Allowed, MayWrite
      <4>2. TargetCell(r) # JournalCell
        BY <2>1, <4>1, Geometry DEF TargetCell, JournalCell
      <4>3. QED
        BY <3>3, <4>2 DEF Write, JournalWritten
    <3>4. CASE EraseFullFlash(r, status)
      BY <2>1, <3>4, Executed DEF EraseFullFlash
    <3>5. QED
      BY <2>1, <3>2, <3>3, <3>4
         DEF Handle, GetInfo, GetLog, ReadKnobs, Read, Unchanged, journalVars,
             BeginImage, BeginFullFlash, EraseSlot, Finalize, Reboot
  <2>4. \A c \in Cells : flash'[c] # flash[c] =>
           c \in SlotCellsOf(target) /\ target \in Slots /\ target # durable.confirmed
    BY <2>1, ExecuteKeepsOthers, OpenTarget
  <2>5. ASSUME NEW im \in SlotImages, NEW k \in DOMAIN im
        PROVE  flash'[SlotBase(durable.confirmed) + k - 1]
                 = flash[SlotBase(durable.confirmed) + k - 1]
    BY <2>2, <2>4, ImageCells, SlotsAreApart
  <2>6. Bootable(durable.confirmed)
    BY DEF RollbackSlotBoots
  <2>7. QED
    BY <2>3, <2>5, <2>6 DEF Bootable, HoldsImage
<1>4. QED
  BY <1>1, <1>2, <1>3 DEF Process, Refuse, Replay

\* No request, no failure of the flash and no order of sessions can take away
\* the image to which the bootloader falls back.
THEOREM RollbackStaysBootable == Spec => []RollbackSlotBoots
<1>1. QED
  BY StartBoots, StepKeepsRollbackSlot, EngineInvariant, PTL DEF Spec

-----------------------------------------------------------------------------
(* pedalctl.py: the scripts.                                               *)

-----------------------------------------------------------------------------
(* The scripts of pedalctl.                                                *)

\* The erase requests cover the chip, and the last one is not beyond it.
LEMMA EraseCounts ==
    /\ EraseCount \in Nat \ {0}
    /\ (EraseCount - 1) * EraseChunk < FlashCells
    /\ FlashCells <= EraseCount * EraseChunk
<1> DEFINE total == FlashCells + EraseChunk - 1
<1>1. FlashCells \in Nat \ {0} /\ EraseChunk \in Nat \ {0} /\ total \in Nat
  BY Geometry
<1>2. /\ total \div EraseChunk \in Int
      /\ (total \div EraseChunk) * EraseChunk <= total
      /\ total < (total \div EraseChunk + 1) * EraseChunk
  BY <1>1, Z3T(30)
<1>3. PICK n : n = total \div EraseChunk
  OBVIOUS
<1>4. n \in Int /\ n * EraseChunk <= total /\ total < n * EraseChunk + EraseChunk
  BY <1>1, <1>2, <1>3, Z3T(30)
<1>5. n >= 1
  BY <1>1, <1>4, Z3T(30)
<1>6. (n - 1) * EraseChunk = n * EraseChunk - EraseChunk
  BY <1>1, <1>4, Z3T(30)
<1>7. n \in Nat \ {0} /\ (n - 1) * EraseChunk < FlashCells /\ FlashCells <= n * EraseChunk
  BY <1>1, <1>4, <1>5, <1>6, Z3T(30)
<1> QED
  BY <1>3, <1>7 DEF EraseCount

\* What Len and an index say of a concatenation.
LEMMA Concatenation ==
    ASSUME NEW S, NEW s \in Seq(S), NEW t \in Seq(S)
    PROVE  /\ s \o t \in Seq(S)
           /\ Len(s \o t) = Len(s) + Len(t)
           /\ \A i \in 1 .. Len(s) : (s \o t)[i] = s[i]
           /\ \A i \in Len(s) + 1 .. Len(s) + Len(t) : (s \o t)[i] = t[i - Len(s)]
OBVIOUS

\* What is asked for is one of the things that pedalctl can be given.
LEMMA GoalKinds ==
    ASSUME goal \in Goals
    PROVE  /\ goal.plan \in {"upload", "restore"}
           /\ goal.plan = "upload" =>
                goal.of \in SlotImages /\ goal.of \in Seq(Payloads)
                  /\ Len(goal.of) \in MinImage .. SlotCells
           /\ goal.plan = "restore" =>
                /\ FullFlashEnabled
                /\ goal.of \in DOMAIN WholeChip
                /\ WholeChip[goal.of] \in [Cells -> Payloads]
           /\ Count \in Nat \ {0}
           /\ Prologue \in Nat /\ Prologue >= 3
           /\ \A k \in 1 .. Count : Cell(k) \in Payloads
<1>1. \/ goal.plan = "upload" /\ goal.of \in Images /\ "upload" \in Plans
      \/ goal.plan = "restore" /\ goal.of \in DOMAIN WholeChip /\ "restore" \in Plans
  BY DEF Goals
<1>2. CASE goal.plan = "upload"
  <2>1. goal.of \in SlotImages
    BY <1>1, <1>2, RecoveryUploadAssumption
  <2>2. goal.of \in Seq(Payloads) /\ Len(goal.of) \in MinImage .. SlotCells
    BY <2>1, RecoveryEngineAssumption
  <2>3. Count = Len(goal.of) /\ Prologue = 3 /\ \A k : Cell(k) = goal.of[k]
    BY <1>2 DEF Count, Prologue, Cell
  <2>4. Count \in Nat \ {0} /\ \A k \in 1 .. Count : Cell(k) \in Payloads
    BY <2>2, <2>3, Geometry
  <2> QED
    BY <1>2, <2>1, <2>2, <2>3, <2>4
<1>3. CASE goal.plan = "restore"
  <2>1. WholeChip[goal.of] \in [Cells -> Payloads] /\ FullFlashEnabled
    BY <1>1, <1>3, RecoveryEngineAssumption, RecoveryUploadAssumption
  <2>2. Count = FlashCells /\ Prologue = EraseCount + 2
        /\ \A k : Cell(k) = WholeChip[goal.of][k - 1]
    BY <1>3 DEF Count, Prologue, Cell
  <2>3. \A k \in 1 .. FlashCells : k - 1 \in Cells
    BY Geometry DEF Cells
  <2> QED
    BY <1>1, <1>3, <2>1, <2>2, <2>3, Geometry, EraseCounts
<1> QED
  BY <1>1, <1>2, <1>3

\* What a script consists of.
Requests ==
    [command : Sessionless \cup SessionCommands \cup FullOnly, offset : Nat,
     data : Payloads \cup DOMAIN WholeChip \cup {NoData}]

\* The writes of a file are as many requests as it has cells.
LEMMA WritesAre ==
    ASSUME NEW cells \in Seq(Payloads)
    PROVE  /\ Writes(cells) \in Seq(Requests)
           /\ Len(Writes(cells)) = Len(cells)
           /\ \A k \in 1 .. Len(cells) : Writes(cells)[k] = Op("write", k - 1, cells[k])
<1>1. \A k \in 1 .. Len(cells) : Op("write", k - 1, cells[k]) \in Requests
  BY DEF Op, Requests, SessionCommands
<1>2. Writes(cells) \in [1 .. Len(cells) -> Requests]
  BY <1>1 DEF Writes
<1> QED
  BY <1>2 DEF Writes

\* The beginning and the end of a script.
LEMMA ShortScripts ==
    ASSUME NEW x \in Requests, NEW y \in Requests, NEW z \in Requests
    PROVE  /\ <<x, y>> \in Seq(Requests) /\ Len(<<x, y>>) = 2
           /\ <<x, y>>[1] = x /\ <<x, y>>[2] = y
           /\ <<x, y, z>> \in Seq(Requests) /\ Len(<<x, y, z>>) = 3
           /\ <<x, y, z>>[1] = x /\ <<x, y, z>>[2] = y /\ <<x, y, z>>[3] = z
OBVIOUS

\* A function on 1 .. n is a sequence of length n.
LEMMA FunctionIsSequence ==
    ASSUME NEW S, NEW n \in Nat, NEW f \in [1 .. n -> S]
    PROVE  f \in Seq(S) /\ Len(f) = n
OBVIOUS

\* A script is in three parts, of which the middle one sends the file.
IsInParts(w, s, t, u) ==
    /\ w \in Seq(Requests)
    /\ Len(w) = Len(s) + Len(t) + Len(u)
    /\ \A i \in 1 .. Len(s) : w[i] = s[i]
    /\ \A i \in 1 .. Len(t) : w[Len(s) + i] = t[i]
    /\ \A i \in 1 .. Len(u) : w[Len(s) + Len(t) + i] = u[i]

\* A script is its parts, one after the other.
LEMMA ThreeParts ==
    ASSUME NEW s \in Seq(Requests), NEW t \in Seq(Requests), NEW u \in Seq(Requests)
    PROVE  IsInParts(s \o t \o u, s, t, u)
<1>1. /\ s \o t \in Seq(Requests) /\ Len(s \o t) = Len(s) + Len(t)
      /\ \A i \in 1 .. Len(s) : (s \o t)[i] = s[i]
      /\ \A i \in Len(s) + 1 .. Len(s) + Len(t) : (s \o t)[i] = t[i - Len(s)]
  BY Concatenation
<1>2. PICK st \in Seq(Requests) : st = s \o t
  BY <1>1
<1>3. /\ st \o u \in Seq(Requests) /\ Len(st \o u) = Len(st) + Len(u)
      /\ \A i \in 1 .. Len(st) : (st \o u)[i] = st[i]
      /\ \A i \in Len(st) + 1 .. Len(st) + Len(u) : (st \o u)[i] = u[i - Len(st)]
  BY Concatenation
<1>4. Len(s) \in Nat /\ Len(t) \in Nat /\ Len(u) \in Nat /\ Len(st) = Len(s) + Len(t)
  BY <1>1, <1>2
<1>5. ASSUME NEW i \in 1 .. Len(s) PROVE (st \o u)[i] = s[i]
  BY <1>1, <1>2, <1>3, <1>4
<1>6. ASSUME NEW i \in 1 .. Len(t) PROVE (st \o u)[Len(s) + i] = t[i]
  <2>1. Len(s) + i \in Len(s) + 1 .. Len(s) + Len(t) /\ Len(s) + i \in 1 .. Len(st)
        /\ Len(s) + i - Len(s) = i
    BY <1>4
  <2> QED
    BY <2>1, <1>1, <1>2, <1>3
<1>7. ASSUME NEW i \in 1 .. Len(u) PROVE (st \o u)[Len(s) + Len(t) + i] = u[i]
  <2>1. Len(s) + Len(t) + i \in Len(st) + 1 .. Len(st) + Len(u)
        /\ Len(s) + Len(t) + i - Len(st) = i
    BY <1>4
  <2> QED
    BY <2>1, <1>3
<1> QED
  BY <1>2, <1>3, <1>4, <1>5, <1>6, <1>7 DEF IsInParts

\* The requests of a script, by their place.
LEMMA Scripts ==
    ASSUME goal \in Goals
    PROVE  /\ Script \in Seq(Requests)
           /\ Len(Script) = Prologue + Count + (IF goal.plan = "upload" THEN 3 ELSE 2)
           /\ Script[1] = Plain("get_info")
           /\ Script[2] = IF goal.plan = "upload" THEN Op("begin", Count, NoData)
                          ELSE Op("begin_full", Count, goal.of)
           /\ \A k \in 3 .. Prologue :
                Script[k] = IF goal.plan = "upload" THEN Plain("erase")
                            ELSE Op("erase_full", (k - 3) * EraseChunk, NoData)
           /\ \A k \in 1 .. Count : Script[Prologue + k] = Op("write", k - 1, Cell(k))
           /\ Script[Prologue + Count + 1] =
                Plain(IF goal.plan = "upload" THEN "finalize" ELSE "finalize_full")
           /\ goal.plan = "upload" => Script[Prologue + Count + 2] = Plain("set_pending")
           /\ Script[Len(Script)] = Plain("reboot")
<1>1. goal.plan \in {"upload", "restore"} /\ Count \in Nat \ {0}
      /\ Prologue \in Nat /\ Prologue >= 3
  BY GoalKinds
<1>2. \A c \in {"get_info", "erase", "finalize", "finalize_full", "set_pending", "reboot"} :
         Plain(c) \in Requests
  BY DEF Plain, Op, Requests, Sessionless, SessionCommands, FullOnly
<1>5. \A n \in Nat : /\ Op("begin", n, NoData) \in Requests
                      /\ Op("erase_full", n, NoData) \in Requests
                      /\ \A d \in DOMAIN WholeChip : Op("begin_full", n, d) \in Requests
  BY DEF Op, Requests, Sessionless, SessionCommands, FullOnly
<1>3. CASE goal.plan = "upload"
  <2>1. goal.of \in Seq(Payloads) /\ Count = Len(goal.of) /\ Prologue = 3
        /\ \A k : Cell(k) = goal.of[k]
    BY <1>3, GoalKinds DEF Count, Prologue, Cell
  <2> DEFINE s == <<Plain("get_info"), Op("begin", Len(goal.of), NoData), Plain("erase")>>
             t == Writes(goal.of)
             u == <<Plain("finalize"), Plain("set_pending"), Plain("reboot")>>
  <2>2. /\ s \in Seq(Requests) /\ Len(s) = 3
        /\ s[1] = Plain("get_info") /\ s[2] = Op("begin", Len(goal.of), NoData)
        /\ s[3] = Plain("erase")
    BY <1>1, <1>2, <1>5, <2>1, ShortScripts
  <2>3. /\ u \in Seq(Requests) /\ Len(u) = 3
        /\ u[1] = Plain("finalize") /\ u[2] = Plain("set_pending") /\ u[3] = Plain("reboot")
    BY <1>2, ShortScripts
  <2>4. /\ t \in Seq(Requests) /\ Len(t) = Len(goal.of)
        /\ \A k \in 1 .. Len(goal.of) : t[k] = Op("write", k - 1, goal.of[k])
    BY <2>1, WritesAre
  <2>5. Script = s \o t \o u
    BY <1>3 DEF Script, UploadScript
  <2> HIDE DEF s, t, u
  <2>10. s \in Seq(Requests) /\ t \in Seq(Requests) /\ u \in Seq(Requests)
         /\ Len(s) = 3 /\ Len(u) = 3
    BY <2>2, <2>3, <2>4
  <2>11. IsInParts(Script, s, t, u)
    BY <2>5, <2>10, ThreeParts
  <2>6. /\ Script \in Seq(Requests) /\ Len(Script) = 3 + Len(t) + 3
        /\ \A i \in 1 .. 3 : Script[i] = s[i]
        /\ \A i \in 1 .. Len(t) : Script[3 + i] = t[i]
        /\ \A i \in 1 .. 3 : Script[3 + Len(t) + i] = u[i]
    BY <2>10, <2>11 DEF IsInParts
  <2>7. Script[1] = s[1] /\ Script[2] = s[2] /\ Script[3] = s[3]
        /\ Script[3 + Len(t) + 1] = u[1] /\ Script[3 + Len(t) + 2] = u[2]
        /\ Script[3 + Len(t) + 3] = u[3]
    BY <2>6
  <2>8. Prologue + Count + 1 = 3 + Len(t) + 1 /\ Prologue + Count + 2 = 3 + Len(t) + 2
        /\ Len(Script) = 3 + Len(t) + 3 /\ Len(Script) = Prologue + Count + 3
    BY <1>1, <2>1, <2>4, <2>6
  <2>9. /\ \A k \in 3 .. Prologue : Script[k] = Plain("erase")
        /\ \A k \in 1 .. Count : Script[Prologue + k] = Op("write", k - 1, Cell(k))
    <3>1. ASSUME NEW k \in 3 .. Prologue PROVE Script[k] = Plain("erase")
      BY <2>1, <2>2, <2>7
    <3>2. ASSUME NEW k \in 1 .. Count PROVE Script[Prologue + k] = Op("write", k - 1, Cell(k))
      BY <2>1, <2>4, <2>6
    <3> QED
      BY <3>1, <3>2
  <2>12. /\ Script[1] = Plain("get_info") /\ Script[2] = Op("begin", Count, NoData)
         /\ Script[Prologue + Count + 1] = Plain("finalize")
         /\ Script[Prologue + Count + 2] = Plain("set_pending")
         /\ Script[Len(Script)] = Plain("reboot")
    BY <2>1, <2>2, <2>3, <2>7, <2>8
  <2> QED
    BY <1>3, <2>6, <2>8, <2>9, <2>12
<1>4. CASE goal.plan = "restore"
  <2>1. goal.of \in DOMAIN WholeChip /\ Count = FlashCells /\ Prologue = EraseCount + 2
        /\ \A k : Cell(k) = WholeChip[goal.of][k - 1]
    BY <1>4, GoalKinds DEF Count, Prologue, Cell
  <2> DEFINE a == <<Plain("get_info"), Op("begin_full", FlashCells, goal.of)>>
             b == [k \in 1 .. EraseCount |-> Op("erase_full", (k - 1) * EraseChunk, NoData)]
             s == a \o b
             cells == [k \in 1 .. FlashCells |-> WholeChip[goal.of][k - 1]]
             t == Writes(cells)
             u == <<Plain("finalize_full"), Plain("reboot")>>
  <2>2. EraseCount \in Nat \ {0} /\ EraseChunk \in Nat /\ FlashCells \in Nat \ {0}
    BY EraseCounts, Geometry
  <2>3. /\ a \in Seq(Requests) /\ Len(a) = 2
        /\ a[1] = Plain("get_info") /\ a[2] = Op("begin_full", FlashCells, goal.of)
    BY <1>2, <1>5, <2>1, <2>2, ShortScripts
  <2>4. \A k \in 1 .. EraseCount : (k - 1) * EraseChunk \in Nat
    BY <2>2, Z3T(30)
  <2>5. b \in [1 .. EraseCount -> Requests]
    BY <1>5, <2>4
  <2>6. b \in Seq(Requests) /\ Len(b) = EraseCount
    BY <2>2, <2>5, FunctionIsSequence
  <2>7. \A k \in 1 .. EraseCount : b[k] = Op("erase_full", (k - 1) * EraseChunk, NoData)
    OBVIOUS
  <2>8. cells \in [1 .. FlashCells -> Payloads]
    <3>1. \A k \in 1 .. FlashCells : k - 1 \in Cells
      BY <2>2 DEF Cells
    <3> QED
      BY <1>4, <3>1, GoalKinds
  <2>9. cells \in Seq(Payloads) /\ Len(cells) = FlashCells
    BY <2>2, <2>8
  <2>10. \A k \in 1 .. FlashCells : cells[k] = Cell(k)
    BY <2>1
  <2>11. Script = s \o t \o u
    BY <1>4 DEF Script, RestoreScript
  <2> HIDE DEF a, b, cells
  <2>20. a \in Seq(Requests) /\ b \in Seq(Requests) /\ Len(a) = 2 /\ Len(b) = EraseCount
    BY <2>3, <2>6
  <2>21. /\ s \in Seq(Requests) /\ Len(s) = Len(a) + Len(b)
         /\ \A i \in 1 .. Len(a) : s[i] = a[i]
         /\ \A i \in Len(a) + 1 .. Len(a) + Len(b) : s[i] = b[i - Len(a)]
    BY <2>20, Concatenation
  <2>12. /\ s \in Seq(Requests) /\ Len(s) = 2 + EraseCount
         /\ \A i \in 1 .. 2 : s[i] = a[i]
         /\ \A i \in 3 .. 2 + EraseCount : s[i] = b[i - 2]
    BY <2>2, <2>20, <2>21
  <2>13. /\ t \in Seq(Requests) /\ Len(t) = FlashCells
         /\ \A k \in 1 .. FlashCells : t[k] = Op("write", k - 1, cells[k])
    BY <2>9, WritesAre
  <2>14. /\ u \in Seq(Requests) /\ Len(u) = 2
         /\ u[1] = Plain("finalize_full") /\ u[2] = Plain("reboot")
    BY <1>2, ShortScripts
  <2> HIDE DEF s, t, u
  <2>15. /\ Script \in Seq(Requests) /\ Len(Script) = 2 + EraseCount + FlashCells + 2
         /\ \A i \in 1 .. 2 + EraseCount : Script[i] = s[i]
         /\ \A i \in 1 .. FlashCells : Script[2 + EraseCount + i] = t[i]
         /\ \A i \in 1 .. 2 : Script[2 + EraseCount + FlashCells + i] = u[i]
    <3>1. s \in Seq(Requests) /\ t \in Seq(Requests) /\ u \in Seq(Requests)
          /\ Len(s) = 2 + EraseCount /\ Len(t) = FlashCells /\ Len(u) = 2
      BY <2>12, <2>13, <2>14
    <3>2. IsInParts(Script, s, t, u)
      BY <2>11, <3>1, ThreeParts
    <3> QED
      BY <3>1, <3>2 DEF IsInParts
  <2>16. Script[1] = a[1] /\ Script[2] = a[2]
         /\ Script[2 + EraseCount + FlashCells + 1] = u[1]
         /\ Script[2 + EraseCount + FlashCells + 2] = u[2]
    BY <2>2, <2>12, <2>15
  <2>17. ASSUME NEW k \in 3 .. 2 + EraseCount
         PROVE  Script[k] = Op("erase_full", (k - 3) * EraseChunk, NoData)
    <3>1. k - 2 \in 1 .. EraseCount /\ k - 2 - 1 = k - 3 /\ k \in 1 .. 2 + EraseCount
      BY <2>2
    <3> QED
      BY <3>1, <2>7, <2>12, <2>15
  <2>18. ASSUME NEW k \in 1 .. FlashCells
         PROVE  Script[2 + EraseCount + k] = Op("write", k - 1, Cell(k))
    BY <2>10, <2>13, <2>15
  <2>19. Prologue + Count + 1 = 2 + EraseCount + FlashCells + 1
         /\ Len(Script) = 2 + EraseCount + FlashCells + 2
         /\ Len(Script) = Prologue + Count + 2
         /\ \A k : Prologue + k = 2 + EraseCount + k
    BY <2>1, <2>2, <2>15
  <2>22. /\ Script[1] = Plain("get_info") /\ Script[2] = Op("begin_full", Count, goal.of)
         /\ Script[Prologue + Count + 1] = Plain("finalize_full")
         /\ Script[Len(Script)] = Plain("reboot")
    BY <2>1, <2>3, <2>14, <2>16, <2>19
  <2>23. /\ \A k \in 3 .. Prologue : Script[k] = Op("erase_full", (k - 3) * EraseChunk, NoData)
         /\ \A k \in 1 .. Count : Script[Prologue + k] = Op("write", k - 1, Cell(k))
    BY <2>1, <2>2, <2>17, <2>18
  <2> QED
    BY <1>4, <2>15, <2>19, <2>22, <2>23
<1> QED
  BY <1>1, <1>3, <1>4
\* Which request a step sends, from the third on.
LEMMA StepKinds ==
    ASSUME goal \in Goals, NEW k \in 3 .. Len(Script)
    PROVE  \/ /\ k \in 3 .. Prologue
              /\ Script[k] = IF goal.plan = "upload" THEN Plain("erase")
                             ELSE Op("erase_full", (k - 3) * EraseChunk, NoData)
           \/ /\ k \in Prologue + 1 .. Prologue + Count
              /\ Script[k] = Op("write", k - Prologue - 1, Cell(k - Prologue))
              /\ Cell(k - Prologue) \in Payloads
           \/ /\ k = Prologue + Count + 1
              /\ Script[k] = Plain(IF goal.plan = "upload" THEN "finalize" ELSE "finalize_full")
           \/ /\ goal.plan = "upload" /\ k = Prologue + Count + 2
              /\ Script[k] = Plain("set_pending")
           \/ k = Len(Script) /\ Script[k] = Plain("reboot")
<1>1. /\ Count \in Nat \ {0} /\ Prologue \in Nat /\ Prologue >= 3
      /\ \A j \in 1 .. Count : Cell(j) \in Payloads
  BY GoalKinds
<1>2. Len(Script) = Prologue + Count + (IF goal.plan = "upload" THEN 3 ELSE 2)
  BY Scripts
<1>3. CASE k <= Prologue
  <2>1. k \in 3 .. Prologue
    BY <1>1, <1>3
  <2> QED
    BY <2>1, Scripts
<1>4. CASE k > Prologue /\ k <= Prologue + Count
  <2>1. /\ k - Prologue \in 1 .. Count /\ Prologue + (k - Prologue) = k
        /\ k \in Prologue + 1 .. Prologue + Count
    BY <1>1, <1>4
  <2>2. Script[Prologue + (k - Prologue)] = Op("write", k - Prologue - 1, Cell(k - Prologue))
    BY <2>1, Scripts
  <2> QED
    BY <1>1, <2>1, <2>2
<1>5. CASE k > Prologue + Count
  <2>1. \/ k = Prologue + Count + 1
        \/ goal.plan = "upload" /\ k = Prologue + Count + 2
        \/ k = Len(Script)
    BY <1>1, <1>2, <1>5
  <2> QED
    BY <2>1, Scripts
<1> QED
  BY <1>1, <1>3, <1>4, <1>5

\* What the requests of a session have in common.
LEMMA SessionSteps ==
    ASSUME goal \in Goals, NEW k \in 3 .. Len(Script)
    PROVE  /\ Script[k] \in Requests
           /\ Script[k].command \in SessionCommands \ {"read"}
           /\ Script[k].command \notin BeginCommands \cup {"get_info"}
           /\ Script[k].command = "reboot" <=> k = Len(Script)
           /\ Script[k].command \in FullOnly => goal.plan = "restore"
           /\ goal.plan = "restore" => Script[k].command \in FullOnly \cup {"write", "reboot"}
           /\ IF Script[k].command = "write" THEN Script[k].data \in Payloads
              ELSE Script[k].data = NoData
<1>1. Script \in Seq(Requests) /\ Len(Script) \in Nat /\ 3 \in Nat
  BY Scripts
<1>2. Script[k] \in Requests
  BY <1>1
<1>3. /\ Count \in Nat \ {0} /\ Prologue \in Nat /\ Prologue >= 3
      /\ goal.plan \in {"upload", "restore"}
  BY GoalKinds
<1>4. Len(Script) = Prologue + Count + (IF goal.plan = "upload" THEN 3 ELSE 2)
  BY Scripts
<1> USE DEF Plain, Op, SessionCommands, BeginCommands, FullOnly
<1>5. CASE /\ k \in 3 .. Prologue
           /\ Script[k] = IF goal.plan = "upload" THEN Plain("erase")
                          ELSE Op("erase_full", (k - 3) * EraseChunk, NoData)
  BY <1>2, <1>3, <1>4, <1>5
<1>6. CASE /\ k \in Prologue + 1 .. Prologue + Count
           /\ Script[k] = Op("write", k - Prologue - 1, Cell(k - Prologue))
           /\ Cell(k - Prologue) \in Payloads
  BY <1>2, <1>3, <1>4, <1>6
<1>7. CASE /\ k = Prologue + Count + 1
           /\ Script[k] = Plain(IF goal.plan = "upload" THEN "finalize" ELSE "finalize_full")
  BY <1>2, <1>3, <1>4, <1>7
<1>8. CASE /\ goal.plan = "upload" /\ k = Prologue + Count + 2
           /\ Script[k] = Plain("set_pending")
  BY <1>2, <1>3, <1>4, <1>8
<1>9. CASE k = Len(Script) /\ Script[k] = Plain("reboot")
  BY <1>2, <1>3, <1>4, <1>9
<1> QED
  BY <1>5, <1>6, <1>7, <1>8, <1>9, StepKinds

\* The request that the client sends is the packet of its place.
LEMMA RequestIs ==
    ASSUME UploadTypeOK, FlagsInv, PlaceInv
    PROVE  /\ Request \in Packets
           /\ step = 1 => Request = InfoRequest
           /\ step >= 2 => Request = Packet(step)
           /\ step <= 2 => Request.command \notin SessionCommands
           /\ step >= 3 => Request.command \in SessionCommands /\ Request.session = client.session
<1>1. /\ goal \in Goals /\ step \in 1 .. Len(Script)
      /\ client \in [flags : Slots \cup {Full}, session : Nat, sequence : Nat]
  BY DEF UploadTypeOK
<1>2. Script \in Seq(Requests) /\ Len(Script) \in Nat
  BY <1>1, Scripts
<1>3. Script[step] \in Requests
  BY <1>1, <1>2
<1>4. goal.plan \in {"upload", "restore"}
  BY <1>1, GoalKinds
<1>5. Request \in Packets
  BY <1>1, <1>3 DEF Request, Packets, Requests
<1>6. ASSUME step = 1 PROVE Request = InfoRequest
  BY <1>1, <1>6, Scripts DEF Request, InfoRequest, PlaceInv, Asking, NewClient, Plain, Op
<1>7. ASSUME step = 2 PROVE Request = Packet(2) /\ Request.command \in BeginCommands
  BY <1>1, <1>4, <1>7, Scripts
     DEF Request, Packet, PlaceInv, Opening, FlagsInv, Op, BeginCommands
<1>8. ASSUME step >= 3
      PROVE  /\ Request = Packet(step) /\ Request.session = client.session
             /\ Request.command \in SessionCommands
  <2>1. step \in 3 .. Len(Script)
    BY <1>1, <1>2, <1>8
  <2>2. Script[step].command \in SessionCommands \ BeginCommands
    BY <1>1, <2>1, SessionSteps
  <2>3. client.sequence = step - 2 /\ step > 2
    BY <1>8, <2>1 DEF PlaceInv
  <2> QED
    BY <2>2, <2>3 DEF Request, Packet, BeginCommands
<1> QED
  BY <1>1, <1>5, <1>6, <1>7, <1>8, <1>2 DEF InfoRequest, SessionCommands, BeginCommands

\* As long as the goal, the flags and the session stay, so do the packets.
LEMMA PacketsStay ==
    ASSUME goal' = goal, client'.flags = client.flags
    PROVE  /\ Script' = Script /\ Count' = Count /\ Prologue' = Prologue
           /\ \A k : Cell(k)' = Cell(k)
           /\ Packet(2)' = Packet(2)
           /\ client'.session = client.session => \A k : Packet(k)' = Packet(k)
<1>1. Script' = Script /\ Count' = Count /\ Prologue' = Prologue /\ \A k : Cell(k)' = Cell(k)
  BY DEF Script, Count, Prologue, Cell
<1> QED
  BY <1>1 DEF Packet
-----------------------------------------------------------------------------
(* What one request does to the engine.                                    *)

\* No BEGIN is executed.
SessionStays == UNCHANGED <<session, size, target, full, digest>>

\* A request that is refused, answered from the cache or fails leaves the
\* session, its progress and the cache as they were.
LEMMA NotOkStays ==
    ASSUME NEW r, NEW status, Process(r, status), status # "ok"
    PROVE  /\ SessionStays
           /\ UNCHANGED <<boot, active, expected, previous, phase, next, erased, sent, on>>
           /\ status = "replayed" => WellFormed(r) /\ Cached(r)
           /\ status = "refused" => ~Executes(r) /\ ~(WellFormed(r) /\ Cached(r))
<1> USE DEF SessionStays
<1>1. CASE Refuse(r, status)
  BY <1>1 DEF Refuse, vars
<1>2. CASE Replay(r, status)
  BY <1>2 DEF Replay, vars
<1>3. CASE Execute(r, status)
  <2>1. Handle(r, status) /\ UNCHANGED <<active, expected, previous>>
    BY <1>3 DEF Execute, Settle
  <2> USE DEF sessionVars, progressVars, journalVars
  <2>2. CASE EraseSlot(r, status)
    BY <2>1, <2>2 DEF EraseSlot
  <2>3. CASE EraseFullFlash(r, status)
    BY <2>1, <2>3 DEF EraseFullFlash
  <2>4. CASE Write(r, status)
    BY <2>1, <2>4 DEF Write
  <2>5. CASE Read(r, status)
    BY <2>1, <2>5 DEF Read, Unchanged
  <2>6. CASE Finalize(r, status)
    BY <2>1, <2>6 DEF Finalize
  <2>7. CASE SetPending(r, status)
    BY <2>1, <2>7 DEF SetPending
  <2>8. status = "failed"
    BY <2>1
    DEF Handle, GetInfo, GetLog, ReadKnobs, BeginImage, BeginFullFlash, Reboot, EraseSlot,
        EraseFullFlash, Write, Read, Finalize, SetPending
  <2> QED
    BY <2>1, <2>2, <2>3, <2>4, <2>5, <2>6, <2>7, <2>8
    DEF Handle, GetInfo, GetLog, ReadKnobs, BeginImage, BeginFullFlash, Reboot
<1> QED
  BY <1>1, <1>2, <1>3 DEF Process

\* A request that is executed well.
LEMMA OkEffects ==
    ASSUME NEW r, NEW status, Process(r, status), status = "ok"
    PROVE  /\ Executes(r) /\ WithinBounds(r) /\ Handle(r, status) /\ on
           /\ expected' = CASE r.command \in SessionCommands -> expected + 1
                            [] r.command \in BeginCommands -> 1
                            [] OTHER -> expected
           /\ previous' = IF r.command = "read_knobs" THEN previous
                          ELSE [request |-> r, response |-> Answer(r, status)]
           /\ active' = active
           /\ boot' = IF r.command = "set_pending" THEN BeginUpdate(boot, target) ELSE boot
           /\ r.command \notin BeginCommands => SessionStays
           /\ r.command \in BeginCommands => session' = session + 1 /\ OpenedBy(r)'
           /\ on' = (r.command # "reboot")
           /\ r.command = "read_knobs" => UNCHANGED <<phase, next, erased>>
<1>1. Execute(r, status)
  BY DEF Process, Refuse, Replay
<1>2. /\ Executes(r) /\ WithinBounds(r) /\ Handle(r, status) /\ on /\ active' = active
      /\ expected' = CASE r.command \in SessionCommands -> expected + 1
                       [] r.command \in BeginCommands -> 1
                       [] OTHER -> expected
      /\ previous' = IF r.command = "read_knobs" THEN previous
                     ELSE [request |-> r, response |-> Answer(r, status)]
  BY <1>1 DEF Process, Execute, Settle, BeginCommands
<1> DEFINE Rest == /\ boot' = IF r.command = "set_pending" THEN BeginUpdate(boot, target) ELSE boot
                   /\ r.command \notin BeginCommands => SessionStays
                   /\ r.command \in BeginCommands => session' = session + 1 /\ OpenedBy(r)'
                   /\ on' = (r.command # "reboot")
                   /\ r.command = "read_knobs" => UNCHANGED <<phase, next, erased>>
<1> USE DEF sessionVars, progressVars, journalVars, SessionStays, BeginCommands
<1>3. CASE GetInfo(r, status) \/ GetLog(r, status) \/ ReadKnobs(r, status) \/ Read(r, status)
  BY <1>2, <1>3 DEF GetInfo, GetLog, ReadKnobs, Read, Unchanged
<1>4. CASE BeginImage(r, status)
  BY <1>2, <1>4 DEF BeginImage, NewSession, OpenedBy, SessionCommands
<1>5. CASE BeginFullFlash(r, status)
  <2>1. r.offset = FlashCells
    BY <1>2, <1>5 DEF BeginFullFlash, Executes, Allowed
  <2> QED
    BY <1>2, <1>5, <2>1 DEF BeginFullFlash, NewSession, OpenedBy, SessionCommands
<1>6. CASE EraseSlot(r, status)
  BY <1>2, <1>6 DEF EraseSlot
<1>7. CASE EraseFullFlash(r, status)
  BY <1>2, <1>7 DEF EraseFullFlash
<1>8. CASE Write(r, status)
  BY <1>2, <1>8 DEF Write
<1>9. CASE Finalize(r, status)
  BY <1>2, <1>9 DEF Finalize
<1>10. CASE SetPending(r, status)
  BY <1>2, <1>10 DEF SetPending
<1>11. CASE Reboot(r, status)
  BY <1>2, <1>11 DEF Reboot
<1>12. Rest
  BY <1>2, <1>3, <1>4, <1>5, <1>6, <1>7, <1>8, <1>9, <1>10, <1>11 DEF Handle
<1> QED
  BY <1>2, <1>12

\* BEGIN_UPDATE keeps the confirmed slot, and never has the active one for its
\* target when GET_INFO tells that one as selected.
LEMMA SelectionStays ==
    ASSUME EngineInv, SelectionInv, NEW r \in Packets, NEW status, Process(r, status)
    PROVE  SelectionInv' /\ boot'.confirmed = boot.confirmed /\ active' = active
<1>1. boot \in States /\ active \in Slots /\ SessionInv
  BY DEF EngineInv, TypeOK
<1>2. CASE status # "ok"
  BY <1>2, NotOkStays DEF SelectionInv
<1>3. CASE status = "ok" /\ r.command # "set_pending"
  BY <1>3, OkEffects DEF SelectionInv
<1>4. CASE status = "ok" /\ r.command = "set_pending"
  <2>1. active' = active /\ boot' = BeginUpdate(boot, target)
    BY <1>4, OkEffects
  <2>2. ~full /\ phase # "idle"
    BY <1>4, OkEffects, Executed
  <2>3. target \in Slots \ {active, boot.confirmed}
    BY <1>1, <2>2 DEF SessionInv
  <2>4. boot'.confirmed = boot.confirmed /\ boot.confirmed \in Slots
    BY <1>1, <2>1, BootStates
  <2>5. active = boot.confirmed
    BY <1>1, <2>3, <2>4 DEF Slots
  <2> QED
    BY <2>1, <2>4, <2>5 DEF SelectionInv
<1> QED
  BY <1>2, <1>3, <1>4
-----------------------------------------------------------------------------
(* The queues.                                                             *)

-----------------------------------------------------------------------------
(* The queues, and what the pedal answers.                                 *)

\* Taking the first message of a queue.
LEMMA TailFacts ==
    ASSUME NEW S, NEW q \in Seq(S), q # << >>
    PROVE  /\ Head(q) = q[1] /\ Head(q) \in S
           /\ Len(q) \in Nat \ {0} /\ DOMAIN q = 1 .. Len(q)
           /\ Tail(q) \in Seq(S) /\ Len(Tail(q)) = Len(q) - 1
           /\ DOMAIN Tail(q) = 1 .. Len(q) - 1
           /\ \A i \in 1 .. Len(q) - 1 : Tail(q)[i] = q[i + 1] /\ i + 1 \in 1 .. Len(q)
OBVIOUS

\* Adding a message to a queue.
LEMMA AppendFacts ==
    ASSUME NEW S, NEW q \in Seq(S), NEW e \in S
    PROVE  /\ Len(q) \in Nat /\ DOMAIN q = 1 .. Len(q)
           /\ Append(q, e) \in Seq(S) /\ Len(Append(q, e)) = Len(q) + 1
           /\ DOMAIN Append(q, e) = 1 .. Len(q) + 1
           /\ \A i \in 1 .. Len(q) : Append(q, e)[i] = q[i]
           /\ Append(q, e)[Len(q) + 1] = e
OBVIOUS

-----------------------------------------------------------------------------
(* What the pedal makes of one report.                                     *)

\* The answer of an executed, refused or failed request is addressed like it.
LEMMA AnswerIs ==
    ASSUME EngineInv, EngineInv', NEW r \in Packets, NEW status \in Statuses,
           Process(r, status), status # "replayed", NEW a, a = Answer(r, status)
    PROVE  /\ a \in Responses /\ Matches(a, r) /\ a.status = status
           /\ a.command = r.command
           /\ a.session = IF status = "ok" /\ r.command \in BeginCommands
                          THEN session' ELSE r.session
           /\ status = "ok" /\ r.command = "get_info" => a.data = Info
<1>1. /\ session' \in Nat /\ erased' \in Nat
  BY DEF EngineInv, TypeOK
<1>2. /\ r.command \in Sessionless \cup SessionCommands \cup FullOnly
      /\ r.flags \in Slots \cup {Full} /\ r.session \in Nat \cup {Unlock}
      /\ r.sequence \in Nat /\ r.offset \in Nat
  BY DEF Packets
<1> DEFINE data == IF status # "ok" THEN NoData
                   ELSE CASE r.command = "get_info" -> Info
                          [] r.command = "read" -> flash[TargetCell(r)]
                          [] OTHER -> NoData
           who == IF status = "ok" /\ r.command \in {"begin", "begin_full"} THEN session'
                  ELSE r.session
           where == IF status = "ok" /\ r.command = "erase_full" THEN erased' ELSE r.offset
<1>3. a = [command |-> r.command, flags |-> r.flags, sequence |-> r.sequence,
           status |-> status, session |-> who, offset |-> where, data |-> data]
  BY DEF Answer
<1>4. ASSUME status = "ok", r.command = "read" PROVE flash[TargetCell(r)] \in Contents
  <2>1. Executes(r) /\ phase # "idle" /\ r.offset < size
    BY <1>4, OkEffects, Executed DEF Executes, Allowed
  <2>2. flash \in [Cells -> Contents] /\ size \in Nat /\ full \in BOOLEAN
    BY FieldTypes DEF EngineInv
  <2>3. TargetCell(r) \in Cells
    <3>1. CASE full
      <4>1. size = FlashCells
        BY <2>1, <3>1 DEF EngineInv, SessionInv
      <4> QED
        BY <1>2, <2>1, <2>2, <3>1, <4>1, Geometry DEF TargetCell, Cells
    <3>2. CASE ~full
      <4>1. size <= SlotCells
        BY <2>1, <2>2, <3>2, Geometry DEF EngineInv, SessionInv
      <4>2. SlotBase(target) \in Nat /\ SlotBase(target) + SlotCells <= FlashCells
        BY Geometry
      <4>3. TargetCell(r) = SlotBase(target) + r.offset
        BY <3>2 DEF TargetCell
      <4> QED
        BY <1>2, <2>1, <2>2, <4>1, <4>2, <4>3, Geometry DEF Cells
    <3> QED
      BY <2>2, <3>1, <3>2
  <2> QED
    BY <2>2, <2>3
<1>5. Info \in [confirmed : Slots, pending : Slots \cup {NoSlot}, selected : Slots, phase : Phases]
  <2>1. boot \in States /\ phase \in Phases
    BY DEF EngineInv, TypeOK
  <2>2. boot.confirmed \in Slots /\ SelectedSlot(boot) \in Slots
    BY <2>1, BootStates
  <2>3. boot.pending \in Slots \cup {NoSlot}
    BY <2>1 DEF States
  <2> QED
    BY <2>1, <2>2, <2>3 DEF Info
<1>6. data \in Contents \cup {NoData} \cup
               [confirmed : Slots, pending : Slots \cup {NoSlot}, selected : Slots, phase : Phases]
  BY <1>4, <1>5
<1>7. who \in Nat \cup {Unlock} /\ where \in Nat
  BY <1>1, <1>2
<1>8. status = "ok" /\ r.command = "get_info" => data = Info
  OBVIOUS
<1> HIDE DEF data, where
<1>9. a \in Responses
  BY <1>2, <1>3, <1>6, <1>7 DEF Responses
<1>10. Matches(a, r)
  BY <1>3 DEF Matches
<1> QED
  BY <1>3, <1>8, <1>9, <1>10 DEF BeginCommands

\* What the pedal's answer to r says of it.
Answered(r, status, a) ==
    /\ a \in Responses /\ Matches(a, r)
    /\ a.status = "ok" <=> status \in {"ok", "replayed"}
    /\ a.status = "refused" => status = "refused"
    /\ Opens(a) => a.session = session'
    /\ \/ session' = session /\ expected' >= expected
       \/ session' = session + 1 /\ status = "ok" /\ r.command \in BeginCommands
    /\ CacheInv'
    /\ on' => ResponseInv(a)'

\* The answer from the retry cache is the one that the request had.
LEMMA ReplayAnswers ==
    ASSUME EngineInv, CacheInv, SelectionInv, NEW r \in Packets, NEW status \in Statuses,
           Process(r, status), status = "replayed", NEW a, a = Answer(r, status)
    PROVE  Answered(r, status, a)
<1>1. UNCHANGED vars /\ WellFormed(r) /\ Cached(r)
  BY DEF Process, Refuse, Replay, Execute, Handle, GetInfo, GetLog, ReadKnobs, BeginImage,
         BeginFullFlash, EraseSlot, EraseFullFlash, Write, Read, Finalize, SetPending, Reboot
<1>2. previous # NoPrevious /\ r = previous.request /\ a = previous.response
  BY <1>1 DEF Cached, Answer
<1>3. /\ a \in Responses /\ a.status = "ok" /\ Matches(a, r)
      /\ r.command \in SessionCommands => r.session = session /\ r.sequence < expected
      /\ r.command \in BeginCommands => a.session = session
      /\ r.command = "reboot" => ~on
  BY <1>2 DEF CacheInv
<1>4. session' = session /\ expected' = expected /\ on' = on /\ CacheInv'
      /\ boot' = boot /\ active' = active
  BY <1>1 DEF vars, sessionVars, progressVars, journalVars, CacheInv, OpenedBy
<1>5. session \in Nat /\ expected \in Nat
  BY FieldTypes DEF EngineInv
<1>6. ASSUME Informs(a) PROVE a.data = Info
  BY <1>2, <1>3, <1>6 DEF EngineInv, ReplayedInfoIsCurrent, Informs, Matches
<1>7. ASSUME Informs(a)
      PROVE  a.data.confirmed = boot.confirmed /\ a.data.selected = SelectedSlot(boot)
  BY <1>6, <1>7 DEF Info
<1>8. on
  BY DEF Process
<1> QED
  <2>1. a.command \in SessionCommands => a.session = session /\ a.sequence < expected
    BY <1>3 DEF Matches, SessionCommands
  <2>2. Opens(a) => a.session = session
    BY <1>3 DEF Opens, Matches
  <2>3. a.command # "reboot"
    BY <1>3, <1>8 DEF Matches
  <2>4. SelectionInv' /\ boot'.confirmed = boot.confirmed /\ active' = active
    BY SelectionStays
  <2>5. ResponseInv(a)'
    BY <1>4, <1>5, <1>7, <2>1, <2>2, <2>3 DEF ResponseInv, SelectionInv
  <2>6. a.status # "refused"
    BY <1>3
  <2> QED
    BY <1>3, <1>4, <1>5, <2>2, <2>5, <2>6 DEF Answered

\* The cache after a request.
LEMMA CacheStays ==
    ASSUME EngineInv, EngineInv', CacheInv, NEW r \in Packets, NEW status \in Statuses,
           Process(r, status), status # "replayed", NEW a, a = Answer(r, status)
    PROVE  CacheInv'
<1>1. CASE status # "ok"
  BY <1>1, NotOkStays DEF CacheInv, SessionStays, OpenedBy
<1>2. CASE status = "ok" /\ r.command = "read_knobs"
  BY <1>2, OkEffects DEF CacheInv, SessionStays, OpenedBy, SessionCommands, BeginCommands
<1>3. CASE status = "ok" /\ r.command # "read_knobs"
  <2>1. /\ Executes(r)
        /\ expected' = CASE r.command \in SessionCommands -> expected + 1
                         [] r.command \in BeginCommands -> 1
                         [] OTHER -> expected
        /\ previous' = [request |-> r, response |-> a]
        /\ r.command \notin BeginCommands => SessionStays
        /\ r.command \in BeginCommands => OpenedBy(r)'
        /\ on' = (r.command # "reboot")
    BY <1>3, OkEffects
  <2>2. /\ a \in Responses /\ Matches(a, r) /\ a.status = status
        /\ r.command \in BeginCommands => a.session = session'
    BY <1>3, AnswerIs
  <2>3. ASSUME r.command \in SessionCommands
        PROVE  r.session = session' /\ r.sequence < expected'
    <3>1. r.session = session /\ r.sequence = expected
      BY <2>1, <2>3 DEF Executes, Addressed, InSession
    <3>2. session' = session /\ expected' = expected + 1
      BY <2>1, <2>3 DEF SessionStays, SessionCommands, BeginCommands
    <3> QED
      BY <3>1, <3>2, FieldTypes DEF EngineInv
  <2>4. previous' \in [request : Packets, response : Responses]
    BY <2>1, <2>2
  <2> QED
    BY <1>3, <2>1, <2>2, <2>3, <2>4 DEF CacheInv
<1> QED
  BY <1>1, <1>2, <1>3

\* The answer of a request that is not in the retry cache.
LEMMA NewAnswers ==
    ASSUME EngineInv, EngineInv', CacheInv, SelectionInv,
           NEW r \in Packets, NEW status \in Statuses,
           Process(r, status), status # "replayed", NEW a, a = Answer(r, status),
           r.command \in SessionCommands => r.session \in 0 .. session
    PROVE  Answered(r, status, a)
<1>1. /\ a \in Responses /\ Matches(a, r) /\ a.status = status /\ a.command = r.command
      /\ a.session = IF status = "ok" /\ r.command \in BeginCommands THEN session' ELSE r.session
      /\ status = "ok" /\ r.command = "get_info" => a.data = Info
  BY AnswerIs
<1>2. session \in Nat /\ expected \in Nat /\ session' \in Nat /\ expected' \in Nat
  BY DEF EngineInv, TypeOK
<1>3. \/ session' = session /\ expected' >= expected
      \/ session' = session + 1 /\ status = "ok" /\ r.command \in BeginCommands
  <2>1. CASE status # "ok"
    BY <1>2, <2>1, NotOkStays DEF SessionStays
  <2>2. CASE status = "ok" /\ r.command \in BeginCommands
    BY <2>2, OkEffects
  <2>3. CASE status = "ok" /\ r.command \notin BeginCommands
    BY <1>2, <2>3, OkEffects DEF SessionStays
  <2> QED
    BY <2>1, <2>2, <2>3
<1>4. CacheInv'
  BY CacheStays
<1>5. boot'.confirmed = boot.confirmed /\ active' = active
  BY SelectionStays
<1>6. ASSUME on' PROVE ResponseInv(a)'
  <2>1. ASSUME r.command \in SessionCommands
        PROVE  /\ a.session \in 0 .. session'
               /\ a.status = "ok" /\ a.session = session' => a.sequence < expected'
    <3>1. r.command \notin BeginCommands
      BY <2>1 DEF SessionCommands, BeginCommands
    <3>2. a.session = r.session /\ session' = session
      BY <1>1, <1>3, <3>1
    <3>3. ASSUME status = "ok" PROVE a.sequence < expected'
      <4>1. r.sequence = expected /\ expected' = expected + 1
        BY <2>1, <3>1, <3>3, OkEffects DEF Executes, Addressed, InSession
      <4> QED
        BY <1>1, <1>2, <4>1 DEF Matches
    <3> QED
      BY <1>1, <2>1, <3>2, <3>3
  <2>2. ASSUME Opens(a) PROVE a.session \in 0 .. session'
    BY <1>1, <1>2, <2>2 DEF Opens
  <2>3. r.command = "reboot" => a.status # "ok"
    BY <1>1, <1>6, OkEffects
  <2>4. ASSUME Informs(a)
        PROVE  /\ a.data.confirmed = boot'.confirmed
               /\ active' # boot'.confirmed => a.data.selected = active'
    <3>1. a.data = Info
      BY <1>1, <2>4 DEF Informs
    <3>2. a.data.confirmed = boot.confirmed /\ a.data.selected = SelectedSlot(boot)
      BY <3>1 DEF Info
    <3> QED
      BY <1>5, <3>2 DEF SelectionInv
  <2> QED
    BY <1>1, <2>1, <2>2, <2>3, <2>4 DEF ResponseInv
<1> QED
  BY <1>1, <1>3, <1>4, <1>6 DEF Answered, Opens

\* Everything that the rest of the proof needs of one report.
LEMMA PedalStep ==
    ASSUME EngineInv, CacheInv, SelectionInv, NEW r \in Packets, NEW status \in Statuses,
           Process(r, status), NEW a, a = Answer(r, status),
           r.command \in SessionCommands => r.session \in 0 .. session
    PROVE  /\ EngineInv' /\ SelectionInv'
           /\ Answered(r, status, a)
           /\ \A b \in Responses : ResponseInv(b) => ResponseInv(b)'
           /\ boot'.confirmed = boot.confirmed /\ active' = active
<1>1. EngineInv'
  BY NextKeeps DEF Next
<1>2. SelectionInv' /\ boot'.confirmed = boot.confirmed /\ active' = active
  BY SelectionStays
<1>3. Answered(r, status, a)
  BY <1>1, ReplayAnswers, NewAnswers
<1>4. session \in Nat /\ expected \in Nat /\ session' \in Nat /\ expected' \in Nat
  BY <1>1 DEF EngineInv, TypeOK
<1>5. \/ session' = session /\ expected' >= expected
      \/ session' = session + 1
  BY <1>3 DEF Answered
<1>6. ASSUME NEW b \in Responses, ResponseInv(b) PROVE ResponseInv(b)'
  <2>1. ASSUME b.command \in SessionCommands
        PROVE  /\ b.session \in 0 .. session'
               /\ b.status = "ok" /\ b.session = session' => b.sequence < expected'
    <3>1. b.session \in 0 .. session
          /\ (b.status = "ok" /\ b.session = session => b.sequence < expected)
      BY <1>6, <2>1 DEF ResponseInv
    <3>2. b.session \in 0 .. session'
      BY <1>4, <1>5, <3>1
    <3>3. CASE session' = session + 1
      BY <1>4, <3>1, <3>2, <3>3
    <3>4. CASE session' = session /\ expected' >= expected
      <4> SUFFICES ASSUME b.status = "ok", b.session = session' PROVE b.sequence < expected'
        BY <3>2
      <4>1. b.sequence < expected
        BY <3>1, <3>4
      <4> QED
        BY <1>4, <3>4, <4>1 DEF Responses
    <3> QED
      BY <1>5, <3>3, <3>4
  <2>2. Opens(b) => b.session \in 0 .. session'
    BY <1>4, <1>5, <1>6 DEF ResponseInv
  <2> QED
    BY <1>2, <1>6, <2>1, <2>2 DEF ResponseInv
<1> QED
  BY <1>1, <1>2, <1>3, <1>6

\* One report is taken from its queue, and what becomes of its answer.
Served(r, status, a) ==
    /\ r \in Packets /\ status \in Statuses
    /\ on /\ Process(r, status)
    /\ Answered(r, status, a)
    /\ boot'.confirmed = boot.confirmed /\ active' = active
    /\ requests # << >> /\ r = requests[1]
    /\ requests' \in Seq(Packets) /\ Len(requests') = Len(requests) - 1
    /\ \A i \in 1 .. Len(requests) - 1 : requests'[i] = requests[i + 1]
    /\ responses' \in Seq(Responses)
    /\ \/ responses' = responses
       \/ /\ on' /\ Len(responses') = Len(responses) + 1
          /\ \A i \in 1 .. Len(responses) : responses'[i] = responses[i]
          /\ responses'[Len(responses) + 1] = a
    /\ lost' \in {lost, lost + 1}
    /\ on' /\ responses' = responses => lost' = lost + 1
    /\ UNCHANGED <<hostVars, late, runs>>

\* Serving a report takes it from its queue and answers it or loses the answer.
LEMMA ServeIs ==
    ASSUME EngineInv, UploadTypeOK, PedalInv, Serve
    PROVE  /\ EngineInv' /\ PedalInv'
           /\ \E r, status, a : Served(r, status, a)
<1>1. /\ requests \in Seq(Packets) /\ responses \in Seq(Responses) /\ requests # << >>
      /\ lost \in Nat
  BY DEF UploadTypeOK, Serve
<1>2. PICK r : r = Head(requests)
  OBVIOUS
<1>3. /\ r = requests[1] /\ r \in Packets /\ Len(requests) \in Nat \ {0}
      /\ DOMAIN requests = 1 .. Len(requests)
      /\ requests' \in Seq(Packets) /\ Len(requests') = Len(requests) - 1
      /\ DOMAIN requests' = 1 .. Len(requests) - 1
      /\ \A i \in 1 .. Len(requests) - 1 :
            requests'[i] = requests[i + 1] /\ i + 1 \in 1 .. Len(requests)
  BY <1>1, <1>2, TailFacts DEF Serve
<1>4. PICK status \in Statuses :
         /\ Process(r, status)
         /\ \/ /\ responses' =
                     IF on' THEN Append(responses, Answer(r, status)) ELSE responses
               /\ UNCHANGED lost
            \/ on' /\ lost < MaxLost /\ lost' = lost + 1 /\ UNCHANGED responses
  BY <1>2 DEF Serve
<1>5. PICK a : a = Answer(r, status)
  OBVIOUS
<1>6. r.command \in SessionCommands => r.session \in 0 .. session
  BY <1>3 DEF PedalInv, QueueInv
<1>7. /\ EngineInv' /\ SelectionInv'
      /\ Answered(r, status, a)
      /\ \A b \in Responses : ResponseInv(b) => ResponseInv(b)'
      /\ boot'.confirmed = boot.confirmed /\ active' = active
  BY <1>3, <1>4, <1>5, <1>6, PedalStep DEF PedalInv
<1>8. a \in Responses
  BY <1>7 DEF Answered
<1>9. /\ Len(responses) \in Nat /\ DOMAIN responses = 1 .. Len(responses)
      /\ Append(responses, a) \in Seq(Responses)
      /\ Len(Append(responses, a)) = Len(responses) + 1
      /\ DOMAIN Append(responses, a) = 1 .. Len(responses) + 1
      /\ \A i \in 1 .. Len(responses) : Append(responses, a)[i] = responses[i]
      /\ Append(responses, a)[Len(responses) + 1] = a
  BY <1>1, <1>8, AppendFacts
<1>10. \/ responses' = responses
       \/ on' /\ responses' = Append(responses, a)
  BY <1>4, <1>5
<1>11. /\ lost' \in {lost, lost + 1} /\ (on' /\ responses' = responses => lost' = lost + 1)
  <2>1. Append(responses, a) # responses
    <3>1. PICK q : q = Append(responses, a)
      OBVIOUS
    <3>2. Len(q) = Len(responses) + 1 /\ Len(responses) \in Nat
      BY <1>9, <3>1
    <3>3. Len(q) # Len(responses)
      BY <3>2
    <3> QED
      BY <3>1, <3>3
  <2> QED
    BY <1>4, <1>5, <2>1
<1>12. on
  BY <1>4 DEF Process
<1>13. Served(r, status, a)
  BY <1>1, <1>3, <1>4, <1>7, <1>9, <1>10, <1>11, <1>12 DEF Served, Serve
<1>14. PedalInv'
  <2>1. CacheInv' /\ (on' => ResponseInv(a)') /\ session' >= session
        /\ session \in Nat /\ session' \in Nat
    BY <1>7 DEF Answered, EngineInv, TypeOK
  <2>2. ASSUME NEW i \in DOMAIN requests', requests'[i].command \in SessionCommands
        PROVE  requests'[i].session \in 0 .. session'
    <3>1. requests'[i] = requests[i + 1] /\ i + 1 \in DOMAIN requests
      BY <1>3
    <3>2. requests[i + 1].session \in 0 .. session
      BY <2>2, <3>1 DEF PedalInv, QueueInv
    <3> QED
      BY <2>1, <3>1, <3>2
  <2>3. ASSUME NEW i \in DOMAIN responses' PROVE ResponseInv(responses[i])'
    <3>1. \A j \in 1 .. Len(responses) : ResponseInv(responses[j]) /\ responses[j] \in Responses
      BY <1>1, <1>9 DEF PedalInv, QueueInv
    <3>2. PICK b : b = responses'[i]
      OBVIOUS
    <3>3. \/ \E j \in 1 .. Len(responses) : b = responses[j]
          \/ on' /\ b = a
      BY <1>9, <1>10, <3>2
    <3>4. ResponseInv(b)'
      BY <1>7, <2>1, <3>1, <3>3
    <3> QED
      BY <3>2, <3>4 DEF ResponseInv
  <2> QED
    BY <1>7, <2>1, <2>2, <2>3 DEF PedalInv, QueueInv
<1> QED
  BY <1>7, <1>13, <1>14

-----------------------------------------------------------------------------
(* The requests that open a run.                                           *)

\* What is well formed, addressed and allowed is executed or replayed.
LEMMA NotRefused ==
    ASSUME NEW r, NEW status, Process(r, status), WellFormed(r), Addressed(r), Allowed(r)
    PROVE  /\ status # "refused"
           /\ ~Cached(r) => status # "replayed"
BY DEF Process, Refuse, Replay, Execute, Executes, Handle, GetInfo, GetLog, ReadKnobs, BeginImage,
       BeginFullFlash, EraseSlot, EraseFullFlash, Write, Read, Finalize, SetPending, Reboot

\* GET_INFO and BEGIN never fail: they touch no flash.
LEMMA OnlySessionsFail ==
    ASSUME NEW r, NEW status, Process(r, status), status = "failed"
    PROVE  r.command \in SessionCommands
BY DEF Process, Refuse, Replay, Execute, Handle, GetInfo, GetLog, ReadKnobs, BeginImage,
       BeginFullFlash, EraseSlot, EraseFullFlash, Write, Read, Finalize, SetPending, Reboot,
       SessionCommands

\* What was answered well is in the cache, from where it is answered again.
LEMMA LastIs ==
    ASSUME EngineInv, EngineInv', NEW r \in Packets, NEW status \in Statuses, Process(r, status),
           status \in {"ok", "replayed"}, r.command # "read_knobs"
    PROVE  LastExecuted(r)'
<1>1. CASE status = "replayed"
  BY <1>1, NotOkStays DEF LastExecuted, Cached
<1>2. CASE status = "ok"
  <2>1. PICK a : a = Answer(r, status)
    OBVIOUS
  <2>2. a \in Responses
    BY <1>2, <2>1, AnswerIs
  <2>3. previous' = [request |-> r, response |-> a]
    BY <1>2, <2>1, OkEffects
  <2>4. [request |-> r, response |-> a] \in [request : Packets, response : Responses]
    BY <2>2
  <2> QED
    BY <2>3, <2>4, PacketAssumption DEF LastExecuted
<1> QED
  BY <1>1, <1>2

\* The request that was executed last changes nothing when it comes again.
LEMMA CachedStays ==
    ASSUME NEW r, NEW status, Process(r, status), LastExecuted(r), WellFormed(r),
           r.command # "read_knobs"
    PROVE  status = "replayed" /\ UNCHANGED vars /\ LastExecuted(r)'
<1>1. Cached(r)
  BY DEF LastExecuted, Cached
<1>2. Replay(r, status)
  BY <1>1 DEF Process, Refuse, Execute, Executes
<1> QED
  BY <1>2 DEF Replay, vars, LastExecuted

\* GET_INFO is always answered.
LEMMA InfoServed ==
    ASSUME EngineInv, EngineInv', NEW status \in Statuses, Process(InfoRequest, status)
    PROVE  /\ InfoRequest \in Packets
           /\ status \in {"ok", "replayed"}
           /\ LastExecuted(InfoRequest)'
<1>1. InfoRequest \in Packets
  BY BootStateAssumption DEF InfoRequest, Packets, Slots, Sessionless
<1>2. WellFormed(InfoRequest)
  BY PacketAssumption DEF InfoRequest, WellFormed, FullOnly, Slots
<1>3. Addressed(InfoRequest) /\ Allowed(InfoRequest)
  BY DEF InfoRequest, Addressed, Allowed, SessionCommands
<1>4. InfoRequest.command = "get_info"
  BY DEF InfoRequest
<1>5. status \in {"ok", "replayed"}
  BY <1>2, <1>3, <1>4, NotRefused, OnlySessionsFail DEF Statuses, SessionCommands
<1>6. PICK r : r = InfoRequest
  OBVIOUS
<1>7. LastExecuted(r)'
  BY <1>1, <1>4, <1>5, <1>6, LastIs
<1> QED
  BY <1>1, <1>5, <1>6, <1>7 DEF LastExecuted, InfoRequest

\* The BEGIN of a run is never refused.
LEMMA BeginPacket ==
    ASSUME EngineInv, UploadTypeOK, FlagsInv, step >= 2
    PROVE  /\ Packet(2) \in Packets
           /\ Packet(2).command \in BeginCommands
           /\ Packet(2).flags = client.flags /\ Packet(2).sequence = 0
           /\ Packet(2).offset = Count
           /\ goal.plan = "upload" => Packet(2).command = "begin"
           /\ goal.plan = "restore" => Packet(2).command = "begin_full" /\ Packet(2).data = goal.of
           /\ Packet(2) # InfoRequest
           /\ WellFormed(Packet(2)) /\ Addressed(Packet(2)) /\ Allowed(Packet(2))
<1>1. /\ goal \in Goals
      /\ client \in [flags : Slots \cup {Full}, session : Nat, sequence : Nat]
  BY DEF UploadTypeOK
<1>2. goal.plan \in {"upload", "restore"} /\ Count \in Nat
  BY <1>1, GoalKinds
<1>3. CASE goal.plan = "upload"
  <2>1. Script[2] = Op("begin", Count, NoData)
    BY <1>1, <1>3, Scripts
  <2>2. Packet(2) = [command |-> "begin", flags |-> client.flags, session |-> 0,
                     sequence |-> 0, offset |-> Count, data |-> NoData]
    BY <1>3, <2>1 DEF Packet, Op
  <2>3. client.flags \in Slots \ {boot.confirmed, active}
    BY <1>3 DEF FlagsInv
  <2>4. Count \in MinImage .. SlotCells
    BY <1>1, <1>3, GoalKinds DEF Count
  <2>5. Packet(2) \in Packets
    BY <1>2, <2>2, <2>3 DEF Packets, Sessionless
  <2>6. WellFormed(Packet(2))
    BY <2>2, <2>3, PacketAssumption DEF WellFormed, FullOnly
  <2>7. Addressed(Packet(2)) /\ Allowed(Packet(2))
    BY <2>2, <2>3, <2>4 DEF Addressed, Allowed, MayBegin, SessionCommands
  <2> QED
    BY <1>3, <2>2, <2>5, <2>6, <2>7 DEF BeginCommands, InfoRequest
<1>4. CASE goal.plan = "restore"
  <2>1. Script[2] = Op("begin_full", Count, goal.of)
    BY <1>1, <1>4, Scripts
  <2>2. Packet(2) = [command |-> "begin_full", flags |-> client.flags, session |-> Unlock,
                     sequence |-> 0, offset |-> Count, data |-> goal.of]
    BY <1>4, <2>1 DEF Packet, Op
  <2>3. client.flags = Full
    BY <1>4 DEF FlagsInv
  <2>4. Count = FlashCells /\ FullFlashEnabled /\ goal.of \in DOMAIN WholeChip
    BY <1>1, <1>4, GoalKinds DEF Count
  <2>5. Packet(2) \in Packets
    BY <1>2, <2>2, <2>3, <2>4 DEF Packets, FullOnly
  <2>6. WellFormed(Packet(2))
    BY <2>2, <2>3, <2>4 DEF WellFormed, FullOnly
  <2>7. Addressed(Packet(2)) /\ Allowed(Packet(2))
    BY <2>2, <2>4 DEF Addressed, Allowed, SessionCommands
  <2> QED
    BY <1>4, <2>2, <2>5, <2>6, <2>7 DEF BeginCommands, InfoRequest
<1> QED
  BY <1>2, <1>3, <1>4

\* The BEGIN of a run whose slot was chosen is always answered.
LEMMA BeginServed ==
    ASSUME EngineInv, EngineInv', UploadTypeOK, FlagsInv, step >= 2,
           NEW status \in Statuses, NEW r, r = Packet(2), Process(r, status)
    PROVE  /\ status \in {"ok", "replayed"}
           /\ LastExecuted(r)'
           /\ LastExecuted(r) => status = "replayed"
           /\ LastExecuted(InfoRequest) => status = "ok"
           /\ status = "ok" => session' = session + 1
<1>1. /\ r \in Packets /\ r.command \in BeginCommands /\ r # InfoRequest
      /\ WellFormed(r) /\ Addressed(r) /\ Allowed(r)
  BY BeginPacket
<1>2. r.command \notin SessionCommands /\ r.command # "read_knobs"
  BY <1>1 DEF BeginCommands, SessionCommands
<1>3. status \in {"ok", "replayed"}
  BY <1>1, <1>2, NotRefused, OnlySessionsFail DEF Statuses
<1>4. LastExecuted(r)'
  BY <1>1, <1>2, <1>3, LastIs
<1>5. LastExecuted(r) => status = "replayed"
  BY <1>1, <1>2, CachedStays
<1>6. LastExecuted(InfoRequest) => status = "ok"
  <2>1. LastExecuted(InfoRequest) => ~Cached(r)
    BY <1>1 DEF LastExecuted, Cached
  <2> QED
    BY <1>1, <1>3, <2>1, NotRefused
<1>7. status = "ok" => session' = session + 1
  BY <1>1, OkEffects
<1> QED
  BY <1>3, <1>4, <1>5, <1>6, <1>7

-----------------------------------------------------------------------------
(* The requests of the session.                                            *)

-----------------------------------------------------------------------------
(* One report is served: the run that waits for its answer.                *)

\* The packets that this run sends in its session.
LEMMA SessionPacket ==
    ASSUME UploadTypeOK, FlagsInv, step >= 2, NEW k \in 3 .. Len(Script)
    PROVE  /\ Packet(k) \in Packets
           /\ Packet(k).command = Script[k].command
           /\ Packet(k).command \in SessionCommands
           /\ Packet(k).command \notin BeginCommands \cup {"read_knobs", "get_info"}
           /\ Packet(k).session = client.session /\ Packet(k).sequence = k - 2
           /\ Packet(k).flags = client.flags
           /\ Packet(k).offset = Script[k].offset /\ Packet(k).data = Script[k].data
           /\ WellFormed(Packet(k))
<1>1. /\ goal \in Goals
      /\ client \in [flags : Slots \cup {Full}, session : Nat, sequence : Nat]
  BY DEF UploadTypeOK
<1>2. Len(Script) \in Nat /\ k \in Nat /\ k > 2
  BY <1>1, Scripts
<1>3. /\ Script[k] \in Requests
      /\ Script[k].command \in SessionCommands \ {"read"}
      /\ Script[k].command \notin BeginCommands \cup {"get_info"}
      /\ Script[k].command \in FullOnly => goal.plan = "restore"
      /\ goal.plan = "restore" => Script[k].command \in FullOnly \cup {"write", "reboot"}
      /\ IF Script[k].command = "write" THEN Script[k].data \in Payloads
         ELSE Script[k].data = NoData
  BY <1>1, SessionSteps
<1>4. Packet(k) = [command |-> Script[k].command, flags |-> client.flags,
                   session |-> client.session, sequence |-> k - 2,
                   offset |-> Script[k].offset, data |-> Script[k].data]
  BY <1>2 DEF Packet
<1>5. Packet(k) \in Packets
  BY <1>1, <1>2, <1>3, <1>4 DEF Packets, Requests
<1>6. client.flags = Full <=> goal.plan = "restore"
  BY <1>1, GoalKinds, PacketAssumption DEF FlagsInv
<1>7. WellFormed(Packet(k))
  BY <1>3, <1>4, <1>6 DEF WellFormed, BeginCommands
<1> QED
  BY <1>3, <1>4, <1>5, <1>7 DEF SessionCommands, BeginCommands

\* The request of this step is in order when the one before was executed.
LEMMA LiveAllows ==
    ASSUME EngineInv, UploadTypeOK, FlagsInv, step \in 3 .. Len(Script),
           session = client.session, size = Count, full = (goal.plan = "restore"),
           IF full THEN digest = goal.of ELSE target = client.flags,
           expected = step - 2, Progress(step - 1)
    PROVE  Addressed(Packet(step)) /\ Allowed(Packet(step))
<1>1. goal \in Goals /\ goal.plan \in {"upload", "restore"} /\ Count \in Nat \ {0}
      /\ Prologue \in Nat /\ Prologue >= 3
  BY GoalKinds DEF UploadTypeOK
<1>2. Len(Script) = Prologue + Count + (IF goal.plan = "upload" THEN 3 ELSE 2)
  BY <1>1, Scripts
<1>3. step \in Nat /\ step >= 3 /\ step <= Len(Script)
  BY <1>1, <1>2
<1>4. PICK r : r = Packet(step)
  OBVIOUS
<1>5. /\ r.command = Script[step].command /\ r.command \in SessionCommands
      /\ r.session = client.session /\ r.sequence = step - 2 /\ r.flags = client.flags
      /\ r.offset = Script[step].offset
  BY <1>3, <1>4, SessionPacket
<1>6. /\ phase = CASE step - 1 < Prologue -> "begun"
                   [] step - 1 = Prologue -> "erased"
                   [] step - 1 > Prologue /\ step - 1 <= Prologue + Count -> "writing"
                   [] step - 1 > Prologue + Count ->
                        IF goal.plan = "upload" /\ step - 1 > Prologue + Count + 1
                        THEN "pending" ELSE "finalized"
      /\ next = IF step - 1 <= Prologue THEN 0
                ELSE IF step - 1 <= Prologue + Count THEN step - 1 - Prologue ELSE Count
      /\ goal.plan = "restore" /\ step - 1 < Prologue => erased = (step - 1 - 2) * EraseChunk
  BY DEF Progress
<1>7. phase # "idle"
  BY <1>1, <1>3, <1>6
<1>11. /\ full <=> goal.plan = "restore"
       /\ goal.plan = "upload" => target = client.flags
  BY <1>1
<1>12. /\ goal.plan = "upload" => client.flags \in Slots \ {boot.confirmed}
       /\ goal.plan = "restore" => client.flags = Full
  BY <1>1, <1>3 DEF FlagsInv
<1>8. r.flags = IF full THEN Full ELSE target
  BY <1>1, <1>5, <1>11, <1>12
<1>9. Addressed(r)
  BY <1>5, <1>7, <1>8 DEF Addressed, InSession
<1>10. Allowed(r)
  <2>1. CASE /\ step \in 3 .. Prologue
             /\ Script[step] = IF goal.plan = "upload" THEN Plain("erase")
                               ELSE Op("erase_full", (step - 3) * EraseChunk, NoData)
    <3>1. phase = "begun"
      BY <1>1, <1>3, <1>6, <2>1
    <3>2. CASE goal.plan = "upload"
      BY <1>5, <2>1, <3>1, <3>2 DEF Allowed, Plain, Op
    <3>3. CASE goal.plan = "restore"
      <4>1. step - 1 - 2 = step - 3 /\ step - 1 < Prologue
        BY <1>1, <1>3, <2>1
      <4>2. erased = (step - 3) * EraseChunk
        BY <1>6, <3>3, <4>1
      <4>3. r.command = "erase_full" /\ r.offset = erased
        BY <1>5, <2>1, <3>3, <4>2 DEF Op
      <4> QED
        BY <3>1, <3>3, <4>3 DEF Allowed
    <3> QED
      BY <1>1, <3>2, <3>3
  <2>2. CASE /\ step \in Prologue + 1 .. Prologue + Count
             /\ Script[step] = Op("write", step - Prologue - 1, Cell(step - Prologue))
    <3>1. r.command = "write" /\ r.offset = step - Prologue - 1
      BY <1>5, <2>2 DEF Op
    <3>2. phase \in {"erased", "writing"} /\ next = step - Prologue - 1
          /\ step - Prologue - 1 < Count
      BY <1>1, <1>3, <1>6, <2>2
    <3> QED
      BY <3>1, <3>2 DEF Allowed, MayWrite
  <2>3. CASE /\ step = Prologue + Count + 1
             /\ Script[step] = Plain(IF goal.plan = "upload" THEN "finalize" ELSE "finalize_full")
    <3>1. phase = "writing" /\ next = Count
      BY <1>1, <1>3, <1>6, <2>3
    <3>2. r.command = IF goal.plan = "upload" THEN "finalize" ELSE "finalize_full"
      BY <1>5, <2>3 DEF Plain, Op
    <3> QED
      BY <1>1, <3>1, <3>2 DEF Allowed
  <2>4. CASE /\ goal.plan = "upload" /\ step = Prologue + Count + 2
             /\ Script[step] = Plain("set_pending")
    <3>1. phase = "finalized" /\ r.command = "set_pending"
      BY <1>1, <1>3, <1>5, <1>6, <2>4 DEF Plain, Op
    <3>2. boot \in States /\ target \in Slots \ {boot.confirmed}
      BY <2>4, <1>11, <1>12 DEF EngineInv, TypeOK
    <3>3. BeginUpdate(boot, target).pending = target
      BY <3>2, BootStates
    <3> QED
      BY <3>1, <3>3 DEF Allowed
  <2>5. CASE step = Len(Script) /\ Script[step] = Plain("reboot")
    <3>1. r.command = "reboot"
      BY <1>5, <2>5 DEF Plain, Op
    <3>2. phase = IF full THEN "finalized" ELSE "pending"
      <4>1. CASE goal.plan = "upload"
        <5>1. step - 1 = Prologue + Count + 2
          BY <1>1, <1>2, <2>5, <4>1
        <5> QED
          BY <1>1, <1>6, <1>11, <4>1, <5>1
      <4>2. CASE goal.plan = "restore"
        <5>1. step - 1 = Prologue + Count + 1
          BY <1>1, <1>2, <2>5, <4>2
        <5> QED
          BY <1>1, <1>6, <1>11, <4>2, <5>1
      <4> QED
        BY <1>1, <4>1, <4>2
    <3> QED
      BY <3>1, <3>2 DEF Allowed
  <2> QED
    BY <1>1, <2>1, <2>2, <2>3, <2>4, <2>5, StepKinds
<1> QED
  BY <1>4, <1>9, <1>10

\* The erase requests one after the other.
LEMMA ErasesAdvance ==
    ASSUME NEW n \in Nat, n < EraseCount, erased = n * EraseChunk, AdvanceErase
    PROVE  /\ n + 1 < EraseCount =>
                erased' = (n + 1) * EraseChunk /\ UNCHANGED <<next, sent, phase>>
           /\ n + 1 = EraseCount => next' = 0 /\ sent' = << >> /\ phase' = "erased"
<1>1. /\ EraseCount \in Nat \ {0} /\ EraseChunk \in Nat \ {0} /\ FlashCells \in Nat \ {0}
      /\ (EraseCount - 1) * EraseChunk < FlashCells
      /\ FlashCells <= EraseCount * EraseChunk
  BY EraseCounts, Geometry
<1>2. PICK here, there : here = n * EraseChunk /\ there = (n + 1) * EraseChunk
  OBVIOUS
<1>3. here \in Nat /\ there \in Nat /\ there = here + EraseChunk
  BY <1>1, <1>2, Z3T(30)
<1>4. erased = here
  BY <1>2
<1>5. CASE n + 1 < EraseCount
  <2>1. PICK m \in Nat : m = EraseCount - 1 - (n + 1)
    BY <1>1, <1>5
  <2>2. (EraseCount - 1) * EraseChunk = there + m * EraseChunk
    <3>1. EraseCount - 1 = n + 1 + m
      BY <1>1, <2>1
    <3>2. (n + 1 + m) * EraseChunk = (n + 1) * EraseChunk + m * EraseChunk
      BY <1>1, <2>1, Z3T(30)
    <3> QED
      BY <1>2, <3>1, <3>2
  <2>3. m * EraseChunk \in Nat
    BY <1>1, <2>1, Z3T(30)
  <2>4. there < FlashCells
    BY <1>1, <1>3, <2>2, <2>3
  <2>5. FullEraseCount = EraseChunk
    BY <1>1, <1>3, <1>4, <2>4 DEF FullEraseCount
  <2>6. erased' = there /\ erased' # FlashCells
    BY <1>1, <1>3, <1>4, <2>4, <2>5 DEF AdvanceErase
  <2> QED
    BY <1>2, <1>5, <2>6 DEF AdvanceErase
<1>6. CASE n + 1 = EraseCount
  <2>1. FlashCells <= there /\ here < FlashCells
    BY <1>1, <1>2, <1>6
  <2>2. FullEraseCount = FlashCells - erased
    BY <1>1, <1>3, <1>4, <2>1 DEF FullEraseCount
  <2>3. erased' = FlashCells
    BY <1>1, <1>3, <1>4, <2>2 DEF AdvanceErase
  <2> QED
    BY <1>1, <1>6, <2>3 DEF AdvanceErase
<1> QED
  BY <1>1, <1>5, <1>6

\* Each request that is executed takes the engine one place further.
LEMMA ProgressStep ==
    ASSUME EngineInv, UploadTypeOK, FlagsInv, NEW k \in 2 .. Len(Script) - 1, step = k + 1,
           size = Count, full = (goal.plan = "restore"), Progress(k),
           NEW r, r = Packet(k + 1), NEW status, Process(r, status), status = "ok",
           goal' = goal, client'.flags = client.flags
    PROVE  Progress(k + 1)'
<1>1. goal \in Goals /\ goal.plan \in {"upload", "restore"} /\ Count \in Nat \ {0}
      /\ Prologue \in Nat /\ Prologue >= 3
  BY GoalKinds DEF UploadTypeOK
<1>2. Len(Script) = Prologue + Count + (IF goal.plan = "upload" THEN 3 ELSE 2)
      /\ Len(Script) \in Nat
  BY <1>1, Scripts
<1>3. k \in Nat /\ k >= 2 /\ k + 1 <= Len(Script) /\ k + 1 \in 3 .. Len(Script)
  BY <1>1, <1>2
<1>4. /\ r.command = Script[k + 1].command /\ r.command \in SessionCommands
      /\ r.data = Script[k + 1].data
  BY <1>3, SessionPacket
<1>5. Script' = Script /\ Count' = Count /\ Prologue' = Prologue /\ (\A j : Cell(j)' = Cell(j))
  BY PacketsStay
<1>6. Handle(r, status)
  BY OkEffects
<1>7. /\ phase = CASE k < Prologue -> "begun"
                   [] k = Prologue -> "erased"
                   [] k > Prologue /\ k <= Prologue + Count -> "writing"
                   [] k > Prologue + Count ->
                        IF goal.plan = "upload" /\ k > Prologue + Count + 1 THEN "pending"
                        ELSE "finalized"
      /\ next = IF k <= Prologue THEN 0 ELSE IF k <= Prologue + Count THEN k - Prologue ELSE Count
      /\ k >= Prologue => Len(sent) = next /\ \A j \in 1 .. next : sent[j] = Cell(j)
      /\ goal.plan = "restore" /\ k < Prologue => erased = (k - 2) * EraseChunk
  BY DEF Progress
<1>8. CASE /\ k + 1 \in 3 .. Prologue
           /\ Script[k + 1] = IF goal.plan = "upload" THEN Plain("erase")
                              ELSE Op("erase_full", (k + 1 - 3) * EraseChunk, NoData)
  <2>1. k < Prologue /\ k + 1 <= Prologue
    BY <1>1, <1>3, <1>8
  <2>2. CASE goal.plan = "upload"
    <3>1. Prologue = 3 /\ k + 1 = Prologue
      BY <1>3, <2>1, <2>2 DEF Prologue
    <3>2. r.command = "erase"
      BY <1>4, <1>8, <2>2 DEF Plain, Op
    <3>3. EraseSlot(r, status)
      BY <1>6, <3>2 DEF Handle, GetInfo, GetLog, ReadKnobs, BeginImage, BeginFullFlash,
         EraseFullFlash, Write, Read, Finalize, SetPending, Reboot
    <3>4. next' = 0 /\ sent' = << >> /\ phase' = "erased"
      BY <3>3 DEF EraseSlot
    <3> QED
      BY <1>1, <1>3, <1>5, <2>2, <3>1, <3>4 DEF Progress
  <2>3. CASE goal.plan = "restore"
    <3>1. r.command = "erase_full"
      BY <1>4, <1>8, <2>3 DEF Op
    <3>2. AdvanceErase
      BY <1>6, <3>1 DEF Handle, GetInfo, GetLog, ReadKnobs, BeginImage, BeginFullFlash,
         EraseSlot, EraseFullFlash, Write, Read, Finalize, SetPending, Reboot
    <3>3. Prologue = EraseCount + 2 /\ EraseCount \in Nat
      BY <2>3, EraseCounts DEF Prologue
    <3>4. PICK n \in Nat : n = k - 2
      BY <1>3
    <3>5. n < EraseCount /\ erased = n * EraseChunk
      BY <1>3, <1>7, <2>1, <2>3, <3>3, <3>4
    <3>6. /\ n + 1 < EraseCount => erased' = (n + 1) * EraseChunk /\ UNCHANGED <<next, sent, phase>>
          /\ n + 1 = EraseCount => next' = 0 /\ sent' = << >> /\ phase' = "erased"
      BY <3>2, <3>5, ErasesAdvance
    <3>7. CASE n + 1 < EraseCount
      <4>1. k + 1 < Prologue /\ k + 1 - 2 = n + 1
        BY <1>3, <3>3, <3>4, <3>7
      <4>2. phase' = "begun" /\ next' = 0 /\ erased' = (k + 1 - 2) * EraseChunk
        <5>1. phase = "begun" /\ next = 0
          BY <1>1, <1>3, <1>7, <2>1
        <5> QED
          BY <3>6, <3>7, <4>1, <5>1
      <4> QED
        BY <1>1, <1>3, <1>5, <4>1, <4>2 DEF Progress
    <3>8. CASE n + 1 = EraseCount
      <4>1. k + 1 = Prologue
        BY <1>3, <3>3, <3>4, <3>8
      <4>2. phase' = "erased" /\ next' = 0 /\ sent' = << >>
        BY <3>6, <3>8
      <4> QED
        BY <1>1, <1>3, <1>5, <4>1, <4>2 DEF Progress
    <3> QED
      BY <3>3, <3>5, <3>7, <3>8
  <2> QED
    BY <1>1, <2>2, <2>3
<1>9. CASE /\ k + 1 \in Prologue + 1 .. Prologue + Count
           /\ Script[k + 1] = Op("write", k + 1 - Prologue - 1, Cell(k + 1 - Prologue))
           /\ Cell(k + 1 - Prologue) \in Payloads
  <2>1. r.command = "write" /\ r.data = Cell(k + 1 - Prologue) /\ r.data \in Payloads
    BY <1>4, <1>9 DEF Op
  <2>2. Acknowledge(r)
    BY <1>6, <2>1 DEF Handle, GetInfo, GetLog, ReadKnobs, BeginImage, BeginFullFlash,
       EraseSlot, EraseFullFlash, Write, Read, Finalize, SetPending, Reboot
  <2>3. k >= Prologue /\ k + 1 > Prologue /\ k + 1 <= Prologue + Count
    BY <1>1, <1>3, <1>9
  <2>4. next = k - Prologue /\ next \in Nat /\ Len(sent) = next
        /\ \A j \in 1 .. next : sent[j] = Cell(j)
    BY <1>1, <1>3, <1>7, <2>3
  <2>5. sent \in Seq(Payloads)
    BY FieldTypes DEF EngineInv
  <2>6. /\ phase' = "writing" /\ next' = next + 1 /\ sent' = Append(sent, r.data)
    BY <2>2 DEF Acknowledge
  <2>7. /\ Len(sent') = next + 1 /\ sent'[next + 1] = r.data
        /\ \A j \in 1 .. next : sent'[j] = sent[j]
    BY <2>1, <2>4, <2>5, <2>6, AppendFacts
  <2>8. next + 1 = k + 1 - Prologue
    BY <1>1, <1>3, <2>4
  <2>9. \A j \in 1 .. next + 1 : sent'[j] = Cell(j)
    BY <2>1, <2>4, <2>7, <2>8
  <2>10. phase' = "writing" /\ next' = k + 1 - Prologue /\ Len(sent') = next'
         /\ \A j \in 1 .. next' : sent'[j] = Cell(j)
    BY <2>6, <2>7, <2>8, <2>9
  <2> QED
    BY <1>1, <1>3, <1>5, <2>3, <2>10 DEF Progress
<1>10. ASSUME k >= Prologue + Count,
              phase' = IF goal.plan = "upload" /\ k + 1 > Prologue + Count + 1 THEN "pending"
                       ELSE "finalized",
              next' = next, sent' = sent
       PROVE  Progress(k + 1)'
  <2>1. next = Count /\ Len(sent) = next /\ \A j \in 1 .. next : sent[j] = Cell(j)
    BY <1>1, <1>3, <1>7, <1>10
  <2>2. k + 1 > Prologue + Count /\ k + 1 > Prologue
    BY <1>1, <1>3, <1>10
  <2> QED
    BY <1>1, <1>3, <1>5, <1>10, <2>1, <2>2 DEF Progress
<1>11. CASE /\ k + 1 = Prologue + Count + 1
            /\ Script[k + 1] = Plain(IF goal.plan = "upload" THEN "finalize" ELSE "finalize_full")
  <2>1. r.command \in {"finalize", "finalize_full"}
    BY <1>4, <1>11 DEF Plain, Op
  <2>2. phase' = "finalized" /\ next' = next /\ sent' = sent
    BY <1>6, <2>1 DEF Handle, GetInfo, GetLog, ReadKnobs, BeginImage, BeginFullFlash,
       EraseSlot, EraseFullFlash, Write, Read, Finalize, SetPending, Reboot
  <2>3. k >= Prologue + Count /\ ~(k + 1 > Prologue + Count + 1)
    BY <1>1, <1>3, <1>11
  <2> QED
    BY <1>10, <2>2, <2>3
<1>12. CASE /\ goal.plan = "upload" /\ k + 1 = Prologue + Count + 2
            /\ Script[k + 1] = Plain("set_pending")
  <2>1. r.command = "set_pending"
    BY <1>4, <1>12 DEF Plain, Op
  <2>2. phase' = "pending" /\ next' = next /\ sent' = sent
    BY <1>6, <2>1 DEF Handle, GetInfo, GetLog, ReadKnobs, BeginImage, BeginFullFlash,
       EraseSlot, EraseFullFlash, Write, Read, Finalize, SetPending, Reboot
  <2>3. k >= Prologue + Count /\ k + 1 > Prologue + Count + 1
    BY <1>1, <1>3, <1>12
  <2> QED
    BY <1>10, <1>12, <2>2, <2>3
<1>13. CASE k + 1 = Len(Script) /\ Script[k + 1] = Plain("reboot")
  <2>1. r.command = "reboot"
    BY <1>4, <1>13 DEF Plain, Op
  <2>2. phase' = phase /\ next' = next /\ sent' = sent
    BY <1>6, <2>1 DEF Handle, GetInfo, GetLog, ReadKnobs, BeginImage, BeginFullFlash,
       EraseSlot, EraseFullFlash, Write, Read, Finalize, SetPending, Reboot, progressVars
  <2>3. k >= Prologue + Count
        /\ phase = IF goal.plan = "upload" /\ k + 1 > Prologue + Count + 1 THEN "pending"
                   ELSE "finalized"
    <3>1. CASE goal.plan = "upload"
      <4>1. k = Prologue + Count + 2 /\ k > Prologue + Count + 1 /\ k + 1 > Prologue + Count + 1
            /\ k > Prologue + Count /\ k > Prologue
        BY <1>1, <1>2, <1>3, <1>13, <3>1
      <4> QED
        BY <1>1, <1>7, <3>1, <4>1
    <3>2. CASE goal.plan = "restore"
      <4>1. k = Prologue + Count + 1 /\ k > Prologue + Count /\ k > Prologue
        BY <1>1, <1>2, <1>3, <1>13, <3>2
      <4> QED
        BY <1>1, <1>7, <3>2, <4>1
    <3> QED
      BY <1>1, <3>1, <3>2
  <2> QED
    BY <1>10, <2>2, <2>3
<1> QED
  BY <1>1, <1>3, <1>8, <1>9, <1>11, <1>12, <1>13, StepKinds

\* The requests that are on their way move up by one.
LEMMA RequestsMove ==
    ASSUME UploadTypeOK, NEW r, NEW status, NEW a, Served(r, status, a)
    PROVE  /\ 1 \in DOMAIN requests /\ r = requests[1]
           /\ Len(requests) \in Nat \ {0} /\ DOMAIN requests = 1 .. Len(requests)
           /\ Len(requests') = Len(requests) - 1 /\ DOMAIN requests' = 1 .. Len(requests) - 1
           /\ \A i \in DOMAIN requests' :
                requests'[i] = requests[i + 1] /\ i + 1 \in DOMAIN requests
<1>1. requests \in Seq(Packets) /\ requests # << >>
  BY DEF UploadTypeOK, Served
<1>2. Len(requests) \in Nat \ {0} /\ DOMAIN requests = 1 .. Len(requests)
  BY <1>1
<1>3. /\ requests' \in Seq(Packets) /\ Len(requests') = Len(requests) - 1
      /\ r = requests[1]
      /\ \A i \in 1 .. Len(requests) - 1 : requests'[i] = requests[i + 1]
  BY DEF Served
<1>4. DOMAIN requests' = 1 .. Len(requests) - 1
  BY <1>3
<1>5. 1 \in DOMAIN requests /\ \A i \in 1 .. Len(requests) - 1 : i + 1 \in DOMAIN requests
  BY <1>2
<1> QED
  BY <1>2, <1>3, <1>4, <1>5

\* The answer gets behind the answers that are on their way, or is lost.
LEMMA ResponsesMove ==
    ASSUME UploadTypeOK, NEW r, NEW status, NEW a, Served(r, status, a)
    PROVE  /\ DOMAIN responses = 1 .. Len(responses) /\ Len(responses) \in Nat
           /\ DOMAIN responses \subseteq DOMAIN responses'
           /\ \A i \in DOMAIN responses : responses'[i] = responses[i]
           /\ \A i \in DOMAIN responses' \ DOMAIN responses :
                 i = Len(responses) + 1 /\ responses'[i] = a /\ on'
           /\ \A i \in DOMAIN responses' : i \in 1 .. Len(responses) + 1
<1>1. responses \in Seq(Responses) /\ responses' \in Seq(Responses)
  BY DEF UploadTypeOK, Served
<1>2. DOMAIN responses = 1 .. Len(responses) /\ Len(responses) \in Nat
  BY <1>1
<1>3. CASE responses' = responses
  BY <1>2, <1>3
<1>4. CASE responses' # responses
  <2>1. /\ on' /\ Len(responses') = Len(responses) + 1
        /\ \A i \in 1 .. Len(responses) : responses'[i] = responses[i]
        /\ responses'[Len(responses) + 1] = a
    BY <1>4 DEF Served
  <2>2. PICK m \in Nat : m = Len(responses)
    BY <1>2
  <2>3. DOMAIN responses' = 1 .. m + 1
    BY <1>1, <2>1, <2>2
  <2>4. DOMAIN responses = 1 .. m
    BY <1>2, <2>2
  <2>5. \A i \in 1 .. m + 1 : i \notin 1 .. m => i = m + 1
    BY <2>2
  <2> QED
    BY <2>1, <2>2, <2>3, <2>4, <2>5
<1> QED
  BY <1>3, <1>4

\* The first p requests are all the same, and so are the others.
InTwo(q, p, x, y) ==
    /\ p \in 0 .. Len(q)
    /\ \A i \in 1 .. p : q[i] = x
    /\ \A i \in p + 1 .. Len(q) : q[i] = y

\* A queue of two kinds of requests stays one when its first is served.
LEMMA PlacesShift ==
    ASSUME UploadTypeOK, NEW r, NEW status, NEW a, Served(r, status, a),
           NEW p, NEW x, NEW y, InTwo(requests, p, x, y)
    PROVE  InTwo(requests', IF p = 0 THEN 0 ELSE p - 1, x, y)
<1>1. /\ Len(requests) \in Nat \ {0}
      /\ Len(requests') = Len(requests) - 1
      /\ \A i \in 1 .. Len(requests) - 1 : requests'[i] = requests[i + 1]
  BY RequestsMove
<1>2. PICK n : n = IF p = 0 THEN 0 ELSE p - 1
  OBVIOUS
<1>6. /\ p \in 0 .. Len(requests)
      /\ \A i \in 1 .. p : requests[i] = x
      /\ \A i \in p + 1 .. Len(requests) : requests[i] = y
  BY DEF InTwo
<1>3. n \in 0 .. Len(requests')
  BY <1>1, <1>2, <1>6
<1>4. ASSUME NEW i \in 1 .. n PROVE requests'[i] = x
  <2>1. i \in 1 .. Len(requests) - 1 /\ i + 1 \in 1 .. p
    BY <1>1, <1>2, <1>6
  <2> QED
    BY <1>1, <1>6, <2>1
<1>5. ASSUME NEW i \in n + 1 .. Len(requests') PROVE requests'[i] = y
  <2>1. i \in 1 .. Len(requests) - 1 /\ i + 1 \in p + 1 .. Len(requests)
    BY <1>1, <1>2, <1>6
  <2> QED
    BY <1>1, <1>6, <2>1
<1> QED
  BY <1>2, <1>3, <1>4, <1>5 DEF InTwo

\* A session that is this run's goes on with every report that is served.
LEMMA LiveServed ==
    ASSUME EngineInv, EngineInv', UploadTypeOK, FlagsInv, step >= 3, Live,
           NEW r, NEW status, NEW a, Served(r, status, a)
    PROVE  Live' /\ status # "refused"
<1>1. /\ goal \in Goals /\ step \in 1 .. Len(Script) /\ Len(Script) \in Nat
      /\ step \in 3 .. Len(Script)
  <2>1. goal \in Goals /\ step \in 1 .. Len(Script)
    BY DEF UploadTypeOK
  <2>2. Len(Script) \in Nat
    BY <2>1, Scripts
  <2> QED
    BY <2>1, <2>2
<1>2. /\ r \in Packets /\ status \in Statuses /\ Process(r, status) /\ r = requests[1]
      /\ goal' = goal /\ step' = step /\ client' = client
  BY DEF Served, hostVars
<1>3. Count' = Count /\ \A j : Packet(j)' = Packet(j)
  BY <1>2, PacketsStay
<1>4. /\ session = client.session /\ size = Count /\ full = (goal.plan = "restore")
      /\ IF full THEN digest = goal.of ELSE target = client.flags
  BY DEF Live
<1>5. PICK k \in {step - 1, step} :
         /\ LastExecuted(Packet(k))
         /\ expected = k - 1
         /\ Progress(k)
         /\ \E p \in 0 .. Len(requests) :
               (\A i \in 1 .. p : requests[i] = Packet(k)) /\ OnlyAfter(p, Packet(step))
  BY DEF Live
<1>6. PICK p \in 0 .. Len(requests) :
         /\ \A i \in 1 .. p : requests[i] = Packet(k)
         /\ \A i \in p + 1 .. Len(requests) : requests[i] = Packet(step)
  BY <1>5 DEF OnlyAfter
<1>7. PICK x, y : x = Packet(k) /\ y = Packet(step)
  OBVIOUS
<1>8. Len(requests) \in Nat \ {0} /\ Len(requests') = Len(requests) - 1
  BY RequestsMove
<1>9. PICK n \in 0 .. Len(requests') :
         /\ n = IF p = 0 THEN 0 ELSE p - 1
         /\ \A i \in 1 .. n : requests'[i] = x
         /\ \A i \in n + 1 .. Len(requests') : requests'[i] = y
  <2>1. InTwo(requests, p, x, y)
    BY <1>6, <1>7 DEF InTwo
  <2>2. InTwo(requests', IF p = 0 THEN 0 ELSE p - 1, x, y)
    BY <2>1, PlacesShift
  <2> QED
    BY <2>2 DEF InTwo
<1>10. k \in 2 .. Len(Script) /\ k \in Nat
  BY <1>1, <1>5
<1>11. x \in Packets /\ WellFormed(x) /\ x.command # "read_knobs"
  <2>1. CASE k = 2
    BY <1>1, <1>7, <2>1, BeginPacket DEF BeginCommands
  <2>2. CASE k # 2
    <3>1. k \in 3 .. Len(Script)
      BY <1>10, <2>2
    <3> QED
      BY <1>1, <1>7, <3>1, SessionPacket
  <2> QED
    BY <2>1, <2>2
<1>12. y \in Packets /\ WellFormed(y) /\ y.command \in SessionCommands /\ y.sequence = step - 2
       /\ y.command \notin BeginCommands \cup {"read_knobs", "get_info"}
  BY <1>1, <1>7, SessionPacket
<1>13. CASE r = x
  <2>1. status = "replayed" /\ UNCHANGED vars /\ LastExecuted(x)'
    BY <1>2, <1>5, <1>7, <1>11, <1>13, CachedStays
  <2>2. /\ session' = session /\ size' = size /\ full' = full /\ digest' = digest
        /\ target' = target /\ expected' = expected /\ phase' = phase /\ next' = next
        /\ sent' = sent /\ erased' = erased
    BY <2>1 DEF vars, sessionVars, progressVars
  <2>3. Progress(k)'
    BY <1>2, <1>5, <2>2 DEF Progress, Prologue, Count, Cell
  <2>4. LastExecuted(Packet(k))'
    BY <1>3, <1>7, <2>1 DEF LastExecuted
  <2>5. /\ \A i \in 1 .. n : requests'[i] = Packet(k)'
        /\ OnlyAfter(n, Packet(step))'
    BY <1>2, <1>3, <1>7, <1>9 DEF OnlyAfter
  <2>6. Live'
    BY <1>2, <1>3, <1>4, <1>5, <1>9, <2>2, <2>3, <2>4, <2>5 DEF Live
  <2> QED
    BY <2>1, <2>6
<1>14. CASE r # x
  <2>1. p = 0 /\ r = y /\ k = step - 1
    <3>1. p = 0
      BY <1>2, <1>6, <1>7, <1>8, <1>14
    <3>2. r = y
      BY <1>2, <1>6, <1>7, <1>8, <3>1
    <3> QED
      BY <1>5, <1>7, <1>14, <3>1, <3>2
  <2>2. expected = step - 2 /\ Progress(step - 1)
    BY <1>1, <1>5, <2>1
  <2>3. Addressed(y) /\ Allowed(y)
    BY <1>1, <1>4, <1>7, <2>2, LiveAllows
  <2>4. ~Cached(y)
    BY <1>5, <1>7, <1>14, <2>1 DEF Cached, LastExecuted
  <2>5. status \in {"ok", "failed"}
    BY <1>2, <1>12, <2>1, <2>3, <2>4, NotRefused DEF Statuses
  <2>6. n = 0
    BY <1>9, <2>1
  <2>7. OnlyAfter(0, Packet(step))'
    BY <1>2, <1>3, <1>7, <1>9, <2>6 DEF OnlyAfter
  <2>8. CASE status = "failed"
    <3>1. /\ session' = session /\ size' = size /\ full' = full /\ digest' = digest
          /\ target' = target /\ expected' = expected /\ phase' = phase /\ next' = next
          /\ sent' = sent /\ erased' = erased /\ previous' = previous
      BY <1>2, <2>8, NotOkStays DEF SessionStays
    <3>2. Progress(k)'
      BY <1>2, <1>5, <3>1 DEF Progress, Prologue, Count, Cell
    <3>3. LastExecuted(Packet(k))'
      BY <1>3, <1>5, <3>1 DEF LastExecuted
    <3>4. Live'
      BY <1>2, <1>3, <1>4, <1>5, <1>9, <2>6, <2>7, <3>1, <3>2, <3>3 DEF Live
    <3> QED
      BY <2>8, <3>4
  <2>9. CASE status = "ok"
    <3>1. /\ expected' = expected + 1 /\ SessionStays
      BY <1>2, <1>12, <2>1, <2>9, OkEffects
    <3>2. LastExecuted(y)'
      BY <1>2, <1>12, <2>1, <2>9, LastIs
    <3>3. LastExecuted(Packet(step))'
      BY <1>2, <1>3, <1>7, <3>2 DEF LastExecuted
    <3>4. Progress(k + 1)'
      <4>1. k \in 2 .. Len(Script) - 1 /\ step = k + 1
        BY <1>1, <1>10, <2>1
      <4> QED
        BY <1>2, <1>4, <1>5, <1>7, <2>1, <2>9, <4>1, ProgressStep
    <3>5. Progress(step)'
      <4>1. k + 1 = step'
        BY <1>1, <1>2, <2>1
      <4> QED
        BY <3>4, <4>1 DEF Progress
    <3>6. expected' = step - 1
      BY <1>1, <2>2, <3>1
    <3>7. /\ session' = client'.session /\ size' = Count' /\ full' = (goal'.plan = "restore")
          /\ IF full' THEN digest' = goal'.of ELSE target' = client'.flags
      BY <1>2, <1>3, <1>4, <3>1 DEF SessionStays
    <3>8. \A i \in 1 .. 0 : requests'[i] = Packet(step)'
      OBVIOUS
    <3>9. 0 \in 0 .. Len(requests')
      BY <1>8
    <3>10. Live'
      BY <1>2, <2>7, <3>3, <3>5, <3>6, <3>7, <3>8, <3>9 DEF Live
    <3> QED
      BY <2>9, <3>10
  <2> QED
    BY <2>5, <2>8, <2>9
<1> QED
  BY <1>13, <1>14

\* What is served adds no request of a session.
LEMMA FreshStays ==
    ASSUME UploadTypeOK, NEW r, NEW status, NEW a, Served(r, status, a), NEW s, Fresh(s)
    PROVE  Fresh(s)'
<1>1. /\ 1 \in DOMAIN requests /\ r = requests[1]
      /\ \A i \in DOMAIN requests' : requests'[i] = requests[i + 1] /\ i + 1 \in DOMAIN requests
  BY RequestsMove
<1>6. /\ DOMAIN responses \subseteq DOMAIN responses'
      /\ \A i \in DOMAIN responses : responses'[i] = responses[i]
      /\ \A i \in DOMAIN responses' \ DOMAIN responses : responses'[i] = a
  BY ResponsesMove
<1>2. /\ \A i \in DOMAIN requests :
            requests[i].command \in SessionCommands => requests[i].session # s
      /\ \A i \in DOMAIN responses :
            responses[i].command \in SessionCommands => responses[i].session # s
  BY DEF Fresh
<1>3. a.command \in SessionCommands => a.session # s
  <2>1. Matches(a, r)
    BY DEF Served, Answered
  <2> QED
    BY <1>1, <1>2, <2>1 DEF Matches, SessionCommands, BeginCommands
<1>4. ASSUME NEW i \in DOMAIN requests', requests'[i].command \in SessionCommands
      PROVE  requests'[i].session # s
  BY <1>1, <1>2, <1>4
<1>5. ASSUME NEW i \in DOMAIN responses', responses'[i].command \in SessionCommands
      PROVE  responses'[i].session # s
  BY <1>2, <1>3, <1>5, <1>6
<1> QED
  BY <1>4, <1>5 DEF Fresh

\* No request can be addressed to a session before it is opened.
LEMMA NextIsFresh ==
    ASSUME EngineInv, UploadTypeOK, PedalInv
    PROVE  Fresh(session + 1)
<1>1. session \in Nat
  BY FieldTypes DEF EngineInv
<1>2. \A i \in DOMAIN requests :
         requests[i].command \in SessionCommands => requests[i].session # session + 1
  BY <1>1 DEF PedalInv, QueueInv
<1>3. \A i \in DOMAIN responses :
         responses[i].command \in SessionCommands => responses[i].session # session + 1
  BY <1>1 DEF PedalInv, QueueInv, ResponseInv
<1> QED
  BY <1>2, <1>3 DEF Fresh

\* An answer to BEGIN that waits stays the answer of a session of its own.
LEMMA FreshServed ==
    ASSUME EngineInv, EngineInv', UploadTypeOK, PedalInv, FreshInv, step <= 2,
           NEW r, NEW status, NEW a, Served(r, status, a)
    PROVE  FreshInv'
<1>1. /\ DOMAIN responses = 1 .. Len(responses) /\ Len(responses) \in Nat
      /\ \A i \in DOMAIN responses : responses'[i] = responses[i]
      /\ \A i \in DOMAIN responses' \ DOMAIN responses :
            i = Len(responses) + 1 /\ responses'[i] = a /\ on'
      /\ \A i \in DOMAIN responses' : i \in 1 .. Len(responses) + 1
  BY ResponsesMove
<1>11. \A i \in 1 .. Len(responses) + 1 : i \in DOMAIN responses \/ i = Len(responses) + 1
  BY <1>1
<1>12. \A i, j : j \in 1 .. Len(responses) + 1 /\ i \in 1 .. Len(responses) + 1 /\ i < j
               => i \in DOMAIN responses
  BY <1>1
<1>2. /\ r \in Packets /\ status \in Statuses /\ Process(r, status) /\ step' = step
      /\ Matches(a, r) /\ (a.status = "ok" <=> status \in {"ok", "replayed"})
      /\ Opens(a) => a.session = session'
      /\ \/ session' = session
         \/ session' = session + 1 /\ status = "ok" /\ r.command \in BeginCommands
  BY DEF Served, Answered, hostVars
<1>3. /\ \A j \in DOMAIN responses :
            Informed(j) /\ Opens(responses[j]) => Fresh(responses[j].session)
      /\ Informed(Len(responses) + 1) /\ previous # NoPrevious
            /\ previous.request.command \in BeginCommands => Fresh(session)
  BY DEF FreshInv
<1>4. \A s : Fresh(s) => Fresh(s)'
  BY FreshStays
<1>5. session' = session + 1 => Fresh(session)'
  <2>1. PICK s : s = session + 1
    OBVIOUS
  <2>2. Fresh(s)'
    BY <1>4, <2>1, NextIsFresh
  <2> QED
    BY <2>1, <2>2 DEF Fresh
<1>6. ASSUME session' = session, Fresh(session) PROVE Fresh(session)'
  <2>1. PICK s : s = session
    OBVIOUS
  <2>2. Fresh(s)'
    BY <1>4, <1>6, <2>1
  <2> QED
    BY <1>6, <2>1, <2>2 DEF Fresh
<1>7. ASSUME NEW j \in 1 .. Len(responses) + 1, Informed(j)' PROVE Informed(j)
  <2>1. CASE step = 2
    BY <2>1 DEF Informed
  <2>2. CASE step # 2
    <3>1. PICK i \in DOMAIN responses' : i < j /\ Informs(responses'[i])
      BY <1>2, <1>7, <2>2 DEF Informed
    <3>2. i \in DOMAIN responses
      BY <1>1, <1>12, <3>1
    <3> QED
      BY <1>1, <3>1, <3>2 DEF Informed
  <2> QED
    BY <2>1, <2>2
<1>8. ASSUME Informed(Len(responses) + 1), Opens(a) PROVE Fresh(session)'
  <2>1. CASE session' = session + 1
    BY <1>5, <2>1
  <2>2. CASE session' # session + 1
    <3>1. status = "replayed" /\ session' = session
      <4>1. a.status = "ok" /\ r.command \in BeginCommands
        BY <1>2, <1>8 DEF Opens, Matches
      <4>2. status # "ok"
        BY <1>2, <2>2, <4>1, OkEffects
      <4> QED
        BY <1>2, <2>2, <4>1, <4>2
    <3>2. Cached(r)
      BY <1>2, <3>1, NotOkStays
    <3>3. previous # NoPrevious /\ previous.request.command \in BeginCommands
      BY <1>2, <1>8, <3>2 DEF Cached, Opens, Matches
    <3> QED
      BY <1>3, <1>6, <1>8, <3>1, <3>3
  <2> QED
    BY <2>1, <2>2
<1>9. ASSUME NEW j \in DOMAIN responses', Informed(j)', Opens(responses'[j])
      PROVE  Fresh(responses[j].session)'
  <2>1. j \in 1 .. Len(responses) + 1
    BY <1>1
  <2>2. Informed(j)
    BY <1>7, <1>9, <2>1
  <2>3. CASE j \in DOMAIN responses
    <3>1. PICK s : s = responses[j].session
      OBVIOUS
    <3>2. Fresh(s) /\ s = responses'[j].session
      BY <1>1, <1>3, <1>9, <2>2, <2>3, <3>1
    <3>3. Fresh(s)'
      BY <1>4, <3>2
    <3> QED
      BY <3>2, <3>3 DEF Fresh
  <2>4. CASE j \notin DOMAIN responses
    <3>1. responses'[j] = a /\ j = Len(responses) + 1
      BY <1>1, <2>4
    <3>2. Fresh(session)' /\ a.session = session'
      BY <1>2, <1>8, <1>9, <2>2, <2>4, <3>1
    <3> QED
      BY <3>1, <3>2 DEF Fresh
  <2> QED
    BY <2>3, <2>4
<1>10. ASSUME Informed(Len(responses) + 1)', previous' # NoPrevious,
              previous'.request.command \in BeginCommands
       PROVE  Fresh(session)'
  <2>1. CASE session' = session + 1
    BY <1>5, <2>1
  <2>2. CASE session' # session + 1
    <3>1. session' = session
      BY <1>2, <2>2
    <3>2. previous' = previous /\ ~(status = "ok" /\ r.command # "read_knobs")
      <4>1. CASE status # "ok"
        BY <1>2, <4>1, NotOkStays
      <4>2. CASE status = "ok"
        <5>1. previous' = IF r.command = "read_knobs" THEN previous
                          ELSE [request |-> r, response |-> Answer(r, status)]
          BY <1>2, <4>2, OkEffects
        <5>2. r.command \notin BeginCommands
          BY <1>2, <2>2, <4>2, OkEffects
        <5> QED
          BY <1>10, <5>1, <5>2
      <4> QED
        BY <4>1, <4>2
    <3>3. Informed(Len(responses) + 1)
      <4>1. CASE step = 2
        BY <4>1 DEF Informed
      <4>2. CASE step # 2
        <5>1. PICK i \in DOMAIN responses' : Informs(responses'[i])
          BY <1>2, <1>10, <4>2 DEF Informed
        <5>2. ~Informs(a)
          <6>1. SUFFICES ASSUME Informs(a) PROVE FALSE
            OBVIOUS
          <6>2. r.command = "get_info" /\ status = "replayed"
            BY <1>2, <3>2, <6>1 DEF Informs, Matches
          <6>3. previous.request = r
            BY <1>2, <6>2, NotOkStays DEF Cached
          <6> QED
            BY <1>10, <3>2, <6>2, <6>3 DEF BeginCommands
        <5>3. i \in DOMAIN responses
          BY <1>1, <5>1, <5>2
        <5>5. Informs(responses[i])
          BY <1>1, <5>1, <5>3
        <5>6. i < Len(responses) + 1
          BY <1>1, <5>3
        <5>4. i \in DOMAIN responses /\ i < Len(responses) + 1 /\ Informs(responses[i])
          BY <5>3, <5>5, <5>6
        <5> QED
          BY <5>4 DEF Informed
      <4> QED
        BY <4>1, <4>2
    <3> QED
      BY <1>3, <1>6, <1>10, <3>1, <3>2, <3>3
  <2> QED
    BY <2>1, <2>2
<1> QED
  BY <1>9, <1>10 DEF FreshInv

\* The last GET_INFO moves up, and is executed when it was the first.
LEMMA InfoMoves ==
    ASSUME EngineInv, EngineInv', UploadTypeOK, NEW r, NEW status, NEW a, Served(r, status, a),
           NEW p \in 1 .. Len(requests), requests[p] = InfoRequest, NEW n, n = p - 1
    PROVE  InfoAt(n)'
<1>1. /\ r = requests[1] /\ Len(requests) \in Nat /\ DOMAIN requests' = 1 .. Len(requests) - 1
      /\ \A i \in DOMAIN requests' : requests'[i] = requests[i + 1]
  BY RequestsMove
<1>2. status \in Statuses /\ Process(r, status)
  BY DEF Served
<1>3. CASE p = 1
  <2>1. r = InfoRequest
    BY <1>1, <1>3
  <2>2. LastExecuted(InfoRequest)'
    BY <1>2, <2>1, InfoServed
  <2> QED
    BY <1>3, <2>2 DEF InfoAt
<1>4. CASE p # 1
  <2>1. n \in DOMAIN requests' /\ n # 0 /\ n + 1 = p
    BY <1>1, <1>4
  <2> QED
    BY <1>1, <2>1 DEF InfoAt, InfoRequest
<1> QED
  BY <1>3, <1>4

\* So does what was sent after a place of the queue.
LEMMA OnlyAfterMoves ==
    ASSUME UploadTypeOK, NEW r, NEW status, NEW a, Served(r, status, a),
           NEW p \in 0 .. Len(requests), NEW q, OnlyAfter(p, q),
           NEW n, n = IF p = 0 THEN 0 ELSE p - 1
    PROVE  n \in 0 .. Len(requests') /\ OnlyAfter(n, q)'
<1>1. /\ Len(requests) \in Nat \ {0} /\ Len(requests') = Len(requests) - 1
      /\ DOMAIN requests' = 1 .. Len(requests) - 1
      /\ \A i \in DOMAIN requests' : requests'[i] = requests[i + 1]
  BY RequestsMove
<1>2. n \in 0 .. Len(requests')
  BY <1>1
<1>3. ASSUME NEW i \in n + 1 .. Len(requests') PROVE requests'[i] = q
  <2>1. i \in 1 .. Len(requests) - 1 /\ i + 1 \in p + 1 .. Len(requests)
    BY <1>1
  <2> QED
    BY <1>1, <2>1 DEF OnlyAfter
<1> QED
  BY <1>2, <1>3 DEF OnlyAfter

\* A run that asks for GET_INFO, when a report is served.
LEMMA AskingServed ==
    ASSUME EngineInv, EngineInv', UploadTypeOK, Asking, NEW r, NEW status, NEW a,
           Served(r, status, a)
    PROVE  Asking'
<1>1. waiting' = waiting /\ client' = client
  BY DEF Served, hostVars
<1>2. Len(requests) \in Nat \ {0} /\ Len(requests') = Len(requests) - 1
  BY RequestsMove
<1>3. ASSUME waiting PROVE InfoAt(Len(requests))'
  <2>1. requests[Len(requests)] = InfoRequest
    BY <1>2, <1>3 DEF Asking, InfoAt
  <2>2. PICK p \in 1 .. Len(requests) : p = Len(requests)
    BY <1>2
  <2>5. PICK n : n = p - 1
    OBVIOUS
  <2>3. InfoAt(n)'
    BY <2>1, <2>2, <2>5, InfoMoves
  <2>4. n = Len(requests')
    BY <1>2, <2>2, <2>5
  <2> QED
    BY <2>3, <2>4 DEF InfoAt
<1> QED
  BY <1>1, <1>3 DEF Asking, NewClient

\* A run that sent its BEGIN, when a report is served.
LEMMA OpeningServed ==
    ASSUME EngineInv, EngineInv', UploadTypeOK, FlagsInv, step = 2, Opening,
           NEW r, NEW status, NEW a, Served(r, status, a)
    PROVE  Opening'
<1>1. /\ waiting' = waiting /\ client' = client /\ goal' = goal
      /\ status \in Statuses /\ Process(r, status)
  BY DEF Served, hostVars
<1>2. Packet(2)' = Packet(2)
  BY <1>1, PacketsStay
<1>3. PICK y : y = Packet(2)
  OBVIOUS
<1>4. /\ r = requests[1] /\ 1 \in DOMAIN requests
      /\ Len(requests) \in Nat \ {0} /\ Len(requests') = Len(requests) - 1
      /\ DOMAIN requests' = 1 .. Len(requests) - 1
      /\ \A i \in DOMAIN requests' : requests'[i] = requests[i + 1]
  BY RequestsMove
<1>5. ASSUME r = y PROVE LastExecuted(y)'
  BY <1>1, <1>3, <1>5, BeginServed
<1>6. LastExecuted(y)' => LastExecuted(Packet(2))'
  BY <1>2, <1>3 DEF LastExecuted
<1>7. \/ LastExecuted(Packet(2))' /\ OnlyAfter(0, Packet(2))'
      \/ \E p \in 0 .. Len(requests') : InfoAt(p)' /\ OnlyAfter(p, Packet(2))'
  <2>1. ASSUME OnlyAfter(0, y) PROVE LastExecuted(Packet(2))' /\ OnlyAfter(0, Packet(2))'
    <3>1. r = y
      BY <1>4, <2>1 DEF OnlyAfter
    <3>2. OnlyAfter(0, y)'
      <4>1. 0 \in 0 .. Len(requests)
        BY <1>4
      <4> QED
        BY <2>1, <4>1, OnlyAfterMoves
    <3>3. OnlyAfter(0, Packet(2))'
      BY <1>2, <1>3, <3>2 DEF OnlyAfter
    <3> QED
      BY <1>5, <1>6, <3>1, <3>3
  <2>2. CASE OnlyAfter(0, Packet(2))
    BY <1>3, <2>1, <2>2
  <2>3. CASE \E p \in 0 .. Len(requests) : InfoAt(p) /\ OnlyAfter(p, Packet(2))
    <3>1. PICK p \in 0 .. Len(requests) : InfoAt(p) /\ OnlyAfter(p, y)
      BY <1>3, <2>3
    <3>2. CASE p = 0
      BY <2>1, <3>1, <3>2
    <3>3. CASE p # 0
      <4>1. PICK n : n = p - 1
        OBVIOUS
      <4>2. p \in 1 .. Len(requests) /\ requests[p] = InfoRequest
        BY <1>4, <3>1, <3>3 DEF InfoAt
      <4>3. InfoAt(n)'
        BY <4>1, <4>2, InfoMoves
      <4>4. n \in 0 .. Len(requests') /\ OnlyAfter(n, y)'
        BY <3>1, <3>3, <4>1, OnlyAfterMoves
      <4>5. OnlyAfter(n, Packet(2))'
        BY <1>2, <1>3, <4>4 DEF OnlyAfter
      <4> QED
        BY <4>3, <4>4, <4>5
    <3> QED
      BY <3>2, <3>3
  <2> QED
    BY <2>2, <2>3 DEF Opening
<1>8. ASSUME waiting
      PROVE  /\ requests' = << >> => LastExecuted(Packet(2))'
             /\ requests' # << >> => requests'[Len(requests')] = Packet(2)'
  <2>1. requests # << >>
    BY DEF Served
  <2>2. requests[Len(requests)] = y
    BY <1>3, <1>8, <2>1 DEF Opening
  <2>3. CASE Len(requests) = 1
    <3>1. r = y
      BY <1>4, <2>2, <2>3
    <3>2. requests' \in Seq(Packets) /\ Len(requests') = 0
      BY <1>4, <2>3 DEF Served
    <3> QED
      BY <1>5, <1>6, <3>1, <3>2
  <2>4. CASE Len(requests) # 1
    <3>1. PICK n : n = Len(requests')
      OBVIOUS
    <3>2. n \in 1 .. Len(requests) - 1 /\ n + 1 = Len(requests)
      BY <1>4, <2>4, <3>1
    <3>3. requests'[n] = y
      BY <1>4, <2>2, <3>2
    <3>4. requests' # << >>
      BY <1>4, <3>2
    <3> QED
      BY <1>2, <1>3, <3>1, <3>3, <3>4
  <2> QED
    BY <2>3, <2>4
<1> QED
  BY <1>1, <1>7, <1>8 DEF Opening

\* A run that took another's session, when a report is served.
LEMMA DoomedServed ==
    ASSUME EngineInv, EngineInv', UploadTypeOK, CacheInv, FlagsInv, Doomed,
           NEW r, NEW status, NEW a, Served(r, status, a)
    PROVE  Doomed'
<1>1. /\ client' = client /\ goal' = goal /\ step' = step /\ step = 3
      /\ r \in Packets /\ status \in Statuses /\ Process(r, status)
      /\ Matches(a, r) /\ (a.status = "ok" <=> status \in {"ok", "replayed"})
      /\ \/ session' = session
         \/ session' = session + 1
  BY DEF Served, Answered, hostVars, Doomed
<1>2. Packet(2)' = Packet(2)
  BY <1>1, PacketsStay
<1>3. PICK y : y = Packet(2)
  OBVIOUS
<1>4. /\ r = requests[1]
      /\ Len(requests) \in Nat \ {0} /\ Len(requests') = Len(requests) - 1
      /\ DOMAIN requests' = 1 .. Len(requests) - 1
      /\ \A i \in DOMAIN requests' : requests'[i] = requests[i + 1]
  BY RequestsMove
<1>5. /\ session \in Nat /\ client.session \in Nat /\ client.session <= session
  BY FieldTypes DEF EngineInv, UploadTypeOK
<1>6. y.command \notin SessionCommands
  BY <1>1, <1>3, BeginPacket DEF BeginCommands, SessionCommands
<1>7. \/ session # client.session
      \/ \E p \in 0 .. Len(requests) - 1 :
            /\ InfoAt(p) /\ requests[p + 1] = y
            /\ \A i \in 1 .. p :
                  requests[i].command \in SessionCommands => requests[i].session # client.session
  BY <1>3 DEF Doomed
<1>8. ASSUME a.command \in SessionCommands, a.session = client.session PROVE a.status # "ok"
  <2>1. r.command \in SessionCommands /\ r.session = client.session
    BY <1>1, <1>8 DEF Matches, SessionCommands, BeginCommands
  <2>2. ASSUME a.status = "ok" PROVE FALSE
    <3>1. r.session = session
      <4>1. CASE status = "ok"
        BY <1>1, <2>1, <4>1, OkEffects DEF Executes, Addressed, InSession
      <4>2. CASE status = "replayed"
        BY <1>1, <2>1, <4>2, NotOkStays DEF Cached, CacheInv
      <4> QED
        BY <1>1, <2>2, <4>1, <4>2
    <3>2. PICK p \in 0 .. Len(requests) - 1 :
             /\ requests[p + 1] = y
             /\ \A i \in 1 .. p :
                   requests[i].command \in SessionCommands => requests[i].session # client.session
      BY <1>7, <2>1, <3>1
    <3>3. CASE p = 0
      BY <1>4, <1>6, <2>1, <3>2, <3>3
    <3>4. CASE p # 0
      <4>1. 1 \in 1 .. p
        BY <1>4, <3>4
      <4> QED
        BY <1>4, <2>1, <3>2, <4>1
    <3> QED
      BY <3>3, <3>4
  <2> QED
    BY <2>2
<1>9. ASSUME NEW i \in DOMAIN responses', responses'[i].command \in SessionCommands,
             responses'[i].session = client.session
      PROVE  responses'[i].status # "ok"
  <2>1. /\ \A j \in DOMAIN responses : responses'[j] = responses[j]
        /\ \A j \in DOMAIN responses' \ DOMAIN responses : responses'[j] = a
    BY ResponsesMove
  <2> QED
    BY <1>8, <1>9, <2>1 DEF Doomed
<1>10. \/ session' # client'.session
       \/ \E p \in 0 .. Len(requests') - 1 :
             /\ InfoAt(p)' /\ requests'[p + 1] = y
             /\ \A i \in 1 .. p :
                   requests'[i].command \in SessionCommands => requests'[i].session # client.session
  <2>1. CASE session # client.session
    BY <1>1, <1>5, <2>1
  <2>2. CASE \E p \in 0 .. Len(requests) - 1 :
            /\ InfoAt(p) /\ requests[p + 1] = y
            /\ \A i \in 1 .. p :
                  requests[i].command \in SessionCommands => requests[i].session # client.session
    <3>1. PICK p \in 0 .. Len(requests) - 1 :
             /\ InfoAt(p) /\ requests[p + 1] = y
             /\ \A i \in 1 .. p :
                   requests[i].command \in SessionCommands => requests[i].session # client.session
      BY <2>2
    <3>2. CASE p = 0
      <4>1. LastExecuted(InfoRequest) /\ r = y
        BY <1>4, <3>1, <3>2 DEF InfoAt
      <4>2. session' = session + 1
        BY <1>1, <1>3, <4>1, BeginServed
      <4> QED
        BY <1>1, <1>5, <4>2
    <3>3. CASE p # 0
      <4>1. PICK n : n = p - 1
        OBVIOUS
      <4>2. p \in 1 .. Len(requests) /\ requests[p] = InfoRequest /\ p \in Nat
        BY <1>4, <3>1, <3>3 DEF InfoAt
      <4>3. InfoAt(n)'
        BY <4>1, <4>2, InfoMoves
      <4>4. n \in 0 .. Len(requests') - 1 /\ n + 1 = p /\ p \in DOMAIN requests'
        BY <1>4, <4>1, <4>2, <3>1
      <4>5. requests'[n + 1] = y
        BY <1>4, <3>1, <4>4
      <4>6. ASSUME NEW i \in 1 .. n, requests'[i].command \in SessionCommands
            PROVE  requests'[i].session # client.session
        <5>1. i \in DOMAIN requests' /\ i + 1 \in 1 .. p
          BY <1>4, <4>1, <4>2, <4>4
        <5> QED
          BY <1>4, <3>1, <4>6, <5>1
      <4> QED
        BY <4>3, <4>4, <4>5, <4>6
    <3> QED
      BY <3>2, <3>3
  <2> QED
    BY <1>7, <2>1, <2>2
<1> QED
  BY <1>1, <1>2, <1>3, <1>9, <1>10 DEF Doomed

\* A run without late answers, when a report is served.
LEMMA OwnServed ==
    ASSUME EngineInv, EngineInv', UploadTypeOK, FlagsInv, PlaceInv, OwnInv,
           NEW r, NEW status, NEW a, Served(r, status, a)
    PROVE  OwnInv'
<1>1. /\ client' = client /\ goal' = goal /\ step' = step
      /\ r \in Packets /\ status \in Statuses /\ Process(r, status)
      /\ Matches(a, r) /\ (a.status = "ok" <=> status \in {"ok", "replayed"})
      /\ (a.status = "refused" => status = "refused")
      /\ Opens(a) => a.session = session'
  BY DEF Served, Answered, hostVars
<1>2. /\ r = requests[1] /\ 1 \in DOMAIN requests
      /\ Len(requests) \in Nat \ {0} /\ DOMAIN requests = 1 .. Len(requests)
      /\ Len(requests') = Len(requests) - 1
      /\ \A i \in DOMAIN requests' : requests'[i] = requests[i + 1] /\ i + 1 \in DOMAIN requests
  BY RequestsMove
<1>3. /\ \A i \in DOMAIN responses : responses'[i] = responses[i]
      /\ \A i \in DOMAIN responses' \ DOMAIN responses : responses'[i] = a
  BY ResponsesMove
<1>4. step \in Nat /\ (step = 1 \/ step = 2 \/ step >= 3)
  <2>1. Len(Script) \in Nat /\ step \in 1 .. Len(Script)
    BY Scripts DEF UploadTypeOK
  <2> QED
    BY <2>1
<1>5. ASSUME status # "refused"
      PROVE  \A i \in DOMAIN responses' : responses'[i].status # "refused"
  BY <1>1, <1>3, <1>5 DEF OwnInv
<1>6. ASSUME r = InfoRequest PROVE status # "refused" /\ ~Opens(a)
  <2>1. status # "refused"
    BY <1>1, <1>6, InfoServed
  <2>2. ~Opens(a)
    BY <1>1, <1>6 DEF Opens, Matches, InfoRequest, BeginCommands
  <2> QED
    BY <2>1, <2>2
<1>7. CASE step = 1
  <2>1. \A i \in DOMAIN requests : requests[i] = InfoRequest
    BY <1>7 DEF OwnInv
  <2>2. r = InfoRequest
    BY <1>2, <2>1
  <2>3. \A i \in DOMAIN requests' : requests'[i] = InfoRequest
    BY <1>2, <2>1
  <2>4. \A i \in DOMAIN responses' : ~Opens(responses'[i])
    BY <1>3, <1>6, <1>7, <2>2 DEF OwnInv
  <2> QED
    BY <1>1, <1>5, <1>6, <1>7, <2>2, <2>3, <2>4 DEF OwnInv, Opens, InfoRequest
<1>8. CASE step = 2
  <2>1. Packet(2)' = Packet(2)
    BY <1>1, PacketsStay
  <2>2. PICK y : y = Packet(2)
    OBVIOUS
  <2>3. ASSUME r = y PROVE status # "refused" /\ LastExecuted(Packet(2))'
    <3>1. status # "refused" /\ LastExecuted(y)'
      BY <1>1, <1>8, <2>2, <2>3, BeginServed
    <3> QED
      BY <2>1, <2>2, <3>1 DEF LastExecuted
  <2>4. ASSUME OnlyAfter(0, y) PROVE r = y /\ OnlyAfter(0, Packet(2))'
    <3>1. r = y /\ 0 \in 0 .. Len(requests)
      BY <1>2, <2>4 DEF OnlyAfter
    <3>2. OnlyAfter(0, y)'
      BY <2>4, <3>1, OnlyAfterMoves
    <3> QED
      BY <2>1, <2>2, <3>1, <3>2 DEF OnlyAfter
  <2>5. CASE /\ LastExecuted(Packet(2)) /\ OnlyAfter(0, Packet(2))
             /\ \A i \in DOMAIN responses :
                   Opens(responses[i]) => responses[i].session = session
    <3>1. r = y /\ OnlyAfter(0, Packet(2))'
      BY <2>2, <2>4, <2>5
    <3>2. status # "refused" /\ LastExecuted(Packet(2))'
      BY <2>3, <3>1
    <3>3. session' = session
      <4>1. status = "replayed"
        BY <1>1, <1>8, <2>2, <2>5, <3>1, BeginServed
      <4> QED
        BY <1>1, <4>1, NotOkStays DEF SessionStays
    <3>4. \A i \in DOMAIN responses' : Opens(responses'[i]) => responses'[i].session = session'
      BY <1>1, <1>3, <2>5, <3>3
    <3> QED
      BY <1>1, <1>5, <1>8, <3>1, <3>2, <3>4 DEF OwnInv, Opens
  <2>6. CASE /\ \A i \in DOMAIN responses : ~Opens(responses[i])
             /\ \E p \in 0 .. Len(requests) :
                   /\ InfoAt(p) /\ OnlyAfter(p, Packet(2))
                   /\ \A i \in 1 .. p : requests[i] = InfoRequest
    <3>1. PICK p \in 0 .. Len(requests) :
             /\ InfoAt(p) /\ OnlyAfter(p, y)
             /\ \A i \in 1 .. p : requests[i] = InfoRequest
      BY <2>2, <2>6
    <3>2. CASE p = 0
      <4>1. r = y /\ OnlyAfter(0, Packet(2))'
        BY <2>4, <3>1, <3>2
      <4>2. status # "refused" /\ LastExecuted(Packet(2))'
        BY <2>3, <4>1
      <4>3. \A i \in DOMAIN responses' : Opens(responses'[i]) => responses'[i].session = session'
        BY <1>1, <1>3, <2>6
      <4> QED
        BY <1>1, <1>5, <1>8, <4>1, <4>2, <4>3 DEF OwnInv, Opens
    <3>3. CASE p # 0
      <4>1. PICK n : n = p - 1
        OBVIOUS
      <4>2. p \in 1 .. Len(requests) /\ requests[p] = InfoRequest /\ 1 \in 1 .. p /\ p \in Nat
        BY <1>2, <3>1, <3>3 DEF InfoAt
      <4>3. r = InfoRequest
        BY <1>2, <3>1, <4>2
      <4>4. InfoAt(n)'
        BY <4>1, <4>2, InfoMoves
      <4>5. n \in 0 .. Len(requests') /\ OnlyAfter(n, y)'
        BY <3>1, <3>3, <4>1, OnlyAfterMoves
      <4>6. OnlyAfter(n, Packet(2))'
        BY <2>1, <2>2, <4>5 DEF OnlyAfter
      <4>7. ASSUME NEW i \in 1 .. n PROVE requests'[i] = InfoRequest
        <5>1. DOMAIN requests' = 1 .. Len(requests) - 1
          BY RequestsMove
        <5>2. i \in DOMAIN requests' /\ i + 1 \in 1 .. p
          BY <1>2, <4>1, <4>2, <5>1
        <5> QED
          BY <1>2, <3>1, <5>2
      <4>8. status # "refused" /\ \A i \in DOMAIN responses' : ~Opens(responses'[i])
        BY <1>3, <1>6, <2>6, <4>3
      <4>10. \E m \in 0 .. Len(requests') :
                /\ InfoAt(m)' /\ OnlyAfter(m, Packet(2))'
                /\ \A i \in 1 .. m : requests'[i] = InfoRequest
        BY <4>4, <4>5, <4>6, <4>7
      <4> QED
        BY <1>1, <1>5, <1>8, <4>8, <4>10 DEF OwnInv, Opens, InfoRequest
    <3> QED
      BY <3>2, <3>3
  <2> QED
    BY <1>8, <2>5, <2>6 DEF OwnInv
<1>9. CASE step >= 3
  <2>1. Live' /\ status # "refused"
    BY <1>9, LiveServed DEF OwnInv
  <2> QED
    BY <1>1, <1>4, <1>5, <1>9, <2>1 DEF OwnInv
<1> QED
  BY <1>4, <1>7, <1>8, <1>9

\* A report that the pedal serves changes nothing of what a run relies on.
LEMMA ServeKeepsRun ==
    ASSUME EngineInv, EngineInv', UploadTypeOK, PedalInv, RunInv,
           NEW r, NEW status, NEW a, Served(r, status, a)
    PROVE  RunInv'
<1>1. /\ client' = client /\ goal' = goal /\ step' = step /\ outcome' = outcome
      /\ runs' = runs /\ late' = late
      /\ boot'.confirmed = boot.confirmed /\ active' = active
  BY DEF Served, hostVars
<1> SUFFICES ASSUME outcome # "failed" PROVE RunInv'
  BY <1>1 DEF RunInv
<1>2. FreshInv /\ FlagsInv /\ PlaceInv /\ ((runs = 1 \/ late = 0) => OwnInv)
  BY DEF RunInv
<1>3. step \in Nat /\ (step = 1 \/ step = 2 \/ step >= 3)
  <2>1. Len(Script) \in Nat /\ step \in 1 .. Len(Script)
    BY Scripts DEF UploadTypeOK
  <2> QED
    BY <2>1
<1>4. FreshInv'
  <2>1. CASE step <= 2
    BY <1>2, <2>1, FreshServed
  <2>2. CASE ~(step <= 2)
    BY <1>1, <2>2 DEF FreshInv
  <2> QED
    BY <2>1, <2>2
<1>5. FlagsInv'
  BY <1>1, <1>2 DEF FlagsInv
<1>6. PlaceInv'
  <2>1. CASE step = 1
    BY <1>1, <1>2, <2>1, AskingServed DEF PlaceInv
  <2>2. CASE step = 2
    BY <1>1, <1>2, <2>2, OpeningServed DEF PlaceInv
  <2>3. CASE step >= 3
    <3>1. client.sequence = step - 2 /\ (Live \/ Doomed)
      BY <1>2, <2>3 DEF PlaceInv
    <3>2. Live' \/ Doomed'
      BY <1>2, <2>3, <3>1, LiveServed, DoomedServed DEF PedalInv
    <3> QED
      BY <1>1, <1>3, <2>3, <3>1, <3>2 DEF PlaceInv
  <2> QED
    BY <1>3, <2>1, <2>2, <2>3
<1>7. (runs = 1 \/ late = 0)' => OwnInv'
  BY <1>1, <1>2, OwnServed
<1> QED
  BY <1>4, <1>5, <1>6, <1>7 DEF RunInv

-----------------------------------------------------------------------------
(* What pedalctl does.                                                     *)

-----------------------------------------------------------------------------
(* The steps of pedalctl.                                                  *)

\* One attempt: the report may get into the queue, and only if it did, or was
\* there before, does pedalctl wait for the answer.
Attempts ==
    /\ UNCHANGED <<vars, goal, step, client, responses, runs>>
    /\ late' = 0 => late = 0
    /\ \/ requests' = requests /\ (waiting' => waiting)
       \/ requests' = Append(requests, Request)

\* An attempt adds its request or none.
LEMMA RequestsGrow ==
    ASSUME UploadTypeOK, Request \in Packets, Attempts
    PROVE  /\ Len(requests) \in Nat /\ DOMAIN requests = 1 .. Len(requests)
           /\ Len(requests') \in Nat
           /\ DOMAIN requests' = 1 .. Len(requests')
           /\ \A i \in 1 .. Len(requests) : requests'[i] = requests[i]
           /\ \/ Len(requests') = Len(requests) /\ (waiting' => waiting) /\ requests' = requests
              \/ /\ Len(requests') = Len(requests) + 1
                 /\ requests'[Len(requests) + 1] = Request
<1>1. requests \in Seq(Packets)
  BY DEF UploadTypeOK
<1>2. Len(requests) \in Nat /\ DOMAIN requests = 1 .. Len(requests)
  BY <1>1
<1>3. CASE requests' = requests /\ (waiting' => waiting)
  BY <1>2, <1>3
<1>4. CASE requests' = Append(requests, Request)
  <2>1. PICK q : q = requests'
    OBVIOUS
  <2>2. /\ Len(q) = Len(requests) + 1 /\ DOMAIN q = 1 .. Len(requests) + 1
        /\ \A i \in 1 .. Len(requests) : q[i] = requests[i]
        /\ q[Len(requests) + 1] = Request
    BY <1>1, <1>4, <2>1, AppendFacts
  <2> QED
    BY <1>2, <2>1, <2>2
<1> QED
  BY <1>3, <1>4 DEF Attempts

\* An attempt sends what was sent before.
LEMMA AttemptKeepsRun ==
    ASSUME UploadTypeOK, RunInv, outcome = "running", Attempts
    PROVE  RunInv'
<1>1. /\ client' = client /\ goal' = goal /\ step' = step
      /\ runs' = runs /\ responses' = responses /\ (late' = 0 => late = 0)
      /\ boot' = boot /\ active' = active /\ session' = session /\ previous' = previous
  BY DEF Attempts, vars, sessionVars
<1>2. FreshInv /\ FlagsInv /\ PlaceInv /\ ((runs = 1 \/ late = 0) => OwnInv)
  BY DEF RunInv
<1>3. /\ Request \in Packets
      /\ step = 1 => Request = InfoRequest
      /\ step >= 2 => Request = Packet(step)
      /\ step <= 2 => Request.command \notin SessionCommands
  BY <1>2, RequestIs
<1>4. PICK m \in Nat : m = Len(requests)
  BY <1>3, RequestsGrow
<1>20. Len(requests') \in Nat
  BY <1>3, RequestsGrow
<1>5. PICK n \in Nat : n = Len(requests')
  BY <1>20
<1>6. /\ DOMAIN requests = 1 .. m /\ DOMAIN requests' = 1 .. n
      /\ \A i \in 1 .. m : requests'[i] = requests[i]
      /\ \/ n = m /\ (waiting' => waiting) /\ requests' = requests
         \/ n = m + 1 /\ requests'[n] = Request
  BY <1>3, <1>4, <1>5, RequestsGrow
<1>7. /\ \A i \in 1 .. n : i \in 1 .. m \/ (i = n /\ requests'[i] = Request)
      /\ 1 .. m \subseteq 1 .. n /\ 0 .. m \subseteq 0 .. n
      /\ \A p \in 0 .. m : \A i \in p + 1 .. n :
            i \in 1 .. n /\ (i \in 1 .. m => i \in p + 1 .. m)
  <2>1. n = m \/ n = m + 1
    BY <1>6
  <2>2. 1 .. m \subseteq 1 .. n /\ 0 .. m \subseteq 0 .. n
    BY <2>1
  <2>6. ASSUME NEW i \in 1 .. n, i \notin 1 .. m PROVE n = m + 1 /\ i = n
    BY <2>1, <2>6
  <2>3. ASSUME NEW p \in 0 .. m, NEW i \in p + 1 .. n, i \in 1 .. m PROVE i \in p + 1 .. m
    BY <2>1, <2>3
  <2>4. ASSUME NEW p \in 0 .. m, NEW i \in p + 1 .. n PROVE i \in 1 .. n
    BY <2>1
  <2>5. n = m + 1 => requests'[n] = Request
    <3>1. m + 1 # m
      OBVIOUS
    <3> QED
      BY <1>6, <3>1
  <2>9. ASSUME NEW i \in 1 .. n, i \notin 1 .. m PROVE i = n /\ requests'[i] = Request
    <3>1. n = m + 1 /\ i = n
      BY <2>6, <2>9
    <3>2. requests'[n] = Request
      BY <2>5, <3>1
    <3> QED
      BY <3>1, <3>2
  <2>7. \A i \in 1 .. n : i \in 1 .. m \/ (i = n /\ requests'[i] = Request)
    BY <2>9
  <2>8. \A p \in 0 .. m : \A i \in p + 1 .. n :
           i \in 1 .. n /\ (i \in 1 .. m => i \in p + 1 .. m)
    BY <2>3, <2>4
  <2> QED
    BY <2>2, <2>7, <2>8
<1>8. step \in Nat /\ (step = 1 \/ step = 2 \/ step >= 3)
  <2>1. Len(Script) \in Nat /\ step \in 1 .. Len(Script)
    BY Scripts DEF UploadTypeOK
  <2> QED
    BY <2>1
<1>9. \A k : Packet(k)' = Packet(k)
  BY <1>1, PacketsStay
<1>10. ASSUME NEW p \in 0 .. m, InfoAt(p) PROVE InfoAt(p)'
  <2>1. CASE p = 0
    BY <1>1, <1>10, <2>1 DEF InfoAt, LastExecuted, InfoRequest
  <2>2. CASE p # 0
    BY <1>6, <1>10, <2>2 DEF InfoAt, InfoRequest
  <2> QED
    BY <2>1, <2>2
<1>11. ASSUME NEW p \in 0 .. m, NEW q, OnlyAfter(p, q), n = m \/ Request = q
       PROVE  OnlyAfter(p, q)'
  <2>1. \A i \in p + 1 .. m : requests[i] = q
    BY <1>4, <1>11 DEF OnlyAfter
  <2>2. ASSUME NEW i \in p + 1 .. n PROVE requests'[i] = q
    <3>1. CASE i \in 1 .. m
      BY <1>6, <1>7, <2>1, <3>1
    <3>2. CASE i \notin 1 .. m
      BY <1>6, <1>7, <1>11, <3>2
    <3> QED
      BY <3>1, <3>2
  <2> QED
    BY <1>5, <2>2 DEF OnlyAfter
<1>12. FreshInv'
  <2> SUFFICES ASSUME step <= 2 PROVE FreshInv'
    BY <1>1 DEF FreshInv
  <2>1. ASSUME NEW s, Fresh(s) PROVE Fresh(s)'
    BY <1>1, <1>3, <1>6, <1>7, <2>1 DEF Fresh
  <2>2. \A j : Informed(j)' => Informed(j)
    BY <1>1 DEF Informed, Informs
  <2>3. ASSUME NEW j \in DOMAIN responses', Informed(j)', Opens(responses'[j])
        PROVE  Fresh(responses[j].session)'
    <3>1. PICK s : s = responses[j].session
      OBVIOUS
    <3>2. Fresh(s)'
      BY <1>1, <1>2, <2>1, <2>2, <2>3, <3>1 DEF FreshInv
    <3> QED
      BY <1>1, <3>1, <3>2 DEF Fresh
  <2>4. ASSUME Informed(Len(responses) + 1)', previous' # NoPrevious,
               previous'.request.command \in BeginCommands
        PROVE  Fresh(session)'
    <3>1. PICK s : s = session
      OBVIOUS
    <3>2. Informed(Len(responses) + 1)
      BY <1>1, <2>4 DEF Informed, Informs
    <3>3. Fresh(s)'
      BY <1>1, <1>2, <2>1, <2>4, <3>1, <3>2 DEF FreshInv
    <3> QED
      BY <1>1, <3>1, <3>3 DEF Fresh
  <2> QED
    BY <2>3, <2>4 DEF FreshInv, Opens
<1>13. FlagsInv'
  BY <1>1, <1>2 DEF FlagsInv
<1>14. ASSUME step = 1 PROVE Asking'
  <2>1. Asking
    BY <1>2, <1>14 DEF PlaceInv
  <2>2. ASSUME waiting' PROVE InfoAt(n)'
    <3>1. CASE n = m /\ (waiting' => waiting)
      BY <1>4, <1>10, <2>1, <2>2, <3>1 DEF Asking
    <3>2. CASE n = m + 1 /\ requests'[n] = Request
      BY <1>3, <1>14, <3>2 DEF InfoAt, InfoRequest
    <3> QED
      BY <1>6, <3>1, <3>2
  <2>3. waiting' => InfoAt(Len(requests))'
    BY <1>5, <2>2 DEF InfoAt
  <2> QED
    BY <1>1, <2>1, <2>3 DEF Asking, NewClient
<1>15. ASSUME step = 2 PROVE Opening'
  <2>1. Opening /\ Request = Packet(2)
    BY <1>2, <1>3, <1>8, <1>15 DEF PlaceInv
  <2>2. PICK y : y = Packet(2)
    OBVIOUS
  <2>3. \A p \in 0 .. m : OnlyAfter(p, y) => OnlyAfter(p, Packet(2))'
    <3>1. \A p \in 0 .. m : OnlyAfter(p, y) => OnlyAfter(p, y)'
      BY <1>11, <2>1, <2>2
    <3> QED
      BY <1>9, <2>2, <3>1 DEF OnlyAfter
  <2>4. LastExecuted(Packet(2)) => LastExecuted(Packet(2))'
    BY <1>1, <1>9 DEF LastExecuted
  <2>5. \/ LastExecuted(Packet(2))' /\ OnlyAfter(0, Packet(2))'
        \/ \E p \in 0 .. n : InfoAt(p)' /\ OnlyAfter(p, Packet(2))'
    <3>1. \/ LastExecuted(Packet(2)) /\ OnlyAfter(0, y)
          \/ \E p \in 0 .. m : InfoAt(p) /\ OnlyAfter(p, y)
      BY <1>4, <2>1, <2>2 DEF Opening
    <3>2. 0 \in 0 .. m
      OBVIOUS
    <3> QED
      BY <1>7, <1>10, <2>3, <2>4, <3>1, <3>2
  <2>6. ASSUME waiting'
        PROVE  IF requests' = << >> THEN LastExecuted(Packet(2))'
               ELSE requests'[Len(requests')] = Packet(2)'
    <3>1. CASE n = m + 1 /\ requests'[n] = Request
      <4>1. requests' # << >>
        BY <1>6, <3>1
      <4> QED
        BY <1>5, <1>9, <2>1, <3>1, <4>1
    <3>2. CASE n = m /\ (waiting' => waiting) /\ requests' = requests
      BY <1>4, <1>5, <1>9, <2>1, <2>4, <2>6, <3>2 DEF Opening
    <3> QED
      BY <1>6, <3>1, <3>2
  <2> QED
    BY <1>1, <1>5, <2>1, <2>5, <2>6 DEF Opening
<1>16. ASSUME step >= 3, Live PROVE Live'
  <2>1. PICK y : y = Packet(step)
    OBVIOUS
  <2>2. Request = y
    BY <1>3, <1>8, <1>16, <2>1
  <2>3. PICK k \in {step - 1, step} :
           /\ LastExecuted(Packet(k))
           /\ expected = k - 1
           /\ Progress(k)
           /\ \E p \in 0 .. Len(requests) :
                 (\A i \in 1 .. p : requests[i] = Packet(k)) /\ OnlyAfter(p, Packet(step))
    BY <1>16 DEF Live
  <2>4. PICK p \in 0 .. m : (\A i \in 1 .. p : requests[i] = Packet(k)) /\ OnlyAfter(p, y)
    BY <1>4, <2>1, <2>3
  <2>5. OnlyAfter(p, y)'
    BY <1>11, <2>2, <2>4
  <2>6. OnlyAfter(p, Packet(step))'
    BY <1>1, <1>9, <2>1, <2>5 DEF OnlyAfter
  <2>7. \A i \in 1 .. p : requests'[i] = Packet(k)'
    <3>1. 1 .. p \subseteq 1 .. m
      OBVIOUS
    <3> QED
      BY <1>6, <1>9, <2>4, <3>1
  <2>8. Progress(k)'
    BY <1>1, <2>3 DEF Progress, Prologue, Count, Cell, Attempts, vars, progressVars
  <2>9. LastExecuted(Packet(k))'
    BY <1>1, <1>9, <2>3 DEF LastExecuted
  <2>10. /\ size' = size /\ full' = full /\ digest' = digest /\ target' = target
         /\ expected' = expected /\ Count' = Count
    BY <1>1 DEF Attempts, vars, sessionVars, Count
  <2>11. \E j \in 0 .. Len(requests') :
            (\A i \in 1 .. j : requests'[i] = Packet(k)') /\ OnlyAfter(j, Packet(step))'
    BY <1>5, <1>7, <2>6, <2>7
  <2>12. /\ session' = client'.session /\ size' = Count' /\ full' = (goal'.plan = "restore")
         /\ IF full' THEN digest' = goal'.of ELSE target' = client'.flags
    BY <1>1, <1>16, <2>10 DEF Live
  <2> QED
    BY <1>1, <2>3, <2>8, <2>9, <2>10, <2>11, <2>12 DEF Live
<1>17. ASSUME Doomed PROVE Doomed'
  <2>1. CASE session # client.session
    BY <1>1, <1>17, <2>1 DEF Doomed
  <2>2. CASE session = client.session
    <3>1. PICK p \in 0 .. m - 1 :
             /\ InfoAt(p) /\ requests[p + 1] = Packet(2)
             /\ \A i \in 1 .. p :
                   requests[i].command \in SessionCommands => requests[i].session # client.session
      BY <1>4, <1>17, <2>2 DEF Doomed
    <3>2. p \in 0 .. m /\ p \in 0 .. n - 1 /\ p + 1 \in 1 .. m /\ 1 .. p \subseteq 1 .. m
      BY <1>6
    <3>3. InfoAt(p)' /\ requests'[p + 1] = Packet(2)'
      BY <1>6, <1>9, <1>10, <3>1, <3>2
    <3>4. \A i \in 1 .. p :
             requests'[i].command \in SessionCommands => requests'[i].session # client'.session
      BY <1>1, <1>6, <3>1, <3>2
    <3> QED
      BY <1>1, <1>5, <1>17, <3>2, <3>3, <3>4 DEF Doomed
  <2> QED
    BY <2>1, <2>2
<1>18. PlaceInv'
  BY <1>1, <1>2, <1>14, <1>15, <1>16, <1>17 DEF PlaceInv
<1>19. (runs = 1 \/ late = 0)' => OwnInv'
  <2> SUFFICES ASSUME OwnInv PROVE OwnInv'
    BY <1>1, <1>2
  <2>1. CASE step = 1
    <3>1. \A i \in DOMAIN requests' : requests'[i] = InfoRequest
      BY <1>3, <1>6, <1>7, <2>1 DEF OwnInv
    <3> QED
      BY <1>1, <2>1, <3>1 DEF OwnInv, Opens, InfoRequest
  <2>2. CASE step = 2
    <3>1. PICK y : y = Packet(2)
      OBVIOUS
    <3>2. \A p \in 0 .. m : OnlyAfter(p, y) => OnlyAfter(p, Packet(2))'
      <4>1. \A p \in 0 .. m : OnlyAfter(p, y) => OnlyAfter(p, y)'
        BY <1>3, <1>8, <1>11, <2>2, <3>1
      <4> QED
        BY <1>9, <3>1, <4>1 DEF OnlyAfter
    <3>3. CASE /\ LastExecuted(Packet(2)) /\ OnlyAfter(0, Packet(2))
               /\ \A i \in DOMAIN responses :
                     Opens(responses[i]) => responses[i].session = session
      <4>1. OnlyAfter(0, Packet(2))'
        <5>1. 0 \in 0 .. m
          OBVIOUS
        <5> QED
          BY <3>1, <3>2, <3>3, <5>1
      <4>2. LastExecuted(Packet(2))'
        BY <1>1, <1>9, <3>3 DEF LastExecuted
      <4> QED
        BY <1>1, <2>2, <3>3, <4>1, <4>2 DEF OwnInv, Opens
    <3>4. CASE /\ \A i \in DOMAIN responses : ~Opens(responses[i])
               /\ \E p \in 0 .. Len(requests) :
                     /\ InfoAt(p) /\ OnlyAfter(p, Packet(2))
                     /\ \A i \in 1 .. p : requests[i] = InfoRequest
      <4>1. PICK p \in 0 .. m :
               /\ InfoAt(p) /\ OnlyAfter(p, y)
               /\ \A i \in 1 .. p : requests[i] = InfoRequest
        BY <1>4, <3>1, <3>4
      <4>2. 1 .. p \subseteq 1 .. m
        OBVIOUS
      <4>3. \A i \in 1 .. p : requests'[i] = InfoRequest
        BY <1>6, <4>1, <4>2
      <4>4. InfoAt(p)' /\ OnlyAfter(p, Packet(2))' /\ p \in 0 .. Len(requests')
        BY <1>5, <1>7, <1>10, <3>2, <4>1
      <4> QED
        BY <1>1, <2>2, <3>4, <4>3, <4>4 DEF OwnInv, Opens, InfoRequest
    <3> QED
      BY <2>2, <3>3, <3>4 DEF OwnInv
  <2>3. CASE step >= 3
    BY <1>1, <1>16, <1>8, <2>3 DEF OwnInv
  <2> QED
    BY <1>8, <2>1, <2>2, <2>3
<1> QED
  BY <1>1, <1>12, <1>13, <1>18, <1>19 DEF RunInv

\* The first answer is taken from its queue.
Taken(a) ==
    /\ outcome = "running" /\ waiting
    /\ 1 \in DOMAIN responses /\ a = responses[1] /\ a \in Responses
    /\ responses' \in Seq(Responses) /\ Len(responses') = Len(responses) - 1
    /\ \A i \in DOMAIN responses' : responses'[i] = responses[i + 1] /\ i + 1 \in DOMAIN responses
    /\ UNCHANGED <<vars, requests, countVars>>

\* What the host makes of the first answer.
LEMMA ReceiveIs ==
    ASSUME UploadTypeOK, Receive
    PROVE  \E a : /\ Taken(a)
                  /\ \/ ~Matches(a, Request) /\ Fail("mismatch")
                     \/ Matches(a, Request) /\ a.status # "ok" /\ Fail(a.status)
                     \/ Matches(a, Request) /\ Fail("protected")
                     \/ Matches(a, Request) /\ a.status = "ok" /\ ~Refuses(a) /\ Advance(a)
<1>1. responses \in Seq(Responses) /\ responses # << >>
  BY DEF UploadTypeOK, Receive
<1>2. PICK a : a = Head(responses)
  OBVIOUS
<1>3. /\ a = responses[1] /\ a \in Responses /\ Len(responses) \in Nat \ {0}
      /\ DOMAIN responses = 1 .. Len(responses)
      /\ responses' \in Seq(Responses) /\ Len(responses') = Len(responses) - 1
      /\ DOMAIN responses' = 1 .. Len(responses) - 1
      /\ \A i \in 1 .. Len(responses) - 1 :
            responses'[i] = responses[i + 1] /\ i + 1 \in 1 .. Len(responses)
  BY <1>1, <1>2, TailFacts DEF Receive
<1>4. 1 \in DOMAIN responses
  BY <1>3
<1>5. Taken(a)
  BY <1>3, <1>4 DEF Taken, Receive
<1>6. (CASE ~Matches(a, Request) -> Fail("mismatch")
         [] Matches(a, Request) /\ a.status # "ok" -> Fail(a.status)
         [] Matches(a, Request) /\ a.status = "ok" /\ Refuses(a) -> Fail("protected")
         [] OTHER -> Advance(a))
  BY <1>2 DEF Receive
<1> QED
  BY <1>5, <1>6

\* Where an answer to GET_INFO is taken, the slot is chosen.
LEMMA InfoAdvances ==
    ASSUME EngineInv, UploadTypeOK, PedalInv, RunInv, step = 1, NEW a, Taken(a),
           Matches(a, Request), a.status = "ok", ~Refuses(a), Advance(a)
    PROVE  RunInv'
<1>1. /\ boot' = boot /\ active' = active /\ session' = session /\ previous' = previous
      /\ requests' = requests /\ runs' = runs /\ late' = late
      /\ 1 \in DOMAIN responses /\ a = responses[1] /\ waiting /\ outcome = "running"
      /\ \A i \in DOMAIN responses' : responses'[i] = responses[i + 1] /\ i + 1 \in DOMAIN responses
  BY DEF Taken, vars, sessionVars, countVars
<1>2. FreshInv /\ FlagsInv /\ Asking /\ ((runs = 1 \/ late = 0) => OwnInv)
  BY <1>1 DEF RunInv, PlaceInv
<1>3. Request = InfoRequest
  BY <1>1, RequestIs DEF RunInv
<1>4. a.command = "get_info" /\ Informs(a)
  BY <1>3 DEF Matches, InfoRequest, Informs
<1>5. Len(Script) \in Nat /\ step # Len(Script) /\ goal.plan \in {"upload", "restore"}
  <2>1. goal \in Goals
    BY DEF UploadTypeOK
  <2>2. /\ Len(Script) = Prologue + Count + (IF goal.plan = "upload" THEN 3 ELSE 2)
        /\ Prologue \in Nat /\ Prologue >= 3 /\ Count \in Nat
    BY <2>1, Scripts, GoalKinds
  <2> QED
    BY <2>1, <2>2, GoalKinds
<1>6. step' = 2 /\ goal' = goal /\ outcome' = outcome /\ waiting' = FALSE
  BY <1>5 DEF Advance
<1>7. client' = [flags |-> IF goal.plan = "upload" THEN TargetOf(a.data) ELSE Full,
                 session |-> 0, sequence |-> 0]
  BY <1>2, <1>4 DEF Advance, ClientAfter, Asking, NewClient
<1>8. /\ a.data.confirmed = boot.confirmed
      /\ active # boot.confirmed => a.data.selected = active
  BY <1>1, <1>4 DEF PedalInv, QueueInv, ResponseInv
<1>9. ASSUME goal.plan = "upload" PROVE client'.flags \in Slots \ {boot.confirmed, active}
  <2>1. TargetOf(a.data) # a.data.selected
    BY <1>4, <1>9 DEF Refuses
  <2>2. TargetOf(a.data) \in Slots \ {boot.confirmed}
    BY <1>8, BootStateAssumption DEF TargetOf, Slots
  <2>3. TargetOf(a.data) # active
    BY <1>8, <2>1, <2>2
  <2> QED
    BY <1>7, <1>9, <2>2, <2>3
<1>10. FlagsInv'
  BY <1>1, <1>5, <1>6, <1>7, <1>9 DEF FlagsInv
<1>11. FreshInv'
  <2>1. ASSUME NEW s, Fresh(s) PROVE Fresh(s)'
    BY <1>1, <2>1 DEF Fresh
  <2>2. ASSUME NEW j \in DOMAIN responses', Opens(responses'[j])
        PROVE  Fresh(responses[j].session)'
    <3>1. PICK s : s = responses'[j].session
      OBVIOUS
    <3>2. j + 1 \in DOMAIN responses /\ Opens(responses[j + 1]) /\ s = responses[j + 1].session
      BY <1>1, <2>2, <3>1
    <3>3. Informed(j + 1)
      <4>1. DOMAIN responses' = 1 .. Len(responses')
        BY DEF Taken
      <4>2. 1 < j + 1
        BY <2>2, <4>1
      <4> QED
        BY <1>1, <1>4, <4>2 DEF Informed
    <3>4. Fresh(s)'
      BY <1>2, <2>1, <3>2, <3>3 DEF FreshInv
    <3> QED
      BY <3>1, <3>4 DEF Fresh
  <2>3. ASSUME previous' # NoPrevious, previous'.request.command \in BeginCommands
        PROVE  Fresh(session)'
    <3>1. PICK s : s = session
      OBVIOUS
    <3>2. Informed(Len(responses) + 1)
      <4>1. responses \in Seq(Responses)
        BY DEF UploadTypeOK
      <4>2. 1 < Len(responses) + 1
        BY <1>1, <4>1
      <4> QED
        BY <1>1, <1>4, <4>2 DEF Informed
    <3>3. Fresh(s)'
      BY <1>1, <1>2, <2>1, <2>3, <3>1, <3>2 DEF FreshInv
    <3> QED
      BY <1>1, <3>1, <3>3 DEF Fresh
  <2> QED
    BY <2>2, <2>3 DEF FreshInv, Opens
<1>12. PICK p \in 0 .. Len(requests) : p = Len(requests)
  <2>1. Len(requests) \in Nat
    BY DEF UploadTypeOK
  <2> QED
    BY <2>1
<1>13. InfoAt(p)' /\ OnlyAfter(p, Packet(2))' /\ p \in 0 .. Len(requests')
  <2>1. InfoAt(p)
    BY <1>1, <1>2, <1>12 DEF Asking
  <2>2. InfoAt(p)'
    BY <1>1, <2>1 DEF InfoAt, LastExecuted, InfoRequest
  <2>3. Len(requests') = p /\ \A i \in p + 1 .. p : FALSE
    BY <1>1, <1>12
  <2> QED
    BY <2>2, <2>3 DEF OnlyAfter
<1>14. Opening'
  BY <1>6, <1>7, <1>13 DEF Opening
<1>15. PlaceInv'
  BY <1>6, <1>14 DEF PlaceInv
<1>16. ASSUME OwnInv PROVE OwnInv'
  <2>1. \A i \in DOMAIN responses' : responses'[i].status # "refused" /\ ~Opens(responses'[i])
    BY <1>1, <1>16 DEF OwnInv
  <2>2. \A i \in 1 .. p : requests'[i] = InfoRequest
    <3>1. DOMAIN requests = 1 .. p
      BY <1>12 DEF UploadTypeOK
    <3> QED
      BY <1>1, <1>16, <3>1 DEF OwnInv
  <2> QED
    BY <1>6, <1>13, <2>1, <2>2 DEF OwnInv, Opens, InfoRequest
<1> QED
  BY <1>1, <1>2, <1>10, <1>11, <1>15, <1>16 DEF RunInv

\* Where an answer to BEGIN is taken, the session is this run's, or one that
\* is left before any request of it is served.
LEMMA BeginAdvances ==
    ASSUME EngineInv, UploadTypeOK, PedalInv, RunInv, step = 2, NEW a, Taken(a),
           Matches(a, Request), a.status = "ok", ~Refuses(a), Advance(a)
    PROVE  RunInv'
<1>1. /\ boot' = boot /\ active' = active /\ session' = session /\ previous' = previous
      /\ phase' = phase /\ next' = next /\ sent' = sent /\ erased' = erased /\ expected' = expected
      /\ size' = size /\ full' = full /\ digest' = digest /\ target' = target
      /\ requests' = requests /\ runs' = runs /\ late' = late
      /\ 1 \in DOMAIN responses /\ a = responses[1] /\ waiting /\ outcome = "running"
      /\ \A i \in DOMAIN responses' : responses'[i] = responses[i + 1] /\ i + 1 \in DOMAIN responses
  BY DEF Taken, vars, sessionVars, progressVars, countVars
<1>2. FreshInv /\ FlagsInv /\ Opening /\ ((runs = 1 \/ late = 0) => OwnInv)
  BY <1>1 DEF RunInv, PlaceInv
<1>3. PICK y : y = Packet(2)
  OBVIOUS
<1>4. /\ y \in Packets /\ y.command \in BeginCommands /\ y # InfoRequest
      /\ y.flags = client.flags /\ y.offset = Count
      /\ goal.plan = "upload" => y.command = "begin"
      /\ goal.plan = "restore" => y.command = "begin_full" /\ y.data = goal.of
  BY <1>2, <1>3, BeginPacket
<1>5. Opens(a)
  <2>1. Request = y
    BY <1>1, <1>3, RequestIs DEF RunInv
  <2> QED
    BY <1>4, <2>1 DEF Matches, Opens
<1>6. /\ Len(Script) \in Nat /\ step # Len(Script) /\ goal.plan \in {"upload", "restore"}
      /\ Prologue \in Nat /\ Prologue >= 3 /\ Count \in Nat
  <2>1. goal \in Goals
    BY DEF UploadTypeOK
  <2>2. /\ Len(Script) = Prologue + Count + (IF goal.plan = "upload" THEN 3 ELSE 2)
        /\ Prologue \in Nat /\ Prologue >= 3 /\ Count \in Nat
    BY <2>1, Scripts, GoalKinds
  <2> QED
    BY <2>1, <2>2, GoalKinds
<1>7. step' = 3 /\ goal' = goal /\ outcome' = outcome /\ waiting' = FALSE
  BY <1>6 DEF Advance
<1>8. client' = [flags |-> client.flags, session |-> a.session, sequence |-> 1]
  <2>1. client \in [flags : Slots \cup {Full}, session : Nat, sequence : Nat]
    BY DEF UploadTypeOK
  <2>2. client' = [client EXCEPT !.session = a.session, !.sequence = 1]
    BY <1>5 DEF Advance, ClientAfter, Opens, BeginCommands
  <2> QED
    BY <2>1, <2>2
<1>9. /\ Packet(2)' = Packet(2) /\ Count' = Count /\ Prologue' = Prologue
      /\ \A k : Cell(k)' = Cell(k)
  BY <1>7, <1>8, PacketsStay
<1>10. PICK s : s = a.session
  OBVIOUS
<1>11. Fresh(s)
  <2>1. Informed(1)
    BY DEF Informed
  <2> QED
    BY <1>1, <1>2, <1>5, <1>10, <2>1 DEF FreshInv
<1>12. /\ Len(requests) \in Nat /\ DOMAIN requests = 1 .. Len(requests)
       /\ requests \in Seq(Packets)
  BY DEF UploadTypeOK
<1>13. \A i \in DOMAIN responses' :
          responses'[i].command \in SessionCommands => responses'[i].session # s
  BY <1>1, <1>11 DEF Fresh
<1>14. \A i \in DOMAIN responses' :
          responses'[i].command \in SessionCommands /\ responses'[i].session = client'.session
             => responses'[i].status # "ok"
  BY <1>8, <1>10, <1>13
<1>15. ASSUME LastExecuted(y), OnlyAfter(0, y), s = session PROVE Live'
  <2>1. OpenedBy(y)
    BY <1>4, <1>15 DEF LastExecuted, PedalInv, CacheInv
  <2>2. /\ phase = "begun" /\ expected = 1 /\ next = 0 /\ size = Count
        /\ goal.plan = "upload" => ~full /\ target = client.flags
        /\ goal.plan = "restore" => full /\ digest = goal.of /\ erased = 0
    BY <1>4, <2>1 DEF OpenedBy
  <2>3. /\ session' = client'.session /\ size' = Count' /\ full' = (goal'.plan = "restore")
        /\ IF full' THEN digest' = goal'.of ELSE target' = client'.flags
    <3>1. full \in BOOLEAN
      BY FieldTypes DEF EngineInv
    <3> QED
      BY <1>1, <1>6, <1>7, <1>8, <1>9, <1>10, <1>15, <2>2, <3>1
  <2>4. LastExecuted(Packet(2))'
    BY <1>1, <1>3, <1>9, <1>15 DEF LastExecuted
  <2>5. Progress(2)'
    <3>1. 2 < Prologue /\ (2 - 2) * EraseChunk = 0
      BY <1>6, Geometry
    <3> QED
      BY <1>1, <1>6, <1>7, <1>9, <2>2, <3>1 DEF Progress
  <2>6. PICK m \in Nat : m = Len(requests)
    BY <1>12
  <2>7. \A i \in 1 .. m : requests'[i] = Packet(2)'
    BY <1>1, <1>3, <1>9, <1>15, <2>6 DEF OnlyAfter
  <2>8. m \in 0 .. Len(requests') /\ OnlyAfter(m, Packet(step))'
    <3>1. Len(requests') = m /\ \A i \in m + 1 .. m : FALSE
      BY <1>1, <2>6
    <3> QED
      BY <3>1 DEF OnlyAfter
  <2>9. 2 \in {step' - 1, step'} /\ expected' = 2 - 1
    BY <1>1, <1>7, <2>2
  <2> QED
    BY <2>3, <2>4, <2>5, <2>7, <2>8, <2>9 DEF Live
<1>16. ASSUME LastExecuted(y), OnlyAfter(0, y) PROVE Live' \/ Doomed'
  <2>1. CASE s = session
    BY <1>15, <1>16, <2>1
  <2>2. CASE s # session
    BY <1>1, <1>7, <1>8, <1>10, <1>14, <2>2 DEF Doomed
  <2> QED
    BY <2>1, <2>2
<1>17. ASSUME NEW p \in 0 .. Len(requests), InfoAt(p), OnlyAfter(p, y) PROVE Live' \/ Doomed'
  <2>1. CASE p = Len(requests)
    <3>1. requests = << >>
      <4>1. SUFFICES ASSUME requests # << >> PROVE FALSE
        OBVIOUS
      <4>2. requests[Len(requests)] = y
        BY <1>1, <1>2, <1>3, <4>1 DEF Opening
      <4>3. Len(requests) # 0
        BY <1>12, <4>1
      <4> QED
        BY <1>4, <1>17, <2>1, <4>2, <4>3 DEF InfoAt
    <3>2. LastExecuted(y) /\ p = 0
      BY <1>1, <1>2, <1>3, <2>1, <3>1 DEF Opening
    <3> QED
      BY <1>16, <1>17, <3>2
  <2>2. CASE p # Len(requests)
    <3>1. p \in 0 .. Len(requests) - 1 /\ p + 1 \in p + 1 .. Len(requests)
      <4>1. PICK m \in Nat : m = Len(requests)
        BY <1>12
      <4>2. p \in 0 .. m /\ p # m
        BY <2>2, <4>1
      <4>3. p \in 0 .. m - 1 /\ p + 1 \in p + 1 .. m
        BY <4>2
      <4> QED
        BY <4>1, <4>3
    <3>2. requests[p + 1] = y
      BY <1>17, <3>1 DEF OnlyAfter
    <3>3. InfoAt(p)'
      BY <1>1, <1>17 DEF InfoAt, LastExecuted, InfoRequest
    <3>4. \A i \in 1 .. p : requests'[i].command \in SessionCommands
                              => requests'[i].session # client'.session
      <4>1. 1 .. p \subseteq DOMAIN requests
        BY <1>12
      <4> QED
        BY <1>1, <1>8, <1>10, <1>11, <4>1 DEF Fresh
    <3>5. requests'[p + 1] = Packet(2)' /\ p \in 0 .. Len(requests') - 1
      BY <1>1, <1>3, <1>9, <3>1, <3>2
    <3>6. Doomed'
      BY <1>7, <1>14, <3>3, <3>4, <3>5 DEF Doomed
    <3> QED
      BY <3>6
  <2> QED
    BY <2>1, <2>2
<1>18. Live' \/ Doomed'
  <2>1. \/ LastExecuted(y) /\ OnlyAfter(0, y)
        \/ \E p \in 0 .. Len(requests) : InfoAt(p) /\ OnlyAfter(p, y)
    BY <1>2, <1>3 DEF Opening
  <2> QED
    BY <1>16, <1>17, <2>1
<1>19. FlagsInv'
  BY <1>1, <1>2, <1>7, <1>8 DEF FlagsInv
<1>20. FreshInv'
  BY <1>7 DEF FreshInv
<1>21. PlaceInv'
  BY <1>7, <1>8, <1>18 DEF PlaceInv
<1>22. ASSUME OwnInv PROVE OwnInv'
  <2>1. \A i \in DOMAIN responses' : responses'[i].status # "refused"
    BY <1>1, <1>22 DEF OwnInv
  <2>2. LastExecuted(y) /\ OnlyAfter(0, y) /\ s = session
    BY <1>1, <1>3, <1>5, <1>10, <1>22 DEF OwnInv
  <2> QED
    BY <1>7, <1>15, <2>1, <2>2 DEF OwnInv
<1> QED
  BY <1>1, <1>2, <1>19, <1>20, <1>21, <1>22 DEF RunInv

\* The answer that is taken is the one to the last request that was executed.
LEMMA SessionAdvances ==
    ASSUME EngineInv, UploadTypeOK, PedalInv, RunInv, step >= 3, step # Len(Script),
           NEW a, Taken(a), Matches(a, Request), a.status = "ok", Advance(a)
    PROVE  RunInv'
<1>1. /\ boot' = boot /\ active' = active /\ session' = session /\ previous' = previous
      /\ phase' = phase /\ next' = next /\ sent' = sent /\ erased' = erased /\ expected' = expected
      /\ size' = size /\ full' = full /\ digest' = digest /\ target' = target
      /\ requests' = requests /\ runs' = runs /\ late' = late
      /\ 1 \in DOMAIN responses /\ a = responses[1] /\ waiting /\ outcome = "running"
      /\ \A i \in DOMAIN responses' : responses'[i] = responses[i + 1] /\ i + 1 \in DOMAIN responses
  BY DEF Taken, vars, sessionVars, progressVars, countVars
<1>2. FreshInv /\ FlagsInv /\ PlaceInv /\ ((runs = 1 \/ late = 0) => OwnInv)
  BY <1>1 DEF RunInv
<1>3. /\ goal \in Goals /\ Len(Script) \in Nat /\ step \in 3 .. Len(Script) /\ step \in Nat
      /\ client \in [flags : Slots \cup {Full}, session : Nat, sequence : Nat]
  <2>1. /\ goal \in Goals /\ step \in 1 .. Len(Script)
        /\ client \in [flags : Slots \cup {Full}, session : Nat, sequence : Nat]
    BY DEF UploadTypeOK
  <2>2. Len(Script) \in Nat
    BY <2>1, Scripts
  <2> QED
    BY <2>1, <2>2
<1>4. PICK y : y = Packet(step)
  OBVIOUS
<1>5. /\ Request = y
      /\ y.command \in SessionCommands /\ y.session = client.session /\ y.sequence = step - 2
      /\ y.command \notin BeginCommands \cup {"get_info"}
  BY <1>1, <1>2, <1>3, <1>4, RequestIs, SessionPacket
<1>6. /\ a.command \in SessionCommands /\ a.session = client.session /\ a.sequence = step - 2
      /\ a.command \notin BeginCommands \cup {"get_info"}
  BY <1>5 DEF Matches, BeginCommands
<1>7. /\ step' = step + 1 /\ goal' = goal /\ outcome' = outcome /\ waiting' = FALSE
      /\ client' = [client EXCEPT !.sequence = client.sequence + 1]
  BY <1>6 DEF Advance, ClientAfter, BeginCommands
<1>8. /\ client'.flags = client.flags /\ client'.session = client.session
      /\ client'.sequence = client.sequence + 1
  BY <1>3, <1>7
<1>9. /\ Count' = Count /\ Prologue' = Prologue /\ (\A k : Cell(k)' = Cell(k))
      /\ (\A k : Packet(k)' = Packet(k))
  BY <1>7, <1>8, PacketsStay
<1>10. client.sequence = step - 2 /\ (Live \/ Doomed)
  BY <1>2 DEF PlaceInv
<1>11. Live
  <2>1. ~Doomed
    BY <1>1, <1>6 DEF Doomed
  <2> QED
    BY <1>10, <2>1
<1>12. PICK k \in {step - 1, step} :
          /\ LastExecuted(Packet(k))
          /\ expected = k - 1
          /\ Progress(k)
          /\ \E p \in 0 .. Len(requests) :
                (\A i \in 1 .. p : requests[i] = Packet(k)) /\ OnlyAfter(p, Packet(step))
  BY <1>11 DEF Live
<1>13. k = step
  <2>1. a.sequence < expected
    <3>1. a.session = session
      BY <1>6, <1>11 DEF Live
    <3> QED
      BY <1>1, <1>6, <3>1 DEF PedalInv, QueueInv, ResponseInv
  <2> QED
    BY <1>3, <1>6, <1>12, <2>1
<1>14. Live'
  <2>1. /\ LastExecuted(y)
        /\ \E p \in 0 .. Len(requests) :
              (\A i \in 1 .. p : requests[i] = y) /\ OnlyAfter(p, y)
    BY <1>4, <1>12, <1>13
  <2>2. PICK m \in Nat : m = Len(requests)
    BY DEF UploadTypeOK
  <2>3. PICK p \in 0 .. m : (\A i \in 1 .. p : requests[i] = y) /\ OnlyAfter(p, y)
    BY <2>1, <2>2
  <2>4. \A i \in 1 .. m : requests[i] = y
    <3>1. \A i \in p + 1 .. m : requests[i] = y
      BY <2>2, <2>3 DEF OnlyAfter
    <3>2. \A i \in 1 .. m : i \in 1 .. p \/ i \in p + 1 .. m
      OBVIOUS
    <3> QED
      BY <2>3, <3>1, <3>2
  <2>5. \A i \in 1 .. m : requests'[i] = Packet(k)'
    BY <1>1, <1>4, <1>9, <1>13, <2>4
  <2>6. m \in 0 .. Len(requests') /\ OnlyAfter(m, Packet(step))'
    <3>1. Len(requests') = m /\ \A i \in m + 1 .. m : FALSE
      BY <1>1, <2>2
    <3> QED
      BY <3>1 DEF OnlyAfter
  <2>7. LastExecuted(Packet(k))'
    BY <1>1, <1>9, <1>12 DEF LastExecuted
  <2>8. Progress(k)'
    BY <1>1, <1>7, <1>9, <1>12 DEF Progress
  <2>9. k \in {step' - 1, step'} /\ expected' = k - 1
    BY <1>1, <1>3, <1>7, <1>12, <1>13
  <2>10. /\ session' = client'.session /\ size' = Count' /\ full' = (goal'.plan = "restore")
         /\ IF full' THEN digest' = goal'.of ELSE target' = client'.flags
    BY <1>1, <1>7, <1>8, <1>9, <1>11 DEF Live
  <2> QED
    BY <2>5, <2>6, <2>7, <2>8, <2>9, <2>10 DEF Live
<1>15. FlagsInv'
  BY <1>1, <1>2, <1>3, <1>7, <1>8 DEF FlagsInv
<1>16. FreshInv'
  BY <1>3, <1>7 DEF FreshInv
<1>17. PlaceInv'
  <2>1. step' # 1 /\ step' # 2 /\ client'.sequence = step' - 2
    BY <1>3, <1>7, <1>8, <1>10
  <2> QED
    BY <1>14, <2>1 DEF PlaceInv
<1>18. ASSUME OwnInv PROVE OwnInv'
  <2>1. \A i \in DOMAIN responses' : responses'[i].status # "refused"
    BY <1>1, <1>18 DEF OwnInv
  <2>2. step' # 1 /\ step' # 2
    BY <1>3, <1>7
  <2> QED
    BY <1>14, <2>1, <2>2 DEF OwnInv
<1> QED
  BY <1>1, <1>2, <1>15, <1>16, <1>17, <1>18 DEF RunInv

\* REBOOT is never answered well, so no run ends with an answer.
LEMMA AdvanceKeepsRun ==
    ASSUME EngineInv, UploadTypeOK, PedalInv, RunInv, NEW a, Taken(a), Matches(a, Request),
           a.status = "ok", ~Refuses(a), Advance(a)
    PROVE  RunInv' /\ step # Len(Script)
<1>1. /\ goal \in Goals /\ Len(Script) \in Nat /\ step \in 1 .. Len(Script)
      /\ step = 1 \/ step = 2 \/ step >= 3
  <2>1. goal \in Goals /\ step \in 1 .. Len(Script)
    BY DEF UploadTypeOK
  <2>2. Len(Script) \in Nat
    BY <2>1, Scripts
  <2> QED
    BY <2>1, <2>2
<1>2. step # Len(Script)
  <2>1. SUFFICES ASSUME step = Len(Script) PROVE FALSE
    OBVIOUS
  <2>2. step \in 3 .. Len(Script)
    <3>1. /\ Len(Script) = Prologue + Count + (IF goal.plan = "upload" THEN 3 ELSE 2)
          /\ Prologue \in Nat /\ Prologue >= 3 /\ Count \in Nat
      BY <1>1, Scripts, GoalKinds
    <3> QED
      BY <1>1, <2>1, <3>1
  <2>3. Script[step].command = "reboot"
    BY <1>1, <2>1, <2>2, SessionSteps
  <2>4. Request.command = "reboot"
    BY <2>3 DEF Request
  <2>5. a.command = "reboot" /\ ResponseInv(a)
    BY <2>4 DEF Matches, Taken, PedalInv, QueueInv
  <2> QED
    BY <2>5 DEF ResponseInv
<1> QED
  BY <1>1, <1>2, InfoAdvances, BeginAdvances, SessionAdvances

\* The script of a goal is never empty.
LEMMA ScriptIsLong == goal \in Goals => Len(Script) \in Nat /\ 6 <= Len(Script)
<1> SUFFICES ASSUME goal \in Goals PROVE Len(Script) \in Nat /\ 6 <= Len(Script)
  OBVIOUS
<1>1. /\ Len(Script) = Prologue + Count + (IF goal.plan = "upload" THEN 3 ELSE 2)
      /\ Prologue \in Nat /\ Prologue >= 3 /\ Count \in Nat \ {0}
  BY Scripts, GoalKinds
<1> QED
  BY <1>1

\* The same of the goal that a step chooses.
LEMMA NextScriptIsLong == goal' \in Goals => Len(Script') \in Nat /\ 6 <= Len(Script')
<1>1. (goal \in Goals => Len(Script) \in Nat /\ 6 <= Len(Script))'
  BY ScriptIsLong, PTL
<1> QED
  BY <1>1

\* Where pedalctl is started again, nothing of the earlier run waits for it,
\* unless an answer came too late.
LEMMA RunAgainKeepsRun ==
    ASSUME UploadTypeOK, PromptInv, RunAgain
    PROVE  RunInv'
<1>1. /\ outcome # "running" /\ on
      /\ runs' = runs + 1 /\ step' = 1 /\ waiting' = FALSE /\ client' = NewClient
      /\ responses' = << >> /\ requests' = requests /\ late' = late
      /\ runs \in Nat \ {0} /\ DOMAIN responses' = {}
  BY DEF RunAgain, UploadTypeOK
<1>2. FreshInv'
  BY <1>1 DEF FreshInv, Informed
<1>3. FlagsInv'
  BY <1>1 DEF FlagsInv
<1>4. PlaceInv'
  BY <1>1 DEF PlaceInv, Asking, NewClient
<1>5. ASSUME runs' = 1 \/ late' = 0 PROVE OwnInv'
  <2>1. late = 0
    BY <1>1, <1>5
  <2>2. requests' = << >> /\ DOMAIN requests' = {}
    BY <1>1, <2>1 DEF PromptInv
  <2> QED
    BY <1>1, <2>2 DEF OwnInv
<1> QED
  BY <1>2, <1>3, <1>4, <1>5 DEF RunInv

\* A run depends on what the pedal holds and on the queues, not on power.
LEMMA RunStays ==
    ASSUME RunInv,
           UNCHANGED <<flash, durable, boot, active, session, expected, next, size, target,
                       phase, full, erased, digest, previous, sent, updates>>,
           UNCHANGED <<goal, step, waiting, client, outcome, requests, responses, late, runs>>
    PROVE  RunInv'
<1>1. FlagsInv' = FlagsInv
  BY DEF FlagsInv
<1>2. FreshInv => FreshInv'
  BY DEF FreshInv, Informed, Fresh, Informs, Opens
<1>3. Script' = Script /\ Count' = Count /\ Prologue' = Prologue /\ (\A k : Cell(k)' = Cell(k))
      /\ (\A k : Packet(k)' = Packet(k)) /\ Packet(2)' = Packet(2)
  BY PacketsStay
<1>4. Live => Live'
  BY <1>3 DEF Live, LastExecuted, Progress, OnlyAfter
<1>5. Doomed => Doomed'
  BY <1>3 DEF Doomed, InfoAt, LastExecuted, InfoRequest
<1>6. Asking => Asking'
  BY DEF Asking, InfoAt, LastExecuted, InfoRequest, NewClient
<1>7. Opening => Opening'
  BY <1>3 DEF Opening, InfoAt, LastExecuted, OnlyAfter, InfoRequest
<1>8. PlaceInv => PlaceInv'
  BY <1>4, <1>5, <1>6, <1>7 DEF PlaceInv
<1>9. OwnInv => OwnInv'
  BY <1>3, <1>4 DEF OwnInv, InfoAt, LastExecuted, OnlyAfter, Opens, InfoRequest
<1> QED
  BY <1>1, <1>2, <1>8, <1>9 DEF RunInv

\* Whether the pedal has power matters to no run.
LEMMA UnplugKeeps ==
    ASSUME EngineInv, UploadTypeOK, PedalInv, RunInv, Unplug
    PROVE  EngineInv' /\ PedalInv' /\ RunInv'
<1>1. /\ UNCHANGED <<flash, durable, boot, active, session, expected, next, size, target,
                     phase, full, erased, digest, previous, sent, updates>>
      /\ UNCHANGED <<goal, step, tries, waiting, client, outcome, reason>>
      /\ UNCHANGED <<requests, responses, lost, late, runs>>
      /\ on' = FALSE
  BY DEF Unplug, sessionVars, progressVars, hostVars, queueVars, countVars
<1>2. EngineInv'
  <2>1. TypeOK'
    BY <1>1 DEF EngineInv, TypeOK
  <2>2. SessionInv' /\ ErasedIsEmpty' /\ JournalFollows'
    BY <1>1 DEF EngineInv, SessionInv, ErasedIsEmpty, JournalFollows
  <2>3. AcknowledgedIsStored' /\ EraseProgressIsReal'
    BY <1>1 DEF EngineInv, AcknowledgedIsStored, EraseProgressIsReal, Base
  <2>4. FinalizedIsVerified' /\ PendingIsDurable' /\ ReplayedInfoIsCurrent'
    BY <1>1 DEF EngineInv, FinalizedIsVerified, Verified, HoldsImage, PendingIsDurable,
                ReplayedInfoIsCurrent, Info
  <2> QED
    BY <2>1, <2>2, <2>3, <2>4 DEF EngineInv
<1>3. PedalInv'
  <2>1. CacheInv'
    BY <1>1 DEF PedalInv, CacheInv, OpenedBy
  <2>2. SelectionInv' /\ QueueInv'
    BY <1>1 DEF PedalInv, SelectionInv, QueueInv, ResponseInv, Opens, Informs
  <2> QED
    BY <2>1, <2>2 DEF PedalInv
<1>4. RunInv'
  BY <1>1, RunStays
<1> QED
  BY <1>2, <1>3, <1>4

\* A run that is at REBOOT has done all before it: what it was asked for is
\* in flash, and the journal names the slot of an upload.
LEMMA RebootIsReached ==
    ASSUME EngineInv, UploadTypeOK, FlagsInv, PlaceInv, Script[step].command = "reboot"
    PROVE  IF goal.plan = "upload"
           THEN /\ durable # NoState
                /\ durable.pending = client.flags
                /\ \A k \in 1 .. Len(goal.of) : flash[SlotBase(client.flags) + k - 1] = goal.of[k]
           ELSE flash = WholeChip[goal.of]
<1>1. goal \in Goals /\ step \in 1 .. Len(Script) /\ goal.plan \in {"upload", "restore"}
  BY GoalKinds DEF UploadTypeOK
<1>2. /\ Len(Script) \in Nat /\ 6 <= Len(Script)
      /\ Len(Script) = Prologue + Count + (IF goal.plan = "upload" THEN 3 ELSE 2)
      /\ Prologue \in Nat /\ Prologue >= 3 /\ Count \in Nat \ {0}
  BY <1>1, Scripts, ScriptIsLong, GoalKinds
<1>3. step = Len(Script)
  <2>1. Script[1].command = "get_info" /\ Script[2].command \in BeginCommands
    BY <1>1, Scripts DEF Plain, Op, BeginCommands
  <2>2. step # 1 /\ step # 2
    BY <2>1 DEF BeginCommands
  <2>3. step \in 3 .. Len(Script)
    BY <1>1, <1>2, <2>2
  <2> QED
    BY <1>1, <2>3, SessionSteps
<1>4. Live
  <2>1. step >= 3 /\ step # 3
    BY <1>2, <1>3
  <2> QED
    BY <2>1 DEF PlaceInv, Doomed
<1>5. PICK k \in {step - 1, step} : Progress(k)
  BY <1>4 DEF Live
<1>6. /\ k \in Nat /\ k > Prologue + Count
      /\ goal.plan = "upload" => k > Prologue + Count + 1
      /\ k > Prologue /\ ~(k <= Prologue + Count) /\ k >= Prologue
  BY <1>2, <1>3, <1>5
<1>7. /\ phase = IF goal.plan = "upload" THEN "pending" ELSE "finalized"
      /\ next = Count /\ Len(sent) = next
      /\ \A j \in 1 .. next : sent[j] = Cell(j)
  <2>1. /\ ~(k < Prologue) /\ ~(k = Prologue) /\ ~(k <= Prologue)
        /\ ~(k > Prologue /\ k <= Prologue + Count)
    BY <1>2, <1>6
  <2>2. phase = IF goal.plan = "upload" /\ k > Prologue + Count + 1 THEN "pending" ELSE "finalized"
    BY <1>5, <1>6, <2>1 DEF Progress
  <2>3. next = Count
    BY <1>5, <1>6, <2>1 DEF Progress
  <2>4. Len(sent) = next /\ \A j \in 1 .. next : sent[j] = Cell(j)
    BY <1>5, <1>6 DEF Progress
  <2> QED
    BY <1>6, <2>2, <2>3, <2>4
<1>8. ASSUME goal.plan = "upload"
      PROVE  /\ durable # NoState
             /\ durable.pending = client.flags
             /\ \A i \in 1 .. Len(goal.of) : flash[SlotBase(client.flags) + i - 1] = goal.of[i]
  <2>1. full = FALSE /\ target = client.flags /\ phase = "pending"
    BY <1>4, <1>7, <1>8 DEF Live
  <2>2. durable = boot /\ boot.pending = target
    BY <2>1 DEF EngineInv, PendingIsDurable
  <2>3. boot \in States /\ durable # NoState
    BY <2>2, FieldTypes, Bounds DEF EngineInv
  <2>4. \A i \in 1 .. next : flash[SlotBase(target) + i - 1] = sent[i]
    BY <2>1 DEF EngineInv, AcknowledgedIsStored, Base
  <2>5. Count = Len(goal.of) /\ \A i : Cell(i) = goal.of[i]
    BY <1>8 DEF Count, Cell
  <2> QED
    BY <1>7, <2>1, <2>2, <2>3, <2>4, <2>5
<1>9. ASSUME goal.plan = "restore" PROVE flash = WholeChip[goal.of]
  <2>1. full = TRUE /\ digest = goal.of /\ phase = "finalized"
    BY <1>4, <1>7, <1>9 DEF Live
  <2> QED
    BY <2>1 DEF EngineInv, FinalizedIsVerified, Verified
<1> QED
  BY <1>1, <1>8, <1>9

\* Without its pedal a run ends, and at REBOOT it ends well.
LEMMA DisconnectedSucceeds ==
    ASSUME EngineInv, UploadTypeOK, RunInv, Disconnected
    PROVE  SuccessInv' /\ RunInv'
<1>1. /\ outcome = "running"
      /\ UNCHANGED vars
      /\ UNCHANGED <<goal, step, tries, waiting, client, requests, responses, lost, late, runs>>
      /\ outcome' \in {"done", "failed"}
      /\ outcome' = "done" => Script[step].command = "reboot"
  BY DEF Disconnected, Rebooted, Fail, queueVars, countVars
<1>2. Script' = Script
  BY <1>1 DEF Script
<1>3. RunInv'
  <2>1. CASE outcome' = "failed"
    BY <2>1 DEF RunInv
  <2>2. CASE outcome' = "done"
    <3>1. Attempts
      BY <1>1 DEF Attempts
    <3> QED
      BY <1>1, <3>1, AttemptKeepsRun
  <2> QED
    BY <1>1, <2>1, <2>2
<1> QED
  BY <1>1, <1>2, <1>3 DEF SuccessInv

\* What an attempt changes: it goes on with the same request or gives up.
LEMMA AttemptIs ==
    ASSUME UploadTypeOK, Send \/ SendFails \/ TimesOut \/ TimesOutEarly
    PROVE  /\ outcome = "running"
           /\ UNCHANGED <<vars, goal, step, client, responses, runs>>
           /\ requests' \in {requests, Append(requests, Request)}
           /\ tries' \in 0 .. Retries /\ waiting' \in BOOLEAN
           /\ lost' \in Nat /\ late' \in Nat /\ (late' = 0 => late = 0)
           /\ \/ /\ outcome' \in {"running", "done"} /\ reason' = reason /\ Attempts
                 /\ outcome' = "done" => Script[step].command = "reboot"
              \/ outcome' = "failed" /\ reason' = "timeout"
<1>1. /\ Retries \in Nat /\ tries \in 0 .. Retries /\ waiting \in BOOLEAN
      /\ lost \in Nat /\ late \in Nat
  BY RecoveryUploadAssumption DEF UploadTypeOK
<1>2. ASSUME NextAttempt("timeout")
      PROVE  /\ UNCHANGED <<goal, step, client>>
             /\ tries' \in 0 .. Retries /\ waiting' \in BOOLEAN
             /\ \/ outcome' = outcome /\ reason' = reason /\ waiting' = FALSE
                \/ outcome' = "failed" /\ reason' = "timeout"
  <2>1. CASE tries = Retries
    BY <1>1, <1>2, <2>1 DEF NextAttempt, Fail
  <2>2. CASE tries # Retries
    <3>1. tries + 1 \in 0 .. Retries
      BY <1>1, <2>2
    <3> QED
      BY <1>2, <2>2, <3>1 DEF NextAttempt
  <2> QED
    BY <2>1, <2>2
<1>3. CASE Send
  BY <1>1, <1>3 DEF Send, Attempts, countVars
<1>4. CASE SendFails
  <2>1. /\ outcome = "running" /\ UNCHANGED <<vars, responses, runs>>
        /\ NextAttempt("timeout") \/ Rebooted
        /\ \/ lost' = lost + 1 /\ requests' = requests /\ late' = late
           \/ late' = late + 1 /\ requests' = Append(requests, Request) /\ lost' = lost
    BY <1>4 DEF SendFails
  <2>2. lost' \in Nat /\ late' \in Nat /\ (late' = 0 => late = 0)
    BY <1>1, <2>1
  <2>3. CASE NextAttempt("timeout")
    <3>1. /\ UNCHANGED <<goal, step, client>>
          /\ tries' \in 0 .. Retries /\ waiting' \in BOOLEAN
          /\ \/ outcome' = outcome /\ reason' = reason /\ waiting' = FALSE
             \/ outcome' = "failed" /\ reason' = "timeout"
      BY <1>2, <2>3
    <3> QED
      BY <2>1, <2>2, <3>1 DEF Attempts
  <2>4. CASE Rebooted
    <3>1. /\ UNCHANGED <<goal, step, tries, waiting, client, reason>>
          /\ outcome' = "done" /\ Script[step].command = "reboot"
      BY <2>4 DEF Rebooted
    <3> QED
      BY <1>1, <2>1, <2>2, <3>1 DEF Attempts
  <2> QED
    BY <2>1, <2>3, <2>4
<1>5. CASE TimesOut
  <2>1. /\ outcome = "running" /\ NextAttempt("timeout")
        /\ UNCHANGED <<vars, requests, responses, lost, late, runs>>
    BY <1>5 DEF TimesOut, queueVars, countVars
  <2> QED
    BY <1>1, <1>2, <2>1 DEF Attempts
<1>6. CASE TimesOutEarly
  <2>1. /\ outcome = "running" /\ NextAttempt("timeout")
        /\ UNCHANGED <<vars, requests, responses, lost, runs>> /\ late' = late + 1
    BY <1>6 DEF TimesOutEarly, queueVars
  <2>2. lost' \in Nat /\ late' \in Nat /\ (late' = 0 => late = 0)
    BY <1>1, <2>1
  <2>3. /\ UNCHANGED <<goal, step, client>>
        /\ tries' \in 0 .. Retries /\ waiting' \in BOOLEAN
        /\ \/ outcome' = outcome /\ reason' = reason /\ waiting' = FALSE
           \/ outcome' = "failed" /\ reason' = "timeout"
    BY <1>2, <2>1
  <2> QED
    BY <2>1, <2>2, <2>3 DEF Attempts
<1> QED
  BY <1>3, <1>4, <1>5, <1>6

\* The request that is sent belongs to no session that is still to come.
LEMMA RequestIsSent ==
    ASSUME UploadTypeOK, RunInv, outcome = "running"
    PROVE  /\ Request \in Packets
           /\ Request.command \in SessionCommands => Request.session \in 0 .. session
<1>1. /\ client.session \in Nat /\ client.session <= session
      /\ step = 1 \/ step = 2 \/ step >= 3
  <2>1. goal \in Goals /\ step \in 1 .. Len(Script) /\ client.session \in Nat
        /\ client.session <= session
    BY DEF UploadTypeOK
  <2>2. Len(Script) \in Nat
    BY <2>1, ScriptIsLong
  <2> QED
    BY <2>1, <2>2
<1>2. FlagsInv /\ PlaceInv
  BY DEF RunInv
<1> QED
  BY <1>1, <1>2, RequestIs

\* An action that leaves the pedal alone leaves what is true of it.
LEMMA HostKeepsPedal ==
    ASSUME EngineInv, PedalInv, UNCHANGED vars, QueueInv'
    PROVE  EngineInv' /\ PedalInv'
<1>1. EngineInv'
  BY NextKeeps
<1>2. CacheInv'
  BY DEF PedalInv, CacheInv, OpenedBy, vars, sessionVars, progressVars, journalVars
<1>3. SelectionInv'
  BY DEF PedalInv, SelectionInv, vars, journalVars
<1> QED
  BY <1>1, <1>2, <1>3 DEF PedalInv

\* An attempt adds a report that belongs to a session that exists.
LEMMA AttemptKeepsTypes ==
    ASSUME EngineInv, UploadTypeOK, PedalInv, RunInv, Send \/ SendFails \/ TimesOut \/ TimesOutEarly
    PROVE  EngineInv' /\ UploadTypeOK' /\ PedalInv'
<1>1. /\ outcome = "running"
      /\ UNCHANGED <<vars, goal, step, client, responses, runs>>
      /\ requests' \in {requests, Append(requests, Request)}
      /\ tries' \in 0 .. Retries /\ waiting' \in BOOLEAN
      /\ lost' \in Nat /\ late' \in Nat /\ outcome' \in {"running", "done", "failed"}
  BY AttemptIs
<1>2. /\ Request \in Packets
      /\ Request.command \in SessionCommands => Request.session \in 0 .. session
  BY <1>1, RequestIsSent
<1>3. session' = session /\ UNCHANGED vars /\ Script' = Script
  BY <1>1 DEF vars, Script
<1>4. requests \in Seq(Packets)
  BY DEF UploadTypeOK
<1>5. /\ requests' \in Seq(Packets)
      /\ \A i \in DOMAIN requests' :
            requests'[i] = Request \/ (i \in DOMAIN requests /\ requests'[i] = requests[i])
  <2>1. CASE requests' = requests
    BY <1>4, <2>1
  <2>2. CASE requests' = Append(requests, Request)
    <3>1. /\ Len(requests) \in Nat /\ DOMAIN requests = 1 .. Len(requests)
          /\ requests' \in Seq(Packets) /\ DOMAIN requests' = 1 .. Len(requests) + 1
          /\ \A i \in 1 .. Len(requests) : requests'[i] = requests[i]
          /\ requests'[Len(requests) + 1] = Request
      BY <1>2, <1>4, <2>2, AppendFacts
    <3>2. PICK n \in Nat : n = Len(requests)
      BY <3>1
    <3>3. ASSUME NEW i \in DOMAIN requests'
          PROVE  requests'[i] = Request \/ (i \in DOMAIN requests /\ requests'[i] = requests[i])
      <4>1. i \in 1 .. n + 1
        BY <3>1, <3>2, <3>3
      <4>2. i \in 1 .. n \/ i = n + 1
        BY <4>1
      <4>3. DOMAIN requests = 1 .. n /\ requests'[n + 1] = Request
        BY <3>1, <3>2
      <4>4. CASE i \in 1 .. n
        <5>1. requests'[i] = requests[i]
          BY <3>1, <3>2, <4>4
        <5>2. i \in DOMAIN requests
          BY <4>3, <4>4
        <5> QED
          BY <5>1, <5>2
      <4>5. CASE i = n + 1
        BY <4>3, <4>5
      <4> QED
        BY <4>2, <4>4, <4>5
    <3> QED
      BY <3>1, <3>3
  <2> QED
    BY <1>1, <2>1, <2>2
<1>6. UploadTypeOK'
  BY <1>1, <1>3, <1>5 DEF UploadTypeOK
<1>7. QueueInv'
  <2>1. \A i \in DOMAIN requests' :
           requests'[i].command \in SessionCommands => requests'[i].session \in 0 .. session'
    BY <1>2, <1>3, <1>5 DEF PedalInv, QueueInv
  <2>2. \A b : ResponseInv(b) => ResponseInv(b)'
    BY <1>3 DEF ResponseInv, vars, journalVars
  <2>3. responses' = responses
    BY <1>1
  <2>4. \A i \in DOMAIN responses : ResponseInv(responses[i])'
    <3> SUFFICES ASSUME NEW i \in DOMAIN responses PROVE ResponseInv(responses[i])'
      OBVIOUS
    <3>1. ResponseInv(responses[i])
      BY DEF PedalInv, QueueInv
    <3> QED
      BY <1>3, <2>3, <3>1 DEF ResponseInv, Opens, Informs, vars, journalVars
  <2> QED
    BY <2>1, <2>3, <2>4 DEF QueueInv
<1> QED
  BY <1>3, <1>6, <1>7, HostKeepsPedal

\* Attempts and losses: where no answer comes too late, a run gives up after
\* one more report is lost than it has retries.
LEMMA AttemptKeepsPrompt ==
    ASSUME UploadTypeOK, PromptInv, Request \in Packets,
           Send \/ SendFails \/ TimesOut \/ TimesOutEarly
    PROVE  PromptInv'
<1>1. /\ outcome = "running" /\ on' = on /\ on
      /\ UNCHANGED <<goal, step, client, responses>>
      /\ late' \in Nat /\ (late' = 0 => late = 0)
  <2>1. UNCHANGED vars => on' = on
    BY DEF vars
  <2>2. on
    BY DEF Send, SendFails, TimesOut, TimesOutEarly
  <2> QED
    BY <2>1, <2>2, AttemptIs
<1>2. SUFFICES ASSUME late' = 0 PROVE PromptInv'
  BY DEF PromptInv
<1>3. PICK m \in Nat : m = Len(requests)
  BY DEF UploadTypeOK
<1>4. PICK n \in Nat : n = Len(responses)
  BY DEF UploadTypeOK
<1>5. PICK y : y = Request
  OBVIOUS
<1>6. /\ reason # "mismatch"
      /\ m + n <= IF waiting THEN 1 ELSE 0
      /\ \A i \in DOMAIN requests : requests[i] = y
      /\ \A i \in DOMAIN responses : Matches(responses[i], y)
      /\ lost >= tries
      /\ waiting /\ requests = << >> /\ responses = << >> => lost > tries
      /\ reason = "timeout" => lost > Retries
  BY <1>1, <1>2, <1>3, <1>4, <1>5 DEF PromptInv
<1>7. Request' = y
  BY <1>1, <1>5 DEF Request, Script
<1>8. \A i \in DOMAIN responses' : Matches(responses'[i], y)
  BY <1>1, <1>6
<1>9. /\ Retries \in Nat /\ tries \in 0 .. Retries /\ lost \in Nat /\ late \in Nat
      /\ requests \in Seq(Packets) /\ responses \in Seq(Responses)
  BY RecoveryUploadAssumption DEF UploadTypeOK
<1>10. CASE Send
  <2>1. /\ requests' = Append(requests, y) /\ waiting' = TRUE /\ outcome' = outcome
        /\ reason' = reason /\ tries' = tries /\ lost' = lost /\ ~waiting
    BY <1>5, <1>10 DEF Send, countVars
  <2>2. m = 0 /\ n = 0
    BY <1>6, <2>1
  <2>3. Len(requests') = 1 /\ requests'[1] = y /\ DOMAIN requests' = 1 .. 1 /\ requests' # << >>
    <3>1. /\ Len(requests') = Len(requests) + 1 /\ DOMAIN requests' = 1 .. Len(requests) + 1
          /\ requests'[Len(requests) + 1] = y
      BY <1>5, <1>9, <2>1, AppendFacts
    <3>2. Len(requests) = 0
      BY <1>3, <2>2
    <3> QED
      BY <3>1, <3>2
  <2>4. Len(requests') + Len(responses') <= 1
    BY <1>1, <1>4, <2>2, <2>3
  <2>5. \A i \in DOMAIN requests' : requests'[i] = Request'
    BY <1>7, <2>3
  <2>6. \A i \in DOMAIN responses' : Matches(responses[i], Request)'
    BY <1>7, <1>8 DEF Matches
  <2> QED
    BY <1>1, <1>6, <2>1, <2>3, <2>4, <2>5, <2>6 DEF PromptInv
<1>11. ASSUME requests' = requests, m = 0, n = 0, lost' > tries, lost' >= lost, lost' \in Nat,
              NextAttempt("timeout")
       PROVE  PromptInv'
  <2>1. requests = << >> /\ responses = << >>
    <3>1. \A S : \A q \in Seq(S) : Len(q) = 0 => q = << >>
      OBVIOUS
    <3>2. Len(requests) = 0 /\ Len(responses) = 0
      BY <1>3, <1>4, <1>11
    <3> QED
      BY <1>9, <3>1, <3>2
  <2>2. CASE tries = Retries
    <3>1. outcome' = "failed" /\ reason' = "timeout" /\ lost' > Retries
      BY <1>11, <2>2 DEF NextAttempt, Fail
    <3> QED
      BY <1>11, <2>1, <3>1 DEF PromptInv
  <2>3. CASE tries # Retries
    <3>1. tries' = tries + 1 /\ waiting' = FALSE /\ outcome' = outcome /\ reason' = reason
      BY <1>11, <2>3 DEF NextAttempt
    <3>2. reason # "timeout" \/ lost' > Retries
      BY <1>6, <1>9, <1>11
    <3>3. lost' >= tries'
      BY <1>9, <1>11, <3>1, AttemptIs
    <3>4. Len(requests') + Len(responses') <= 0 /\ DOMAIN requests' = {} /\ DOMAIN responses' = {}
      BY <1>1, <1>3, <1>4, <1>11, <2>1
    <3> QED
      BY <1>1, <1>6, <1>11, <3>1, <3>2, <3>3, <3>4 DEF PromptInv
  <2> QED
    BY <2>2, <2>3
<1>12. CASE SendFails
  <2>1. late' = late \/ late' = late + 1
    BY <1>12 DEF SendFails
  <2>2. /\ lost' = lost + 1 /\ requests' = requests /\ ~waiting
        /\ NextAttempt("timeout") \/ Rebooted
    BY <1>2, <1>9, <1>12 DEF SendFails
  <2>3. m = 0 /\ n = 0 /\ lost' > tries
    BY <1>6, <1>9, <2>2
  <2>4. lost' >= lost /\ lost' \in Nat
    BY <1>9, <2>2
  <2>5. CASE Rebooted
    <3>1. requests' = << >>
      <4>1. \A S : \A q \in Seq(S) : Len(q) = 0 => q = << >>
        OBVIOUS
      <4> QED
        BY <1>3, <1>9, <2>2, <2>3, <4>1
    <3>2. outcome' = "done" /\ reason' = reason
      BY <2>5 DEF Rebooted
    <3>3. reason' = "timeout" => lost' > Retries
      BY <1>6, <1>9, <2>2, <3>2
    <3> QED
      BY <1>6, <3>1, <3>2, <3>3 DEF PromptInv
  <2> QED
    BY <1>11, <2>2, <2>3, <2>4, <2>5
<1>13. CASE TimesOut
  <2>1. /\ waiting /\ requests = << >> /\ responses = << >> /\ NextAttempt("timeout")
        /\ requests' = requests /\ lost' = lost
    BY <1>13 DEF TimesOut, queueVars, countVars
  <2>2. m = 0 /\ n = 0 /\ lost' > tries
    BY <1>3, <1>4, <1>6, <2>1
  <2>3. lost' >= lost /\ lost' \in Nat
    BY <1>9, <2>1
  <2> QED
    BY <1>11, <2>1, <2>2, <2>3
<1>14. CASE TimesOutEarly
  BY <1>2, <1>9, <1>14 DEF TimesOutEarly
<1> QED
  BY <1>10, <1>12, <1>13, <1>14

\* Taking an answer leaves every variable of the host in its type.
LEMMA ReceiveKeepsTypes ==
    ASSUME EngineInv, UploadTypeOK, PedalInv, RunInv, Receive
    PROVE  EngineInv' /\ UploadTypeOK' /\ PedalInv'
<1>1. PICK a : /\ Taken(a)
               /\ \/ \E why : Fail(why)
                  \/ Matches(a, Request) /\ a.status = "ok" /\ ~Refuses(a) /\ Advance(a)
  BY ReceiveIs
<1>2. /\ UNCHANGED vars /\ session' = session /\ requests' = requests
      /\ UNCHANGED <<lost, late, runs>>
      /\ responses' \in Seq(Responses)
      /\ a \in Responses /\ ResponseInv(a)
      /\ \A i \in DOMAIN responses' : responses'[i] = responses[i + 1] /\ i + 1 \in DOMAIN responses
  BY <1>1 DEF Taken, vars, countVars, PedalInv, QueueInv
<1>3. /\ goal \in Goals /\ step \in 1 .. Len(Script) /\ tries \in 0 .. Retries
      /\ client \in [flags : Slots \cup {Full}, session : Nat, sequence : Nat]
      /\ client.session <= session /\ session \in Nat /\ Retries \in Nat
      /\ waiting \in BOOLEAN /\ Len(Script) \in Nat
  <2>1. goal \in Goals
    BY DEF UploadTypeOK
  <2> QED
    BY <2>1, ScriptIsLong, FieldTypes, RecoveryUploadAssumption DEF UploadTypeOK, EngineInv
<1>4. UploadTypeOK'
  <2>1. CASE \E why : Fail(why)
    <3>1. UNCHANGED <<goal, step, tries, waiting, client>> /\ outcome' = "failed"
      BY <2>1 DEF Fail
    <3>2. Script' = Script
      BY <3>1 DEF Script
    <3> QED
      BY <1>2, <3>1, <3>2 DEF UploadTypeOK
  <2>2. CASE Matches(a, Request) /\ a.status = "ok" /\ ~Refuses(a) /\ Advance(a)
    <3>1. step # Len(Script)
      BY <1>1, <2>2, AdvanceKeepsRun
    <3>2. step' = step + 1 /\ outcome' = outcome /\ goal' = goal /\ tries' = 0 /\ waiting' = FALSE
      BY <2>2, <3>1 DEF Advance
    <3>3. Script' = Script
      BY <3>2 DEF Script
    <3>4. step' \in 1 .. Len(Script')
      BY <1>3, <3>1, <3>2, <3>3
    <3>5. /\ client' \in [flags : Slots \cup {Full}, session : Nat, sequence : Nat]
          /\ client'.session <= session
      <4>1. client' = ClientAfter(a)
        BY <2>2 DEF Advance
      <4>2. CASE a.command = "get_info"
        <5>1. TargetOf(a.data) \in Slots
          BY DEF TargetOf, Slots
        <5> QED
          BY <1>3, <4>1, <4>2, <5>1 DEF ClientAfter
      <4>3. CASE a.command \in {"begin", "begin_full"}
        <5>1. a.session \in 0 .. session
          BY <1>2, <2>2, <4>3 DEF ResponseInv, Opens, BeginCommands
        <5>2. client' = [client EXCEPT !.session = a.session, !.sequence = 1]
          BY <4>1, <4>3 DEF ClientAfter
        <5>3. PICK s \in Nat : s = a.session /\ s <= session
          BY <1>3, <5>1
        <5>4. client' = [client EXCEPT !.session = s, !.sequence = 1]
          BY <5>2, <5>3
        <5>5. client'.session = s
          BY <1>3, <5>4
        <5>6. client' \in [flags : Slots \cup {Full}, session : Nat, sequence : Nat]
          BY <1>3, <5>3, <5>4
        <5> QED
          BY <5>3, <5>5, <5>6
      <4>4. CASE a.command \notin {"get_info", "begin", "begin_full"}
        <5>1. client' = [client EXCEPT !.sequence = client.sequence + 1]
          BY <4>1, <4>4 DEF ClientAfter
        <5> QED
          BY <1>3, <5>1
      <4> QED
        BY <4>2, <4>3, <4>4
    <3>6. 0 \in 0 .. Retries
      BY <1>3
    <3> QED
      BY <1>2, <3>2, <3>4, <3>5, <3>6 DEF UploadTypeOK
  <2> QED
    BY <1>1, <2>1, <2>2
<1>5. QueueInv'
  <2>1. \A i \in DOMAIN requests' :
           requests'[i].command \in SessionCommands => requests'[i].session \in 0 .. session'
    BY <1>2 DEF PedalInv, QueueInv
  <2>2. \A i \in DOMAIN responses' : ResponseInv(responses[i])'
    <3> SUFFICES ASSUME NEW i \in DOMAIN responses' PROVE ResponseInv(responses[i])'
      OBVIOUS
    <3>1. PICK j : j = i + 1
      OBVIOUS
    <3>2. ResponseInv(responses[j]) /\ responses'[i] = responses[j]
      BY <1>2, <3>1 DEF PedalInv, QueueInv
    <3> QED
      BY <1>2, <3>2 DEF ResponseInv, Opens, Informs, vars, journalVars
  <2> QED
    BY <2>1, <2>2 DEF QueueInv
<1> QED
  BY <1>2, <1>4, <1>5, HostKeepsPedal

\* Only an answer of an earlier run refuses a request of this one.
LEMMA ReceiveIsNotRefused ==
    ASSUME RunInv, UploadTypeOK, Receive, runs = 1 \/ late = 0, reason # "refused"
    PROVE  reason' # "refused"
<1>1. PICK a : /\ Taken(a)
               /\ \/ reason' \in {"mismatch", "protected"}
                  \/ reason' = a.status
                  \/ reason' = reason
  BY ReceiveIs DEF Fail, Advance
<1>2. a.status # "refused"
  BY <1>1 DEF Taken, RunInv, OwnInv
<1> QED
  BY <1>1, <1>2

\* Where no answer comes too late, the one that is taken is the right one.
LEMMA ReceiveKeepsPrompt ==
    ASSUME UploadTypeOK, PromptInv, Receive
    PROVE  PromptInv'
<1>1. PICK a : /\ Taken(a)
               /\ \/ ~Matches(a, Request) /\ Fail("mismatch")
                  \/ Matches(a, Request) /\ a.status # "ok" /\ Fail(a.status)
                  \/ Matches(a, Request) /\ Fail("protected")
                  \/ Matches(a, Request) /\ a.status = "ok" /\ ~Refuses(a) /\ Advance(a)
  BY ReceiveIs
<1>2. /\ outcome = "running" /\ waiting /\ 1 \in DOMAIN responses /\ a = responses[1]
      /\ a \in Responses /\ responses' \in Seq(Responses) /\ Len(responses') = Len(responses) - 1
      /\ late' = late /\ lost' = lost /\ on' = on /\ requests' = requests
  BY <1>1 DEF Taken, countVars, vars
<1>3. SUFFICES ASSUME late = 0 PROVE PromptInv'
  BY <1>2 DEF PromptInv
<1>4. PICK m \in Nat : m = Len(requests)
  BY DEF UploadTypeOK
<1>5. PICK n \in Nat : n = Len(responses) /\ 1 <= n
  BY <1>2 DEF UploadTypeOK
<1>6. /\ reason # "mismatch" /\ (reason = "timeout" => lost > Retries)
      /\ m + n <= 1 /\ Matches(a, Request)
  BY <1>2, <1>3, <1>4, <1>5 DEF PromptInv
<1>7. m = 0 /\ n = 1
  BY <1>5, <1>6
<1>8. \A S : \A q \in Seq(S) : Len(q) = 0 => q = << >>
  OBVIOUS
<1>9. requests' = << >> /\ responses' = << >>
  <2>1. Len(requests) = 0 /\ Len(responses') = 0 /\ requests \in Seq(Packets)
    BY <1>2, <1>4, <1>5, <1>7 DEF UploadTypeOK
  <2> QED
    BY <1>2, <1>8, <2>1
<1>10. ASSUME NEW why, Fail(why), why \notin {"mismatch", "timeout"} PROVE PromptInv'
  BY <1>9, <1>10 DEF PromptInv, Fail
<1>11. ASSUME Advance(a) PROVE PromptInv'
  <2>1. waiting' = FALSE /\ tries' = 0 /\ reason' = reason /\ outcome' # "failed"
    BY <1>2, <1>11 DEF Advance
  <2>2. lost' >= tries'
    BY <1>2, <2>1 DEF UploadTypeOK
  <2>3. Len(requests') + Len(responses') <= 0 /\ DOMAIN requests' = {} /\ DOMAIN responses' = {}
    BY <1>9
  <2> QED
    BY <1>2, <1>6, <2>1, <2>2, <2>3 DEF PromptInv
<1>12. a.status \notin {"mismatch", "timeout"}
  BY <1>2 DEF Responses, Statuses
<1> QED
  BY <1>1, <1>6, <1>10, <1>11, <1>12

\* The pedal's answer to the request of a run is the only message on its way,
\* or a report was lost.
LEMMA ServeKeepsPrompt ==
    ASSUME UploadTypeOK, PromptInv, NEW r, NEW status, NEW a, Served(r, status, a)
    PROVE  PromptInv'
<1>1. /\ on /\ requests # << >> /\ r = requests[1] /\ Matches(a, r)
      /\ lost' \in {lost, lost + 1} /\ (on' /\ responses' = responses => lost' = lost + 1)
      /\ UNCHANGED <<goal, step, tries, waiting, client, outcome, reason, late, runs>>
      /\ requests' \in Seq(Packets) /\ Len(requests') = Len(requests) - 1
      /\ responses' \in Seq(Responses)
  BY DEF Served, Answered, hostVars
<1>2. SUFFICES ASSUME late = 0 PROVE PromptInv'
  BY <1>1 DEF PromptInv
<1>3. /\ lost \in Nat /\ lost' \in Nat /\ lost' >= lost /\ tries \in Nat /\ Retries \in Nat
      /\ requests \in Seq(Packets) /\ responses \in Seq(Responses)
      /\ outcome \in {"running", "done", "failed"}
  BY <1>1, RecoveryUploadAssumption DEF UploadTypeOK
<1>4. /\ reason' # "mismatch"
      /\ reason' = "timeout" => lost' > Retries
  <2>1. reason # "mismatch" /\ (reason = "timeout" => lost > Retries)
    BY <1>2 DEF PromptInv
  <2> QED
    BY <1>1, <1>3, <2>1
<1>5. outcome = "running"
  BY <1>1, <1>2 DEF PromptInv
<1>6. ASSUME outcome = "running"
      PROVE  /\ Len(requests') + Len(responses') <= IF waiting' THEN 1 ELSE 0
             /\ \A i \in DOMAIN requests' : requests'[i] = Request'
             /\ \A i \in DOMAIN responses' : Matches(responses[i], Request)'
             /\ on' => lost' >= tries'
             /\ on' /\ waiting' /\ requests' = << >> /\ responses' = << >> => lost' > tries'
  <2>1. PICK m \in Nat : m = Len(requests)
    BY <1>3
  <2>2. PICK n \in Nat : n = Len(responses)
    BY <1>3
  <2>3. PICK y : y = Request
    OBVIOUS
  <2>4. Request' = y
    BY <1>1, <2>3 DEF Request, Script
  <2>5. /\ m + n <= IF waiting THEN 1 ELSE 0
        /\ \A i \in DOMAIN requests : requests[i] = y
        /\ lost >= tries
    BY <1>1, <1>2, <1>6, <2>1, <2>2, <2>3 DEF PromptInv
  <2>6. m # 0
    <3>1. \A S : \A q \in Seq(S) : Len(q) = 0 => q = << >>
      OBVIOUS
    <3> QED
      BY <1>1, <1>3, <2>1, <3>1
  <2>7. m = 1 /\ n = 0 /\ waiting
    BY <2>1, <2>2, <2>5, <2>6
  <2>8. r = y
    <3>1. 1 \in DOMAIN requests
      <4>1. DOMAIN requests = 1 .. Len(requests)
        BY <1>3
      <4>2. DOMAIN requests = 1 .. 1
        BY <2>1, <2>7, <4>1
      <4> QED
        BY <4>2
    <3> QED
      BY <1>1, <2>5, <3>1
  <2>9. Len(requests') = 0 /\ DOMAIN requests' = {}
    <3>1. Len(requests') = 0
      BY <1>1, <2>1, <2>7
    <3>2. DOMAIN requests' = 1 .. Len(requests')
      BY <1>1
    <3> QED
      BY <3>1, <3>2
  <2>10. /\ Len(responses') \in 0 .. 1
         /\ \A i \in DOMAIN responses' : responses'[i] = a
    <3>1. CASE responses' = responses
      <4>1. Len(responses') = 0 /\ DOMAIN responses' = 1 .. Len(responses')
        <5>1. Len(responses) = 0
          BY <2>2, <2>7
        <5>2. Len(responses') = 0
          BY <3>1, <5>1
        <5>3. DOMAIN responses' = 1 .. Len(responses')
          BY <1>1
        <5> QED
          BY <5>2, <5>3
      <4> QED
        BY <4>1
    <3>2. CASE responses' # responses
      <4>1. Len(responses') = Len(responses) + 1 /\ responses'[Len(responses) + 1] = a
        BY <3>2 DEF Served
      <4>2. Len(responses') = 1 /\ responses'[1] = a
        <5>1. Len(responses) = 0
          BY <2>2, <2>7
        <5>2. Len(responses) + 1 = 1
          BY <5>1
        <5> QED
          BY <4>1, <5>2
      <4>3. DOMAIN responses' = 1 .. Len(responses')
        BY <1>1
      <4> QED
        BY <4>2, <4>3
    <3> QED
      BY <3>1, <3>2
  <2>11. Len(requests') + Len(responses') <= IF waiting' THEN 1 ELSE 0
    <3>1. waiting' = TRUE
      BY <1>1, <1>3, <2>7 DEF UploadTypeOK
    <3> QED
      <4>1. PICK k \in 0 .. 1 : k = Len(responses')
        BY <2>10
      <4>2. Len(requests') + Len(responses') = k
        BY <2>9, <4>1
      <4> QED
        BY <3>1, <4>1, <4>2
  <2>12. \A i \in DOMAIN responses' : Matches(responses[i], Request)'
    BY <1>1, <2>4, <2>8, <2>10 DEF Matches
  <2>13. ASSUME responses' = << >>, on' PROVE lost' > tries'
    <3>1. responses = << >>
      <4>1. \A S : \A q \in Seq(S) : Len(q) = 0 => q = << >>
        OBVIOUS
      <4> QED
        BY <1>3, <2>2, <2>7, <4>1
    <3> QED
      BY <1>1, <1>3, <2>5, <2>13, <3>1
  <2> QED
    BY <1>1, <1>3, <2>5, <2>9, <2>11, <2>12, <2>13
<1> QED
  BY <1>1, <1>4, <1>5, <1>6 DEF PromptInv

\* A session number of the host is one that the pedal gave.
LEMMA ServeKeepsTypes ==
    ASSUME EngineInv, UploadTypeOK, NEW r, NEW status, NEW a, Served(r, status, a)
    PROVE  UploadTypeOK'
<1>1. /\ UNCHANGED <<goal, step, tries, waiting, client, outcome, reason, late, runs>>
      /\ requests' \in Seq(Packets) /\ responses' \in Seq(Responses)
      /\ lost' \in {lost, lost + 1}
      /\ session' = session \/ session' = session + 1
  BY DEF Served, Answered, hostVars
<1>2. Script' = Script
  BY <1>1 DEF Script
<1>3. lost' \in Nat /\ client.session <= session'
  <2>1. lost \in Nat /\ client.session \in Nat /\ client.session <= session /\ session \in Nat
    BY FieldTypes DEF UploadTypeOK, EngineInv
  <2> QED
    BY <1>1, <2>1
<1> QED
  BY <1>1, <1>2, <1>3 DEF UploadTypeOK

\* A run that starts anew finds what was sent to the pedal and nothing else.
LEMMA RunAgainKeeps ==
    ASSUME EngineInv, UploadTypeOK, PedalInv, PromptInv, RunAgain
    PROVE  EngineInv' /\ UploadTypeOK' /\ PedalInv' /\ PromptInv'
<1>1. /\ outcome # "running" /\ on /\ on' = on
      /\ UNCHANGED vars /\ session' = session
      /\ UNCHANGED <<requests, lost, late>>
      /\ runs' = runs + 1 /\ goal' \in Goals /\ step' = 1 /\ tries' = 0 /\ waiting' = FALSE
      /\ client' = NewClient /\ outcome' = "running" /\ reason' = "none"
      /\ responses' = << >> /\ DOMAIN responses' = {}
  BY DEF RunAgain, vars
<1>2. QueueInv'
  BY <1>1 DEF PedalInv, QueueInv
<1>3. EngineInv' /\ PedalInv'
  BY <1>1, <1>2, HostKeepsPedal
<1>4. UploadTypeOK'
  <2>1. step' \in 1 .. Len(Script')
    BY <1>1, NextScriptIsLong
  <2>2. /\ client' \in [flags : Slots \cup {Full}, session : Nat, sequence : Nat]
        /\ client'.session = 0
    BY <1>1 DEF NewClient, Slots
  <2>3. tries' \in 0 .. Retries /\ session' \in Nat /\ runs' \in Nat \ {0}
    BY <1>1, RecoveryUploadAssumption, FieldTypes DEF UploadTypeOK, EngineInv
  <2>4. 0 <= session'
    BY <2>3
  <2>5. responses' \in Seq(Responses)
    BY <1>1
  <2> QED
    BY <1>1, <2>1, <2>2, <2>3, <2>4, <2>5 DEF UploadTypeOK
<1>5. PromptInv'
  <2>1. SUFFICES ASSUME late = 0 PROVE PromptInv'
    BY <1>1 DEF PromptInv
  <2>2. requests' = << >> /\ Len(requests') + Len(responses') <= 0 /\ DOMAIN requests' = {}
    BY <1>1, <2>1 DEF PromptInv
  <2>3. lost' >= tries'
    BY <1>1 DEF UploadTypeOK
  <2> QED
    BY <1>1, <2>2, <2>3 DEF PromptInv
<1> QED
  BY <1>3, <1>4, <1>5

\* Without power there is no more to wait for.
LEMMA DisconnectedKeeps ==
    ASSUME EngineInv, UploadTypeOK, PedalInv, PromptInv, Disconnected
    PROVE  EngineInv' /\ UploadTypeOK' /\ PedalInv' /\ PromptInv'
<1>1. /\ outcome = "running" /\ ~on /\ on' = on
      /\ UNCHANGED vars /\ session' = session
      /\ UNCHANGED <<requests, responses, lost, late, runs, goal, step, tries, waiting, client>>
      /\ outcome' \in {"done", "failed"}
      /\ reason' \in {reason, "gone"}
  BY DEF Disconnected, Rebooted, Fail, vars, queueVars, countVars
<1>2. QueueInv'
  <2>1. \A i \in DOMAIN responses' : ResponseInv(responses[i])'
    BY <1>1 DEF PedalInv, QueueInv, ResponseInv, Opens, Informs, vars, journalVars
  <2> QED
    BY <1>1, <2>1 DEF PedalInv, QueueInv
<1>3. EngineInv' /\ PedalInv'
  BY <1>1, <1>2, HostKeepsPedal
<1>4. UploadTypeOK'
  <2>1. Script' = Script
    BY <1>1 DEF Script
  <2> QED
    BY <1>1, <2>1 DEF UploadTypeOK
<1>5. PromptInv'
  BY <1>1 DEF PromptInv
<1> QED
  BY <1>3, <1>4, <1>5

\* Nothing that the host or the queues hold depends on power, but what it waits for.
LEMMA UnplugKeepsHost ==
    ASSUME UploadTypeOK, PromptInv, UNCHANGED <<session, hostVars, queueVars, countVars>>,
           on' => on
    PROVE  UploadTypeOK' /\ PromptInv'
<1>1. UNCHANGED <<goal, step, tries, waiting, client, outcome, reason, requests, responses,
                  lost, late, runs, session>>
  BY DEF hostVars, queueVars, countVars
<1>2. Script' = Script /\ Request' = Request
  BY <1>1 DEF Script, Request
<1>3. UploadTypeOK'
  BY <1>1, <1>2 DEF UploadTypeOK
<1>4. PromptInv'
  BY <1>1, <1>2 DEF PromptInv, Matches
<1> QED
  BY <1>3, <1>4

-----------------------------------------------------------------------------
(* pedalctl against the pedal: the theorems.                               *)

\* The first run starts with an engine that no one has spoken to.
LEMMA UploadInitHolds == UploadInit => UploadInv
<1> SUFFICES ASSUME UploadInit PROVE UploadInv
  OBVIOUS
<1>1. /\ Init /\ goal \in Goals /\ step = 1 /\ tries = 0 /\ waiting = FALSE /\ client = NewClient
      /\ outcome = "running" /\ reason = "none" /\ requests = << >> /\ responses = << >>
      /\ lost = 0 /\ late = 0 /\ runs = 1
      /\ DOMAIN requests = {} /\ DOMAIN responses = {}
      /\ previous = NoPrevious /\ session = 0 /\ active = SelectedSlot(boot)
  BY DEF UploadInit, Init
<1>2. EngineInv
  BY <1>1, InitHolds
<1>3. UploadTypeOK
  <2>1. step \in 1 .. Len(Script)
    BY <1>1, ScriptIsLong
  <2>2. client \in [flags : Slots \cup {Full}, session : Nat, sequence : Nat] /\ client.session = 0
    BY <1>1 DEF NewClient, Slots
  <2>3. 0 <= session /\ tries \in 0 .. Retries
    BY <1>1, RecoveryUploadAssumption
  <2>4. requests \in Seq(Packets) /\ responses \in Seq(Responses)
    BY <1>1
  <2>5. waiting \in BOOLEAN
    BY <1>1
  <2> QED
    BY <1>1, <2>1, <2>2, <2>3, <2>4, <2>5 DEF UploadTypeOK
<1>4. PedalInv
  BY <1>1 DEF PedalInv, CacheInv, SelectionInv, QueueInv
<1>5. RunInv
  <2>1. FreshInv /\ FlagsInv
    BY <1>1 DEF FreshInv, FlagsInv
  <2>2. PlaceInv
    BY <1>1 DEF PlaceInv, Asking
  <2>3. OwnInv
    BY <1>1 DEF OwnInv
  <2> QED
    BY <2>1, <2>2, <2>3 DEF RunInv
<1>6. SuccessInv
  BY <1>1 DEF SuccessInv
<1>7. PromptInv
  <2>1. Len(requests) + Len(responses) <= 0 /\ lost >= tries
    BY <1>1
  <2> QED
    BY <1>1, <2>1 DEF PromptInv
<1> QED
  BY <1>1, <1>2, <1>3, <1>4, <1>5, <1>6, <1>7 DEF UploadInv

\* One step of pedalctl, of the pedal or of the cable.
LEMMA UploadNextKeeps == UploadInv /\ [UploadNext]_uploadVars => UploadInv'
<1> SUFFICES ASSUME UploadInv, [UploadNext]_uploadVars PROVE UploadInv'
  OBVIOUS
<1>1. /\ EngineInv /\ UploadTypeOK /\ PedalInv /\ RunInv /\ SuccessInv /\ PromptInv
      /\ (runs = 1 \/ late = 0) => reason # "refused"
  BY DEF UploadInv
<1>2. ASSUME EngineInv', UploadTypeOK', PedalInv', RunInv', SuccessInv', PromptInv',
             (runs' = 1 \/ late' = 0) => reason' # "refused"
      PROVE  UploadInv'
  BY <1>2 DEF UploadInv
<1>3. CASE Send \/ SendFails \/ TimesOut \/ TimesOutEarly
  <2>1. /\ outcome = "running" /\ runs' = runs /\ (late' = 0 => late = 0)
        /\ goal' = goal /\ step' = step
        /\ \/ /\ outcome' \in {"running", "done"} /\ reason' = reason /\ Attempts
              /\ outcome' = "done" => Script[step].command = "reboot"
           \/ outcome' = "failed" /\ reason' = "timeout"
    BY <1>1, <1>3, AttemptIs
  <2>2. EngineInv' /\ UploadTypeOK' /\ PedalInv'
    BY <1>1, <1>3, AttemptKeepsTypes
  <2>3. RunInv'
    <3>1. CASE Attempts
      BY <1>1, <2>1, <3>1, AttemptKeepsRun
    <3>2. CASE outcome' = "failed"
      BY <3>2 DEF RunInv
    <3> QED
      BY <2>1, <3>1, <3>2
  <2>4. PromptInv'
    BY <1>1, <1>3, <2>1, RequestIsSent, AttemptKeepsPrompt
  <2>5. SuccessInv'
    BY <2>1 DEF SuccessInv, Script
  <2> QED
    BY <1>1, <1>2, <2>1, <2>2, <2>3, <2>4, <2>5
<1>4. CASE Receive
  <2>1. EngineInv' /\ UploadTypeOK' /\ PedalInv'
    BY <1>1, <1>4, ReceiveKeepsTypes
  <2>2. PromptInv'
    BY <1>1, <1>4, ReceiveKeepsPrompt
  <2>3. RunInv' /\ outcome' # "done"
    <3>1. PICK a : /\ Taken(a)
                   /\ \/ outcome' = "failed"
                      \/ Matches(a, Request) /\ a.status = "ok" /\ ~Refuses(a) /\ Advance(a)
      BY <1>1, <1>4, ReceiveIs DEF Fail
    <3>2. CASE outcome' = "failed"
      BY <3>2 DEF RunInv
    <3>3. CASE Matches(a, Request) /\ a.status = "ok" /\ ~Refuses(a) /\ Advance(a)
      <4>1. RunInv' /\ step # Len(Script)
        BY <1>1, <3>1, <3>3, AdvanceKeepsRun
      <4>2. outcome' = outcome /\ outcome = "running"
        BY <3>1, <3>3, <4>1 DEF Advance, Taken
      <4> QED
        BY <4>1, <4>2
    <3> QED
      BY <3>1, <3>2, <3>3
  <2>4. SuccessInv'
    BY <2>3 DEF SuccessInv
  <2>5. runs' = runs /\ late' = late
    BY <1>4 DEF Receive, countVars
  <2>6. (runs' = 1 \/ late' = 0) => reason' # "refused"
    BY <1>1, <1>4, <2>5, ReceiveIsNotRefused
  <2> QED
    BY <1>2, <2>1, <2>2, <2>3, <2>4, <2>6
<1>5. CASE Disconnected
  <2>1. EngineInv' /\ UploadTypeOK' /\ PedalInv' /\ PromptInv'
    BY <1>1, <1>5, DisconnectedKeeps
  <2>2. SuccessInv' /\ RunInv'
    BY <1>1, <1>5, DisconnectedSucceeds
  <2>3. runs' = runs /\ late' = late /\ reason' \in {reason, "gone"}
    BY <1>5 DEF Disconnected, Rebooted, Fail, countVars
  <2> QED
    BY <1>1, <1>2, <2>1, <2>2, <2>3
<1>6. CASE RunAgain
  <2>1. EngineInv' /\ UploadTypeOK' /\ PedalInv' /\ PromptInv'
    BY <1>1, <1>6, RunAgainKeeps
  <2>2. RunInv'
    BY <1>1, <1>6, RunAgainKeepsRun
  <2>3. outcome' = "running" /\ reason' = "none"
    BY <1>6 DEF RunAgain
  <2>4. SuccessInv'
    BY <2>3 DEF SuccessInv
  <2> QED
    BY <1>2, <2>1, <2>2, <2>3, <2>4
<1>7. CASE Serve
  <2>1. EngineInv' /\ PedalInv' /\ \E r, status, a : Served(r, status, a)
    BY <1>1, <1>7, ServeIs
  <2>2. PICK r, status, a : Served(r, status, a)
    BY <2>1
  <2>3. UploadTypeOK'
    BY <1>1, <2>2, ServeKeepsTypes
  <2>4. RunInv'
    BY <1>1, <2>1, <2>2, ServeKeepsRun
  <2>5. PromptInv'
    BY <1>1, <2>2, ServeKeepsPrompt
  <2>6. /\ goal' = goal /\ step' = step /\ outcome' = outcome /\ reason' = reason
        /\ late' = late /\ runs' = runs
    BY <2>2 DEF Served, hostVars
  <2>7. SuccessInv'
    BY <1>1, <2>6 DEF SuccessInv, Script
  <2> QED
    BY <1>1, <1>2, <2>1, <2>3, <2>4, <2>5, <2>6, <2>7
<1>8. CASE Unplug
  <2>1. EngineInv' /\ PedalInv' /\ RunInv'
    BY <1>1, <1>8, UnplugKeeps
  <2>2. on /\ on' = FALSE /\ UNCHANGED <<session, hostVars, queueVars, countVars>>
    BY <1>8 DEF Unplug, sessionVars
  <2>3. UploadTypeOK' /\ PromptInv'
    BY <1>1, <2>2, UnplugKeepsHost
  <2>4. /\ goal' = goal /\ step' = step /\ outcome' = outcome /\ reason' = reason
        /\ late' = late /\ runs' = runs
    BY <2>2 DEF hostVars, countVars
  <2>5. SuccessInv'
    BY <1>1, <2>4 DEF SuccessInv, Script
  <2> QED
    BY <1>1, <1>2, <2>1, <2>3, <2>4, <2>5
<1>9. CASE UNCHANGED uploadVars
  <2>1. UNCHANGED vars /\ UNCHANGED <<hostVars, queueVars, countVars>>
    BY <1>9 DEF uploadVars
  <2>2. /\ UNCHANGED <<flash, durable, boot, active, session, expected, next, size, target,
                       phase, full, erased, digest, previous, sent, updates, on>>
        /\ UNCHANGED <<goal, step, tries, waiting, client, outcome, reason>>
        /\ UNCHANGED <<requests, responses, lost, late, runs>>
    BY <2>1 DEF vars, sessionVars, progressVars, journalVars, hostVars, queueVars, countVars
  <2>3. QueueInv'
    <3>1. \A i \in DOMAIN responses' : ResponseInv(responses[i])'
      BY <1>1, <2>2 DEF PedalInv, QueueInv, ResponseInv, Opens, Informs
    <3> QED
      BY <1>1, <2>2, <3>1 DEF PedalInv, QueueInv
  <2>4. EngineInv' /\ PedalInv'
    BY <1>1, <2>1, <2>3, HostKeepsPedal
  <2>5. UploadTypeOK' /\ PromptInv'
    BY <1>1, <2>1, <2>2, UnplugKeepsHost
  <2>6. RunInv'
    BY <1>1, <2>2, RunStays
  <2>7. SuccessInv'
    BY <1>1, <2>2 DEF SuccessInv, Script
  <2> QED
    BY <1>1, <1>2, <2>2, <2>4, <2>5, <2>6, <2>7
<1> QED
  BY <1>3, <1>4, <1>5, <1>6, <1>7, <1>8, <1>9 DEF UploadNext, Host

\* Whatever is lost, late or sent again, the engine and pedalctl agree on
\* where the session stands.
THEOREM UploadInvariant == UploadSpec => []UploadInv
<1>1. UploadInit => UploadInv
  BY UploadInitHolds
<1>2. UploadInv /\ [UploadNext]_uploadVars => UploadInv'
  BY UploadNextKeeps
<1> QED
  BY <1>1, <1>2, PTL DEF UploadSpec

\* What pedalctl reports as done is there, although a device that seems gone
\* counts as the answer to REBOOT, and stays there while the pedal serves what
\* was sent to it.
THEOREM SuccessStaysReal == UploadSpec => []SuccessIsReal
<1>1. UploadInv => SuccessIsReal
  BY RebootIsReached DEF UploadInv, RunInv, SuccessInv, SuccessIsReal
<1> QED
  BY <1>1, UploadInvariant, PTL

\* Retries hide lost reports: only what comes too late is seen.
THEOREM LossesStayMasked == UploadSpec => []LossesAreMasked
<1>1. UploadInv => LossesAreMasked
  BY DEF UploadInv, PromptInv, LossesAreMasked
<1> QED
  BY <1>1, UploadInvariant, PTL
=============================================================================
