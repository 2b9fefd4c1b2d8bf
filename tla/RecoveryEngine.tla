---------------------------- MODULE RecoveryEngine ----------------------------
(***************************************************************************)
(* recovery_engine.c: the update protocol that the recovery personalities  *)
(* answer over USB.  A request is refused, answered from the retry cache   *)
(* or executed; an executed one may fail in the flash backend after part   *)
(* of its effect.                                                          *)
(*                                                                         *)
(* Flash is a sequence of cells of one payload each.  A slot image and the *)
(* whole-chip digest are what their hashes stand for: the cells themselves.*)
(***************************************************************************)
EXTENDS BootState, Sequences

CONSTANTS BootCells,    \* bootloader, factory image and journal, up to slot A
          SlotCells,    \* NCR2_APPLICATION_SLOT_SIZE
          SectorCells,  \* NCR2_NOR_SECTOR_SIZE
          EraseChunk,   \* RECOVERY_FULL_FLASH_ERASE_CHUNK_SIZE
          MinImage,     \* a manifest and two vectors
          Payloads,     \* what one WRITE_CHUNK can carry
          SlotImages,       \* the cell sequences that FINALIZE_IMAGE accepts
          WholeChip,    \* the chip contents that a digest stands for
          Erased, Torn, NoState, NoPrevious, NoData,
          Unlock,       \* RECOVERY_FULL_FLASH_UNLOCK
          FullFlashEnabled,  \* recovery_engine_enable_full_flash was called
          MayFail,      \* the flash backend can fail
          MaxSessions, MaxSequence, MaxUpdates  \* bounds

FlashCells == BootCells + 2 * SlotCells
Cells == 0 .. FlashCells - 1
Contents == Payloads \cup {Erased, Torn}

ASSUME RecoveryEngineAssumption ==
    /\ BootCells \in Nat \ {0} /\ SlotCells \in Nat \ {0}
    /\ SectorCells \in Nat \ {0} /\ EraseChunk \in Nat \ {0}
    /\ MinImage \in 1 .. SlotCells
    /\ BootCells % SectorCells = 0 /\ SlotCells % SectorCells = 0
    /\ EraseChunk % SectorCells = 0
    /\ Erased \notin Payloads /\ Torn \notin Payloads /\ Erased # Torn
    /\ SlotImages \subseteq Seq(Payloads)
    /\ \A im \in SlotImages : Len(im) \in MinImage .. SlotCells
    /\ \A d \in DOMAIN WholeChip : WholeChip[d] \in [Cells -> Payloads]
    /\ NoData \notin DOMAIN WholeChip \cup Payloads
    /\ NoState \notin States
    /\ FullFlashEnabled \in BOOLEAN /\ MayFail \in BOOLEAN
    /\ MaxSessions \in Nat /\ MaxSequence \in Nat \ {0} /\ MaxUpdates \in Nat

Sector(c) == c \div SectorCells

SlotBase(s) == IF s = SlotA THEN BootCells ELSE BootCells + SlotCells

VARIABLES flash,    \* what each cell holds
          durable,  \* what the journal holds; NoState when it was erased
          boot,     \* engine->boot_state
          active,   \* engine->active_slot
          session, expected, next, size, target, phase,  \* engine-> fields
          full,     \* engine->full_flash_session
          erased,   \* engine->full_erase_offset
          digest,   \* engine->expected_image_sha256
          previous, \* the cached request with its response
          sent,     \* payloads acknowledged since the erase (history)
          updates,  \* SET_PENDING requests executed
          on        \* the engine has not been reset

sessionVars == <<session, target, full, digest, size>>
progressVars == <<phase, next, erased, sent>>
journalVars == <<durable, boot, updates>>
vars == <<flash, durable, boot, active, session, expected, next, size, target,
          phase, full, erased, digest, previous, sent, updates, on>>

Phases == {"idle", "begun", "erased", "writing", "finalized", "pending"}

\* The flags of a packet: a slot, or RECOVERY_FLAG_FULL_FLASH.
Full == "full"

FullOnly == {"begin_full", "erase_full", "finalize_full"}
Sessionless == {"get_info", "get_log", "read_knobs", "begin"}
SessionCommands ==
    {"erase", "write", "read", "finalize", "set_pending", "reboot",
     "erase_full", "finalize_full"}

Packets ==
    [command : Sessionless \cup SessionCommands \cup FullOnly,
     flags : Slots \cup {Full},
     session : Nat \cup {Unlock},
     sequence : Nat,
     offset : Nat,
     data : Payloads \cup DOMAIN WholeChip \cup {NoData}]

Statuses == {"ok", "failed", "refused", "replayed"}

Responses ==
    [command : Sessionless \cup SessionCommands \cup FullOnly,
     flags : Slots \cup {Full},
     session : Nat \cup {Unlock},
     sequence : Nat,
     offset : Nat,
     status : Statuses,
     data : Contents \cup {NoData} \cup
            [confirmed : Slots, pending : Slots \cup {NoSlot},
             selected : Slots, phase : Phases]]

ASSUME PacketAssumption ==
    /\ Full \notin Slots
    /\ NoPrevious \notin [request : Packets, response : Responses]

\* An image in the confirmed slot, and perhaps an update that is pending.
Init ==
    /\ durable \in {s \in States : Decodes(s)}
    /\ boot = durable
    /\ flash \in {[c \in Cells |->
                     LET k == c - SlotBase(durable.confirmed) + 1
                     IN  IF k \in DOMAIN im THEN im[k] ELSE Erased] : im \in SlotImages}
    /\ active = SelectedSlot(boot)
    /\ session = 0 /\ expected = 0 /\ next = 0 /\ size = 0
    /\ target = NoSlot
    /\ phase = "idle"
    /\ full = FALSE
    /\ erased = 0
    /\ digest = NoData
    /\ previous = NoPrevious
    /\ sent = << >>
    /\ updates = 0
    /\ on = TRUE

-----------------------------------------------------------------------------
(* Which requests are executed.                                            *)

\* validate_common: the flags a command may carry, and the data it needs.
WellFormed(r) ==
    /\ r.command \in FullOnly => r.flags = Full
    /\ r.flags = Full => r.command \in FullOnly \cup {"write", "read", "reboot"}
    /\ r.command = "write" => r.data \in Payloads
    /\ r.command = "begin_full" => r.data \in DOMAIN WholeChip
    /\ r.command \notin {"write", "begin_full"} => r.data = NoData

InSession(r) ==
    /\ phase # "idle"
    /\ r.session = session
    /\ r.sequence = expected
    /\ r.flags = IF full THEN Full ELSE target

Addressed(r) ==
    IF r.command \in SessionCommands THEN InSession(r)
    ELSE /\ r.session = IF r.command = "begin_full" THEN Unlock ELSE 0
         /\ r.sequence = 0

\* Faulty variant: protects only the slot that would boot.
MayBeginActiveOnly(r) ==
    /\ r.flags # active
    /\ r.offset \in MinImage .. SlotCells

MayBegin(r) ==
    /\ r.flags # boot.confirmed
    /\ r.flags # active
    /\ r.offset \in MinImage .. SlotCells

\* Faulty variant: accepts a WRITE_CHUNK also after FINALIZE.
MayWriteLate(r) ==
    /\ phase \in {"erased", "writing", "finalized"}
    /\ r.offset < size

MayWrite(r) ==
    /\ phase \in {"erased", "writing"}
    /\ r.offset = next
    /\ r.offset < size

\* The checks at the head of each handler.
Allowed(r) ==
    CASE r.command = "begin" -> MayBegin(r)
      [] r.command = "begin_full" -> FullFlashEnabled /\ r.offset = FlashCells
      [] r.command = "erase" -> phase \in {"begun", "erased"}
      [] r.command = "erase_full" ->
            full /\ phase = "begun" /\ r.offset = erased
      [] r.command = "write" -> MayWrite(r)
      [] r.command = "read" ->
            phase \in {"erased", "writing", "finalized", "pending"} /\ r.offset < size
      [] r.command \in {"finalize", "finalize_full"} ->
            /\ full = (r.command = "finalize_full")
            /\ phase = "writing"
            /\ next = size
      [] r.command = "set_pending" ->
            phase = "finalized" /\ BeginUpdate(boot, target).pending = target
      [] r.command = "reboot" -> phase = IF full THEN "finalized" ELSE "pending"
      [] OTHER -> TRUE

\* Faulty variant: remembers no request that changes something.
CachedReads(r) ==
    /\ previous # NoPrevious
    /\ r.command \in {"get_info", "get_log"}
    /\ r = previous.request

Cached(r) ==
    /\ previous # NoPrevious
    /\ r.command # "read_knobs"
    /\ r = previous.request

Executes(r) ==
    /\ WellFormed(r)
    /\ ~Cached(r)
    /\ Addressed(r)
    /\ Allowed(r)

-----------------------------------------------------------------------------
(* What an operation of the flash backend leaves behind.                   *)

\* Sector by sector, skipping the blank ones: what lies before the sector that
\* failed is erased, and that one may be left half erased.
EraseFails(cells) ==
    /\ MayFail
    /\ \E failed \in cells, torn \in BOOLEAN :
          /\ torn => \E c \in cells : Sector(c) = Sector(failed) /\ flash[c] # Erased
          /\ flash' = [c \in Cells |->
                 IF c \in cells /\ Sector(c) < Sector(failed) THEN Erased
                 ELSE IF torn /\ c \in cells /\ Sector(c) = Sector(failed) THEN Torn
                 ELSE flash[c]]

EraseSucceeds(cells) == flash' = [c \in Cells |-> IF c \in cells THEN Erased ELSE flash[c]]

\* The read-back decides; a program that failed may have had its effect.
ProgramFails(cell, data) ==
    /\ MayFail
    /\ \E left \in {flash[cell], Torn, data} : flash' = [flash EXCEPT ![cell] = left]

\* Over a cell that is not erased only if the payload clears no new bits, which
\* two payloads may do.
ProgramSucceeds(cell, data) == flash' = [flash EXCEPT ![cell] = data]

\* A whole-chip session erases and rewrites the journal with the rest.
JournalCell == 0

-----------------------------------------------------------------------------
(* The handlers, which end with a status.                                  *)

\* A request that changes nothing but the retry cache and the sequence.
Unchanged == UNCHANGED <<sessionVars, progressVars, flash, journalVars, on>>

GetInfo(r, status) == r.command = "get_info" /\ status = "ok" /\ Unchanged

GetLog(r, status) == r.command = "get_log" /\ status = "ok" /\ Unchanged

ReadKnobs(r, status) == r.command = "read_knobs" /\ status = "ok" /\ Unchanged

NewSession ==
    /\ session' = session + 1
    /\ phase' = "begun"
    /\ next' = 0
    /\ sent' = << >>

BeginImage(r, status) ==
    /\ r.command = "begin"
    /\ status = "ok"
    /\ NewSession
    /\ size' = r.offset
    /\ target' = r.flags
    /\ full' = FALSE
    /\ UNCHANGED <<erased, digest, flash, journalVars, on>>

BeginFullFlash(r, status) ==
    /\ r.command = "begin_full"
    /\ status = "ok"
    /\ NewSession
    /\ erased' = 0
    /\ size' = FlashCells
    /\ target' = NoSlot
    /\ full' = TRUE
    /\ digest' = r.data
    /\ UNCHANGED <<flash, journalVars, on>>

SlotCellsOf(s) == SlotBase(s) .. SlotBase(s) + SlotCells - 1

\* The declared size, rounded up to whole sectors.
DeclaredSectors ==
    {c \in SlotCellsOf(target) :
        \E k \in 0 .. size - 1 : Sector(c) = Sector(SlotBase(target) + k)}

EraseSlot(r, status) ==
    /\ r.command = "erase"
    /\ \/ /\ status = "ok"
          /\ EraseSucceeds(DeclaredSectors)
          /\ next' = 0
          /\ sent' = << >>
          /\ phase' = "erased"
          /\ UNCHANGED erased
       \/ /\ status = "failed"
          /\ EraseFails(DeclaredSectors)
          /\ UNCHANGED progressVars
    /\ UNCHANGED <<sessionVars, journalVars, on>>

FullEraseCount ==
    IF FlashCells - erased > EraseChunk THEN EraseChunk ELSE FlashCells - erased

EraseRange == {c \in Cells : erased <= c /\ c < erased + FullEraseCount}

\* The next range of the chip counts as erased.
AdvanceErase ==
    /\ erased' = erased + FullEraseCount
    /\ IF erased' = FlashCells
       THEN next' = 0 /\ sent' = << >> /\ phase' = "erased"
       ELSE UNCHANGED <<next, sent, phase>>

EraseFullFlash(r, status) ==
    /\ r.command = "erase_full"
    /\ \/ /\ status = "ok"
          /\ EraseSucceeds(EraseRange)
          /\ AdvanceErase
          /\ durable' = IF erased = JournalCell THEN NoState ELSE durable
       \/ /\ status = "failed"
          /\ EraseFails(EraseRange)
          /\ durable' \in IF erased = JournalCell THEN {NoState, durable} ELSE {durable}
          /\ UNCHANGED progressVars
    /\ UNCHANGED <<sessionVars, boot, updates, on>>

\* Where a WRITE_CHUNK or READ_CHUNK goes: resolve_target_range.
TargetCell(r) == IF full THEN r.offset ELSE SlotBase(target) + r.offset

\* A whole-chip image brings its own journal, or none.
JournalWritten(r) ==
    durable' \in IF TargetCell(r) = JournalCell THEN {NoState, DefaultState} ELSE {durable}

Acknowledge(r) ==
    /\ next' = next + 1
    /\ sent' = Append(sent, r.data)
    /\ phase' = "writing"
    /\ UNCHANGED erased

\* Faulty variant: goes on to the next offset whatever the backend reported.
WriteUnchecked(r, status) ==
    /\ r.command = "write"
    /\ status = "ok"
    /\ ProgramSucceeds(TargetCell(r), r.data) \/ ProgramFails(TargetCell(r), r.data)
    /\ Acknowledge(r)
    /\ JournalWritten(r)
    /\ UNCHANGED <<sessionVars, boot, updates, on>>

Write(r, status) ==
    /\ r.command = "write"
    /\ \/ status = "ok" /\ ProgramSucceeds(TargetCell(r), r.data) /\ Acknowledge(r)
       \/ status = "failed" /\ ProgramFails(TargetCell(r), r.data) /\ UNCHANGED progressVars
    /\ JournalWritten(r)
    /\ UNCHANGED <<sessionVars, boot, updates, on>>

Read(r, status) ==
    /\ r.command = "read"
    /\ \/ status = "ok"
       \/ status = "failed" /\ MayFail
    /\ Unchanged

\* validate_stored_image: manifest, vectors and hash of what was written.
HoldsImage(s, count) ==
    \E im \in SlotImages :
        /\ Len(im) <= count
        /\ \A k \in DOMAIN im : flash[SlotBase(s) + k - 1] = im[k]

Verified == IF full THEN flash = WholeChip[digest] ELSE HoldsImage(target, next)

Finalize(r, status) ==
    /\ r.command \in {"finalize", "finalize_full"}
    /\ \/ status = "ok" /\ Verified /\ phase' = "finalized"
       \/ status = "failed" /\ (MayFail \/ ~Verified) /\ UNCHANGED phase
    /\ UNCHANGED <<next, erased, sent, sessionVars, flash, journalVars, on>>

JournalTakes(s) ==
    durable \notin {NoState, s} => IsNewer(s.sequence, durable.sequence)

\* Faulty variant: the engine's state runs ahead of the journal's.
SetPendingEarly(r, status) ==
    /\ r.command = "set_pending"
    /\ updates' = updates + 1
    /\ boot' = BeginUpdate(boot, target)
    /\ \/ status = "ok" /\ durable' = boot' /\ phase' = "pending"
       \/ status = "failed" /\ MayFail /\ UNCHANGED <<durable, phase>>
    /\ UNCHANGED <<next, erased, sent, sessionVars, flash, on>>

\* Faulty variant: reports success whatever the journal reported.
SetPendingUnchecked(r, status) ==
    /\ r.command = "set_pending"
    /\ updates' = updates + 1
    /\ status = "ok"
    /\ boot' = BeginUpdate(boot, target)
    /\ phase' = "pending"
    /\ durable' \in {boot'} \cup (IF MayFail THEN {durable} ELSE {})
    /\ UNCHANGED <<next, erased, sent, sessionVars, flash, on>>

SetPending(r, status) ==
    /\ r.command = "set_pending"
    /\ updates' = updates + 1
    /\ LET state == BeginUpdate(boot, target)
       IN  \/ /\ status = "ok"
              /\ JournalTakes(state)
              /\ durable' = state
              /\ boot' = state
              /\ phase' = "pending"
           \/ /\ status = "failed"
              /\ \/ MayFail /\ JournalTakes(state) /\ durable' \in {durable, state}
                 \/ ~JournalTakes(state) /\ UNCHANGED durable
              /\ UNCHANGED <<boot, phase>>
    /\ UNCHANGED <<next, erased, sent, sessionVars, flash, on>>

\* request_reboot does not return.
Reboot(r, status) ==
    /\ r.command = "reboot"
    /\ status = "ok"
    /\ on' = FALSE
    /\ UNCHANGED <<sessionVars, progressVars, flash, journalVars>>

Handle(r, status) ==
    \/ GetInfo(r, status) \/ GetLog(r, status) \/ ReadKnobs(r, status)
    \/ BeginImage(r, status) \/ BeginFullFlash(r, status)
    \/ EraseSlot(r, status) \/ EraseFullFlash(r, status)
    \/ Write(r, status) \/ Read(r, status) \/ Finalize(r, status)
    \/ SetPending(r, status) \/ Reboot(r, status)

-----------------------------------------------------------------------------
(* recovery_engine_process.                                                *)

Info ==
    [confirmed |-> boot.confirmed, pending |-> boot.pending,
     selected |-> SelectedSlot(boot), phase |-> phase]

\* The response that a step leaves in g_in_packet.
Answer(r, status) ==
    IF status = "replayed" THEN previous.response
    ELSE [command |-> r.command, flags |-> r.flags, sequence |-> r.sequence,
          status |-> status,
          session |-> IF status = "ok" /\ r.command \in {"begin", "begin_full"}
                      THEN session' ELSE r.session,
          offset |-> IF status = "ok" /\ r.command = "erase_full"
                     THEN erased' ELSE r.offset,
          data |-> IF status # "ok" THEN NoData
                   ELSE CASE r.command = "get_info" -> Info
                          [] r.command = "read" -> flash[TargetCell(r)]
                          [] OTHER -> NoData]

Refuse(r, status) ==
    /\ status = "refused"
    /\ ~Executes(r)
    /\ ~(WellFormed(r) /\ Cached(r))
    /\ UNCHANGED vars

Replay(r, status) ==
    /\ status = "replayed"
    /\ WellFormed(r)
    /\ Cached(r)
    /\ UNCHANGED vars

\* A failed command consumes no sequence number and leaves the cache alone.
Settle(r, status) ==
    IF status # "ok" THEN UNCHANGED <<expected, previous>>
    ELSE /\ expected' = CASE r.command \in SessionCommands -> expected + 1
                          [] r.command \in {"begin", "begin_full"} -> 1
                          [] OTHER -> expected
         /\ previous' = IF r.command = "read_knobs" THEN previous
                        ELSE [request |-> r, response |-> Answer(r, status)]

WithinBounds(r) ==
    /\ r.command \in {"begin", "begin_full"} => session < MaxSessions
    /\ r.command \in SessionCommands => expected < MaxSequence
    /\ r.command = "set_pending" => updates < MaxUpdates

Execute(r, status) ==
    /\ Executes(r)
    /\ WithinBounds(r)
    /\ Handle(r, status)
    /\ Settle(r, status)
    /\ UNCHANGED active

Process(r, status) ==
    on /\ (Refuse(r, status) \/ Replay(r, status) \/ Execute(r, status))

Next == \E r \in Packets, status \in Statuses : Process(r, status)

Spec == Init /\ [][Next]_vars

-----------------------------------------------------------------------------
(* Properties.                                                             *)

TypeOK ==
    /\ flash \in [Cells -> Contents]
    /\ durable \in States \cup {NoState}
    /\ boot \in States
    /\ active \in Slots
    /\ session \in 0 .. MaxSessions
    /\ expected \in 0 .. MaxSequence
    /\ next \in Nat /\ size \in Nat
    /\ target \in Slots \cup {NoSlot}
    /\ phase \in Phases
    /\ full \in BOOLEAN
    /\ erased \in 0 .. FlashCells
    /\ digest \in DOMAIN WholeChip \cup {NoData}
    /\ sent \in Seq(Payloads)
    /\ updates \in 0 .. MaxUpdates
    /\ on \in BOOLEAN

Base == IF full THEN 0 ELSE SlotBase(target)

\* From the erase to SET_PENDING the flash holds what the host was told is
\* there: every acknowledged payload, in the order of the requests, and
\* nothing of an older image in the rest, whatever failed, was repeated or was
\* refused in between.  Only the cell that is written next may hold a payload
\* already, of a write that failed; an erase repeated after such a write may
\* have failed too, and left its sector half erased.
AcknowledgedIsStored ==
    phase \in {"erased", "writing", "finalized", "pending"} =>
        /\ next = Len(sent)
        /\ \A k \in 1 .. next : flash[Base + k - 1] = sent[k]
        /\ phase \in {"erased", "writing"} =>
              \A k \in next + 1 .. size - 1 : flash[Base + k] \in {Erased, Torn}

\* The progress that ERASE_FULL_FLASH reports is real: everything below the
\* offset of its last response is erased.
EraseProgressIsReal ==
    full /\ phase = "begun" => \A c \in Cells : c < erased => flash[c] = Erased

\* What was finalized is still verified, until the reset: no request of any
\* session can change it behind the back of SET_PENDING and REBOOT.
FinalizedIsVerified == phase \in {"finalized", "pending"} => Verified

\* Once the host was told that its image is pending, the journal says so, and
\* the engine's state is the journal's.
PendingIsDurable ==
    phase = "pending" =>
        durable = boot /\ boot.pending = target /\ target # boot.confirmed

\* The retry cache answers an identical GET_INFO without looking at the
\* engine: what it answers is nevertheless the engine's current state.
ReplayedInfoIsCurrent ==
    previous # NoPrevious =>
        (previous.request.command = "get_info" => previous.response.data = Info)

\* An update changes cells of its target only, and its target is neither the
\* slot that the engine knows as confirmed nor the one selected at boot; where
\* there are no whole-chip sessions the journal knows the same confirmed slot.
OnlyTargetChanges ==
    [][\A c \in Cells : flash'[c] # flash[c] =>
          \/ full
          \/ /\ c \in SlotCellsOf(target)
             /\ target # active
             /\ target # boot.confirmed
             /\ ~FullFlashEnabled => target # durable.confirmed]_vars

-----------------------------------------------------------------------------
(* The inductive invariant behind the properties.                          *)

\* What an open session is about.
SessionInv ==
    /\ Decodes(boot)
    /\ full => FullFlashEnabled
    /\ phase # "idle" =>
          IF full THEN target = NoSlot /\ size = FlashCells
          ELSE /\ target \in Slots \ {active, boot.confirmed}
               /\ size \in MinImage .. SlotCells
    /\ next <= size
    /\ full /\ phase = "begun" => erased < FlashCells

\* Without whole-chip sessions the journal is at most ahead of the engine.
JournalFollows ==
    ~FullFlashEnabled => durable # NoState /\ durable.confirmed = boot.confirmed

\* Only a write leaves the phase that an erase enters.
ErasedIsEmpty == phase = "erased" => next = 0

EngineInv ==
    /\ TypeOK
    /\ SessionInv
    /\ ErasedIsEmpty
    /\ JournalFollows
    /\ AcknowledgedIsStored
    /\ EraseProgressIsReal
    /\ FinalizedIsVerified
    /\ PendingIsDurable
    /\ ReplayedInfoIsCurrent
=============================================================================
