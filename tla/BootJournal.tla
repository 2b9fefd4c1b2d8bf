----------------------------- MODULE BootJournal -----------------------------
(***************************************************************************)
(* boot_journal.c over NOR flash: two sectors of append-only records.      *)
(*                                                                         *)
(* A store reads the whole journal, then performs at most three flash      *)
(* operations (append; or erase the other sector, program its first cell,  *)
(* erase the old sector).  Each operation is one step, may fail or report  *)
(* failure after having had its effect, and may be cut by a power loss     *)
(* that leaves the cells it touches in any intermediate condition.         *)
(***************************************************************************)
EXTENDS BootSequence

CONSTANTS Bodies,       \* the fields of a boot state other than its sequence
          ValidBodies,  \* those that boot_record_decode accepts
          NoState,      \* no store in progress
          Erased,       \* a cell of 0xFF bytes
          Torn,         \* a cell that neither is erased nor decodes (bad CRC)
          CellCount     \* BOOT_RECORDS_PER_SECTOR

BootStates == [sequence : SeqNums, body : Bodies]

\* A record on flash is one that boot_record_decode accepts.
Records == [sequence : SeqNums, body : ValidBodies]

\* The furthest a caller's state can be ahead of the journal.  Every caller
\* loads the journal and applies one boot_state operation; a failed store
\* leaves the controller's copy one operation ahead, and the recovery engine
\* that inherits this copy applies one more.
CallerLead == 2

ASSUME JournalAssumption ==
    /\ CellCount \in Nat \ {0}
    /\ HalfSeq > 2 * CallerLead * CellCount
    /\ ValidBodies \subseteq Bodies
    /\ Erased # Torn
    /\ Erased \notin Records
    /\ Torn \notin Records
    /\ NoState \notin BootStates

Sectors == {0, 1}
Cells == 0 .. (CellCount - 1)
CellContents == Records \cup {Erased, Torn}
OtherSector(s) == 1 - s
ErasedSector == [c \in Cells |-> Erased]

VARIABLES flash,    \* flash[sector][cell]
          request,  \* the state of the store in progress, or NoState
          pc,       \* the flash operation that store performs next
          active,   \* active_sector of that store
          reply     \* status of the last completed store

vars == <<flash, request, pc, active, reply>>

Steps == {"idle", "append", "erase_target", "program_target", "erase_old"}
Replies == {"none", "ok", "invalid", "stale", "error"}

TypeOK ==
    /\ flash \in [Sectors -> [Cells -> CellContents]]
    /\ request \in BootStates \cup {NoState}
    /\ pc \in Steps
    /\ active \in Sectors
    /\ reply \in Replies

Init ==
    /\ flash = [s \in Sectors |-> ErasedSector]
    /\ request = NoState
    /\ pc = "idle"
    /\ active = 0
    /\ reply = "none"

-----------------------------------------------------------------------------
(* Reading the journal: functions of a flash image f.                      *)

HasRecord(f, s, c) == f[s][c] \in Records

NoRecord(f) == \A s \in Sectors, c \in Cells : ~HasRecord(f, s, c)

\* The location that boot_journal_load reports: no record is newer.
IsNewest(f, s, c) ==
    /\ HasRecord(f, s, c)
    /\ \A s2 \in Sectors, c2 \in Cells :
          HasRecord(f, s2, c2) => ~IsNewer(f[s2][c2].sequence, f[s][c].sequence)

NewestRecords(f) ==
    {f[l[1]][l[2]] : l \in {k \in Sectors \X Cells : IsNewest(f, k[1], k[2])}}

\* The state that boot_journal_load returns, or NoState for the default one.
Load(f) == IF NoRecord(f) THEN NoState ELSE CHOOSE r \in NewestRecords(f) : TRUE

\* The scan of boot_journal_load as the code runs it: sector 0 then sector 1,
\* keeping a candidate that is newer than the best so far.
ScanResult(f) ==
    LET scan[p \in 0 .. 2 * CellCount] ==
            IF p = 0 THEN NoState
            ELSE LET best == scan[p - 1]
                     cell == f[(p - 1) \div CellCount][(p - 1) % CellCount]
                 IN  IF /\ cell \notin {Erased, Torn}
                        /\ \/ best = NoState
                           \/ IsNewer(cell.sequence, best.sequence)
                     THEN cell ELSE best
    IN  scan[2 * CellCount]

\* find_append_offset: the first erased cell of the sector.
IsAppendCell(f, s, c) ==
    /\ f[s][c] = Erased
    /\ \A d \in Cells : d < c => f[s][d] # Erased

SectorFull(f, s) == \A c \in Cells : f[s][c] # Erased

-----------------------------------------------------------------------------
(* What a flash operation can leave behind.                                *)

\* One record program: complete, torn, or without any effect.
ProgramOutcomes == {request, Torn, Erased}

\* An erase of the cells that failed or was cut: each is old, torn or erased.
EraseOutcomes(cells) ==
    {[c \in Cells |-> IF c \in kept THEN cells[c]
                      ELSE IF c \in torn THEN Torn ELSE Erased] :
        kept \in SUBSET Cells, torn \in SUBSET Cells}

-----------------------------------------------------------------------------
(* boot_journal_store.                                                     *)

Finish(status) ==
    /\ pc' = "idle"
    /\ request' = NoState
    /\ reply' = status

\* A store that returns before any flash operation.
StoreReturns(status) ==
    /\ reply' = status
    /\ UNCHANGED <<flash, request, pc, active>>

\* The encoded state does not decode back to itself.
StoreInvalid(s) ==
    /\ pc = "idle"
    /\ s.body \notin ValidBodies
    /\ StoreReturns("invalid")

\* A read of the journal fails (boot_journal_load or find_append_offset).
StoreReadFails(s) ==
    /\ pc = "idle"
    /\ s.body \in ValidBodies
    /\ StoreReturns("error")

\* The journal already holds this state: a retried store is a success.
StoreUnchanged(s) ==
    /\ pc = "idle"
    /\ \E sec \in Sectors, c \in Cells :
          IsNewest(flash, sec, c) /\ flash[sec][c] = s
    /\ StoreReturns("ok")

StoreStale(s) ==
    /\ pc = "idle"
    /\ s.body \in ValidBodies
    /\ \E sec \in Sectors, c \in Cells :
          /\ IsNewest(flash, sec, c)
          /\ flash[sec][c] # s
          /\ ~IsNewer(s.sequence, flash[sec][c].sequence)
    /\ StoreReturns("stale")

\* Faulty variant: accepts any state, whatever its sequence.
StoreAcceptsAny(s, sec) ==
    \/ NoRecord(flash) /\ sec = 0
    \/ \E c \in Cells : IsNewest(flash, sec, c) /\ flash[sec][c] # s

\* The store goes on in sector sec: the sector of the newest record, or
\* sector 0 of a journal without any.
StoreAccepts(s, sec) ==
    \/ NoRecord(flash) /\ sec = 0
    \/ \E c \in Cells :
          /\ IsNewest(flash, sec, c)
          /\ IsNewer(s.sequence, flash[sec][c].sequence)
          /\ SeqDist(s.sequence, flash[sec][c].sequence) <= CallerLead

StoreBegin(s, sec) ==
    /\ pc = "idle"
    /\ s.body \in ValidBodies
    /\ StoreAccepts(s, sec)
    /\ request' = s
    /\ active' = sec
    /\ pc' = IF SectorFull(flash, sec) THEN "erase_target" ELSE "append"
    /\ reply' = "none"
    /\ UNCHANGED flash

\* program_record: program, read back and compare.  The reply depends on
\* the read-back alone, so a program that reported an error but had its
\* effect succeeds, and one whose read-back fails is an error although the
\* record is durable.
AppendRecord ==
    /\ pc = "append"
    /\ \E c \in Cells, outcome \in ProgramOutcomes, readable \in BOOLEAN :
          /\ IsAppendCell(flash, active, c)
          /\ flash' = [flash EXCEPT ![active][c] = outcome]
          /\ Finish(IF outcome = request /\ readable THEN "ok" ELSE "error")
    /\ UNCHANGED active

EraseTarget ==
    /\ pc = "erase_target"
    /\ flash' = [flash EXCEPT ![OtherSector(active)] = ErasedSector]
    /\ pc' = "program_target"
    /\ UNCHANGED <<request, active, reply>>

EraseTargetFails ==
    /\ pc = "erase_target"
    /\ \E f \in EraseOutcomes(flash[OtherSector(active)]) :
          flash' = [flash EXCEPT ![OtherSector(active)] = f]
    /\ Finish("error")
    /\ UNCHANGED active

\* Faulty variant: goes on to the cleanup without the read-back.
ProgramTargetUnverified ==
    /\ pc = "program_target"
    /\ \E outcome \in ProgramOutcomes :
          flash' = [flash EXCEPT ![OtherSector(active)][0] = outcome]
    /\ pc' = "erase_old"
    /\ UNCHANGED <<request, active, reply>>

ProgramTarget ==
    /\ pc = "program_target"
    /\ \E outcome \in ProgramOutcomes, readable \in BOOLEAN :
          /\ flash' = [flash EXCEPT ![OtherSector(active)][0] = outcome]
          /\ IF outcome = request /\ readable
             THEN pc' = "erase_old" /\ UNCHANGED <<request, reply>>
             ELSE Finish("error")
    /\ UNCHANGED active

\* The cleanup erase, whose status is ignored.
EraseOld ==
    /\ pc = "erase_old"
    /\ \E f \in EraseOutcomes(flash[active]) :
          flash' = [flash EXCEPT ![active] = f]
    /\ Finish("ok")
    /\ UNCHANGED active

-----------------------------------------------------------------------------
(* Power loss: the running operation may have had any part of its effect,  *)
(* and everything in RAM is gone.                                          *)

InterruptedFlash ==
    \/ pc = "append" /\ \E c \in Cells, outcome \in ProgramOutcomes :
          /\ IsAppendCell(flash, active, c)
          /\ flash' = [flash EXCEPT ![active][c] = outcome]
    \/ pc = "erase_target" /\ \E f \in EraseOutcomes(flash[OtherSector(active)]) :
          flash' = [flash EXCEPT ![OtherSector(active)] = f]
    \/ pc = "program_target" /\ \E outcome \in ProgramOutcomes :
          flash' = [flash EXCEPT ![OtherSector(active)][0] = outcome]
    \/ pc = "erase_old" /\ \E f \in EraseOutcomes(flash[active]) :
          flash' = [flash EXCEPT ![active] = f]

PowerLoss ==
    /\ pc # "idle"
    /\ InterruptedFlash
    /\ pc' = "idle"
    /\ request' = NoState
    /\ reply' = "none"
    /\ active' = 0

-----------------------------------------------------------------------------

StoreRequest(s) ==
    \/ StoreInvalid(s)
    \/ StoreReadFails(s)
    \/ StoreUnchanged(s)
    \/ StoreStale(s)
    \/ \E sec \in Sectors : StoreBegin(s, sec)

Next ==
    \/ \E s \in BootStates : StoreRequest(s)
    \/ AppendRecord
    \/ EraseTarget
    \/ EraseTargetFails
    \/ ProgramTarget
    \/ EraseOld
    \/ PowerLoss

Spec == Init /\ [][Next]_vars

-----------------------------------------------------------------------------
(* Properties.                                                             *)

\* The records on flash are totally ordered by sequence_is_newer: no two of
\* them are equal or half a ring apart, over any history of wrapped
\* counters, failed stores and interrupted erases.  Without it the result
\* of boot_journal_load would depend on where the records lie.
RecordsTotallyOrdered ==
    \A s1, s2 \in Sectors, c1, c2 \in Cells :
        /\ HasRecord(flash, s1, c1)
        /\ HasRecord(flash, s2, c2)
        /\ <<s1, c1>> # <<s2, c2>>
        => \/ IsNewer(flash[s1][c1].sequence, flash[s2][c2].sequence)
           \/ IsNewer(flash[s2][c2].sequence, flash[s1][c1].sequence)

\* The single pass of boot_journal_load, which compares each record only with
\* the best one before it, ends with a record that no other one is newer than.
ScanFindsNewest == ScanResult(flash) = Load(flash)

\* Records are programmed over erased cells only: NOR flash can clear bits
\* but not set them, and a cell programmed twice decodes to neither record.
ProgramsErasedCells ==
    /\ pc = "append" => \E c \in Cells : IsAppendCell(flash, active, c)
    /\ pc = "program_target" => flash[OtherSector(active)][0] = Erased

\* At every moment of a store the newest record is in the sector that the
\* store is not about to erase.
NewestNotErased ==
    /\ pc \in {"append", "erase_target", "program_target"} =>
          \A c \in Cells : ~IsNewest(flash, OtherSector(active), c)
    /\ pc = "erase_old" =>
          /\ IsNewest(flash, OtherSector(active), 0)
          /\ flash[OtherSector(active)][0] = request

\* The journal implements the atomic register: a success means durable, an
\* error or a power loss leaves the old state or the new one.
Register == INSTANCE BootRegister WITH durable <- Load(flash)

ImplementsRegister == Register!RegSpec

-----------------------------------------------------------------------------
(* The inductive invariant.  One sector, the head, holds the newest record *)
(* in a prefix of written cells; reading the other sector and then the     *)
(* head gives the records in the order they were written, and the distance *)
(* between two of them is bounded by the cells between them.               *)

Ahead(new, old, bound) == SeqDist(new.sequence, old.sequence) \in 1 .. bound

Rank(h, s, c) == IF s = h THEN CellCount + c ELSE c

InWriteOrder(f, h) ==
    \A s1, s2 \in Sectors, c1, c2 \in Cells :
        /\ HasRecord(f, s1, c1)
        /\ HasRecord(f, s2, c2)
        /\ Rank(h, s1, c1) < Rank(h, s2, c2)
        => Ahead(f[s2][c2], f[s1][c1],
                 CallerLead * (Rank(h, s2, c2) - Rank(h, s1, c1)))

WrittenPrefix(f, h) ==
    \A c, d \in Cells : c < d /\ f[h][c] = Erased => f[h][d] = Erased

IsHead(f, h) ==
    /\ InWriteOrder(f, h)
    /\ WrittenPrefix(f, h)
    /\ \/ \E c \in Cells : HasRecord(f, h, c)
       \/ NoRecord(f) /\ h = 0

\* Record r can be written as the one of rank p.
Follows(f, h, r, p) ==
    \A s \in Sectors, c \in Cells :
        HasRecord(f, s, c)
        => /\ Rank(h, s, c) < p
           /\ Ahead(r, f[s][c], CallerLead * (p - Rank(h, s, c)))

StoreInv(h) ==
    /\ pc = "idle" => request = NoState
    /\ pc # "idle" => request \in Records
    /\ pc \in {"append", "erase_target", "program_target"} => active = h
    /\ pc = "append" =>
          \E c \in Cells :
             /\ IsAppendCell(flash, h, c)
             /\ Follows(flash, h, request, CellCount + c)
    /\ pc \in {"erase_target", "program_target"} =>
          /\ SectorFull(flash, h)
          /\ Follows(flash, h, request, 2 * CellCount)
    /\ pc = "program_target" => flash[OtherSector(h)] = ErasedSector
    /\ pc = "erase_old" =>
          /\ active = OtherSector(h)
          /\ flash[h][0] = request
          /\ \A c \in Cells : c # 0 => flash[h][c] = Erased

\* The state of the journal at every step of every store: the invariant from
\* which the properties above follow.
JournalInv ==
    /\ TypeOK
    /\ \E h \in Sectors : IsHead(flash, h) /\ StoreInv(h)
=============================================================================
