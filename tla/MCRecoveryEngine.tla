--------------------------- MODULE MCRecoveryEngine ---------------------------
(***************************************************************************)
(* The engine answering every request that it can tell from another one:   *)
(* requests of the session and of the one before, the expected sequence    *)
(* and the one before, the offset that is due and its neighbours.          *)
(***************************************************************************)
EXTENDS RecoverySession

CONSTANTS P1, P2,
          OfferedPayloads, \* what the requests carry
          Start            \* slots that may be confirmed at first

MCImages == {<<P1, P2>>}
MCWholeChip == [d \in {"chip"} |-> [c \in Cells |-> P1]]

Requests(commands, flags, sessions, sequences, offsets, data) ==
    [command : commands, flags : flags, session : sessions,
     sequence : sequences, offset : offsets, data : data]

Sessions == {session, IF session = 0 THEN 1 ELSE session - 1}
Sequences == {expected, IF expected = 0 THEN 1 ELSE expected - 1}
Offsets == {next, next + 1, IF next = 0 THEN 2 ELSE next - 1}

Offered ==
    Requests({"get_info", "get_log", "read_knobs"}, {SlotA}, {0}, {0}, {0}, {NoData})
    \cup Requests({"begin"}, Slots, {0}, {0},
                  {MinImage - 1, MinImage, MinImage + 1, SlotCells + 1}, {NoData})
    \cup Requests({"begin_full"}, {Full}, {0, Unlock}, {0}, {FlashCells}, DOMAIN WholeChip)
    \cup Requests({"erase", "finalize", "set_pending", "reboot", "finalize_full"},
                  Slots \cup {Full}, Sessions, Sequences, {0}, {NoData})
    \cup Requests({"erase_full"}, {Full}, Sessions, Sequences, {0, erased}, {NoData})
    \cup Requests({"write"}, {target, Full}, Sessions, Sequences, Offsets, OfferedPayloads)
    \cup Requests({"read"}, {target, Full}, {session}, {expected}, Offsets, {NoData})

OfferedNext == \E r \in Offered, status \in Statuses : Process(r, status)

MCInit ==
    /\ Init
    /\ durable.confirmed \in Start
    /\ durable.sequence = 0 /\ durable.trials = 0

MCSpec == MCInit /\ [][OfferedNext]_vars
=============================================================================
