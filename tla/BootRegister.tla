---------------------------- MODULE BootRegister ----------------------------
(***************************************************************************)
(* What boot_journal.h promises to the boot controller and to the recovery *)
(* engine: one durable boot state that a store replaces atomically.  A     *)
(* store that reports success has replaced the state; one that reports an  *)
(* error, or is cut by a power loss, leaves either the old state or the    *)
(* new one, and never anything else.  BootJournal implements it.           *)
(***************************************************************************)
EXTENDS BootSequence

CONSTANTS Bodies,       \* the fields of a boot state other than its sequence
          ValidBodies,  \* those that boot_record_decode accepts
          NoState       \* no record / no store in progress

BootStates == [sequence : SeqNums, body : Bodies]

Replies == {"none", "ok", "invalid", "stale", "error"}

VARIABLES durable,  \* the state boot_journal_load returns, or NoState
          request,  \* the state a running store has accepted, or NoState
          reply     \* the status of the last completed store

regVars == <<durable, request, reply>>

RegInit ==
    /\ durable = NoState
    /\ request = NoState
    /\ reply = "none"

\* A state may replace the durable one only if it is well formed and newer.
Acceptable(s) ==
    /\ s.body \in ValidBodies
    /\ durable = NoState \/ IsNewer(s.sequence, durable.sequence)

Accept(s) ==
    /\ request = NoState
    /\ request' = s
    /\ reply' = "none"
    /\ Acceptable(s)
    /\ UNCHANGED durable

\* A store that ends before any flash operation.
Refuse(s, status) ==
    /\ request = NoState
    /\ reply' = status
    /\ UNCHANGED <<durable, request>>
    /\ \/ status = "ok" /\ s = durable
       \/ status = "invalid" /\ s.body \notin ValidBodies
       \/ status = "stale" /\ ~Acceptable(s)
       \/ status = "error"

Commit ==
    /\ request # NoState
    /\ durable' = request
    /\ UNCHANGED <<request, reply>>

\* A store reports its outcome; success means that the state is durable.
Settle(status) ==
    /\ request # NoState
    /\ durable' \in {durable, request}
    /\ status = "ok" => durable' = request
    /\ request' = NoState
    /\ reply' = status

PowerCut ==
    /\ \/ UNCHANGED durable
       \/ request # NoState /\ durable' = request
    /\ request' = NoState
    /\ reply' = "none"

RegNext ==
    \/ \E s \in BootStates : Accept(s)
    \/ \E s \in BootStates, status \in Replies \ {"none"} : Refuse(s, status)
    \/ Commit
    \/ \E status \in {"ok", "error"} : Settle(status)
    \/ PowerCut

RegSpec == RegInit /\ [][RegNext]_regVars
=============================================================================
