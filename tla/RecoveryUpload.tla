---------------------------- MODULE RecoveryUpload ----------------------------
(***************************************************************************)
(* pedalctl.py against the recovery engine: the scripts of "upload" and of *)
(* "restore-full", one request at a time, each sent again with the same    *)
(* bytes when its answer does not come.  Reports wait in two queues: the   *)
(* ones to the pedal, which answers them in order and may take long, and   *)
(* its answers, which nobody discards when they come too late.             *)
(***************************************************************************)
EXTENDS RecoveryEngine

CONSTANTS Images,    \* what "upload" is given; Plans says of which script
          Plans,     \* "upload", "restore"
          FullProgramVerified,  \* CAPABILITY_VERIFIED_FULL_PROGRAM, which GET_INFO tells
          Retries,   \* RecoveryClient.retries
          MaxLost,   \* bound on reports lost in either direction
          MaxLate,   \* bound on answers that come after the host gave up waiting
          MaxRuns    \* bound on runs of pedalctl

ASSUME RecoveryUploadAssumption ==
    /\ Images \subseteq SlotImages
    /\ Plans \subseteq {"upload", "restore"}
    /\ "restore" \in Plans => FullFlashEnabled
    /\ FullProgramVerified \in BOOLEAN
    /\ Retries \in Nat /\ MaxLost \in Nat /\ MaxLate \in Nat /\ MaxRuns \in Nat \ {0}

VARIABLES goal,      \* what this run of pedalctl is asked for
          step,      \* the request that it is at
          tries,     \* attempts of this request that failed
          waiting,   \* in exchange, after the report was written
          client,    \* RecoveryClient.session_flags, session, sequence
          outcome,   \* "running", "done" or "failed"
          reason,    \* why it failed
          requests, responses,
          lost, late, runs

hostVars == <<goal, step, tries, waiting, client, outcome, reason>>
queueVars == <<requests, responses>>
countVars == <<lost, late, runs>>
uploadVars == <<vars, hostVars, queueVars, countVars>>

-----------------------------------------------------------------------------
(* The scripts.                                                            *)

Op(command, offset, data) == [command |-> command, offset |-> offset, data |-> data]

Plain(command) == Op(command, 0, NoData)

Writes(cells) == [k \in 1 .. Len(cells) |-> Op("write", k - 1, cells[k])]

UploadScript(im) ==
    <<Plain("get_info"), Op("begin", Len(im), NoData), Plain("erase")>>
    \o Writes(im)
    \o <<Plain("finalize"), Plain("set_pending"), Plain("reboot")>>

EraseCount == (FlashCells + EraseChunk - 1) \div EraseChunk

RestoreScript(d) ==
    <<Plain("get_info"), Op("begin_full", FlashCells, d)>>
    \o [k \in 1 .. EraseCount |-> Op("erase_full", (k - 1) * EraseChunk, NoData)]
    \o Writes([k \in 1 .. FlashCells |-> WholeChip[d][k - 1]])
    \o <<Plain("finalize_full"), Plain("reboot")>>

Goals ==
    (IF "upload" \in Plans THEN {[plan |-> "upload", of |-> im] : im \in Images} ELSE {})
    \cup (IF "restore" \in Plans
          THEN {[plan |-> "restore", of |-> d] : d \in DOMAIN WholeChip} ELSE {})

Script == IF goal.plan = "upload" THEN UploadScript(goal.of) ELSE RestoreScript(goal.of)

NewClient == [flags |-> SlotA, session |-> 0, sequence |-> 0]

\* The packet of this step, the same one at every attempt.
Request ==
    LET op == Script[step]
    IN  [command |-> op.command,
         flags |-> IF op.command = "begin_full" THEN Full ELSE client.flags,
         session |-> IF op.command = "begin_full" THEN Unlock ELSE client.session,
         sequence |-> client.sequence,
         offset |-> op.offset,
         data |-> op.data]

UploadInit ==
    /\ Init
    /\ goal \in Goals
    /\ step = 1 /\ tries = 0 /\ waiting = FALSE
    /\ client = NewClient
    /\ outcome = "running" /\ reason = "none"
    /\ requests = << >> /\ responses = << >>
    /\ lost = 0 /\ late = 0 /\ runs = 1

-----------------------------------------------------------------------------
(* RecoveryClient._exchange.                                               *)

Fail(why) ==
    /\ outcome' = "failed"
    /\ reason' = why
    /\ UNCHANGED <<goal, step, tries, waiting, client>>

\* Faulty variant: waits for the last answer without end.
NextAttemptPatient(why) ==
    IF tries = Retries THEN UNCHANGED hostVars
    ELSE /\ tries' = tries + 1
         /\ waiting' = FALSE
         /\ UNCHANGED <<goal, step, client, outcome, reason>>

NextAttempt(why) ==
    IF tries = Retries THEN Fail(why)
    ELSE /\ tries' = tries + 1
         /\ waiting' = FALSE
         /\ UNCHANGED <<goal, step, client, outcome, reason>>

Send ==
    /\ outcome = "running" /\ on /\ ~waiting
    /\ requests' = Append(requests, Request)
    /\ waiting' = TRUE
    /\ UNCHANGED <<vars, goal, step, tries, client, outcome, reason, responses, countVars>>

\* What reboot makes of an OSError that tells of a device that is gone.
Rebooted ==
    /\ Script[step].command = "reboot"
    /\ outcome' = "done"
    /\ UNCHANGED <<goal, step, tries, waiting, client, reason>>

\* os.write raises although the report may have been delivered.  The last
\* OSError may be one that reboot expects, although the pedal is still there.
SendFails ==
    /\ outcome = "running" /\ on /\ ~waiting
    /\ \/ /\ lost < MaxLost
          /\ lost' = lost + 1
          /\ UNCHANGED <<requests, late>>
       \/ /\ late < MaxLate
          /\ late' = late + 1
          /\ requests' = Append(requests, Request)
          /\ UNCHANGED lost
    /\ NextAttempt("timeout") \/ (tries = Retries /\ Rebooted)
    /\ UNCHANGED <<vars, responses, runs>>

\* The answer, or the request, was lost.
TimesOut ==
    /\ outcome = "running" /\ waiting /\ on
    /\ requests = << >> /\ responses = << >>
    /\ NextAttempt("timeout")
    /\ UNCHANGED <<vars, queueVars, countVars>>

\* The pedal is still busy.
TimesOutEarly ==
    /\ outcome = "running" /\ waiting /\ on
    /\ requests # << >> /\ responses = << >>
    /\ late < MaxLate
    /\ late' = late + 1
    /\ NextAttempt("timeout")
    /\ UNCHANGED <<vars, queueVars, lost, runs>>

Matches(r, request) ==
    /\ r.command = request.command
    /\ r.flags = request.flags
    /\ r.sequence = request.sequence
    /\ request.command \notin {"begin", "begin_full"} => r.session = request.session

\* The slot that is not confirmed, unless it is the one selected for boot.
TargetOf(info) == IF info.confirmed = SlotA THEN SlotB ELSE SlotA

Refuses(r) ==
    \/ r.command = "get_info"
          /\ IF goal.plan = "upload" THEN TargetOf(r.data) = r.data.selected
             ELSE ~FullProgramVerified
    \/ r.command = "erase_full"
          /\ r.offset # (IF Request.offset + EraseChunk < FlashCells
                         THEN Request.offset + EraseChunk ELSE FlashCells)

ClientAfter(r) ==
    CASE r.command = "get_info" ->
            [client EXCEPT !.flags = IF goal.plan = "upload" THEN TargetOf(r.data) ELSE Full]
      [] r.command \in {"begin", "begin_full"} ->
            [client EXCEPT !.session = r.session, !.sequence = 1]
      [] OTHER -> [client EXCEPT !.sequence = client.sequence + 1]

Advance(r) ==
    /\ client' = ClientAfter(r)
    /\ tries' = 0
    /\ waiting' = FALSE
    /\ IF step = Len(Script) THEN outcome' = "done" /\ UNCHANGED step
       ELSE step' = step + 1 /\ UNCHANGED outcome
    /\ UNCHANGED <<goal, reason>>

Receive ==
    /\ outcome = "running" /\ waiting
    /\ responses # << >>
    /\ LET r == Head(responses)
       IN  CASE ~Matches(r, Request) -> Fail("mismatch")
             [] Matches(r, Request) /\ r.status # "ok" -> Fail(r.status)
             [] Matches(r, Request) /\ r.status = "ok" /\ Refuses(r) -> Fail("protected")
             [] OTHER -> Advance(r)
    /\ responses' = Tail(responses)
    /\ UNCHANGED <<vars, requests, countVars>>

\* Faulty variant: takes the reset for granted one request too early.
DisconnectedEarly ==
    /\ outcome = "running" /\ ~on
    /\ waiting => responses = << >>
    /\ IF Script[step].command \in {"set_pending", "reboot"}
       THEN outcome' = "done" /\ UNCHANGED <<goal, step, tries, waiting, client, reason>>
       ELSE Fail("gone")
    /\ UNCHANGED <<vars, queueVars, countVars>>

\* The device node is gone: every further attempt raises an OSError, which is
\* what reboot expects.
Disconnected ==
    /\ outcome = "running" /\ ~on
    /\ waiting => responses = << >>
    /\ IF Script[step].command = "reboot" THEN Rebooted ELSE Fail("gone")
    /\ UNCHANGED <<vars, queueVars, countVars>>

\* The user starts pedalctl again; what was sent to the pedal stays sent.
RunAgain ==
    /\ outcome # "running" /\ on
    /\ runs < MaxRuns
    /\ runs' = runs + 1
    /\ goal' \in Goals
    /\ step' = 1 /\ tries' = 0 /\ waiting' = FALSE
    /\ client' = NewClient
    /\ outcome' = "running" /\ reason' = "none"
    /\ responses' = << >>
    /\ UNCHANGED <<vars, requests, lost, late>>

-----------------------------------------------------------------------------
(* The pedal.                                                              *)

\* One report is served; its answer may not get onto the bus.
Serve ==
    /\ requests # << >>
    /\ \E status \in Statuses :
          /\ Process(Head(requests), status)
          /\ \/ /\ responses' =
                      IF on' THEN Append(responses, Answer(Head(requests), status)) ELSE responses
                /\ UNCHANGED lost
             \/ on' /\ lost < MaxLost /\ lost' = lost + 1 /\ UNCHANGED responses
    /\ requests' = Tail(requests)
    /\ UNCHANGED <<hostVars, late, runs>>

\* Power or the cable.
Unplug ==
    /\ on
    /\ on' = FALSE
    /\ UNCHANGED <<flash, durable, boot, active, sessionVars, progressVars, expected,
                   previous, updates, hostVars, queueVars, countVars>>

Host == Send \/ SendFails \/ TimesOut \/ TimesOutEarly \/ Receive \/ Disconnected \/ RunAgain

UploadNext == Host \/ Serve \/ Unplug

UploadSpec == UploadInit /\ [][UploadNext]_uploadVars

\* pedalctl runs and its timeouts fire; the pedal answers in the end.
UploadFairness ==
    /\ WF_uploadVars(Send) /\ WF_uploadVars(TimesOut) /\ WF_uploadVars(Receive)
    /\ WF_uploadVars(Disconnected) /\ WF_uploadVars(Serve)

-----------------------------------------------------------------------------
(* Properties.                                                             *)

\* What pedalctl reports is there: after "pending" the journal names the slot
\* as pending and the slot holds the file; after "full-flash-restored" the
\* chip is the file.  This is so although a device that seems gone counts as
\* the answer to REBOOT, and stays so whatever the pedal does with the reports
\* that are still on their way when it was not.
SuccessIsReal ==
    outcome = "done" =>
        IF goal.plan = "upload"
        THEN /\ durable # NoState
             /\ durable.pending = client.flags
             /\ \A k \in 1 .. Len(goal.of) : flash[SlotBase(client.flags) + k - 1] = goal.of[k]
        ELSE flash = WholeChip[goal.of]

\* Retries hide lost reports: a request that is sent again is never refused
\* for having been executed, unless a BEGIN of an earlier run of pedalctl was
\* answered so late that this run took its session for its own.  Where no
\* answer came too late, pedalctl gives up for want of an answer only after
\* more losses than it has retries, and never because of an answer that does
\* not match.
LossesAreMasked ==
    /\ (runs = 1 \/ late = 0) => reason # "refused"
    /\ late = 0 => /\ reason # "mismatch"
                   /\ reason = "timeout" => lost > Retries

\* pedalctl always comes back.
UploadEnds == outcome = "running" ~> outcome # "running"

-----------------------------------------------------------------------------
(* The inductive invariant behind SuccessIsReal and LossesAreMasked.       *)

UploadTypeOK ==
    /\ goal \in Goals
    /\ step \in 1 .. Len(Script)
    /\ tries \in 0 .. Retries
    /\ waiting \in BOOLEAN
    /\ client \in [flags : Slots \cup {Full}, session : Nat, sequence : Nat]
    /\ client.session <= session
    /\ outcome \in {"running", "done", "failed"}
    /\ requests \in Seq(Packets) /\ responses \in Seq(Responses)
    /\ lost \in Nat /\ late \in Nat /\ runs \in Nat \ {0}

BeginCommands == {"begin", "begin_full"}

Opens(a) == a.command \in BeginCommands /\ a.status = "ok"

Informs(a) == a.command = "get_info" /\ a.status = "ok"

\* What BEGIN leaves.
OpenedBy(q) ==
    /\ phase = "begun" /\ expected = 1 /\ next = 0 /\ size = q.offset
    /\ full = (q.command = "begin_full")
    /\ IF full THEN digest = q.data /\ erased = 0 ELSE target = q.flags

\* The cached exchange is the last one that changed anything.
CacheInv ==
    previous # NoPrevious =>
        LET q == previous.request
            a == previous.response
        IN  /\ previous \in [request : Packets, response : Responses]
            /\ a.status = "ok" /\ Matches(a, q)
            /\ q.command \in SessionCommands => q.session = session /\ q.sequence < expected
            /\ q.command \in BeginCommands => a.session = session /\ OpenedBy(q)
            /\ q.command = "reboot" => ~on

\* No update changes what GET_INFO tells of the slot that may be its target.
SelectionInv == active # boot.confirmed => SelectedSlot(boot) = active

ResponseInv(a) ==
    /\ a.command \in SessionCommands =>
          /\ a.session \in 0 .. session
          /\ a.status = "ok" /\ a.session = session => a.sequence < expected
    /\ Opens(a) => a.session \in 0 .. session
    /\ a.command = "reboot" => a.status # "ok"
    /\ Informs(a) => /\ a.data.confirmed = boot.confirmed
                     /\ active # boot.confirmed => a.data.selected = active

\* Whatever run they belong to.
QueueInv ==
    /\ \A i \in DOMAIN requests :
          requests[i].command \in SessionCommands => requests[i].session \in 0 .. session
    /\ \A i \in DOMAIN responses : ResponseInv(responses[i])

PedalInv == CacheInv /\ SelectionInv /\ QueueInv

\* The packets of this run.
InfoRequest ==
    [command |-> "get_info", flags |-> SlotA, session |-> 0, sequence |-> 0,
     offset |-> 0, data |-> NoData]

Packet(k) ==
    [command |-> Script[k].command,
     flags |-> client.flags,
     session |-> IF k > 2 THEN client.session
                 ELSE IF goal.plan = "upload" THEN 0 ELSE Unlock,
     sequence |-> IF k > 2 THEN k - 2 ELSE 0,
     offset |-> Script[k].offset,
     data |-> Script[k].data]

LastExecuted(q) == previous # NoPrevious /\ previous.request = q

\* So many requests ahead is the last GET_INFO of this run.
InfoAt(p) == IF p = 0 THEN LastExecuted(InfoRequest) ELSE requests[p] = InfoRequest

OnlyAfter(p, q) == \A i \in p + 1 .. Len(requests) : requests[i] = q

\* No request of a session that is on its way is for this one.
Fresh(s) ==
    /\ \A i \in DOMAIN requests :
          requests[i].command \in SessionCommands => requests[i].session # s
    /\ \A i \in DOMAIN responses :
          responses[i].command \in SessionCommands => responses[i].session # s

\* This run had an answer to GET_INFO when it gets the response at j.
Informed(j) == step = 2 \/ \E i \in DOMAIN responses : i < j /\ Informs(responses[i])

FreshInv ==
    step <= 2 =>
        /\ \A j \in DOMAIN responses :
              Informed(j) /\ Opens(responses[j]) => Fresh(responses[j].session)
        /\ Informed(Len(responses) + 1) /\ previous # NoPrevious
              /\ previous.request.command \in BeginCommands => Fresh(session)

FlagsInv ==
    step >= 2 => IF goal.plan = "upload"
                 THEN client.flags \in Slots \ {boot.confirmed, active}
                 ELSE client.flags = Full

Asking ==
    /\ client = NewClient
    /\ waiting => InfoAt(Len(requests))

Opening ==
    /\ client.session = 0 /\ client.sequence = 0
    /\ \/ LastExecuted(Packet(2)) /\ OnlyAfter(0, Packet(2))
       \/ \E p \in 0 .. Len(requests) : InfoAt(p) /\ OnlyAfter(p, Packet(2))
    /\ waiting => IF requests = << >> THEN LastExecuted(Packet(2))
                  ELSE requests[Len(requests)] = Packet(2)

\* The session is another run's: it was left, or will be before any request of
\* it is served.
Doomed ==
    /\ step = 3
    /\ \A i \in DOMAIN responses :
          responses[i].command \in SessionCommands /\ responses[i].session = client.session
              => responses[i].status # "ok"
    /\ \/ session # client.session
       \/ \E p \in 0 .. Len(requests) - 1 :
             /\ InfoAt(p) /\ requests[p + 1] = Packet(2)
             /\ \A i \in 1 .. p :
                   requests[i].command \in SessionCommands => requests[i].session # client.session

\* The cells of the file, and the script's last request before they are sent.
Count == IF goal.plan = "upload" THEN Len(goal.of) ELSE FlashCells

Prologue == IF goal.plan = "upload" THEN 3 ELSE EraseCount + 2

Cell(k) == IF goal.plan = "upload" THEN goal.of[k] ELSE WholeChip[goal.of][k - 1]

\* The engine after the script's first k requests.
Progress(k) ==
    /\ phase = CASE k < Prologue -> "begun"
                 [] k = Prologue -> "erased"
                 [] k > Prologue /\ k <= Prologue + Count -> "writing"
                 [] k > Prologue + Count ->
                      IF goal.plan = "upload" /\ k > Prologue + Count + 1 THEN "pending"
                      ELSE "finalized"
    /\ next = IF k <= Prologue THEN 0 ELSE IF k <= Prologue + Count THEN k - Prologue ELSE Count
    /\ k >= Prologue => Len(sent) = next /\ \A j \in 1 .. next : sent[j] = Cell(j)
    /\ goal.plan = "restore" /\ k < Prologue => erased = (k - 2) * EraseChunk

\* The session is this run's, which is at most one request behind.
Live ==
    /\ session = client.session
    /\ size = Count
    /\ full = (goal.plan = "restore")
    /\ IF full THEN digest = goal.of ELSE target = client.flags
    /\ \E k \in {step - 1, step} :
          /\ LastExecuted(Packet(k))
          /\ expected = k - 1
          /\ Progress(k)
          /\ \E p \in 0 .. Len(requests) :
                (\A i \in 1 .. p : requests[i] = Packet(k)) /\ OnlyAfter(p, Packet(step))

PlaceInv ==
    /\ step = 1 => Asking
    /\ step = 2 => Opening
    /\ step >= 3 => client.sequence = step - 2 /\ (Live \/ Doomed)

\* Nothing of an earlier run is on its way.
OwnInv ==
    /\ \A i \in DOMAIN responses : responses[i].status # "refused"
    /\ step = 1 =>
          /\ \A i \in DOMAIN requests : requests[i] = InfoRequest
          /\ \A i \in DOMAIN responses : ~Opens(responses[i])
    /\ step = 2 =>
          \/ /\ LastExecuted(Packet(2)) /\ OnlyAfter(0, Packet(2))
             /\ \A i \in DOMAIN responses :
                   Opens(responses[i]) => responses[i].session = session
          \/ /\ \A i \in DOMAIN responses : ~Opens(responses[i])
             /\ \E p \in 0 .. Len(requests) :
                   /\ InfoAt(p) /\ OnlyAfter(p, Packet(2))
                   /\ \A i \in 1 .. p : requests[i] = InfoRequest
    /\ step >= 3 => Live

RunInv ==
    outcome # "failed" =>
        /\ FreshInv /\ FlagsInv /\ PlaceInv
        /\ (runs = 1 \/ late = 0) => OwnInv

\* Without late answers one message is on its way at most, and where there is
\* none a report was lost.
PromptInv ==
    late = 0 =>
        /\ reason # "mismatch"
        /\ reason = "timeout" => lost > Retries
        /\ outcome # "running" /\ on => requests = << >>
        /\ outcome = "running" =>
              /\ Len(requests) + Len(responses) <= IF waiting THEN 1 ELSE 0
              /\ \A i \in DOMAIN requests : requests[i] = Request
              /\ \A i \in DOMAIN responses : Matches(responses[i], Request)
              /\ on => lost >= tries
              /\ on /\ waiting /\ requests = << >> /\ responses = << >> => lost > tries

\* A success is reported of REBOOT alone.
SuccessInv == outcome = "done" => Script[step].command = "reboot"

UploadInv ==
    /\ EngineInv
    /\ UploadTypeOK
    /\ PedalInv
    /\ RunInv
    /\ SuccessInv
    /\ (runs = 1 \/ late = 0) => reason # "refused"
    /\ PromptInv
=============================================================================
