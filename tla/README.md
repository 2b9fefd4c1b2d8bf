# TLA+ models of the NUX pedal's open firmware

These modules model the control logic of the open firmware and of the host tool
that updates it: what survives a power failure, which image runs, who may
overwrite what, what a lost or late answer leads to, and what the interrupts of
the audio application may find between any two steps of its foreground. TLC
checks every module on small instances; TLAPS proves the central results for
every value of the constants.

## The system

| Part | State | Operations | What makes it hard | What makes it correct |
|---|---|---|---|---|
| Boot journal (`boot_journal.c`, `boot_state.c`) | two NOR sectors of records | load, store | power cuts inside an erase or a program, failing flash, a wrapping counter | one newest record, always found; a store is atomic |
| Boot policy (`boot_controller.c`, `boot_lifecycle.c`, `boot_handoff.c`, `bootloader*.c`) | the journal's state, the retained tokens, the watchdog | one pass per reset | resets at any step, failed stores, consumed tokens | budgeted trials, a rollback target that works, every trial is settled |
| Applications' health confirmation (`app/src/main.c`, `hardware_app/src/main.c`) | the tokens, their own start-up | confirm, ask for recovery | hangs, resets between two register writes | a hang leads into recovery, health is confirmed once |
| Warm-reset mailboxes (`boot_trial.c`, `boot_recovery_request.c`, `factory_engine_request.c`) | the SRC registers | publish, arm, consume, clear | a reset between two register writes | whole tokens or none, each used once |
| Recovery engine (`recovery_engine.c`, `recovery_storage.c`, `recovery_protocol.c`) | session, phase, progress, retry cache, flash | one handler per command | duplicates, abandoned sessions, operations that fail half-way | what was acknowledged is stored, pending is durable, only the target changes |
| USB recovery transport (`recovery_usb.c`, `ram_recovery/src/main.c`) | two packet buffers, the endpoints, the bus | interrupt callbacks, service loop | interrupts around `wfi` and during long erases, bus resets | each request is answered once and in order, the endpoint comes back |
| Host tool (`pedalctl.py`) | position in its script, retries | upload, restore | late answers, lost reports, a pulled cable | success means success, nothing is executed twice |
| USB audio capture (`usb_audio_capture.c`, `usb_audio_ring.c`) | ring, stream state | push, packet, reset | two interrupts without a lock, two clocks | a contiguous stream, no silent stop |
| Pedal control (`hardware_app/src/main.c`, `footswitch_gesture.c`) | switch, gesture, route, selector, fades | poll loop, audio interrupt | the interrupt between two steps, contact bounce, noise | no gap and no click, one event per press, no chatter |
| Audio path (`audio_passthrough.c`) | four DMA halves of two minor loops, the interrupt bits | minor and major loops of the two channels, block interrupt | an interrupt that comes late, or is overtaken by either channel | a block that is served before its half is fetched is sent whole, whatever came late before it |
| Start-up and codec (`hardware_app/src/main.c`, `codec_probe.c`, `board_control.c`) | the board's outputs, the control bus, the converter's registers | drive, probe, configure, read back | stuck lines, foreign devices, a converter that a reset left in the middle of a byte, a reset between any two writes | the dry route stays, only the converter is configured, the start always ends |
| Factory bridge (`factory_engine_launcher.c`, the return monitor) | engine image in ITCM, machine set-up | check, copy, patch, enter, select | a stale request, an engine that was changed | only whole patched engines are entered, a refusal touches nothing |
| Effect chain (`effect_runtime.c`) | arena, instances, their contexts | add, set, process, reset, clear | an arena nothing aligns, callbacks that fail half-way | contexts never overlap or leave the arena |
| Programs (`program_runtime.c`, `program_selector.c`, `programs_builtin.c`, `app/src/main.c`) | library, cursor, navigation switch | validate, prepare, move, sample | half-built chains, saturating counters | a program is active whole or not at all, one change per hold |
| Editor's host process (`editor_host.c`) | arguments, overrides, stream position | prepare, override, serve, render | failures between two calls, any cut of the stream into requests | a stream serves only what was accepted in full |
| NOR driver, FlexSPI backend | controller, flash array | erase, program, read, verify | partial failure | what it reports is what the array holds |
| Effect editor (`host/editor`) | sessions, builds, a live process | HTTP handlers on threads | two starts at once, disconnects | one live process, the one last asked for |
| Other tools, emulators, vendor patches | files | offline | | |

How they interact: the bootloader calls the journal and publishes a handoff
token; the application turns it into a confirmation and resets; the next pass
of the bootloader consumes it and stores the confirmation. A recovery request in
the mailbox, the footswitch or an empty slot lead into a recovery personality,
where USB feeds reports to the recovery engine, which writes slots and the same
journal. The host tool drives that protocol. The hardware application first
consumes an engine request, and either launches a factory engine or arms the
recovery request, settles its trial, brings up the board and the converter, and
enters its control loop. There the audio interrupt calls the effect processor
and the USB ring, the USB interrupt empties the ring, and the foreground moves
the jack and selects effects. The open application, the editor's host process
and any other caller of the headers share the effect runtime and the programs.

`PROJECT.json` lists every component with its sources and what is left out of it.

## The modules

| Module | Models | State and actions |
|---|---|---|
| `BootSequence` | the wrapping counter of `boot_state_t` | operators; `IsNewer` is the signed difference on a ring of `2 * HalfSeq` values |
| `BootRegister` | what a journal promises: one register, changed at once | `Accept`ed stores, cut by power loss |
| `BootJournal` | `boot_journal.c`, one flash operation at a time | `flash` is two sectors of cells, each erased, torn or a record; a store scans, then appends, or erases, programs and erases; every operation may fail before, in or after its effect |
| `BootState` | the operations of `boot_state.c` | operators on `(sequence, confirmed, pending, trials)` |
| `BootController` | `boot_controller_run`, the handoff, the applications and the session that makes an image pending | `durable` is the journal (as `BootRegister`), `ram` the caller's copy, `mail` the retained token, `pc` the place in the pass; one action per branch |
| `TrialMailbox` | `boot_trial.h` as a mailbox that changes at once | |
| `WarmResetMailboxes` | the registers, one write at a time | `gpr` is the registers, `todo` the writes that whoever is writing has left; a reset drops them |
| `RecoveryEngine` | `recovery_engine.c` with its storage rules | session, progress, cache and cells of `flash`; one action per command with its status, `Refuse` for the checks before it, `Replay` for the cache |
| `RecoverySession` | the refinement from `RecoveryEngine` to the session of `BootController` | |
| `RecoveryUsb` | `recovery_usb.c` and the service loop | the buffers, `armed`, `pc` of the foreground; callbacks are actions that come between any two of its steps |
| `RecoveryUpload` | `pedalctl.py` over two report queues to `RecoveryEngine` | the script position, attempts, queues; the engine's own actions are the pedal |
| `UsbAudioCapture` | the ring, the stream and its two interrupts | indices and numbered samples; the USB interrupt is cut at every access to shared state |
| `Stompbox` | the control loop of the hardware application with its audio interrupt | switch and gesture counters, the route, the fades, the selector; `Poll`, `Engage`, `Disable`, `Select`, `Knobs`, `AudioBlock` |
| `AudioPath` | the DMA halves and the block interrupt under that loop | the minor loop that each channel does next, the raised bits, the place in the handler; `Fetch`, `Store` and `MajorLoop` may come between any two steps of the handler |
| `FactoryBoard` | `board_control.c` as sequences of register writes | `high` is the port bits, `drives` the writes left; one step per write |
| `CodecBus` | `codec_probe.c`: the search, the register image, the read-back | what is on the muxed pads, the place in a transfer, what the converter holds; any byte may go unheard and any clock may fail |
| `EngineLauncher` | `factory_engine_launcher.c` | the parts of an engine found in flash and copied to ITCM; check, prepare, copy, patch |
| `HardwareStart` | `application_main()` up to the loop | `step` is where it is; resets between any two register writes of mailboxes and outputs |
| `EffectRegistry` | descriptors and their validation in `effect_runtime.c` | operators |
| `ProgramLibrary` | programs, catalogs, banks and their validation in `program_runtime.c` | operators |
| `EffectChain` | the chain of `effect_runtime.c` in its arena | instances, the bytes used, who wrote each byte last; every callback may fail |
| `ProgramRuntime` | `program_prepare` and the cursor | the loops over nodes and values, one call per step |
| `EditorHost` | `editor_host.c`, and the caller of the headers | place in `main()`, frames requested, left and answered |
| `ProgramSelector` | `program_selector.c` | saturating counters; history of the switch |
| `BuiltinPrograms` | the effects and programs in the open application | data |
| `Application` | `app/src/main.c` and its navigation | |
| `Programs` | the programs the runtime is linked into, one of which runs | |

`RecoveryUpload` composes the host with the engine; `RecoverySession` connects
the engine to the policy; the policy rests on the register that the journal
implements and on the mailbox that the registers implement. `HardwareStart`
composes the mailboxes with the launcher, the board and the control bus, and
ends where `Stompbox` begins; `AudioPath` puts the DMA under `Stompbox`;
`Programs` composes the host process and the application over the runtime. The
chain of refinements is

    BootJournal        implements BootRegister, the journal of BootController
    HardwareStart      implements TrialMailbox, the mail of BootController
    RecoveryEngine     implements the session of BootController (an A/B session)
    AudioPath          implements Stompbox
    RecoveryUpload     drives RecoveryEngine

The `MC*` modules give the constants values; operators named `...Any`,
`...Unchecked` and the like, marked "Faulty variant", are single-step mistakes
the properties must notice, and no specification uses them.

Data are abstracted. A payload is a model value that fills one cell; an image
is healthy, broken or one of two kinds of application; a hash stands for the
cells themselves; a sample is its number, or in the programs only the number of
frames; an effect of the control loop is the position selecting it; the
register image of the converter is one value; a float is an integer or NaN.

## The runs

| Run | Shows | Bounds, and why they are enough |
|---|---|---|
| `boot_journal` | the newest record is unique, found and kept; the journal is an atomic register | two cells per sector, so that appending, a full sector and both directions of the switch occur, with a ring of 18 sequence numbers, so that everything happens across the wrap; `CallerLead` 2 is how far a caller that was refused can be ahead |
| `boot_policy` | budgeted and guarded trials, a working rollback target, protection of the confirmed slot; every trial is settled; with flash that works, a healthy image becomes confirmed | 3 trials as in the code, 3 updates (so that both slots are written and rewritten), 2 power cycles (fewer than trials), flash that may fail and flash that does not |
| `start` | from the bootloader's jump to the control loop: tokens are used once, the registers implement the mailbox, a hang leads to recovery, the dry route stays, the loop has a verified converter, an engine is entered whole, the start ends | a ring of four sequence numbers (so that a complement can be zero), two slots, one engine of each kind, two pairs of pads (so that the search goes on past a device and a candidate), the three registers that are read back; 374 000 states |
| `recovery_ab` | acknowledged, pending, finalized and cached answers; what a session may change; refinement into the policy | 4 cells per slot in sectors of 2, so that a write fails inside a sector and an erase between two; 2 sessions, 2 updates; requests with every combination of fields that the engine distinguishes |
| `usb` | answers once, in order, from the right buffer; requests are served; the endpoint comes back | 4 sends, 3 bus events; two requests tell a repeat from a new one |
| `upload` | of an upload and of a restored chip: what `pedalctl` reports is true, losses are hidden by the retries, the tool ends | 1 retry, 2 losses (more than the retries can hide), 1 late answer, 2 starts of the tool; a pedal that tells the capability `FullProgramVerified` (below); 331 000 states |
| `usb_audio` | a contiguous stream over the interrupts' interleavings; a fast codec clock is absorbed; a stream that stops has been counted or configured away | a ring of 5 packets of 4 samples; blocks of 2 samples stand for the 8 of 48, so that a slip is larger than what one longer packet makes up for, as in the code |
| `stompbox` | the jack, the gestures and the selector, under interrupts that come late; a block served in time is sent whole | 3 detents with 6 readings on, near and between them; 2 polls of debouncing, 4 of holding, 2 blocks per poll; a fade of 3 blocks, a settling time of 5 and at most 2 blocks outstanding while it runs, the least for which the fade is complete; both channels' minor loops with interrupts of any lateness while the ADC does not answer, and an interrupt that returns before the next minor loop while it does (`MCPunctual`); 1.26 million states |
| `programs` | contexts never overlap, programs are whole or absent, a validated library has no dead ends, a stream keeps time, one change per hold | an arena of 16 bytes at addresses 1 and 6, so that the alignment of 8 pads differently; 3 instances; registries and libraries that each break one rule; words that saturate at 12, with a hold of 5 and a release of 2; 301 000 states |
| `boot_xip_target`, `usb_rearm`, `usb_audio_slow` | the three disagreements below | |

Full-chip sessions are in `upload`: the restore of a whole chip runs against
the complete engine. `validate_full_restore_target` asks for the capability
`RECOVERY_CAPABILITY_VERIFIED_FULL_PROGRAM`, which `recovery_engine.c` at this
commit never tells, as `docs/hardware/NOR_PROGRAM_FIFO_DEFECT.md` announces, so
that `restore-full` stops after GET_INFO. The constant `FullProgramVerified` is
that bit. The run has it TRUE, to show what the script does once the bit is told;
the proofs hold for both values. The mailboxes' own steps are in `start`, where both
applications and the bootloader write them.

Deadlock is checked in the journal, start, USB and capture runs. The others may
stop: an application that runs, a stopped board, an exhausted bound, a tool or a
process that has ended, a reset into another engine.

### Disagreements between code and documents

* `boot_xip_target`: the XIP recovery built with writes enabled gives the engine
  the controller's RAM state. After a confirmation whose store failed, it names
  as confirmed the slot that the journal still calls pending, and the session may
  erase the slot the journal would fall back to. The protocol document forbids
  such a target. The RAM personality loads the journal and is proved safe.
* `usb_rearm`: selecting a configuration or interface arms the endpoint even
  while a deferred request is executed; the next report lands in the buffer the
  engine reads. The comment in `recovery_usb.c` says the endpoint stays unarmed.
* `usb_audio_slow`: packets of 47 to 49 frames absorb a codec clock that is fast
  but not one that is slow. The short packet is sent only once less than a packet
  is left and takes it all, so no reserve builds up.

## Fairness

* Boot policy: weak fairness of the bootloader's steps, of the application's
  start-up and of a running watchdog. A processor runs its code and a watchdog
  fires. Power cycles, hangs, the host and the user are never obliged to
  anything.
* USB: the foreground runs, SysTick ticks (it ends every `wfi`), the host polls
  the IN endpoint and configures the device it has reset. It need not send.
* Upload: the tool runs, its timeouts expire, the pedal serves what has arrived.
* Start: the processor executes the start and the writes of the mailboxes.
  Nothing makes it reset, the lines of the control bus may stay stuck for ever,
  and the user and the other application need not do anything.
* The journal, recovery engine, USB audio, control loop and programs have safety
  properties only.

## The proofs

| Module | Proves |
|---|---|
| `BootJournalProofs` | the wrap-around comparison, and transitivity within half the ring; `JournalInv`, the order of records, that the scan finds the newest, that an increment of its counter is newer than every record, and that the journal implements `BootRegister` |
| `BootControllerProofs` | what each operation of `boot_state.c` keeps and changes; `BootInv` and five safety properties of the policy |
| `RecoveryProofs` | `EngineInv` and six properties of the engine; that its A/B sessions implement the policy's, and that the rollback slot boots; `UploadInv` of `pedalctl` against the engine, that what it reports as done is there, and that its retries hide losses |
| `RecoveryUsbProofs` | `UsbInv`, and that requests are answered once, in order, and from the right entry of the cache |
| `UsbAudioCaptureProofs` | `CaptureInv`, a contiguous stream and no silent stop; `FillInv`, and that a fast codec is absorbed |
| `StompboxProofs` | the route, the gestures and the selector, each from an invariant of its own; the audio path, its refinement, and the route again under it |
| `ProgramsProofs` | `ArenaInv` and contexts that stay intact; `ProgramsInv` and programs that are whole, streams that keep time, libraries without dead ends; one change per hold |
| `HardwareStartProofs` | every safety property of the start, and that the registers implement the mailbox |

The assumptions are those the modules name (`JournalAssumption` and so on):
at least one cell per sector, `HalfSeq > 2 * CallerLead * CellCount` (in the
code 2^31 against 512: two sectors of 128 records, each at most two numbers
apart), distinct slots, at least one trial; images that fit a slot and are not
shorter than a manifest with its vectors, which `validate_stored_image` demands;
programs and libraries that are arrays, as C has no others; the flag of a
whole-chip packet is no slot, and an empty retry cache holds no exchange
(`PacketAssumption`: they are other bits of the packet, and `has_previous`). Four of the theorems
or groups of theorems have a hypothesis of their own:

* those of the policy, that the recovery personality runs from RAM, without which
  `boot_xip_target` shows the property false;
* `EngineImplementsPolicy`, that the engine has no whole-chip sessions: those
  erase the journal and both slots, and the policy has no step for it. The RAM
  personality enables them, so for it the theorem says what an A/B update does as
  long as nobody starts one, and `RollbackStaysBootable` has the same condition
  inside its property;
* `FastClockIsAbsorbed`, `Tolerable`: the ring has room for three packets and two
  blocks, and a slip of a block comes no more often than packets of one sample
  more make up for. A ring of 1024 frames, packets of 48 and blocks of 8 satisfy
  the first, and a codec that is faster by less than one frame in a packet the
  second;
* `UnarmedWithoutEvents`, that the host has not reset or configured the bus, as
  `usb_rearm` shows why.

The invariants, and why they are what they are:

* The journal. "There is one newest record" is not inductive: a torn program
  or a skipped erase leaves records of both sectors side by side. `JournalInv`
  ranks the cells in the order of writing, those of the older sector before those
  of the head: of two records the one of higher rank is newer, by no more than
  `CallerLead` numbers for every rank between them; the head is written from its
  start without gaps; and each step of a store says where the requested record
  will go and that it may follow there. All records then lie within a window of
  `2 * CallerLead * CellCount` numbers on the ring, which makes the comparison a
  total order on them. The scan keeps the best of the records it has passed; its
  result is the head's last record because every comparison it makes is one of
  that order.
* The policy. `BootInv` adds to the types: a token in the mailbox names the
  trial that is newest in the journal; while a trial is being loaded the journal
  is one ahead of the jumps; an application that runs unconfirmed is the pending
  one, with token and watchdog; a session never targets the durably confirmed
  slot, which its own copy of the state names too.
* The engine. `EngineInv` connects phase, progress and flash: only a write
  leaves the phase an erase enters, so that in `begun` and `erased` nothing
  acknowledged can be lost; the journal is at most ahead of the engine's copy.
  The refinement maps "erased" and "writing" to the policy's "written" as soon as
  the cells hold an image, whatever the phase says, since that is when the slot
  would boot. It rests on the first cell of the slot: every erase that succeeded
  took it, and without it there is no image; an erase, whole or not, makes no
  image that was not there.
* The USB transport. `ExchangeInv`: until the first bus event one request is open
  at most, and it is in one place: received, executed, answered or being sent. All
  that time the endpoint is unarmed and `g_out_packet` still holds the request,
  which is why the engine may copy it into its cache after executing it.
* The upload. `UploadInv` says of each state what the engine has executed of the
  script. While a run asks for GET_INFO or opens its session, the queue to the
  pedal ends with this run's requests, whatever of an earlier run lies before
  them. From the third request on the run is one of two things. `Live`: the session is
  this run's, the engine has executed the request of this step or the one before,
  the retry cache holds that request, `Progress` says phase, offset and payloads for
  it, and all reports on the way to the pedal are these two. `Doomed`: an answer
  to an earlier run's BEGIN was taken for this run's; the session was left or this
  run's own GET_INFO and BEGIN, which are still on their way, will leave it before
  a request of it is served, and no good answer in it will come; so a doomed run
  ends at its third request. That an answer which comes late cannot be taken for
  a later request's follows from the session it carries, or within a session
  from its sequence number, below the engine's next one (`ResponseInv`). A run
  that reaches REBOOT is therefore live, and what the engine's own invariant says of
  "pending" and "finalized" is what `SuccessIsReal` asks for. `PromptInv` is about runs
  without late answers: one message is on its way at most, it is this request or its
  answer, and where there is none a report was lost. A run goes on to be described after it
  reported success: an OSError at the last attempt of REBOOT counts as success
  although the pedal may still be there and have reports to serve.
* USB audio. `RingInv` says what lies between the two indices, in every state but
  the one between the two writes of a reset, where they mean nothing. `FillInv` is
  about the fill at the moments when the host collects a packet: it never falls
  by more than a block below a packet, and each time it does, the packet that is
  padded leaves the ring fuller than before, so that this happens three times at
  most; above three packets the longer packets take away what the slips bring.
* The control loop. `RouteInv` adds what the settling time is for: the blocks
  still to be waited are enough for what is left of the fade and for the blocks
  that are outstanding, which needs `SettleBlocks >= RampTop + MaxBehind` (at
  48 kHz the 20 ms are 120 blocks of 8 frames and the fade of 512 frames takes 64,
  which leaves room for 56 late blocks; nothing in the code checks it). `PressInv` ties the event
  to the gesture's own flags. `SelectorInv` says of the reading of the last
  change that it was nearest to the new position and farther from the old one by
  the hysteresis; moving it by one unit changes the difference of two distances
  by two units at most, which gives the two bounds of `HysteresisSeparates`. That
  a nearest detent exists is itself a lemma, from the well-foundedness of finite
  sets.
* The audio path. Every step of `AudioPath` is one of `Stompbox` or leaves it
  alone, so that the properties of the loop carry over. `PathInv` is about the minor
  loops: the two channels are never at the same one, a handler that no block has
  overtaken works on the half that was completed last, since it takes the half
  from the descriptor in use, and what a block's interrupt made lies in its half
  until the next one ends the half's major loop. The transmit channel fetches the
  first words of a half when half a block is received after it, and the others
  half a block later, each before that. Only a block that was served by the first
  fetch is promised whole; one that is served between the two is sent half stale.
* The arena. `ChainInv` says more than that contexts do not overlap: all of them
  lie below the arena's first free byte, where alone the chain writes, and each
  byte below it was last written by the instance it belongs to. It is kept by a
  failed `add` because that leaves the first free byte where it was. It needs a
  valid registry while effects are added, hence the third part of `ArenaInv`.
* The programs. `ProgramsInv` says how much of a program is made at each place of
  the loops: the instances up to the one at hand have the values of their nodes,
  that one the values before the next, all others their defaults. A program that is
  being built has passed the validation, so that each effect is found and each
  value accepted; that leaves room and the effect's own callbacks to fail, and
  every failure clears the chain. Overrides are applied in order and only to a
  whole program; the host process counts frames requested, left and answered; a
  cursor is in a bank that the accepted library has a program for.
* The start has five invariants. `LaunchInv` says what is in flash, in ITCM and
  set up at each place of the launch. `RouteInv` of `HardwareStart` is about the
  writes that are left, not only the outputs: before the loop none raises the
  processor's, in the loop every one sets one of the pair and clears the other.
  `CodecInv` carries what each transfer has made sure of, and that no output
  write is left while a transfer runs; when the verification begins the writes
  left keep the power-down high, so that what was read back stays true.
  `MailInv` is stated with `WillBe`: after the writes that are left a register
  holds a value, and until then at most what it holds now; that is kept by every
  single write and survives being cut. `TrialInv` is the order of the writes of
  `boot_trial.c`: the other three registers change only while the token is zero,
  and a token other than zero is the last write of its operation, by which time
  the others stand for the operation's trial. From it each write leaves the
  content, empties it or makes it what the operation meant: the mailbox.

Only model-checked: liveness (`TrialIsSettled`, `HealthyIsConfirmed`,
`StartEnds`, `RequestIsServed`, `EndpointComesBack`, `UploadEnds`), which is out of
the prover's reach. Every invariant and every action property that a passing run
checks is also proved.

`LossesAreMasked` excepts a case that its proof brought to light: a
`BEGIN` of an earlier run of `pedalctl` that is answered late looks like the answer
to this run's own, which is executed after it and opens another session, so that
the next request is refused. The run ends with an error and reports no success.

Only proved: `NewestIsKept`, `OnlyErasedCellsProgrammed`,
`TokensAreFresh`, `TrialsAreGuarded`, `EraseProgressHolds`, `RollbackStaysBootable` and the inductive
invariants, which no run checks because the properties of the runs follow from
them or say more.

## Not modelled, and why

* Arithmetic and data without a protocol: hashes and checksums, the effects'
  signal processing (`effects_instrument.c`, the knobs' smoothing), descriptors,
  reports, generated code.
* Register-level set-up with no second actor: clocks, pads, the ADC, the pins of
  the indicator; in the model of the start they are left out between its steps.
  `hardware_app/src/main.c` after the control loop is never reached.
* The FlexSPI controller below the NOR driver, whose operations appear in the
  journal and the engine as steps that fail half-way.
* What is not in the repository: the chip's ROM, the vendor's firmware, USB stack
  and bootloader; the patches in `src/zero_wear` are meaningless without them.
* The editor's HTTP server and browser code, the image, DFU and ROM tools, the
  emulators and the scripts that analyse the vendor's firmware. The server is the
  one of them with a state that could go wrong; it is in the plan.

Two simplifications a reader should know of. The channels of the audio path move
a minor loop at once, and at the pace of one clock: neither is due again before
the other (the FIFO's depth allows no more), so that a controller which falls
behind the codec by a FIFO is left out. A step of the start stands for
all register writes between two points at which a reset or a device makes a
difference.

## Plan

Done, most important first:

1. `BootSequence`, `BootJournal`, `BootRegister`: what survives. Proved.
2. `BootState`, `BootController`: which image runs. Proved.
3. `TrialMailbox`, `WarmResetMailboxes`: what a reset carries over. Proved.
4. `RecoveryEngine`, `RecoverySession`: who overwrites what. Proved.
5. `RecoveryUsb`, `RecoveryUpload`: the way to the host and the host. Proved.
6. `UsbAudioCapture`, `Stompbox`: the audio application. Proved.
7. `EffectChain` to `Programs`: effects, programs, their callers. Proved.
8. `AudioPath`: the DMA under the control loop. Proved.
9. `EngineLauncher`, `FactoryBoard`, `CodecBus`, `HardwareStart`: the start.
   Proved.

Left:

10. `NorDriver`: `ncr2_nor.c` over the FlexSPI backend's erase and program; it
    should implement the flash operations that `BootJournal` assumes.
11. `LiveSession`: the editor server's sessions and their lock.
12. `OpenImage` and the DFU transfer, as operators and a retry protocol.
