--------------------------- MODULE UsbAudioCapture ---------------------------
(***************************************************************************)
(* usb_audio_capture.c and usb_audio_ring.c: the audio DMA interrupt       *)
(* pushes dry samples, the USB interrupt takes packets of one sample less  *)
(* or more than a millisecond holds.  The two share no lock: the DMA       *)
(* interrupt has the higher priority and can come between any two accesses *)
(* of the USB interrupt, never the other way round.                        *)
(*                                                                         *)
(* A sample is the number under which it was stored since the last reset   *)
(* of the ring, modulo two rounds, so that one left over from the round    *)
(* before is told from the one that belongs there.                         *)
(***************************************************************************)
EXTENDS Integers

CONSTANTS Capacity,    \* NCR2_USB_AUDIO_RING_CAPACITY
          Nominal,     \* NCR2_USB_AUDIO_NOMINAL_PACKET_FRAMES
          Block,       \* frames that the DMA interrupt delivers at once
          Drifts,      \* how the codec's clock runs, seen from the USB clock
          Spacing,     \* packets between two slips of the clocks
          Stale,       \* a sample from before the last reset
          MaxMissed,   \* bound on packets that the host does not collect
          MaxPads      \* bound on the padded packets counted

ASSUME UsbAudioAssumption ==
    /\ Capacity \in Nat \ {0} /\ Nominal \in Nat \ {0} /\ Block \in Nat \ {0}
    /\ Nominal % Block = 0
    /\ Drifts \subseteq {"none", "fast", "slow"}
    /\ Spacing \in Nat /\ MaxMissed \in Nat /\ MaxPads \in Nat
    /\ Stale \notin Int

VARIABLES read, write, samples,      \* the ring
          stored, taken,             \* numbers of the next sample in and out
          overruns, underruns,       \* the ring's counters, up to their bounds
          attached, streaming,       \* g_usb
          failures,                  \* g_hardware_app_usb_send_failures # 0
          inflight,                  \* a packet waits for the host
          isr,                       \* where the USB interrupt is
          starting,                  \* it primes the stream's first packet
          left, held,                \* of the packet: what is to copy, the sample at hand
          drift, blocks, quiet,      \* the clocks: see Interval
          missed, reconfigured       \* what the host did (history)

ringVars == <<read, write, samples, stored, taken>>
counterVars == <<overruns, underruns>>
deviceVars == <<attached, streaming, failures, inflight>>
isrVars == <<isr, starting, left, held>>
clockVars == <<drift, blocks, quiet>>
hostVars == <<missed, reconfigured>>
vars == <<ringVars, counterVars, deviceVars, isrVars, clockVars, hostVars>>

Indices == 0 .. Capacity - 1
Numbers == 0 .. 2 * Capacity - 1
BlocksPerPacket == Nominal \div Block

Lesser(a, b) == IF a < b THEN a ELSE b

Available == (write - read) % Capacity

Init ==
    /\ read = 0 /\ write = 0
    /\ samples = [i \in Indices |-> Stale]
    /\ stored = 0 /\ taken = 0
    /\ overruns = 0 /\ underruns = 0
    /\ attached = FALSE /\ streaming = FALSE /\ failures = FALSE /\ inflight = FALSE
    /\ isr = "idle" /\ starting = FALSE /\ left = 0 /\ held = Stale
    /\ drift \in Drifts /\ blocks = 0 /\ quiet = 0
    /\ missed = 0 /\ reconfigured = FALSE

-----------------------------------------------------------------------------
(* The DMA interrupt.                                                      *)

\* Faulty variant: overwrites the oldest sample of a full ring.
FitsUnchecked(n) == n

\* Nobody takes a sample while a block is pushed: the first ones fit.
Fits(n) == Lesser(n, Capacity - 1 - Available)

\* ncr2_usb_audio_capture_push for the frames of one block.
Push ==
    LET fit == Fits(Block)
        At(i) == (i - write) % Capacity  \* which of the block's frames goes to i
    IN  /\ samples' = [i \in Indices |->
                         IF At(i) < fit THEN (stored + At(i)) % (2 * Capacity) ELSE samples[i]]
        /\ write' = (write + fit) % Capacity
        /\ stored' = (stored + fit) % (2 * Capacity)
        /\ overruns' = IF fit < Block THEN 1 ELSE overruns

\* A millisecond of the host holds BlocksPerPacket blocks, one more or less
\* when the clocks have slipped against each other by a whole block.
MaySlip == quiet = Spacing

\* The USB interrupt lasts less than two blocks.
DmaInterrupt ==
    /\ streaming
    /\ isr # "idle" => blocks = 0
    /\ \/ blocks < BlocksPerPacket
       \/ blocks = BlocksPerPacket /\ drift = "fast" /\ MaySlip
    /\ Push
    /\ blocks' = blocks + 1
    /\ UNCHANGED <<read, taken, underruns, deviceVars, isrVars, drift, quiet, hostVars>>

-----------------------------------------------------------------------------
(* The USB interrupt: ncr2_usb_audio_ring_reset, one access at a time.     *)

ResetRead ==
    /\ isr = "reset_read"
    /\ read' = 0
    /\ isr' = "reset_write"
    /\ UNCHANGED <<write, samples, stored, taken, counterVars, deviceVars,
                   starting, left, held, clockVars, hostVars>>

\* The samples in the ring are given up, their numbers start again.
ResetWrite ==
    /\ isr = "reset_write"
    /\ write' = 0
    /\ samples' = [i \in Indices |-> Stale]
    /\ stored' = 0 /\ taken' = 0
    /\ overruns' = 0 /\ underruns' = 0
    /\ missed' = 0
    /\ isr' = IF streaming THEN "level" ELSE "idle"
    /\ UNCHANGED <<read, deviceVars, starting, left, held, clockVars, reconfigured>>

(* prime_audio_packet and ncr2_usb_audio_ring_packet.                      *)

\* Faulty variant: the backlog has no say.
LengthFixed(available) == IF available < Nominal THEN Nominal - 1 ELSE Nominal

Length(available) ==
    CASE available > 3 * Nominal -> Nominal + 1
      [] available < Nominal -> Nominal - 1
      [] OTHER -> Nominal

\* Faulty variant: sends nothing when there is nothing to send.
LevelSkipsEmpty ==
    /\ isr = "level"
    /\ left' = Lesser(Available, Length(Available))
    /\ underruns' = underruns
    /\ isr' = IF Available = 0 THEN "idle" ELSE "copy"
    /\ UNCHANGED <<ringVars, overruns, deviceVars, starting, held, clockVars, hostVars>>

\* One look at the ring settles how long the packet is and how many frames of
\* it are samples; the rest is silence.
Level ==
    /\ isr = "level"
    /\ left' = Lesser(Available, Length(Available))
    /\ underruns' = IF Available < Length(Available) THEN Lesser(underruns + 1, MaxPads)
                    ELSE underruns
    /\ isr' = IF Available = 0 THEN "send" ELSE "copy"
    /\ UNCHANGED <<ringVars, overruns, deviceVars, starting, held, clockVars, hostVars>>

\* The sample is read while its place still counts as full.
Copy ==
    /\ isr = "copy"
    /\ held' = samples[read]
    /\ isr' = "advance"
    /\ UNCHANGED <<ringVars, counterVars, deviceVars, starting, left, clockVars, hostVars>>

Advance ==
    /\ isr = "advance"
    /\ read' = (read + 1) % Capacity
    /\ taken' = (taken + 1) % (2 * Capacity)
    /\ left' = left - 1
    /\ isr' = IF left = 1 THEN "send" ELSE "copy"
    /\ UNCHANGED <<write, samples, stored, counterVars, deviceVars, starting, held,
                   clockVars, hostVars>>

\* USB_DeviceAudioSend takes the packet.  The first one falls anywhere between
\* two blocks.
SendAccepted ==
    /\ isr = "send"
    /\ isr' = "idle"
    /\ inflight' = TRUE
    /\ IF starting THEN blocks' \in 0 .. BlocksPerPacket ELSE UNCHANGED blocks
    /\ UNCHANGED <<ringVars, counterVars, attached, streaming, failures, starting, left, held,
                   drift, quiet, hostVars>>

\* It does not: SET_INTERFACE fails; a running stream is left without a packet.
SendFails ==
    /\ isr = "send"
    /\ isr' = "idle"
    /\ failures' = TRUE
    /\ streaming' = ~starting
    /\ UNCHANGED <<ringVars, counterVars, attached, inflight, starting, left, held,
                   clockVars, hostVars>>

-----------------------------------------------------------------------------
(* The USB interrupt: what starts it.                                      *)

\* The host collects a packet every millisecond; the clocks may slip by a block.
Interval ==
    \/ blocks = BlocksPerPacket /\ quiet' = Lesser(quiet + 1, Spacing)
    \/ blocks = BlocksPerPacket - 1 /\ drift = "slow" /\ MaySlip /\ quiet' = 0
    \/ blocks = BlocksPerPacket + 1 /\ quiet' = 0

\* audio_callback, kUSB_DeviceAudioEventStreamSendResponse.
Collected ==
    /\ isr = "idle" /\ inflight
    /\ Interval
    /\ inflight' = FALSE
    /\ blocks' = 0
    /\ starting' = FALSE
    /\ isr' = IF attached /\ streaming THEN "level" ELSE "idle"
    /\ UNCHANGED <<ringVars, counterVars, attached, streaming, failures, left, held, drift,
                   hostVars>>

\* The host skips a millisecond, the packet waits.
NotCollected ==
    /\ isr = "idle" /\ inflight
    /\ missed < MaxMissed
    /\ Interval
    /\ missed' = missed + 1
    /\ blocks' = 0
    /\ UNCHANGED <<ringVars, counterVars, deviceVars, isrVars, drift, reconfigured>>

\* device_callback, kUSB_DeviceEventBusReset.  The stack drops the packet, as it
\* does before every other event of device_callback that sets an endpoint up.
BusReset ==
    /\ isr = "idle" /\ attached
    /\ attached' = FALSE /\ streaming' = FALSE /\ inflight' = FALSE
    /\ isr' = "reset_read"
    /\ UNCHANGED <<ringVars, counterVars, failures, starting, left, held, clockVars, hostVars>>

\* kUSB_DeviceEventSetConfiguration.
Configure ==
    /\ isr = "idle"
    /\ attached' = TRUE /\ inflight' = FALSE
    /\ reconfigured' = streaming
    /\ UNCHANGED <<ringVars, counterVars, streaming, failures, isrVars, clockVars, missed>>

Unconfigure ==
    /\ isr = "idle" /\ attached
    /\ attached' = FALSE /\ streaming' = FALSE /\ inflight' = FALSE
    /\ UNCHANGED <<ringVars, counterVars, failures, isrVars, clockVars, hostVars>>

\* kUSB_DeviceEventSetInterface of the stream: blocks are already pushed when
\* the ring is reset.
Select(on) ==
    /\ isr = "idle" /\ attached
    /\ inflight' = FALSE
    /\ streaming' = on
    /\ starting' = on
    /\ blocks' = 0 /\ quiet' = 0
    /\ reconfigured' = FALSE
    /\ isr' = "reset_read"
    /\ UNCHANGED <<ringVars, counterVars, attached, failures, left, held, drift, missed>>

UsbInterrupt ==
    \/ ResetRead \/ ResetWrite \/ Level \/ Copy \/ Advance \/ SendAccepted \/ SendFails
    \/ Collected \/ NotCollected \/ BusReset \/ Configure \/ Unconfigure
    \/ \E on \in BOOLEAN : Select(on)

Next == DmaInterrupt \/ UsbInterrupt

Spec == Init /\ [][Next]_vars

-----------------------------------------------------------------------------
(* Properties.                                                             *)

\* Every sample of a packet is the one stored after the one before it, however
\* the interrupts interleave and however full the ring is: none twice, none
\* overwritten while it is read, none from before the reset.
StreamIsContiguous == isr = "advance" => held = taken

\* While the host collects every packet no sample is dropped, and no more than
\* so many packets are padded.
Absorbed(pads) ==
    missed = 0 /\ isr \notin {"reset_read", "reset_write"} =>
        overruns = 0 /\ underruns <= pads

\* usb_audio_ring.h: "Packet length may be 47, 48, or 49 frames to absorb the
\* independent SAI and USB clock tolerances".  The number of padded packets
\* stays below some bound however long the stream runs.
ToleranceAbsorbed == Absorbed(MaxPads - 1)

\* A codec that is not slower than the USB clock is absorbed: three
\* packets of a stream are padded at most, the first, the second and one where
\* a block comes later after the packet than it did before.
FastClockAbsorbed == drift # "slow" => Absorbed(3)

\* A stream that is on and has no packet for the host, so that it will never
\* have one again, has counted a failure of USB_DeviceAudioSend, unless the
\* host has set the configuration again under it.
StallIsCounted == streaming /\ isr = "idle" => inflight \/ failures \/ reconfigured

-----------------------------------------------------------------------------
(* The inductive invariants.                                               *)

TypeOK ==
    /\ read \in Indices /\ write \in Indices
    /\ samples \in [Indices -> Numbers \cup {Stale}]
    /\ stored \in Numbers /\ taken \in Numbers
    /\ overruns \in {0, 1} /\ underruns \in 0 .. MaxPads
    /\ attached \in BOOLEAN /\ streaming \in BOOLEAN
    /\ failures \in BOOLEAN /\ inflight \in BOOLEAN
    /\ isr \in {"idle", "reset_read", "reset_write", "level", "copy", "advance", "send"}
    /\ starting \in BOOLEAN /\ left \in Nat
    /\ drift \in Drifts /\ blocks \in 0 .. BlocksPerPacket + 1 /\ quiet \in 0 .. Spacing
    /\ missed \in 0 .. MaxMissed /\ reconfigured \in BOOLEAN

Resetting == isr \in {"reset_read", "reset_write"}
Priming == isr \in {"level", "copy", "advance", "send"}
Copying == isr \in {"copy", "advance"}

\* Between the two indices are the samples stored last, in order, and at least
\* as many as the packet still takes.  Only between the two writes of a reset
\* the indices mean nothing.
RingInv ==
    /\ isr = "reset_write" => read = 0
    /\ isr # "reset_write" =>
         /\ stored = (taken + Available) % (2 * Capacity)
         /\ \A k \in 0 .. Available - 1 :
              samples[(read + k) % Capacity] = (taken + k) % (2 * Capacity)
    /\ IF Copying THEN left \in 1 .. Available /\ left <= Nominal + 1 ELSE left = 0
    /\ StreamIsContiguous

\* Only a configured device streams, and only a stream is primed.
StreamInv ==
    /\ streaming => attached
    /\ Priming => streaming
    /\ Resetting /\ streaming => starting
    /\ StallIsCounted

\* What the packet does not take, less what came since the last one.
Frames(count) == count * Block

Base == Available - left - Frames(blocks)

\* How many packets were padded, of a stream whose fill is f when the host
\* collects.  With a packet less one sample in the ring none is padded any more;
\* below it the next packet is, and what the interval brings fills the ring up,
\* but for a block that came before the packet was measured.
PadsAt(f) ==
    \/ f >= Nominal - 1 /\ underruns <= 3
    \/ f = Nominal - Block /\ underruns <= 2
    \/ f >= 0 /\ underruns <= 1

\* A slip of the clocks adds a block, which the longer packets take up again.
BacklogAt(f, since) ==
    f <= 3 * Nominal + (IF since < Block THEN Block - since ELSE 0)

OnTime == drift # "slow" /\ missed = 0 /\ ~Resetting

\* The fill of the ring, at the time of the last collection until the packet is
\* measured, and at the time of the next one from then on.
FillInv ==
    /\ blocks = BlocksPerPacket + 1 => quiet = Spacing
    /\ streaming /\ isr # "idle" => blocks <= 1
    /\ OnTime => overruns = 0 /\ underruns <= 3
    /\ OnTime /\ Priming /\ starting => Base <= 0 /\ underruns <= 1
    /\ OnTime /\ isr = "level" =>
         IF starting THEN underruns = 0 ELSE PadsAt(Base) /\ BacklogAt(Base, quiet)
    /\ OnTime /\ streaming /\ isr # "level" =>
         PadsAt(Base + Nominal) /\ BacklogAt(Base + Nominal, quiet + 1)

\* Two packets' worth of room above the fill that is aimed at, and slips that
\* are so rare that packets of one sample more make up for them.
Tolerable == 3 * Nominal + 2 * Block < Capacity /\ Block <= Spacing + 1

CaptureInv == TypeOK /\ RingInv /\ StreamInv
=============================================================================
