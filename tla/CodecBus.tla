------------------------------- MODULE CodecBus -------------------------------
(***************************************************************************)
(* codec_probe.c: the bit-banged control bus of the converter.  The probe  *)
(* walks the pairs of pads and the two addresses and asks each for the     *)
(* signature register; the found bus then takes the register image, and    *)
(* three registers are read back.                                          *)
(*                                                                         *)
(* A transfer is cut where the outcome of a byte decides, and where a      *)
(* reset would leave the converter in the middle of sending a byte, which  *)
(* holds SDA low.  What is on a pair of pads is found out when it is       *)
(* muxed.  The bytes of the register image are one value, "image".         *)
(***************************************************************************)
EXTENDS FactoryBoard, Naturals

CONSTANTS CandidateCount,  \* NCR2_CODEC_BUS_CANDIDATE_COUNT
          RegisterOrder    \* the registers, as ncr2_codec_configure writes them

ASSUME CodecBusAssumption ==
    /\ CandidateCount \in Nat \ {0}
    /\ {"format", "power", "route"} \subseteq {RegisterOrder[i] : i \in DOMAIN RegisterOrder}

Registers == {RegisterOrder[i] : i \in DOMAIN RegisterOrder}
Verified == <<"format", "power", "route">>

\* What may be on a pair of pads: nothing, a line that is held low, one that
\* sinks once a transfer has begun, a device that is no converter, and the
\* converter at either address.
Devices == {"nothing", "sda_low", "scl_low", "sinks", "other", "codec_0", "codec_1"}

VARIABLES transfer,   \* where the driver is
          device,     \* what is on the muxed pair
          bus,        \* the candidate and the address the loop is at
          ok, clean,  \* the probe's result so far; no failure counted so far
          index,      \* of the register that is written or read back
          holds,      \* the converter is sending a byte and holds SDA
          registers   \* of the converter

busVars == <<transfer, device, bus, ok, clean, index>>
codecVars == <<holds, registers>>
codecBusVars == <<busVars, codecVars>>

Erased == [r \in Registers |-> "reset"]

CodecInit ==
    /\ transfer = "none" /\ device = "nothing" /\ bus = <<1, 0>>
    /\ ok = FALSE /\ clean = TRUE /\ index = 1
    /\ holds = FALSE /\ registers = Erased

\* PDN low resets the converter and its control interface.
CodecFollowsPads ==
    IF "driven" \in high' /\ "pdn" \notin high'
    THEN holds' = FALSE /\ registers' = Erased
    ELSE UNCHANGED codecVars

IsCodec == device \in {"codec_0", "codec_1"}

\* Who acknowledges the address: the line that sinks seems to, a converter
\* whose power-down is low does not.
Answers(address) ==
    \/ device \in {"other", "sinks"}
    \/ "pdn" \in high /\ device = "codec_0" /\ address = 0
    \/ "pdn" \in high /\ device = "codec_1" /\ address = 1

\* bus_idle and bus_start: both released lines read high.
LinesHigh == device \notin {"sda_low", "scl_low"} /\ ~(IsCodec /\ holds)

\* Faulty variant: an acknowledge is enough.
SignatureIsRightIfHeard(heard) == heard

\* The converter's gain register has its reset value, which is the image's;
\* other devices hold something else, a line that sinks reads as zero.
SignatureIsRight(heard) == heard /\ IsCodec

-----------------------------------------------------------------------------
(* probe_address and ncr2_codec_probe.                                     *)

\* The address is done: the second address, the next candidate, or the end.
NextAddress ==
    LET next == IF bus[2] = 0 THEN <<bus[1], 1>> ELSE <<bus[1] + 1, 0>>
    IN  IF next[1] > CandidateCount
        THEN transfer' = "missing" /\ UNCHANGED <<device, bus>>
        ELSE /\ transfer' = "idle" /\ bus' = next
             /\ IF next[2] = 1 THEN UNCHANGED device ELSE device' \in Devices

StartProbe ==
    /\ transfer = "none"
    /\ transfer' = "idle" /\ bus' = <<1, 0>> /\ device' \in Devices
    /\ UNCHANGED <<ok, clean, index, codecVars>>

\* Faulty variant: spins until the released clock reads high.
ProbeIdleUnbounded ==
    /\ transfer = "idle"
    /\ device # "scl_low"
    /\ IF LinesHigh THEN transfer' = "select" /\ UNCHANGED <<device, bus>> ELSE NextAddress
    /\ UNCHANGED <<ok, clean, index, codecVars>>

\* A bus that is not idle is given up without a stop.
ProbeIdle ==
    /\ transfer = "idle"
    /\ IF LinesHigh THEN transfer' = "select" /\ UNCHANGED <<device, bus>> ELSE NextAddress
    /\ UNCHANGED <<ok, clean, index, codecVars>>

\* Address, register, restart, address: from its last acknowledge on the
\* converter sends.  Any byte may go unheard.
ProbeSelect ==
    /\ transfer = "select"
    /\ \E heard \in BOOLEAN :
         /\ transfer' = IF heard /\ Answers(bus[2]) THEN "receive" ELSE "stop"
         /\ holds' = (holds \/ (heard /\ Answers(bus[2]) /\ IsCodec))
    /\ ok' = FALSE
    /\ UNCHANGED <<device, bus, clean, index, registers>>

\* The byte, and the NAK that makes the converter let go; or the clock fails
\* in the middle of it.
ProbeReceive ==
    /\ transfer = "receive"
    /\ \E clocked \in BOOLEAN :
         /\ ok' = SignatureIsRight(clocked)
         /\ holds' = (holds /\ ~clocked)
    /\ transfer' = "stop"
    /\ UNCHANGED <<device, bus, clean, index, registers>>

\* bus_stop, then both lines must read high again.
ProbeStop ==
    /\ transfer = "stop"
    /\ ok' = (ok /\ LinesHigh)
    /\ IF ok' THEN transfer' = "found" /\ UNCHANGED <<device, bus>> ELSE NextAddress
    /\ UNCHANGED <<clean, index, codecVars>>

Probe == ProbeIdle \/ ProbeSelect \/ ProbeReceive \/ ProbeStop

-----------------------------------------------------------------------------
(* ncr2_codec_configure and the registers read back.                       *)

\* ncr2_codec_write_register: stuck, not acknowledged, or acknowledged - and
\* kept, or not.
Write ==
    \E acknowledged, kept \in BOOLEAN :
        /\ acknowledged => LinesHigh
        /\ kept => acknowledged
        /\ clean' = (clean /\ acknowledged)
        /\ registers' = IF kept THEN [registers EXCEPT ![RegisterOrder[index]] = "image"]
                        ELSE registers

\* A failed write does not end the loop.
Configure ==
    /\ transfer = "configure"
    /\ Write
    /\ IF index < Len(RegisterOrder)
       THEN index' = index + 1 /\ UNCHANGED transfer
       ELSE index' = 1 /\ transfer' = "configured"
    /\ UNCHANGED <<device, bus, ok, holds>>

\* Faulty variant: counts the failed reads but not the wrong values.
ReadsAny(r, heard) == heard

\* A register is right when it was heard and has the image's value.
ReadsBack(r, heard) == heard /\ registers[r] = "image"

\* ncr2_codec_read_register: a clock that fails leaves the converter sending.
ReadBack ==
    /\ transfer = "verify"
    /\ \E heard, cut \in BOOLEAN :
         /\ heard => LinesHigh
         /\ cut => LinesHigh /\ ~heard
         /\ clean' = (clean /\ ReadsBack(Verified[index], heard))
         /\ holds' = (holds \/ cut)
    /\ IF index < Len(Verified)
       THEN index' = index + 1 /\ UNCHANGED transfer
       ELSE index' = 1 /\ transfer' = "verified"
    /\ UNCHANGED <<device, bus, ok, registers>>

-----------------------------------------------------------------------------
\* "Probing by acknowledge alone is not sound": the bus that the probe found
\* is the converter's, at its address, and nobody holds its lines.
FoundIsCodec ==
    transfer \in {"found", "configure", "configured"} =>
        IsCodec /\ Answers(bus[2]) /\ LinesHigh
=============================================================================
