------------------------ MODULE UsbAudioCaptureProofs ------------------------
(***************************************************************************)
(* The stream of usb_audio_capture.c keeps CaptureInv for every size of    *)
(* the ring, of the packets and of the blocks, and FillInv where there is  *)
(* room enough and the clocks differ little enough; the properties of      *)
(* UsbAudioCapture follow.                                                 *)
(***************************************************************************)
EXTENDS UsbAudioCapture, TLAPS

-----------------------------------------------------------------------------
(* The arithmetic of the ring.                                             *)

\* What % does to a number that is at most two rounds away.
LEMMA Rounds ==
    ASSUME NEW m \in Nat \ {0}, NEW a \in Int
    PROVE  /\ a % m \in 0 .. m - 1
           /\ -m <= a /\ a < 0 => a % m = a + m
           /\ 0 <= a /\ a < m => a % m = a
           /\ m <= a /\ a < 2 * m => a % m = a - m
           /\ 2 * m <= a /\ a < 3 * m => a % m = a - 2 * m
OBVIOUS

\* The place of a count in the ring, and the number of a sample: the provers are
\* told what these are by the two lemmas below.
Place(a) == a % Capacity
Number(a) == a % (2 * Capacity)

LEMMA Places ==
    ASSUME NEW a \in Int
    PROVE  /\ Place(a) \in 0 .. Capacity - 1
           /\ -Capacity <= a /\ a < 0 => Place(a) = a + Capacity
           /\ 0 <= a /\ a < Capacity => Place(a) = a
           /\ Capacity <= a /\ a < 2 * Capacity => Place(a) = a - Capacity
BY Rounds, UsbAudioAssumption DEF Place

LEMMA SampleNumbers ==
    ASSUME NEW a \in Int
    PROVE  /\ Number(a) \in Numbers
           /\ 0 <= a /\ a < 2 * Capacity => Number(a) = a
           /\ 2 * Capacity <= a /\ a < 4 * Capacity => Number(a) = a - 2 * Capacity
<1>1. 2 * Capacity \in Nat \ {0} /\ 2 * (2 * Capacity) = 4 * Capacity
  BY UsbAudioAssumption
<1>2. QED
  BY <1>1, Rounds DEF Numbers, Number

\* What is divided without remainder.
LEMMA Quotient ==
    ASSUME NEW b \in Nat \ {0}, NEW n \in Nat, n % b = 0
    PROVE  n \div b \in Nat /\ n = (n \div b) * b
BY Z3T(30)

\* The frames of a packet come in whole blocks.
LEMMA WholeBlocks ==
    /\ BlocksPerPacket \in Nat \ {0}
    /\ BlocksPerPacket * Block = Nominal
<1>1. /\ Nominal \in Nat \ {0} /\ Block \in Nat \ {0}
      /\ Nominal % Block = 0
  BY UsbAudioAssumption
<1>2. BlocksPerPacket \in Nat /\ Nominal = BlocksPerPacket * Block
  BY <1>1, Quotient DEF BlocksPerPacket
<1>3. QED
  BY <1>1, <1>2

\* The frames of a number of blocks.
LEMMA FramesOfBlocks ==
    ASSUME NEW j \in 0 .. BlocksPerPacket + 1
    PROVE  /\ Frames(j) \in Nat
           /\ Frames(j + 1) = Frames(j) + Block
           /\ j <= BlocksPerPacket => Frames(j) <= Nominal
           /\ j < BlocksPerPacket => Frames(j) + Block <= Nominal
           /\ j = BlocksPerPacket => Frames(j) = Nominal
           /\ j = BlocksPerPacket + 1 => Frames(j) = Nominal + Block
           /\ j = 0 => Frames(j) = 0
           /\ j = 1 => Frames(j) = Block
<1> USE DEF Frames
<1>1. Block \in Nat \ {0} /\ Nominal \in Nat \ {0}
  BY UsbAudioAssumption
<1>2. j * Block \in Nat /\ (j + 1) * Block = j * Block + Block
  BY <1>1, WholeBlocks
<1>3. \A k \in Nat : k * Block >= 0
  BY <1>1
<1>4. j <= BlocksPerPacket => j * Block <= Nominal
  BY <1>1, <1>3, WholeBlocks
<1>5. j < BlocksPerPacket => j * Block + Block <= Nominal
  BY <1>1, <1>2, <1>3, WholeBlocks
<1>6. QED
  BY <1>1, <1>2, <1>4, <1>5, WholeBlocks

LEMMA FillOfTheRing ==
    ASSUME read \in Indices, write \in Indices
    PROVE  /\ Available \in 0 .. Capacity - 1
           /\ Available = write - read \/ Available = write - read + Capacity
<1>1. Capacity \in Nat \ {0}
  BY UsbAudioAssumption
<1>2. write - read \in Int /\ -Capacity <= write - read /\ write - read < Capacity
  BY <1>1 DEF Indices
<1>3. Available = Place(write - read)
  BY DEF Available, Place
<1>4. QED
  BY <1>1, <1>2, <1>3, Places

-----------------------------------------------------------------------------
(* A block is pushed.                                                      *)

\* As many frames of the block as there is room for follow the ones before.
LEMMA PushEffects ==
    ASSUME TypeOK, Push, read' = read
    PROVE  \E fit \in 0 .. Block :
             /\ Available + fit <= Capacity - 1
             /\ Available' = Available + fit
             /\ write' \in Indices
             /\ stored' = Number(stored + fit)
             /\ overruns' = IF fit < Block THEN 1 ELSE overruns
             /\ fit < Block => Available + Block >= Capacity
             /\ samples' = [i \in Indices |->
                              IF Place(i - write) < fit
                              THEN Number(stored + Place(i - write)) ELSE samples[i]]
<1>1. /\ Capacity \in Nat \ {0} /\ Block \in Nat \ {0}
      /\ read \in 0 .. Capacity - 1 /\ write \in 0 .. Capacity - 1
  BY UsbAudioAssumption DEF TypeOK, Indices
<1>2. /\ Available \in 0 .. Capacity - 1
      /\ Available = write - read \/ Available = write - read + Capacity
  BY FillOfTheRing DEF TypeOK
<1> DEFINE fit == Fits(Block)
<1>3. /\ fit \in 0 .. Block /\ Available + fit <= Capacity - 1
      /\ fit < Block => Available + Block >= Capacity
  BY <1>1, <1>2 DEF Fits, Lesser
<1>4. write' = Place(write + fit)
  BY DEF Push, Place
<1>5. stored' = Number(stored + fit)
  BY DEF Push, Number
<1>6. overruns' = IF fit < Block THEN 1 ELSE overruns
  BY DEF Push
<1>7. samples' = [i \in Indices |->
                    IF Place(i - write) < fit
                    THEN Number(stored + Place(i - write)) ELSE samples[i]]
  BY DEF Push, Place, Number
<1> DEFINE w == write'
<1> HIDE DEF fit, w
<1>8. w \in 0 .. Capacity - 1 /\ (w = write + fit \/ w = write + fit - Capacity)
  BY <1>1, <1>2, <1>3, <1>4, Places DEF w
<1>9. Available' = Available + fit
  <2>1. Available' = Place(w - read)
    BY DEF Available, Place, w
  <2>2. /\ w - read \in Int /\ -Capacity <= w - read /\ w - read < Capacity
        /\ \/ w - read = Available + fit \/ w - read = Available + fit - Capacity
           \/ w - read = Available + fit - 2 * Capacity
    BY <1>1, <1>2, <1>3, <1>8
  <2>3. QED
    BY <1>1, <1>2, <1>3, <2>1, <2>2, Places
<1>10. w \in Indices
  BY <1>8 DEF Indices
<1>11. QED
  BY <1>3, <1>5, <1>6, <1>7, <1>9, <1>10 DEF w

\* The k-th sample from the read index on, where the push puts it or leaves it.
LEMMA PushFills ==
    ASSUME TypeOK, Push, read' = read, taken' = taken,
           stored = Number(taken + Available),
           \A k \in 0 .. Available - 1 : samples[Place(read + k)] = Number(taken + k)
    PROVE  /\ stored' = Number(taken + Available')
           /\ \A k \in 0 .. Available' - 1 : samples'[Place(read + k)] = Number(taken + k)
<1>1. /\ Capacity \in Nat \ {0} /\ Block \in Nat \ {0}
      /\ read \in 0 .. Capacity - 1 /\ write \in 0 .. Capacity - 1
      /\ taken \in 0 .. 2 * Capacity - 1 /\ stored \in 0 .. 2 * Capacity - 1
  BY UsbAudioAssumption DEF TypeOK, Indices, Numbers
<1>2. /\ Available \in 0 .. Capacity - 1
      /\ Available = write - read \/ Available = write - read + Capacity
  BY FillOfTheRing DEF TypeOK
<1> DEFINE a == Available
<1>3. PICK fit \in 0 .. Block :
        /\ a + fit <= Capacity - 1
        /\ Available' = a + fit
        /\ stored' = Number(stored + fit)
        /\ samples' = [i \in Indices |->
                         IF Place(i - write) < fit
                         THEN Number(stored + Place(i - write)) ELSE samples[i]]
  BY PushEffects
<1> HIDE DEF a
<1>4. a \in 0 .. Capacity - 1 /\ (a = write - read \/ a = write - read + Capacity)
  BY <1>2 DEF a
<1>5. stored = Number(taken + a)
  BY DEF a
<1>6. \A d \in 0 .. Capacity - 1 : a + d <= Capacity => Number(stored + d) = Number(taken + a + d)
  <2> TAKE d \in 0 .. Capacity - 1
  <2> HAVE a + d <= Capacity
  <2>1. \/ stored = taken + a /\ taken + a < 2 * Capacity
        \/ stored = taken + a - 2 * Capacity /\ 2 * Capacity <= taken + a
    BY <1>1, <1>4, <1>5, SampleNumbers
  <2>2. 0 <= stored + d /\ stored + d < 4 * Capacity /\ stored + d \in Int
        /\ 0 <= taken + a + d /\ taken + a + d < 4 * Capacity /\ taken + a + d \in Int
    BY <1>1, <1>4
  <2>3. QED
    BY <1>1, <1>4, <2>1, <2>2, SampleNumbers
<1>7. stored' = Number(taken + Available')
  BY <1>1, <1>3, <1>4, <1>6
<1>8. ASSUME NEW k \in 0 .. a + fit - 1
      PROVE  samples'[Place(read + k)] = Number(taken + k)
  <2> DEFINE i == Place(read + k)
  <2>1. /\ i \in 0 .. Capacity - 1
        /\ i = read + k \/ i = read + k - Capacity
    BY <1>1, <1>3, <1>4, Places
  <2> HIDE DEF i
  <2>2. samples'[i] = IF Place(i - write) < fit THEN Number(stored + Place(i - write))
                      ELSE samples[i]
    BY <1>3, <2>1 DEF Indices
  <2>3. CASE k < a
    <3>1. Place(i - write) = k - a + Capacity
      BY <1>1, <1>4, <2>1, <2>3, Places
    <3>2. samples[i] = Number(taken + k)
      BY <2>3, <1>4 DEF i, a
    <3>3. QED
      BY <1>1, <1>3, <1>4, <2>2, <3>1, <3>2 DEF i
  <2>4. CASE k >= a
    <3>1. Place(i - write) = k - a /\ k - a < fit
      BY <1>1, <1>3, <1>4, <2>1, <2>4, Places
    <3>2. Number(stored + (k - a)) = Number(taken + a + (k - a))
      BY <1>1, <1>3, <1>4, <1>6, <2>4
    <3>3. taken + a + (k - a) = taken + k
      BY <1>1, <1>4
    <3>4. QED
      BY <2>2, <3>1, <3>2, <3>3 DEF i
  <2>5. QED
    BY <1>4, <2>3, <2>4 DEF i
<1>9. Available' = a + fit
  BY <1>3
<1>10. \A k \in 0 .. Available' - 1 : samples'[Place(read + k)] = Number(taken + k)
  <2> SUFFICES ASSUME NEW k \in 0 .. Available' - 1
               PROVE  samples'[Place(read + k)] = Number(taken + k)
    OBVIOUS
  <2>1. k \in 0 .. a + fit - 1
    BY <1>4, <1>9
  <2>2. QED
    BY <1>8, <2>1
<1>11. QED
  BY <1>7, <1>10

-----------------------------------------------------------------------------
(* Types, and the states of the stream.                                    *)

LEMMA InitHolds == Init => CaptureInv
<1> SUFFICES ASSUME Init PROVE CaptureInv
  OBVIOUS
<1>1. /\ Capacity \in Nat \ {0} /\ BlocksPerPacket \in Nat \ {0}
      /\ MaxPads \in Nat /\ Spacing \in Nat /\ MaxMissed \in Nat
  BY UsbAudioAssumption, WholeBlocks
<1>2. Available = 0
  <2>1. Available = Place(0)
    BY DEF Init, Available, Place
  <2>2. QED
    BY <1>1, <2>1, Places
<1>3. TypeOK
  <2>1. /\ 0 \in Indices /\ 0 \in Numbers
        /\ samples \in [Indices -> Numbers \cup {Stale}]
    BY <1>1 DEF Init, Indices, Numbers
  <2>2. 0 \in 0 .. MaxPads /\ 0 \in 0 .. BlocksPerPacket + 1 /\ 0 \in 0 .. Spacing
        /\ 0 \in 0 .. MaxMissed
    BY <1>1
  <2>3. QED
    BY <2>1, <2>2 DEF Init, TypeOK
<1>4. RingInv
  <2>1. stored = (taken + Available) % (2 * Capacity)
    <3>1. Number(0) = 0
      BY <1>1, SampleNumbers
    <3>2. QED
      BY <1>2, <3>1 DEF Init, Number
  <2>2. QED
    BY <1>2, <2>1 DEF Init, RingInv, Copying, StreamIsContiguous
<1>5. StreamInv
  BY DEF Init, StreamInv, Priming, Resetting, StallIsCounted
<1>6. QED
  BY <1>3, <1>4, <1>5 DEF CaptureInv

LEMMA DmaKeepsTypes ==
    ASSUME TypeOK, DmaInterrupt
    PROVE  TypeOK'
<1>1. /\ BlocksPerPacket \in Nat \ {0} /\ Capacity \in Nat \ {0}
      /\ read' = read
  BY WholeBlocks, UsbAudioAssumption DEF DmaInterrupt
<1>2. PICK fit \in 0 .. Block :
        /\ write' \in Indices
        /\ stored' = Number(stored + fit)
        /\ overruns' = IF fit < Block THEN 1 ELSE overruns
        /\ samples' = [i \in Indices |->
                         IF Place(i - write) < fit
                         THEN Number(stored + Place(i - write)) ELSE samples[i]]
  BY <1>1, PushEffects DEF DmaInterrupt
<1>3. stored \in Int /\ fit \in Int /\ write \in Int
  BY <1>1, UsbAudioAssumption DEF TypeOK, Numbers, Indices
<1>4. stored' \in Numbers
  BY <1>2, <1>3, SampleNumbers
<1>5. samples' \in [Indices -> Numbers \cup {Stale}]
  <2>1. ASSUME NEW i \in Indices PROVE Number(stored + Place(i - write)) \in Numbers
    BY <1>1, <1>3, Places, SampleNumbers DEF Indices
  <2>2. QED
    BY <1>2, <2>1 DEF TypeOK
<1>6. blocks' \in 0 .. BlocksPerPacket + 1
  BY <1>1 DEF DmaInterrupt, TypeOK
<1>7. QED
  BY <1>2, <1>4, <1>5, <1>6 DEF DmaInterrupt, TypeOK, deviceVars, isrVars, hostVars

LEMMA UsbKeepsTypes ==
    ASSUME TypeOK, RingInv, UsbInterrupt
    PROVE  TypeOK'
<1>1. /\ BlocksPerPacket \in Nat \ {0} /\ Capacity \in Nat \ {0} /\ Nominal \in Nat \ {0}
      /\ MaxPads \in Nat /\ Spacing \in Nat /\ MaxMissed \in Nat
      /\ 0 \in Indices /\ 0 \in Numbers
  BY WholeBlocks, UsbAudioAssumption DEF Indices, Numbers
<1> USE DEF TypeOK, ringVars, counterVars, deviceVars, isrVars, clockVars, hostVars
<1>2. CASE ResetRead
  BY <1>1, <1>2 DEF ResetRead
<1>3. CASE ResetWrite
  BY <1>1, <1>3 DEF ResetWrite
<1>4. CASE Level
  <2>1. Available \in Nat
    BY <1>1, FillOfTheRing
  <2>2. left' \in Nat
    BY <1>1, <1>4, <2>1 DEF Level, Lesser, Length
  <2>3. underruns' \in 0 .. MaxPads
    BY <1>1, <1>4 DEF Level, Lesser
  <2>4. isr' \in {"send", "copy"}
    BY <1>4 DEF Level
  <2>5. QED
    BY <1>4, <2>2, <2>3, <2>4 DEF Level
<1>5. CASE Copy
  BY <1>5 DEF Copy
<1>6. CASE Advance
  <2>1. read' \in Indices /\ taken' \in Numbers
    <3>1. read' = Place(read + 1) /\ taken' = Number(taken + 1)
      BY <1>6 DEF Advance, Place, Number
    <3>2. read + 1 \in Int /\ taken + 1 \in Int
      BY <1>1 DEF Indices, Numbers
    <3>3. QED
      BY <3>1, <3>2, Places, SampleNumbers DEF Indices
  <2>2. left' \in Nat
    BY <1>6 DEF Advance, RingInv, Copying
  <2>3. isr' \in {"send", "copy"}
    BY <1>6 DEF Advance
  <2>4. QED
    BY <1>6, <2>1, <2>2, <2>3 DEF Advance
<1>7. CASE SendAccepted
  BY <1>1, <1>7 DEF SendAccepted
<1>8. CASE SendFails
  BY <1>8 DEF SendFails
<1>9. ASSUME Interval PROVE quiet' \in 0 .. Spacing
  BY <1>1, <1>9 DEF Interval, Lesser
<1>10. CASE Collected
  <2>1. quiet' \in 0 .. Spacing /\ blocks' \in 0 .. BlocksPerPacket + 1
    BY <1>1, <1>9, <1>10 DEF Collected
  <2>2. isr' \in {"level", "idle"}
    BY <1>10 DEF Collected
  <2>3. QED
    BY <1>10, <2>1, <2>2 DEF Collected
<1>11. CASE NotCollected
  BY <1>1, <1>9, <1>11 DEF NotCollected
<1>12. CASE BusReset
  BY <1>12 DEF BusReset
<1>13. CASE Configure
  BY <1>13 DEF Configure
<1>14. CASE Unconfigure
  BY <1>14 DEF Unconfigure
<1>15. ASSUME NEW b \in BOOLEAN, Select(b) PROVE TypeOK'
  <2>1. quiet' \in 0 .. Spacing /\ blocks' \in 0 .. BlocksPerPacket + 1
    BY <1>1, <1>15 DEF Select
  <2>2. QED
    BY <1>15, <2>1 DEF Select
<1>16. QED
  BY <1>2, <1>3, <1>4, <1>5, <1>6, <1>7, <1>8, <1>10, <1>11, <1>12, <1>13, <1>14, <1>15
     DEF UsbInterrupt

\* What the interrupts do to the stream as such: a stream stalls only where
\* a failure is counted or the host configures again.
LEMMA NextKeepsStream ==
    ASSUME TypeOK, StreamInv, [Next]_vars
    PROVE  StreamInv'
<1> USE DEF TypeOK, StreamInv, Priming, Resetting, StallIsCounted,
            ringVars, counterVars, deviceVars, isrVars, clockVars, hostVars
<1>1. CASE UNCHANGED vars
  BY <1>1 DEF vars
<1>2. CASE DmaInterrupt
  BY <1>2 DEF DmaInterrupt
<1>3. CASE ResetRead \/ ResetWrite \/ Level \/ Copy \/ Advance
  BY <1>3 DEF ResetRead, ResetWrite, Level, Copy, Advance
<1>4. CASE SendAccepted \/ SendFails
  BY <1>4 DEF SendAccepted, SendFails
<1>5. CASE Collected \/ NotCollected
  BY <1>5 DEF Collected, NotCollected
<1>6. CASE BusReset \/ Configure \/ Unconfigure
  BY <1>6 DEF BusReset, Configure, Unconfigure
<1>7. ASSUME NEW b \in BOOLEAN, Select(b) PROVE StreamInv'
  BY <1>7 DEF Select
<1>8. QED
  BY <1>1, <1>2, <1>3, <1>4, <1>5, <1>6, <1>7 DEF Next, UsbInterrupt

-----------------------------------------------------------------------------
(* The samples between the two indices.                                    *)

LEMMA RingFacts ==
    ASSUME RingInv, isr # "reset_write"
    PROVE  /\ stored = Number(taken + Available)
           /\ \A k \in 0 .. Available - 1 : samples[Place(read + k)] = Number(taken + k)
BY DEF RingInv, Place, Number

LEMMA DmaKeepsRing ==
    ASSUME TypeOK, RingInv, DmaInterrupt
    PROVE  RingInv'
<1>1. /\ read' = read /\ taken' = taken /\ isr' = isr /\ left' = left /\ held' = held
      /\ Push
  BY DEF DmaInterrupt, isrVars
<1>2. CASE isr = "reset_write"
  BY <1>1, <1>2 DEF RingInv, Copying, StreamIsContiguous
<1>3. CASE isr # "reset_write"
  <2>1. /\ stored' = Number(taken + Available')
        /\ \A k \in 0 .. Available' - 1 : samples'[Place(read + k)] = Number(taken + k)
    BY <1>1, <1>3, RingFacts, PushFills
  <2>2. Available' \in Nat /\ Available \in Nat /\ Available <= Available'
    <3>1. Capacity \in Nat \ {0}
      BY UsbAudioAssumption
    <3>2. Available \in Nat
      BY <3>1, FillOfTheRing DEF TypeOK
    <3>3. PICK fit \in 0 .. Block : Available' = Available + fit
      BY <1>1, PushEffects
    <3>4. QED
      BY <3>2, <3>3
  <2>3. /\ stored' = (taken' + Available') % (2 * Capacity)
        /\ \A k \in 0 .. Available' - 1 :
             samples'[(read' + k) % Capacity] = (taken' + k) % (2 * Capacity)
    BY <1>1, <2>1 DEF Place, Number
  <2>4. Copying => left \in 1 .. Available' /\ left <= Nominal + 1
    BY <2>2 DEF RingInv
  <2>5. QED
    BY <1>1, <1>3, <2>3, <2>4 DEF RingInv, Copying, StreamIsContiguous
<1>4. QED
  BY <1>2, <1>3

\* What the packet takes of the ring, whatever there is.
LEMMA LevelTakes ==
    ASSUME TypeOK, Level
    PROVE  /\ IF isr' = "copy" THEN left' \in 1 .. Available ELSE left' = 0
           /\ left' <= Nominal + 1
           /\ isr' = IF Available = 0 THEN "send" ELSE "copy"
<1>1. Available \in Nat /\ Nominal \in Nat \ {0}
  BY UsbAudioAssumption, FillOfTheRing DEF TypeOK
<1>2. left' = Lesser(Available, Length(Available))
      /\ isr' = IF Available = 0 THEN "send" ELSE "copy"
  BY DEF Level
<1>3. /\ Length(Available) \in Nat /\ Length(Available) <= Nominal + 1
      /\ Available > 0 => Length(Available) > 0
  BY <1>1 DEF Length
<1>4. QED
  BY <1>1, <1>2, <1>3 DEF Lesser

\* The indices and the samples stay where they are.
LEMMA RingUnchanged ==
    ASSUME RingInv, UNCHANGED ringVars, isr # "reset_write", isr' # "reset_write",
           IF Copying' THEN left' \in 1 .. Available /\ left' <= Nominal + 1 ELSE left' = 0,
           StreamIsContiguous'
    PROVE  RingInv'
BY DEF RingInv, ringVars, Available

\* One sample is taken.
LEMMA AdvanceTakesOne ==
    ASSUME TypeOK, RingInv, Advance
    PROVE  Available' = Available - 1
<1>1. /\ Capacity \in Nat \ {0}
      /\ read \in 0 .. Capacity - 1 /\ write \in 0 .. Capacity - 1
  BY UsbAudioAssumption DEF TypeOK, Indices
<1> DEFINE a == Available
           r == read'
<1>2. a \in 0 .. Capacity - 1 /\ (a = write - read \/ a = write - read + Capacity)
  BY FillOfTheRing DEF TypeOK
<1>3. left \in 1 .. a
  BY DEF RingInv, Advance, Copying
<1>4. r = Place(read + 1) /\ Available' = Place(write - r)
  BY DEF Advance, Available, Place
<1> HIDE DEF a, r
<1>5. r \in 0 .. Capacity - 1 /\ (r = read + 1 \/ r = read + 1 - Capacity)
  BY <1>1, <1>4, Places
<1>6. Available' = a - 1
  BY <1>1, <1>2, <1>3, <1>4, <1>5, Places
<1>7. QED
  BY <1>6 DEF a

LEMMA AdvanceKeepsRing ==
    ASSUME TypeOK, RingInv, Advance
    PROVE  RingInv'
<1>1. /\ Capacity \in Nat \ {0}
      /\ read \in 0 .. Capacity - 1 /\ write \in 0 .. Capacity - 1
      /\ taken \in 0 .. 2 * Capacity - 1 /\ left \in Nat
  BY UsbAudioAssumption DEF TypeOK, Indices, Numbers
<1> DEFINE a == Available
           r == read'
           t == taken'
<1>2. a \in 0 .. Capacity - 1 /\ (a = write - read \/ a = write - read + Capacity)
  BY FillOfTheRing DEF TypeOK
<1>3. left \in 1 .. a /\ left <= Nominal + 1
  BY DEF RingInv, Advance, Copying
<1>4. /\ r = Place(read + 1) /\ t = Number(taken + 1)
      /\ write' = write /\ samples' = samples /\ stored' = stored
      /\ left' = left - 1 /\ isr' = IF left = 1 THEN "send" ELSE "copy"
  BY DEF Advance, Place, Number
<1>5. stored = Number(taken + a)
      /\ \A k \in 0 .. a - 1 : samples[Place(read + k)] = Number(taken + k)
  BY RingFacts DEF Advance
<1>6. Available' = a - 1
  BY AdvanceTakesOne
<1> HIDE DEF a, r, t
<1>7. r \in 0 .. Capacity - 1 /\ (r = read + 1 \/ r = read + 1 - Capacity)
  BY <1>1, <1>4, Places
<1>8. /\ \/ t = taken + 1 /\ taken + 1 < 2 * Capacity
         \/ t = taken + 1 - 2 * Capacity /\ taken + 1 = 2 * Capacity
  BY <1>1, <1>4, SampleNumbers
<1>9. \A k \in 0 .. a - 1 : Number(t + k) = Number(taken + (k + 1))
  <2> TAKE k \in 0 .. a - 1
  <2>1. t + k \in Int /\ 0 <= t + k /\ t + k < 4 * Capacity
        /\ taken + (k + 1) \in Int /\ 0 <= taken + (k + 1) /\ taken + (k + 1) < 4 * Capacity
    BY <1>1, <1>2, <1>8
  <2>2. QED
    BY <1>1, <1>2, <1>8, <2>1, SampleNumbers
<1>10. \A k \in 0 .. a - 2 : Place(r + k) = Place(read + (k + 1))
  BY <1>1, <1>2, <1>7, Places
<1>11. stored' = Number(t + (a - 1))
  <2>1. taken + ((a - 1) + 1) = taken + a
    BY <1>1, <1>2
  <2>2. QED
    BY <1>2, <1>3, <1>4, <1>5, <1>9, <2>1
<1>12. \A k \in 0 .. a - 2 : samples'[Place(r + k)] = Number(t + k)
  BY <1>2, <1>4, <1>5, <1>9, <1>10
<1>13. /\ stored' = (t + Available') % (2 * Capacity)
       /\ \A k \in 0 .. Available' - 1 :
            samples'[(r + k) % Capacity] = (t + k) % (2 * Capacity)
  <2>1. 0 .. Available' - 1 = 0 .. a - 2
    BY <1>2, <1>6
  <2>2. QED
    BY <1>6, <1>11, <1>12, <2>1 DEF Place, Number
<1>14. IF Copying' THEN left' \in 1 .. Available' /\ left' <= Nominal + 1 ELSE left' = 0
  BY <1>1, <1>2, <1>3, <1>4, <1>6, UsbAudioAssumption DEF Copying
<1>15. isr' \in {"send", "copy"}
  BY <1>4
<1>16. QED
  BY <1>13, <1>14, <1>15 DEF RingInv, StreamIsContiguous, r, t

LEMMA UsbKeepsRing ==
    ASSUME TypeOK, RingInv, UsbInterrupt
    PROVE  RingInv'
<1> USE DEF Copying, StreamIsContiguous
<1>1. Capacity \in Nat \ {0} /\ Nominal \in Nat \ {0}
  BY UsbAudioAssumption
<1>2. CASE ResetRead
  BY <1>2 DEF ResetRead, RingInv
<1>3. CASE ResetWrite
  <2>1. read' = 0 /\ write' = 0 /\ stored' = 0 /\ taken' = 0 /\ left' = 0
        /\ isr' \in {"level", "idle"}
    BY <1>3 DEF ResetWrite, RingInv
  <2>2. Available' = 0
    <3>1. Available' = Place(0)
      BY <2>1 DEF Available, Place
    <3>2. QED
      BY <1>1, <3>1, Places
  <2>3. stored' = (taken' + Available') % (2 * Capacity)
    <3>1. Number(0) = 0
      BY <1>1, SampleNumbers
    <3>2. QED
      BY <2>1, <2>2, <3>1 DEF Number
  <2>4. QED
    BY <2>1, <2>2, <2>3 DEF RingInv
<1>4. CASE Level
  <2>1. UNCHANGED ringVars /\ isr = "level"
    BY <1>4 DEF Level
  <2>2. /\ isr' \in {"send", "copy"}
        /\ IF isr' = "copy" THEN left' \in 1 .. Available ELSE left' = 0
        /\ left' <= Nominal + 1
    BY <1>4, LevelTakes
  <2>3. IF Copying' THEN left' \in 1 .. Available /\ left' <= Nominal + 1 ELSE left' = 0
    BY <2>2
  <2>4. QED
    BY <2>1, <2>2, <2>3, RingUnchanged
<1>5. CASE Copy
  <2>1. /\ UNCHANGED ringVars /\ left' = left /\ isr = "copy" /\ isr' = "advance"
        /\ held' = samples[read]
    BY <1>5 DEF Copy
  <2>2. left \in 1 .. Available /\ left <= Nominal + 1 /\ Available \in Nat
    BY <1>1, <2>1, FillOfTheRing DEF RingInv, TypeOK
  <2>3. held' = taken'
    <3>1. samples[Place(read + 0)] = Number(taken + 0)
      BY <2>1, <2>2, RingFacts
    <3>2. read \in 0 .. Capacity - 1 /\ taken \in 0 .. 2 * Capacity - 1
      BY DEF TypeOK, Indices, Numbers
    <3>3. Place(read + 0) = read /\ Number(taken + 0) = taken
      BY <1>1, <3>2, Places, SampleNumbers
    <3>4. QED
      BY <2>1, <3>1, <3>3 DEF ringVars
  <2>4. QED
    BY <2>1, <2>2, <2>3, RingUnchanged
<1>6. CASE Advance
  BY <1>6, AdvanceKeepsRing
<1>7. CASE SendAccepted \/ SendFails \/ Collected \/ NotCollected
  <2>1. /\ UNCHANGED ringVars /\ left' = left /\ isr \in {"send", "idle"}
        /\ isr' \in {"level", "idle"}
    BY <1>7 DEF SendAccepted, SendFails, Collected, NotCollected, isrVars
  <2>2. left = 0
    BY <2>1 DEF RingInv
  <2>3. QED
    BY <2>1, <2>2, RingUnchanged
<1>8. CASE BusReset \/ Configure \/ Unconfigure \/ \E b \in BOOLEAN : Select(b)
  <2>1. /\ UNCHANGED ringVars /\ left' = left /\ isr = "idle"
        /\ isr' \in {"reset_read", "idle"}
    BY <1>8 DEF BusReset, Configure, Unconfigure, Select, isrVars
  <2>2. left = 0
    BY <2>1 DEF RingInv
  <2>3. QED
    BY <2>1, <2>2, RingUnchanged
<1>9. QED
  BY <1>2, <1>3, <1>4, <1>5, <1>6, <1>7, <1>8 DEF UsbInterrupt

-----------------------------------------------------------------------------
(* The properties that need no assumption on the clocks.                   *)

LEMMA NextKeepsCapture ==
    ASSUME CaptureInv, [Next]_vars
    PROVE  CaptureInv'
<1>1. CASE UNCHANGED vars
  <2>1. TypeOK' /\ StreamInv'
    BY <1>1, NextKeepsStream DEF CaptureInv, TypeOK, vars, ringVars, counterVars, deviceVars,
                                 isrVars, clockVars, hostVars
  <2>2. RingInv'
    BY <1>1 DEF CaptureInv, RingInv, Copying, Available, StreamIsContiguous, vars, ringVars,
                isrVars
  <2>3. QED
    BY <2>1, <2>2 DEF CaptureInv
<1>2. CASE Next
  BY <1>2, DmaKeepsTypes, UsbKeepsTypes, DmaKeepsRing, UsbKeepsRing, NextKeepsStream
     DEF CaptureInv, Next
<1>3. QED
  BY <1>1, <1>2

\* Types, the contents of the ring and the states of the stream, always.
THEOREM CaptureHolds == Spec => []CaptureInv
<1>1. QED
  BY InitHolds, NextKeepsCapture, PTL DEF Spec

\* No sample is sent twice, dropped between two others or overwritten while it
\* is read, wherever the DMA interrupt comes.
THEOREM SamplesAreContiguous == Spec => []StreamIsContiguous
<1>1. CaptureInv => StreamIsContiguous
  BY DEF CaptureInv, RingInv
<1>2. QED
  BY <1>1, CaptureHolds, PTL

\* A stream without a packet has counted a failure or was configured again.
THEOREM StallsAreCounted == Spec => []StallIsCounted
<1>1. CaptureInv => StallIsCounted
  BY DEF CaptureInv, StreamInv
<1>2. QED
  BY <1>1, CaptureHolds, PTL

-----------------------------------------------------------------------------
(* The fill of the ring.                                                   *)

\* The numbers that the fill is made of.
LEMMA FillNumbers ==
    ASSUME CaptureInv
    PROVE  /\ Capacity \in Nat \ {0} /\ Nominal \in Nat \ {0} /\ Block \in Nat \ {0}
           /\ BlocksPerPacket \in Nat \ {0} /\ Block <= Nominal
           /\ Spacing \in Nat /\ MaxPads \in Nat
           /\ Available \in Nat /\ Available <= Capacity - 1
           /\ left \in Nat /\ left <= Nominal + 1 /\ left <= Available
           /\ blocks \in 0 .. BlocksPerPacket + 1 /\ quiet \in 0 .. Spacing
           /\ underruns \in 0 .. MaxPads /\ overruns \in {0, 1} /\ missed \in Nat
           /\ Frames(blocks) \in Nat
           /\ Base \in Int
<1>1. /\ Capacity \in Nat \ {0} /\ Nominal \in Nat \ {0} /\ Block \in Nat \ {0}
      /\ BlocksPerPacket \in Nat \ {0} /\ Spacing \in Nat /\ MaxPads \in Nat
      /\ MaxMissed \in Nat
  BY UsbAudioAssumption, WholeBlocks
<1>2. 1 \in 0 .. BlocksPerPacket + 1 /\ 1 <= BlocksPerPacket
  BY <1>1
<1>3. Block <= Nominal
  BY <1>2, FramesOfBlocks
<1>4. Available \in 0 .. Capacity - 1
  BY FillOfTheRing DEF CaptureInv, TypeOK
<1>5. left \in Nat /\ left <= Nominal + 1 /\ left <= Available
  BY <1>1, <1>4 DEF CaptureInv, RingInv, Copying, TypeOK
<1>6. blocks \in 0 .. BlocksPerPacket + 1 /\ Frames(blocks) \in Nat
  BY FramesOfBlocks DEF CaptureInv, TypeOK
<1>7. Base \in Int
  BY <1>1, <1>4, <1>5, <1>6 DEF Base
<1>8. quiet \in 0 .. Spacing /\ underruns \in 0 .. MaxPads /\ overruns \in {0, 1} /\ missed \in Nat
  BY <1>1 DEF CaptureInv, TypeOK
<1>9. QED
  BY <1>1, <1>3, <1>4, <1>5, <1>6, <1>7, <1>8

LEMMA InitFills == Init => FillInv
<1> SUFFICES ASSUME Init PROVE FillInv
  OBVIOUS
<1>1. BlocksPerPacket \in Nat \ {0}
  BY WholeBlocks
<1>2. QED
  BY <1>1 DEF Init, FillInv, OnTime, Priming

\* A block finds room while the host collects every packet.
LEMMA RoomForABlock ==
    ASSUME Tolerable, CaptureInv, FillInv, DmaInterrupt, OnTime
    PROVE  Available + Block < Capacity
<1> USE FillNumbers
<1>1. 3 * Nominal + 2 * Block < Capacity /\ Block <= Spacing + 1
  BY DEF Tolerable
<1>2. /\ streaming /\ isr # "idle" => blocks = 0
      /\ blocks < BlocksPerPacket \/ (blocks = BlocksPerPacket /\ quiet = Spacing)
  BY DEF DmaInterrupt, MaySlip
<1>3. streaming
  BY DEF DmaInterrupt
<1>4. blocks = 0 => Frames(blocks) = 0
  BY FramesOfBlocks
<1>5. CASE isr = "level"
  <2>1. Base <= 3 * Nominal + Block
    <3>1. CASE starting
      BY <1>5, <3>1 DEF FillInv, Priming
    <3>2. CASE ~starting
      BY <1>5, <3>2 DEF FillInv, BacklogAt
    <3>3. QED
      BY <3>1, <3>2 DEF CaptureInv, TypeOK
  <2>2. Base = Available
    BY <1>2, <1>3, <1>4, <1>5 DEF Base, CaptureInv, RingInv, Copying
  <2>3. QED
    BY <1>1, <2>1, <2>2
<1>6. CASE isr # "level"
  <2>1. BacklogAt(Base + Nominal, quiet + 1)
    BY <1>3, <1>6 DEF FillInv
  <2>2. /\ Base + Nominal <= 3 * Nominal + Block - 1
        /\ quiet = Spacing => Base + Nominal <= 3 * Nominal
    BY <1>1, <2>1 DEF BacklogAt
  <2>3. CASE isr # "idle"
    <3>1. Available = Base + left
      BY <1>2, <1>3, <1>4, <2>3 DEF Base
    <3>2. QED
      BY <1>1, <2>2, <3>1
  <2>4. CASE isr = "idle"
    <3>1. Available = Base + Frames(blocks)
      BY <2>4 DEF Base, CaptureInv, RingInv, Copying
    <3>2. /\ blocks < BlocksPerPacket => Frames(blocks) + Block <= Nominal
          /\ blocks = BlocksPerPacket => Frames(blocks) = Nominal
      BY FramesOfBlocks
    <3>3. QED
      BY <1>1, <1>2, <2>2, <3>1, <3>2
  <2>5. QED
    BY <2>3, <2>4
<1>7. QED
  BY <1>5, <1>6

LEMMA DmaKeepsFill ==
    ASSUME Tolerable, CaptureInv, FillInv, DmaInterrupt
    PROVE  FillInv'
<1> USE FillNumbers
<1>1. /\ Push /\ read' = read /\ isr' = isr /\ starting' = starting /\ left' = left
      /\ streaming' = streaming /\ drift' = drift /\ quiet' = quiet /\ missed' = missed
      /\ underruns' = underruns /\ blocks' = blocks + 1
      /\ isr # "idle" => blocks = 0
      /\ blocks < BlocksPerPacket \/ (blocks = BlocksPerPacket /\ quiet = Spacing)
  BY DEF DmaInterrupt, deviceVars, isrVars, hostVars, MaySlip
<1>2. /\ blocks' = BlocksPerPacket + 1 => quiet' = Spacing
      /\ streaming' /\ isr' # "idle" => blocks' <= 1
  BY <1>1
<1>3. CASE ~OnTime
  BY <1>1, <1>2, <1>3 DEF FillInv, OnTime, Resetting
<1>4. CASE OnTime
  <2>1. Available' = Available + Block /\ overruns' = overruns
    <3>1. PICK fit \in 0 .. Block :
            /\ Available' = Available + fit
            /\ overruns' = IF fit < Block THEN 1 ELSE overruns
            /\ fit < Block => Available + Block >= Capacity
      BY <1>1, PushEffects DEF CaptureInv
    <3>2. fit = Block
      BY <1>4, <3>1, RoomForABlock
    <3>3. QED
      BY <3>1, <3>2
  <2>2. Frames(blocks + 1) = Frames(blocks) + Block
    BY FramesOfBlocks
  <2>3. Base' = Base
    <3>1. Base' = Available' - left' - Frames(blocks')
      BY DEF Base, Frames
    <3>2. QED
      BY <1>1, <2>1, <2>2, <3>1 DEF Base
  <2>4. QED
    BY <1>1, <1>2, <1>4, <2>1, <2>3
       DEF FillInv, OnTime, Resetting, Priming, PadsAt, BacklogAt
<1>5. QED
  BY <1>3, <1>4

\* The first packet of a stream is padded once at most and leaves no more than
\* a block that came after it was measured.
LEMMA FirstLevelKeepsFill ==
    ASSUME CaptureInv, FillInv, OnTime, Level, starting
    PROVE  /\ Base' <= 0 /\ underruns' <= 1
           /\ PadsAt(Base + Nominal)' /\ BacklogAt(Base + Nominal, quiet + 1)'
<1> USE FillNumbers
<1>1. /\ Base <= 0 /\ underruns = 0 /\ left = 0 /\ streaming /\ blocks <= 1
      /\ isr = "level"
  BY DEF Level, FillInv, Priming, CaptureInv, RingInv, StreamInv, Copying
<1>2. /\ left' \in Nat /\ left' <= Available
      /\ underruns' = underruns \/ underruns' = underruns + 1
  <2>1. left' \in Nat /\ left' <= Available
    BY LevelTakes DEF CaptureInv
  <2>2. underruns' \in Nat /\ underruns' <= underruns + 1 /\ underruns <= underruns'
    BY DEF Level, Lesser
  <2>3. QED
    BY <2>1, <2>2
<1>3. Base = Available - Frames(blocks) /\ Base' = Available - left' - Frames(blocks)
  <2>1. UNCHANGED <<read, write, blocks>>
    BY DEF Level, ringVars, clockVars
  <2>2. QED
    BY <1>1, <2>1 DEF Base, Available
<1>4. Frames(blocks) <= Nominal
  BY <1>1, FramesOfBlocks
<1>5. Base' <= 0 /\ underruns' <= 1 /\ Base' + Nominal >= 0 /\ Base' + Nominal <= 3 * Nominal
      /\ quiet' = quiet /\ Base' \in Int
  BY <1>1, <1>2, <1>3, <1>4 DEF Level, clockVars
<1>6. QED
  BY <1>5 DEF PadsAt, BacklogAt

\* A packet takes what lets the fill at the next collection grow to a packet
\* less one sample, and shrink to three.
LEMMA LevelKeepsFill ==
    ASSUME CaptureInv, FillInv, OnTime, Level, ~starting
    PROVE  PadsAt(Base + Nominal)' /\ BacklogAt(Base + Nominal, quiet + 1)'
<1> USE FillNumbers
<1> DEFINE a == Available
           z == Base
           early == Frames(blocks)
           next == Base' + Nominal
<1>1. /\ left = 0 /\ streaming /\ blocks <= 1 /\ isr = "level"
      /\ PadsAt(z) /\ BacklogAt(z, quiet)
  BY DEF Level, FillInv, CaptureInv, RingInv, StreamInv, Copying, Priming
<1>2. /\ left' = Lesser(a, Length(a))
      /\ underruns' = IF a < Length(a) THEN Lesser(underruns + 1, MaxPads) ELSE underruns
      /\ UNCHANGED <<read, write, blocks, quiet>>
  BY DEF Level, ringVars, clockVars
<1>3. z = a - early /\ Base' = a - left' - early
  BY <1>1, <1>2 DEF Base, Available
<1>4. early = 0 \/ early = Block
  BY <1>1, FramesOfBlocks
<1>5. /\ a \in Nat /\ z \in Int /\ Nominal \in Nat \ {0} /\ Block \in 1 .. Nominal
      /\ underruns \in 0 .. MaxPads /\ quiet \in Nat /\ MaxPads \in Nat
  OBVIOUS
<1> HIDE DEF a, z, early
<1>6. \/ a < Nominal - 1 /\ left' = a /\ underruns' <= underruns + 1
      \/ a = Nominal - 1 /\ left' = a /\ underruns' = underruns
      \/ Nominal <= a /\ a <= 3 * Nominal /\ left' = Nominal /\ underruns' = underruns
      \/ a > 3 * Nominal /\ left' = Nominal + 1 /\ underruns' = underruns
  BY <1>2, <1>5 DEF Lesser, Length
<1>7. underruns' \in Nat
  BY <1>2, <1>5 DEF Lesser
<1>8. next = a - left' - early + Nominal /\ a = z + early
  BY <1>3, <1>4, <1>5
<1> HIDE DEF next
<1>9. \/ next >= Nominal - 1 /\ underruns' <= 3
      \/ next = Nominal - Block /\ underruns' <= 2
      \/ next >= 0 /\ underruns' <= 1
  <2>1. CASE z >= Nominal - 1 /\ underruns <= 3
    BY <1>4, <1>5, <1>6, <1>7, <1>8, <2>1
  <2>2. CASE z = Nominal - Block /\ underruns <= 2
    BY <1>4, <1>5, <1>6, <1>7, <1>8, <2>2
  <2>3. CASE z >= 0 /\ underruns <= 1
    BY <1>4, <1>5, <1>6, <1>7, <1>8, <2>3
  <2>4. QED
    BY <1>1, <2>1, <2>2, <2>3 DEF PadsAt
<1>10. next <= 3 * Nominal + (IF quiet + 1 < Block THEN Block - (quiet + 1) ELSE 0)
  <2>1. z <= 3 * Nominal + (IF quiet < Block THEN Block - quiet ELSE 0)
    BY <1>1 DEF BacklogAt
  <2>2. CASE z > 3 * Nominal
    BY <1>4, <1>5, <1>6, <1>8, <2>1, <2>2
  <2>3. CASE z <= 3 * Nominal
    <3>1. next <= 3 * Nominal
      BY <1>4, <1>5, <1>6, <1>8, <2>3
    <3>2. QED
      BY <1>5, <1>4, <1>6, <1>8, <3>1
  <2>4. QED
    BY <1>5, <2>2, <2>3
<1>11. QED
  BY <1>2, <1>9, <1>10 DEF PadsAt, BacklogAt, next

LEMMA CollectedKeepsFill ==
    ASSUME Tolerable, CaptureInv, FillInv, Collected
    PROVE  FillInv'
<1> USE FillNumbers
<1>1. /\ isr = "idle" /\ blocks' = 0 /\ starting' = FALSE
      /\ isr' = IF attached /\ streaming THEN "level" ELSE "idle"
      /\ UNCHANGED <<read, write, overruns, underruns, streaming, attached, left, drift, missed>>
      /\ Interval
  BY DEF Collected, ringVars, counterVars, hostVars
<1>2. left = 0
  BY <1>1 DEF CaptureInv, RingInv, Copying
<1>3. blocks' # BlocksPerPacket + 1
  BY <1>1
<1>4. CASE ~OnTime \/ ~streaming
  BY <1>1, <1>3, <1>4 DEF FillInv, OnTime, Resetting, Priming, CaptureInv, StreamInv
<1>5. CASE OnTime /\ streaming
  <2>1. PadsAt(Base + Nominal) /\ BacklogAt(Base + Nominal, quiet + 1)
        /\ (blocks = BlocksPerPacket + 1 => quiet = Spacing)
    BY <1>1, <1>5 DEF FillInv
  <2>2. Base' = Available /\ Base = Available - Frames(blocks)
    <3>1. Base' = Available - left - Frames(0)
      BY <1>1 DEF Base, Available, Frames
    <3>2. 0 \in 0 .. BlocksPerPacket + 1
      OBVIOUS
    <3>3. Frames(0) = 0
      BY <3>2, FramesOfBlocks
    <3>4. QED
      BY <1>2, <3>1, <3>3 DEF Base
  <2>3. \/ blocks = BlocksPerPacket /\ quiet' = Lesser(quiet + 1, Spacing)
        \/ blocks = BlocksPerPacket + 1 /\ quiet' = 0
    BY <1>1, <1>5 DEF Interval, OnTime
  <2>4. Block <= Spacing + 1
    BY DEF Tolerable
  <2>5. PadsAt(Base)' /\ BacklogAt(Base, quiet)'
    <3>1. CASE blocks = BlocksPerPacket
      <4>1. Base' = Base + Nominal /\ quiet' = Lesser(quiet + 1, Spacing)
        BY <2>2, <2>3, <3>1, FramesOfBlocks
      <4>2. PadsAt(Base)'
        BY <1>1, <2>1, <4>1 DEF PadsAt
      <4>3. BacklogAt(Base, quiet)'
        BY <2>1, <2>4, <4>1 DEF BacklogAt, Lesser
      <4>4. QED
        BY <4>2, <4>3
    <3>2. CASE blocks = BlocksPerPacket + 1
      <4>1. Base' = Base + Nominal + Block /\ quiet' = 0 /\ quiet = Spacing
        BY <2>1, <2>2, <2>3, <3>2, FramesOfBlocks
      <4>2. PadsAt(Base)'
        BY <1>1, <2>1, <4>1 DEF PadsAt
      <4>3. BacklogAt(Base, quiet)'
        BY <2>1, <2>4, <4>1 DEF BacklogAt
      <4>4. QED
        BY <4>2, <4>3
    <3>3. QED
      BY <2>3, <3>1, <3>2
  <2>6. OnTime' /\ isr' = "level" /\ streaming' /\ overruns' = 0 /\ underruns' <= 3
    BY <1>1, <1>5 DEF OnTime, Resetting, FillInv, CaptureInv, StreamInv
  <2>7. QED
    BY <1>1, <1>3, <2>5, <2>6 DEF FillInv
<1>6. QED
  BY <1>4, <1>5

\* Nothing that the fill depends on changes.
LEMMA FillUnchanged ==
    ASSUME FillInv,
           UNCHANGED <<read, write, overruns, underruns, streaming, starting, left, drift,
                       blocks, quiet, missed>>,
           \/ isr' = isr
           \/ isr = "copy" /\ isr' = "advance"
           \/ isr = "send" /\ isr' = "idle"
    PROVE  FillInv'
BY DEF FillInv, OnTime, Resetting, Priming, PadsAt, BacklogAt, Base, Available, Frames

LEMMA PrimingKeepsFill ==
    ASSUME Tolerable, CaptureInv, FillInv, Level \/ Copy \/ Advance \/ SendAccepted \/ SendFails
    PROVE  FillInv'
<1> USE FillNumbers
<1>1. /\ Priming /\ streaming /\ blocks <= 1 /\ ~Resetting
      /\ OnTime => overruns = 0 /\ underruns <= 3
      /\ OnTime /\ isr # "level" =>
           PadsAt(Base + Nominal) /\ BacklogAt(Base + Nominal, quiet + 1)
      /\ OnTime /\ starting => Base <= 0 /\ underruns <= 1
  BY DEF Level, Copy, Advance, SendAccepted, SendFails, Priming, Resetting, FillInv,
         CaptureInv, StreamInv
<1>2. /\ UNCHANGED <<drift, missed, quiet, starting, overruns>>
      /\ OnTime' => OnTime
  BY <1>1 DEF Level, Copy, Advance, SendAccepted, SendFails, OnTime, Resetting, counterVars,
              deviceVars, isrVars, clockVars, hostVars
<1>3. blocks = BlocksPerPacket + 1 => quiet = Spacing
  BY DEF FillInv
<1>4. CASE Level
  <2>1. /\ UNCHANGED <<blocks, streaming>> /\ isr = "level" /\ isr' # "level"
        /\ isr' \in {"copy", "send"}
    BY <1>4 DEF Level, deviceVars, clockVars
  <2>2. OnTime => /\ PadsAt(Base + Nominal)' /\ BacklogAt(Base + Nominal, quiet + 1)'
                  /\ starting => Base' <= 0 /\ underruns' <= 1
    <3>1. starting \in BOOLEAN
      BY DEF CaptureInv, TypeOK
    <3>2. QED
      BY <1>4, <3>1, FirstLevelKeepsFill, LevelKeepsFill
  <2>3. PadsAt(Base + Nominal)' => underruns' <= 3
    BY <1>4 DEF PadsAt, Level, Lesser
  <2>4. QED
    BY <1>1, <1>2, <1>3, <2>1, <2>2, <2>3 DEF FillInv
<1>5. CASE Copy
  <2>1. /\ UNCHANGED <<read, write, overruns, underruns, streaming, starting, left, drift,
                       blocks, quiet, missed>>
        /\ isr = "copy" /\ isr' = "advance"
    BY <1>5 DEF Copy, ringVars, counterVars, deviceVars, clockVars, hostVars
  <2>2. QED
    BY <2>1, FillUnchanged
<1>6. CASE Advance
  <2>1. /\ UNCHANGED <<blocks, streaming, underruns>> /\ left' = left - 1
        /\ isr # "level" /\ isr' \in {"copy", "send"}
    BY <1>6 DEF Advance, counterVars, deviceVars, clockVars
  <2>2. Base' = Base
    <3>1. Available' = Available - 1
      BY <1>6, AdvanceTakesOne DEF CaptureInv
    <3>2. Base' = Available' - left' - Frames(blocks)
      BY <2>1 DEF Base, Frames
    <3>3. QED
      BY <2>1, <3>1, <3>2 DEF Base
  <2>3. QED
    BY <1>1, <1>2, <1>3, <2>1, <2>2 DEF FillInv, PadsAt, BacklogAt
<1>7. CASE SendAccepted \/ SendFails
  <2>1. /\ UNCHANGED <<read, write, left, underruns>>
        /\ isr = "send" /\ isr' = "idle" /\ left = 0
    BY <1>7 DEF SendAccepted, SendFails, ringVars, counterVars, CaptureInv, RingInv, Copying
  <2>2. CASE SendAccepted /\ starting
    <3>1. blocks' \in 0 .. BlocksPerPacket /\ streaming' = streaming
      BY <2>2 DEF SendAccepted
    <3>2. OnTime => PadsAt(Base + Nominal)' /\ BacklogAt(Base + Nominal, quiet + 1)'
      <4> SUFFICES ASSUME OnTime
                   PROVE  PadsAt(Base + Nominal)' /\ BacklogAt(Base + Nominal, quiet + 1)'
        OBVIOUS
      <4>1. Base' = Available - Frames(blocks')
        BY <2>1 DEF Base, Available, Frames
      <4>2. Available <= Nominal
        <5>1. Frames(blocks) <= Nominal /\ Base = Available - Frames(blocks)
          BY <1>1, <2>1, FramesOfBlocks DEF Base
        <5>2. QED
          BY <1>1, <2>2, <5>1
      <4>3. Frames(blocks') \in Nat /\ Frames(blocks') <= Nominal
        <5>1. \A j \in 0 .. BlocksPerPacket : Frames(j) \in Nat /\ Frames(j) <= Nominal
          BY FramesOfBlocks
        <5>2. QED
          BY <3>1, <5>1
      <4>4. Base' \in Int /\ Base' + Nominal >= 0 /\ Base' + Nominal <= 3 * Nominal
        BY <4>1, <4>2, <4>3
      <4>5. QED
        BY <1>1, <1>2, <2>1, <2>2, <4>4 DEF PadsAt, BacklogAt
    <3>3. QED
      BY <1>1, <1>2, <2>1, <3>1, <3>2 DEF FillInv, Priming
  <2>3. CASE SendAccepted /\ ~starting
    <3>1. UNCHANGED <<read, write, overruns, underruns, streaming, starting, left, drift,
                      blocks, quiet, missed>>
      BY <1>2, <2>1, <2>3 DEF SendAccepted
    <3>2. QED
      BY <2>1, <3>1, FillUnchanged
  <2>4. CASE SendFails /\ starting
    <3>1. ~streaming' /\ blocks' = blocks
      BY <2>4 DEF SendFails, clockVars
    <3>2. QED
      BY <1>1, <1>2, <1>3, <2>1, <3>1 DEF FillInv, Priming
  <2>5. CASE SendFails /\ ~starting
    <3>1. UNCHANGED <<read, write, overruns, underruns, streaming, starting, left, drift,
                      blocks, quiet, missed>>
      BY <1>1, <1>2, <2>1, <2>5 DEF SendFails, clockVars, CaptureInv, TypeOK
    <3>2. QED
      BY <2>1, <3>1, FillUnchanged
  <2>6. QED
    BY <1>7, <2>2, <2>3, <2>4, <2>5
<1>8. QED
  BY <1>4, <1>5, <1>6, <1>7

LEMMA NextKeepsFill ==
    ASSUME Tolerable, CaptureInv, FillInv, [Next]_vars
    PROVE  FillInv'
<1> USE FillNumbers
<1>1. CASE UNCHANGED vars
  BY <1>1, FillUnchanged DEF vars, ringVars, counterVars, deviceVars, isrVars, clockVars, hostVars
<1>2. CASE DmaInterrupt
  BY <1>2, DmaKeepsFill
<1>3. CASE Level \/ Copy \/ Advance \/ SendAccepted \/ SendFails
  BY <1>3, PrimingKeepsFill
<1>4. CASE ResetRead
  BY <1>4 DEF ResetRead, FillInv, OnTime, Resetting, counterVars, deviceVars, clockVars, hostVars
<1>5. CASE ResetWrite
  <2>1. /\ overruns' = 0 /\ underruns' = 0 /\ left' = 0
        /\ UNCHANGED <<streaming, starting, blocks, quiet, drift>>
        /\ isr' = IF streaming THEN "level" ELSE "idle"
        /\ isr = "reset_write" /\ (streaming => starting)
    BY <1>5 DEF ResetWrite, deviceVars, clockVars, CaptureInv, RingInv, Copying, StreamInv,
                Resetting
  <2>2. Base' <= 0
    <3>1. Available' = Place(0)
      BY <1>5 DEF Available, Place, ResetWrite, CaptureInv, RingInv
    <3>2. Available' = 0
      BY <3>1, Places
    <3>3. Base' = Available' - left' - Frames(blocks)
      BY <2>1 DEF Base, Frames
    <3>4. QED
      BY <2>1, <3>2, <3>3
  <2>3. QED
    BY <2>1, <2>2 DEF FillInv, Priming
<1>6. CASE Collected
  BY <1>6, CollectedKeepsFill
<1>7. CASE NotCollected
  <2>1. missed' # 0 /\ blocks' = 0 /\ isr' = "idle"
    BY <1>7 DEF NotCollected, isrVars
  <2>2. QED
    BY <2>1 DEF FillInv, OnTime
<1>8. CASE BusReset
  <2>1. isr' = "reset_read" /\ ~streaming' /\ UNCHANGED <<blocks, quiet>>
    BY <1>8 DEF BusReset, clockVars
  <2>2. QED
    BY <2>1 DEF FillInv, OnTime, Resetting
<1>9. CASE Configure
  <2>1. /\ UNCHANGED <<read, write, overruns, underruns, streaming, starting, left, drift,
                       blocks, quiet, missed, isr>>
    BY <1>9 DEF Configure, ringVars, counterVars, isrVars, clockVars
  <2>2. QED
    BY <2>1, FillUnchanged
<1>10. CASE Unconfigure
  <2>1. /\ isr' = "idle" /\ isr = "idle" /\ ~streaming'
        /\ UNCHANGED <<overruns, underruns, drift, missed, blocks, quiet>>
    BY <1>10 DEF Unconfigure, counterVars, isrVars, clockVars, hostVars
  <2>2. QED
    BY <2>1 DEF FillInv, OnTime, Resetting, Priming
<1>11. ASSUME NEW b \in BOOLEAN, Select(b) PROVE FillInv'
  <2>1. isr' = "reset_read" /\ blocks' = 0
    BY <1>11 DEF Select
  <2>2. QED
    BY <2>1 DEF FillInv, OnTime, Resetting, Priming
<1>12. QED
  BY <1>1, <1>2, <1>3, <1>4, <1>5, <1>6, <1>7, <1>8, <1>9, <1>10, <1>11 DEF Next, UsbInterrupt

\* While the host collects every packet of a stream, a codec whose clock is not
\* slower than the host's neither overruns the ring nor pads more than three
\* packets, for every size of ring, packet and block that leaves room for two
\* blocks above three packets, and every rate of slips of a block that packets
\* of one sample more can make up for.
THEOREM FastClockIsAbsorbed == Tolerable /\ Spec => []FastClockAbsorbed
<1> SUFFICES ASSUME Tolerable PROVE Spec => []FastClockAbsorbed
  OBVIOUS
<1>1. CaptureInv /\ FillInv => FastClockAbsorbed
  BY DEF FillInv, FastClockAbsorbed, Absorbed, OnTime, Resetting
<1>2. CaptureInv /\ FillInv /\ [Next]_vars => FillInv'
  BY NextKeepsFill
<1>3. Init => FillInv
  BY InitFills
<1>4. QED
  BY <1>1, <1>2, <1>3, CaptureHolds, PTL DEF Spec
=============================================================================
