--------------------------- MODULE StompboxProofs ---------------------------
(***************************************************************************)
(* The route, the gestures and the selector of the control loop, for every *)
(* ladder of detents, every reading and every length of the waits; and the *)
(* audio path under it: what is proved of the loop holds however late the  *)
(* interrupt is, and the halves never change their turn.                   *)
(***************************************************************************)
EXTENDS AudioPath, FiniteSetTheorems, WellFoundedInduction, TLAPS

USE DEF Positions

\* The constants, in the form that the provers use.
LEMMA Constants ==
    /\ Readings \subseteq Nat /\ NoReading \notin Readings
    /\ Hysteresis \in Nat /\ PollBlocks \in Nat
    /\ SettleBlocks \in Nat /\ RampTop \in Nat \ {0} /\ MaxBehind \in Nat
    /\ SettleBlocks >= RampTop + MaxBehind
    /\ 1 \in Positions /\ Positions \subseteq Nat
    /\ \A p \in Positions : Detents[p] \in Nat
BY StompboxAssumption

-----------------------------------------------------------------------------
(* The nearest detent exists.                                              *)

\* Every set of natural numbers has a least element.
LEMMA LeastNatural ==
    ASSUME NEW T, T \subseteq Nat, T # {}
    PROVE  \E x \in T : \A y \in T : x <= y
<1> DEFINE Below(x) == {y \in T : y <= x}
           Downs == {Below(x) : x \in T}
           R == StrictSubsetOrdering(Nat)
           Finite == FiniteSubsetsOf(Nat)
<1>1. ASSUME NEW x \in T
      PROVE  Below(x) \in Finite
  <2>1. Below(x) \in SUBSET Nat /\ x \in Nat /\ \A s \in Below(x) : s <= x
    OBVIOUS
  <2>2. IsFiniteSet(Below(x))
    <3> HIDE DEF Below
    <3> QED
      BY <2>1, FS_BoundedSetOfNaturals
  <2>3. QED
    BY <2>1, <2>2 DEF FiniteSubsetsOf
<1>2. Downs \subseteq Finite /\ Downs # {}
  BY <1>1
<1>3. IsWellFoundedOn(R, Finite)
  BY FS_StrictSubsetOrderingWellFounded
<1>4. PICK B \in Downs : \A C \in Downs : <<C, B>> \notin R
  <2> HIDE DEF Downs, R, Finite
  <2> QED
    BY <1>2, <1>3, WFMin
<1>5. PICK x \in T : B = Below(x)
  BY <1>4
<1>6. ASSUME NEW y \in T, y < x
      PROVE  FALSE
  <2>1. Below(y) \subseteq Below(x)
    <3> SUFFICES ASSUME NEW z \in T, z <= y
                 PROVE  z <= x
      OBVIOUS
    <3>1. x \in Nat /\ y \in Nat /\ z \in Nat
      OBVIOUS
    <3> HIDE DEF Below, Downs, R, Finite
    <3>2. QED
      BY <1>6, <3>1
  <2>2. x \in Below(x) /\ x \notin Below(y)
    BY <1>6
  <2>3. <<Below(y), B>> \in (SUBSET Nat) \X (SUBSET Nat)
    BY <1>5
  <2>4. <<Below(y), B>> \in R
    BY <1>5, <2>1, <2>2, <2>3 DEF StrictSubsetOrdering
  <2>5. QED
    BY <2>4, <1>4
<1>7. QED
  BY <1>6

\* Nearest returns a position that no other is nearer than.
LEMMA NearestIsNearest ==
    ASSUME NEW r \in Nat
    PROVE  /\ Nearest(r) \in Positions
           /\ \A p \in Positions :
                Distance(r, Detents[Nearest(r)]) <= Distance(r, Detents[p])
<1> DEFINE D(p) == Distance(r, Detents[p])
           Ds == {D(p) : p \in Positions}
<1>1. \A p \in Positions : D(p) \in Nat
  <2> SUFFICES ASSUME NEW p \in Positions
               PROVE  D(p) \in Nat
    OBVIOUS
  <2>1. Detents[p] \in Nat
    BY Constants
  <2>2. QED
    BY <2>1 DEF Distance
<1>2. Ds \subseteq Nat /\ Ds # {}
  BY <1>1, Constants
<1>3. PICK d \in Ds : \A e \in Ds : d <= e
  <2> HIDE DEF Ds
  <2> QED
    BY <1>2, LeastNatural
<1> DEFINE Best == {p \in Positions : D(p) = d}
<1>4. Best \subseteq Nat /\ Best # {}
  BY <1>3, Constants
<1>5. PICK p \in Best : \A q \in Best : p <= q
  <2> HIDE DEF Best
  <2> QED
    BY <1>4, LeastNatural
<1> DEFINE IsNearest(n) == \A q \in Positions \ {n} :
                              \/ D(n) < D(q)
                              \/ D(n) = D(q) /\ n < q
<1>6. IsNearest(p)
  <2> SUFFICES ASSUME NEW q \in Positions \ {p}
               PROVE  D(p) < D(q) \/ (D(p) = D(q) /\ p < q)
    OBVIOUS
  <2>1. D(p) = d /\ d <= D(q) /\ D(q) \in Nat /\ d \in Nat /\ p \in Nat /\ q \in Nat
    BY <1>1, <1>2, <1>3, <1>5, Constants
  <2>2. D(q) = d => p <= q
    BY <1>5
  <2> HIDE DEF D
  <2>3. QED
    BY <2>1, <2>2
<1>7. Nearest(r) \in Positions /\ IsNearest(Nearest(r))
  <2>1. Nearest(r) = CHOOSE n \in Positions : IsNearest(n)
    BY DEF Nearest
  <2>2. \E n \in Positions : IsNearest(n)
    BY <1>5, <1>6
  <2> HIDE DEF IsNearest
  <2>3. QED
    BY <2>1, <2>2
<1>8. \A q \in Positions : D(Nearest(r)) <= D(q)
  <2> SUFFICES ASSUME NEW q \in Positions
               PROVE  D(Nearest(r)) <= D(q)
    OBVIOUS
  <2>1. D(Nearest(r)) \in Nat /\ D(q) \in Nat
    BY <1>1, <1>7
  <2>2. q # Nearest(r) => D(Nearest(r)) < D(q) \/ D(Nearest(r)) = D(q)
    BY <1>7
  <2> HIDE DEF D
  <2>3. QED
    BY <2>1, <2>2
<1>9. QED
  BY <1>7, <1>8

-----------------------------------------------------------------------------
(* The selector.                                                           *)

\* One sample keeps SelectorInv, and when it changes the position its reading
\* is apart from the one of the last change.
LEMMA SampleSelects ==
    ASSUME SelectorInv, Sample
    PROVE  /\ SelectorInv'
           /\ position' # position /\ turned # NoReading =>
                /\ 2 * Distance(turned, turned') >= Hysteresis
                /\ position' = previous => Distance(turned, turned') >= Hysteresis
<1>1. CASE UNCHANGED <<position, candidate, samples, turned, previous>>
  BY <1>1 DEF SelectorInv
<1>2. CASE \E reading \in Readings : Update(reading)
  <2>1. PICK r \in Readings : Update(r)
    BY <1>2
  <2>2. r \in Nat /\ r # NoReading
    BY Constants
  <2>3. CASE UNCHANGED <<position, turned, previous>>
    BY <2>3 DEF SelectorInv
  <2>4. CASE /\ ~Keeps(r)
             /\ position' = Nearest(r)
             /\ turned' = r
             /\ previous' = position
    <3>1. /\ Nearest(r) \in Positions
          /\ \A p \in Positions :
               Distance(r, Detents[Nearest(r)]) <= Distance(r, Detents[p])
      BY <2>2, NearestIsNearest
    <3> DEFINE from == Detents[position]
               to == Detents[Nearest(r)]
    <3>2. from \in Nat /\ to \in Nat /\ position \in Positions
      BY <3>1, Constants DEF SelectorInv
    <3>3. Distance(r, to) + Hysteresis <= Distance(r, from)
      BY <2>2, <2>4, <3>2, Constants DEF Keeps, Distance
    <3>4. SelectorInv'
      BY <2>2, <2>4, <3>1, <3>2, <3>3 DEF SelectorInv
    <3>5. ASSUME turned # NoReading
          PROVE  /\ 2 * Distance(turned, r) >= Hysteresis
                 /\ position' = previous /\ position' # position =>
                      Distance(turned, r) >= Hysteresis
      <4>1. turned \in Nat
        BY <3>5, Constants DEF SelectorInv
      <4>2. Distance(turned, from) <= Distance(turned, to)
        BY <3>1, <3>5 DEF SelectorInv
      <4>3. 2 * Distance(turned, r) >= Hysteresis
        BY <2>2, <3>2, <3>3, <4>1, <4>2, Constants DEF Distance
      <4>4. ASSUME position' = previous, position' # position
            PROVE  Distance(turned, r) >= Hysteresis
        <5>1. Distance(turned, from) + Hysteresis <= Distance(turned, to)
          BY <2>4, <3>5, <4>4 DEF SelectorInv
        <5> HIDE DEF from, to
        <5>2. QED
          BY <2>2, <3>2, <3>3, <4>1, <5>1, Constants DEF Distance
      <4>5. QED
        BY <4>3, <4>4
    <3>6. QED
      BY <2>4, <3>4, <3>5
  <2>5. QED
    BY <2>1, <2>3, <2>4 DEF Update
<1>3. QED
  BY <1>1, <1>2 DEF Sample

\* SelectorInv is inductive, and every step separates the readings.
LEMMA SelectorStep ==
    ASSUME SelectorInv, [Next]_vars
    PROVE  /\ SelectorInv'
           /\ position' # position /\ turned # NoReading =>
                /\ 2 * Distance(turned, turned') >= Hysteresis
                /\ position' = previous => Distance(turned, turned') >= Hysteresis
<1>1. CASE Select \/ Knobs
  BY <1>1, SampleSelects DEF Select, Knobs
<1>2. CASE UNCHANGED knobVars
  BY <1>2 DEF knobVars, SelectorInv
<1>3. QED
  BY <1>1, <1>2 DEF Next, vars, Poll, Engage, Disable, BlockElapses, AudioBlock

LEMMA SelectorInit == Init => SelectorInv
<1> SUFFICES ASSUME Init
             PROVE  SelectorInv
  OBVIOUS
<1>1. CASE turned = NoReading
  BY <1>1, Constants DEF Init, SelectorInv
<1>2. CASE turned # NoReading
  <2>1. turned \in Readings /\ turned \in Nat
    BY <1>2, Constants DEF Init
  <2>2. position = Nearest(turned) /\ previous = position
    BY <1>2 DEF Init
  <2>3. QED
    BY <2>1, <2>2, NearestIsNearest DEF SelectorInv
<1>3. QED
  BY <1>1, <1>2

\* Between two changes of the effect the reading of the Type control moves by
\* half the hysteresis, and by all of it when the effect goes back, whatever
\* the ladder of detents looks like (update_selector).
THEOREM NoiseNeverSelects == Spec => HysteresisSeparates
<1>1. SelectorInv /\ [Next]_vars => SelectorInv'
  BY SelectorStep
<1>2. SelectorInv /\ [Next]_vars =>
        [position' # position /\ turned # NoReading =>
           /\ 2 * Distance(turned, turned') >= Hysteresis
           /\ position' = previous => Distance(turned, turned') >= Hysteresis]_vars
  BY SelectorStep
<1>3. QED
  BY SelectorInit, <1>1, <1>2, PTL DEF Spec, HysteresisSeparates

-----------------------------------------------------------------------------
(* The gestures.                                                           *)

LEMMA PressStep ==
    ASSUME PressInv, [Next]_vars
    PROVE  PressInv'
<1>1. CASE \E pressed \in BOOLEAN : Poll(pressed)
  <2>1. PICK pressed \in BOOLEAN : Poll(pressed)
    BY <1>1
  <2>2. debounced' \in BOOLEAN
    BY <2>1 DEF Poll, Debounce, PressInv
  <2>3. PICK event \in {"tap", "hold", "none"} : Gesture(event)
    BY <2>1 DEF Poll
  <2>4. reported' \in BOOLEAN
    BY <2>3 DEF Gesture
  <2>5. CASE debounced' # debounced
    BY <2>2, <2>3, <2>4, <2>5 DEF Gesture, IsTap, IsHold, PressInv
  <2>6. CASE debounced' = debounced
    BY <2>2, <2>3, <2>4, <2>6 DEF Gesture, IsTap, IsHold, PressInv
  <2>7. QED
    BY <2>5, <2>6
<1>2. CASE UNCHANGED switchVars
  BY <1>2 DEF switchVars, PressInv
<1>3. QED
  BY <1>1, <1>2 DEF Next, vars, Engage, Disable, Select, Knobs,
                   BlockElapses, AudioBlock

\* Every press that outlives the debouncing is one tap or one hold, and the
\* press under which the pedal was powered is none (footswitch_gesture.c).
THEOREM PressesAreEvents == Spec => []OneEventPerPress
<1>1. Init => PressInv
  BY DEF Init, PressInv
<1>2. PressInv /\ [Next]_vars => PressInv'
  BY PressStep
<1>3. PressInv => OneEventPerPress
  BY DEF PressInv, OneEventPerPress
<1>4. QED
  BY <1>1, <1>2, <1>3, PTL DEF Spec

-----------------------------------------------------------------------------
(* The route.                                                              *)

LEMMA RouteStep ==
    ASSUME RouteInv, [Next]_vars
    PROVE  RouteInv'
<1> USE Constants DEF RouteInv, RouteTypes
<1>1. ASSUME NEW pressed \in BOOLEAN, Poll(pressed)
      PROVE  RouteInv'
  <2>1. pc = "poll" /\ wait = 0 /\ ramp' = ramp /\ behind' = behind
    BY <1>1 DEF Poll, audioVars
  <2>9. ramp' \in 0 .. RampTop /\ behind' \in 0 .. MaxBehind
    BY <2>1
  <2>2. CASE ~on /\ EngagePrepared
    <3>1. wait' = SettleBlocks /\ pc' = "settle"
      BY <2>2 DEF EngagePrepared
    <3>2. wait' \in Nat /\ ramp' + wait' + behind' >= RampTop + MaxBehind
      <4> DEFINE r == ramp'  w == wait'  b == behind'
      <4>1. r \in Nat /\ b \in Nat /\ w = SettleBlocks
        BY <2>9, <3>1
      <4> HIDE DEF r, w, b
      <4>2. w \in Nat /\ r + w + b >= RampTop + MaxBehind
        BY <4>1
      <4>3. QED
        BY <4>2 DEF r, w, b
    <3>3. on' = TRUE /\ enable' = TRUE /\ relay' = FALSE
      BY <2>1, <2>2 DEF EngagePrepared
    <3>4. QED
      BY <2>9, <3>1, <3>2, <3>3
  <2>3. CASE \E arms \in BOOLEAN : Disengaged(arms)
    BY <2>1, <2>9, <2>3 DEF Disengaged
  <2>4. CASE pc' \in {"select", "knobs"} /\ UNCHANGED <<routeVars, wait>>
    BY <2>1, <2>9, <2>4 DEF routeVars
  <2>5. QED
    BY <1>1, <2>2, <2>3, <2>4 DEF Poll
<1>2. CASE Engage
  BY <1>2 DEF Engage, audioVars
<1>3. CASE Disable
  BY <1>3 DEF Disable, audioVars
<1>4. CASE Select
  BY <1>4 DEF Select, routeVars, audioVars
<1>5. CASE Knobs
  BY <1>5 DEF Knobs, routeVars, audioVars
<1>6. CASE AudioBlock
  <2>1. UNCHANGED <<pc, wait, on, relay, enable>>
    BY <1>6 DEF AudioBlock, routeVars
  <2>2. behind' \in 0 .. MaxBehind /\ behind' + 1 >= behind
    BY <1>6 DEF AudioBlock
  <2>3. ramp' \in 0 .. RampTop /\ (enable => ramp' = RampTop \/ ramp' = ramp + 1)
    BY <1>6 DEF AudioBlock, Lesser
  <2>4. relay => ramp' = RampTop
    BY <1>6 DEF AudioBlock, Lesser
  <2>5. ASSUME pc = "settle", ramp' # RampTop
        PROVE  ramp' + wait' + behind' >= RampTop + MaxBehind
    <3>1. ramp \in 0 .. RampTop /\ wait \in Nat /\ behind \in 0 .. MaxBehind
      OBVIOUS
    <3>2. ramp' = ramp + 1 /\ ramp # RampTop
      BY <2>3, <2>5, <3>1
    <3>8. ramp + wait + behind >= RampTop + MaxBehind
      BY <2>5, <3>2
    <3> DEFINE r == ramp  w == wait  b == behind  rr == ramp'  ww == wait'  bb == behind'
    <3>3. r \in Nat /\ w \in Nat /\ b \in Nat /\ bb \in Nat
      BY <2>2, <3>1, Constants
    <3>6. r + w + b >= RampTop + MaxBehind
      BY <3>8
    <3>7. rr = r + 1 /\ ww = w /\ bb + 1 >= b
      BY <2>1, <2>2, <3>2
    <3> HIDE DEF r, w, b, rr, ww, bb
    <3>4. rr + ww + bb >= RampTop + MaxBehind
      BY <3>3, <3>6, <3>7, Constants
    <3>5. QED
      BY <3>4 DEF rr, ww, bb
  <2>6. RouteTypes'
    BY <2>1, <2>2, <2>3
  <2>7. QED
    BY <2>1, <2>4, <2>5, <2>6
<1>7. CASE BlockElapses
  <2>1. UNCHANGED <<pc, on, relay, enable, ramp>>
    BY <1>7 DEF BlockElapses, routeVars
  <2>2. wait' \in Nat /\ wait' + 1 >= wait
    BY <1>7 DEF BlockElapses
  <2>3. behind' \in 0 .. MaxBehind /\ (pc = "settle" => behind' = behind + 1)
    BY <1>7 DEF BlockElapses
  <2>4. ASSUME pc = "settle", ramp # RampTop
        PROVE  ramp + wait' + behind' >= RampTop + MaxBehind
    <3>1. /\ ramp + wait + behind >= RampTop + MaxBehind
          /\ ramp \in 0 .. RampTop /\ wait \in Nat /\ behind \in 0 .. MaxBehind
      BY <2>4
    <3> DEFINE r == ramp  w == wait  b == behind  ww == wait'  bb == behind'
    <3>2. r \in Nat /\ w \in Nat /\ b \in Nat /\ ww \in Nat
      BY <2>2, <3>1, Constants
    <3>5. r + w + b >= RampTop + MaxBehind
      BY <3>1
    <3>6. ww + 1 >= w /\ bb = b + 1
      BY <2>2, <2>3, <2>4
    <3> HIDE DEF r, w, b, ww, bb
    <3>3. r + ww + bb >= RampTop + MaxBehind
      BY <3>2, <3>5, <3>6, Constants
    <3>4. QED
      BY <3>3 DEF r, ww, bb
  <2>5. QED
    BY <2>1, <2>2, <2>3, <2>4
<1>8. CASE UNCHANGED vars
  BY <1>8 DEF vars, routeVars, audioVars
<1>9. QED
  BY <1>1, <1>2, <1>3, <1>4, <1>5, <1>6, <1>7, <1>8 DEF Next

\* The jack is on the processor only while it runs at full gain, as long as
\* the loop settles for the fade and for the blocks that the interrupt may be
\* behind (main.c:2477-2486).
THEOREM RouteStaysClean == Spec => []RouteIsClean
<1>1. Init => RouteInv
  <2> SUFFICES ASSUME Init
               PROVE  RouteInv
    OBVIOUS
  <2>1. /\ pc = "poll" /\ wait = 0 /\ ramp = 0 /\ behind = 0
        /\ on = FALSE /\ relay = FALSE /\ enable = FALSE
    BY DEF Init
  <2>2. {on, relay, enable} \subseteq BOOLEAN
    BY <2>1
  <2>3. wait \in Nat /\ ramp \in 0 .. RampTop /\ behind \in 0 .. MaxBehind
    BY <2>1, Constants
  <2>4. QED
    BY <2>1, <2>2, <2>3 DEF RouteInv, RouteTypes
<1>2. RouteInv /\ [Next]_vars => RouteInv'
  BY RouteStep
<1>3. RouteInv => RouteIsClean
  BY DEF RouteInv, RouteIsClean
<1>4. QED
  BY <1>1, <1>2, <1>3, PTL DEF Spec

-----------------------------------------------------------------------------
(* The audio path.                                                         *)

LEMMA PathStep ==
    ASSUME PathInv, [PathNext]_pathVars
    PROVE  PathInv'
<1> USE DEF PathInv, PathTypes, InTimeIsFresh, Halves, Minors, Other, Half, EndsHalf,
            Following
<1>1. CASE Fetch
  BY <1>1 DEF Fetch
<1>2. CASE Store
  BY <1>2 DEF Store
<1>3. CASE MajorLoop
  <2>1. /\ rx' = Following(rx) /\ served' = FALSE /\ "rx" \in raised'
        /\ UNCHANGED <<tx, handler, taken, prompt, sent>>
    BY <1>3 DEF MajorLoop
  <2>2. EndsHalf(tx) /\ prompt => tx \in made'
    BY <1>3 DEF MajorLoop
  <2>3. rx' \in Minors /\ rx' # tx'
    BY <1>3 DEF MajorLoop
  <2>4. QED
    BY <2>1, <2>2, <2>3
<1>4. CASE EnterHandler
  BY <1>4 DEF EnterHandler
<1>5. CASE TakeBlock
  BY <1>5 DEF TakeBlock, Completed
<1>6. CASE ProcessFirst
  BY <1>6 DEF ProcessFirst, Makes, Intact
<1>7. CASE ProcessBlock
  BY <1>7 DEF ProcessBlock, Makes, Intact
<1>8. CASE LoopStep
  BY <1>8 DEF LoopStep, dmaVars
<1>9. CASE UNCHANGED pathVars
  BY <1>9 DEF pathVars, dmaVars
<1>10. QED
  BY <1>1, <1>2, <1>3, <1>4, <1>5, <1>6, <1>7, <1>8, <1>9 DEF PathNext

\* Of a block whose interrupt has returned when the transmit channel fetches
\* the first words of the half, every word is sent, whatever was late before it
\* (DMA0_DMA16_IRQHandler reads the completed half from the descriptor).
THEOREM InTimeStaysFresh == PathSpec => []InTimeIsFresh
<1>1. PathInit => PathInv
  <2> SUFFICES ASSUME PathInit
               PROVE  PathInv
    OBVIOUS
  <2>1. /\ rx = 0 /\ tx = 2 /\ raised = {} /\ handler = "idle" /\ taken = 0
        /\ served = FALSE /\ prompt = FALSE /\ sent = FALSE
    BY DEF PathInit
  <2>2. {served, prompt, sent} \subseteq BOOLEAN
    BY <2>1
  <2>3. rx \in Minors /\ tx \in Minors /\ taken \in Halves
    BY <2>1 DEF Halves, Minors
  <2>4. QED
    BY <2>1, <2>2, <2>3 DEF PathInv, PathTypes, InTimeIsFresh
<1>2. PathInv /\ [PathNext]_pathVars => PathInv'
  BY PathStep
<1>3. PathInv => InTimeIsFresh
  BY DEF PathInv
<1>4. QED
  BY <1>1, <1>2, <1>3, PTL DEF PathSpec

-----------------------------------------------------------------------------
\* Every step of the audio path is a step of the control loop, or none.
THEOREM PathImplementsLoop == PathSpec => Spec
<1>1. PathInit => Init
  BY DEF PathInit
<1>2. [PathNext]_pathVars => [Next]_vars
  <2> SUFFICES ASSUME [PathNext]_pathVars
               PROVE  [Next]_vars
    OBVIOUS
  <2>1. CASE Fetch \/ Store \/ EnterHandler \/ TakeBlock \/ ProcessFirst
    BY <2>1 DEF Fetch, Store, EnterHandler, TakeBlock, ProcessFirst
  <2>2. CASE MajorLoop
    BY <2>2 DEF MajorLoop, Next
  <2>3. CASE ProcessBlock
    BY <2>3 DEF ProcessBlock, Next
  <2>4. CASE LoopStep
    BY <2>4 DEF LoopStep, Next
  <2>5. CASE UNCHANGED pathVars
    BY <2>5 DEF pathVars
  <2>6. QED
    BY <2>1, <2>2, <2>3, <2>4, <2>5 DEF PathNext
<1>3. QED
  BY <1>1, <1>2, PTL DEF PathSpec, Spec

\* The jack is on the processor only at full gain, with the interrupt anywhere
\* between its cause and its return, and as late as MaxBehind allows.
THEOREM PathStaysClean == PathSpec => []RouteIsClean
BY PathImplementsLoop, RouteStaysClean, PTL

\* Every press is one event on the audio path too: the interrupt does not
\* touch the footswitch.
THEOREM PathPressesAreEvents == PathSpec => []OneEventPerPress
BY PathImplementsLoop, PressesAreEvents, PTL
=============================================================================
