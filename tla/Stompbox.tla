------------------------------ MODULE Stompbox ------------------------------
(***************************************************************************)
(* The control loop at the end of hardware_app's main(), with              *)
(* footswitch_gesture.c: the footswitch is polled, a tap moves the jack    *)
(* between the dry route and the processor, a hold selects the engine to   *)
(* reset into, and the Type control selects the effect.  The audio         *)
(* interrupt comes between any two steps of the loop, and fades the        *)
(* processor in and out and from one effect to the next.                   *)
(*                                                                         *)
(* Time is counted in polls (NCR2_SWITCH_POLL_MS) and in the blocks that   *)
(* the converter makes.  The interrupt that processes a block comes after  *)
(* it, late, or not at all (AudioPath.tla); while the loop waits for a     *)
(* fade, at most MaxBehind blocks are outstanding.  An effect is the       *)
(* position that selects it: the rows of g_open_engine_effects repeat none.*)
(***************************************************************************)
EXTENDS Integers, Sequences

CONSTANTS Detents,        \* g_selector_detent
          Readings,       \* what the ADC may read from the Type control
          NoReading,      \* the ADC did not answer
          Hysteresis,     \* NCR2_SELECTOR_HYSTERESIS
          SettleSamples,  \* NCR2_SELECTOR_SETTLE_SAMPLES
          DebouncePolls,  \* NCR2_SWITCH_DEBOUNCE_MS
          HoldPolls,      \* NCR2_FOOTSWITCH_HOLD_MS
          PollBlocks,     \* NCR2_SWITCH_POLL_MS
          SettleBlocks,   \* NCR2_EFFECT_ROUTE_SETTLE_MS
          RampTop,        \* blocks that g_effect_ramp needs from end to end
          MaxBehind       \* blocks that the interrupt may owe a waiting loop

ASSUME StompboxAssumption ==
    /\ Detents \in Seq(Nat) /\ Detents # << >>
    /\ Readings \subseteq Nat /\ NoReading \notin Readings
    /\ {Hysteresis, PollBlocks, SettleBlocks, MaxBehind} \subseteq Nat
    /\ {SettleSamples, DebouncePolls, RampTop} \subseteq Nat \ {0}
    /\ HoldPolls \in Nat \ {0, 1}
    /\ SettleBlocks >= RampTop + MaxBehind   \* 20 ms against 512 frames

VARIABLES pc,                        \* where main() is
          wait,                      \* blocks that it still waits
          raw, stable, debounced,    \* the footswitch
          held, reported,            \* footswitch_gesture
          on, armed,                 \* effect_enabled, engine_select_armed
          relay, enable,             \* the jack's route, g_hardware_app_enable_effect
          ramp, fade, current,       \* the audio interrupt
          behind,                    \* the blocks it owes since the loop waits
          ready,                     \* g_hardware_app_knob_adc_ready
          position,                  \* g_hardware_app_selector_position, effect_index
          candidate, samples,        \* g_selector_candidate, ..._samples
          events,                    \* of the last press (history)
          turned, previous           \* reading and position at the last change (history)

switchVars == <<raw, stable, debounced, held, reported, events>>
routeVars == <<on, armed, relay, enable>>
audioVars == <<ramp, fade, current, behind>>
knobVars == <<ready, position, candidate, samples, turned, previous>>
vars == <<pc, wait, switchVars, routeVars, audioVars, knobVars>>

Positions == DOMAIN Detents
FadeTop == (RampTop + 1) \div 2   \* NCR2_SELECTOR_RAMP_STEP is the double step

Lesser(a, b) == IF a < b THEN a ELSE b
Distance(a, b) == IF a < b THEN b - a ELSE a - b

-----------------------------------------------------------------------------
(* The Type control.                                                       *)

\* quantize_selector: the nearest detent, the first one of two.
Nearest(reading) ==
    CHOOSE p \in Positions : \A q \in Positions \ {p} :
        \/ Distance(reading, Detents[p]) < Distance(reading, Detents[q])
        \/ Distance(reading, Detents[p]) = Distance(reading, Detents[q]) /\ p < q

\* Faulty variant: any nearer detent is good enough.
KeepsNearest(reading) == Nearest(reading) = position

\* The reading is not clearly nearer to another detent.
Keeps(reading) ==
    \/ Nearest(reading) = position
    \/ Distance(reading, Detents[Nearest(reading)]) + Hysteresis
         > Distance(reading, Detents[position])

\* update_selector.
Update(reading) ==
    LET selected == Nearest(reading)
        seen == IF selected = candidate THEN Lesser(samples + 1, SettleSamples) ELSE 1
        settled == selected = candidate /\ seen = SettleSamples
    IN  IF Keeps(reading)
        THEN /\ candidate' = position /\ samples' = 0
             /\ UNCHANGED <<position, turned, previous>>
        ELSE /\ candidate' = selected
             /\ samples' = IF settled THEN 0 ELSE seen
             /\ position' = IF settled THEN selected ELSE position
             /\ turned' = IF settled THEN reading ELSE turned
             /\ previous' = IF settled THEN position ELSE previous

\* sample_knobs, one reading for the four channels.
Sample ==
    /\ \/ ~ready /\ UNCHANGED <<position, candidate, samples, turned, previous>>
       \/ \E reading \in Readings \cup {NoReading} :
            /\ ready
            /\ IF reading = NoReading
               THEN UNCHANGED <<position, candidate, samples, turned, previous>>
               ELSE Update(reading)
    /\ UNCHANGED ready

-----------------------------------------------------------------------------
Init ==
    /\ pc = "poll" /\ wait = 0
    /\ raw \in BOOLEAN /\ debounced = raw /\ reported = raw
    /\ stable = 0 /\ held = 0 /\ events = 1
    /\ on = FALSE /\ armed = FALSE /\ relay = FALSE /\ enable = FALSE
    /\ ready \in BOOLEAN
    /\ turned \in {NoReading} \cup (IF ready THEN Readings ELSE {})
    /\ position = IF turned = NoReading THEN 1 ELSE Nearest(turned)
    /\ candidate = position /\ samples = 0 /\ previous = position
    /\ ramp = 0 /\ fade = FadeTop /\ current = position /\ behind = 0

-----------------------------------------------------------------------------
(* The footswitch.                                                         *)

Debounce(pressed) ==
    /\ raw' = pressed
    /\ stable' = IF pressed = raw THEN Lesser(stable + 1, DebouncePolls) ELSE 0
    /\ debounced' = IF stable' = DebouncePolls THEN pressed ELSE debounced

\* Faulty variant: the report of a hold does not outlive the press.
IsTapAfterAll == debounced /\ ~debounced'

IsTap == debounced /\ ~debounced' /\ ~reported
IsHold == debounced /\ debounced' /\ ~reported /\ held' = HoldPolls

\* ncr2_footswitch_gesture_update: after it the gesture's own copy of the
\* switch is the debounced switch.
Gesture(event) ==
    /\ held' = IF debounced' # debounced THEN (IF debounced' THEN 1 ELSE 0)
               ELSE IF debounced' /\ ~reported THEN Lesser(held + 1, HoldPolls)
               ELSE held
    /\ reported' = (debounced' = debounced /\ (reported \/ IsHold))
    /\ event = IF IsTap THEN "tap" ELSE IF IsHold THEN "hold" ELSE "none"
    /\ events' = (IF debounced' /\ ~debounced THEN 0 ELSE events)
                  + (IF event = "none" THEN 0 ELSE 1)

-----------------------------------------------------------------------------
(* What an event makes of the routes.                                      *)

\* Faulty variant: one poll is taken to be long enough for the fade.
EngagePreparedShort ==
    /\ on' = TRUE /\ enable' = TRUE
    /\ wait' = PollBlocks
    /\ pc' = "settle"
    /\ UNCHANGED <<armed, relay>>

\* A tap while off: the processor fades in behind the dry route.
EngagePrepared ==
    /\ on' = TRUE /\ enable' = TRUE
    /\ wait' = SettleBlocks
    /\ pc' = "settle"
    /\ UNCHANGED <<armed, relay>>

\* A tap while on, a hold: the dry route first.
Disengaged(arms) ==
    /\ on' = FALSE /\ relay' = FALSE
    /\ armed' = (armed \/ arms)
    /\ pc' = "disable"
    /\ UNCHANGED <<enable, wait>>

Poll(pressed) ==
    /\ pc = "poll" /\ wait = 0
    /\ Debounce(pressed)
    /\ \/ Gesture("tap") /\ ~on /\ EngagePrepared
       \/ Gesture("tap") /\ on /\ Disengaged(FALSE)
       \/ Gesture("hold") /\ Disengaged(TRUE)
       \/ /\ Gesture("none")
          /\ pc' = IF armed /\ ~debounced' THEN "select" ELSE "knobs"
          /\ UNCHANGED <<routeVars, wait>>
    /\ UNCHANGED <<audioVars, knobVars>>

Engage ==
    /\ pc = "settle" /\ wait = 0
    /\ relay' = TRUE
    /\ pc' = "knobs"
    /\ UNCHANGED <<wait, switchVars, on, armed, enable, audioVars, knobVars>>

Disable ==
    /\ pc = "disable"
    /\ enable' = FALSE
    /\ pc' = "knobs"
    /\ UNCHANGED <<wait, switchVars, on, armed, relay, audioVars, knobVars>>

\* The released hold: resets into the engine at the Type position.
Select ==
    /\ pc = "select"
    /\ Sample
    /\ pc' = "reset"
    /\ UNCHANGED <<wait, switchVars, routeVars, audioVars>>

Knobs ==
    /\ pc = "knobs"
    /\ Sample
    /\ pc' = "poll" /\ wait' = PollBlocks
    /\ UNCHANGED <<switchVars, routeVars, audioVars>>

-----------------------------------------------------------------------------
\* update_effect_selection: the algorithm changes at zero gain.
Crossfade ==
    /\ fade' = IF position = current THEN Lesser(fade + 1, FadeTop)
               ELSE IF fade > 1 THEN fade - 1 ELSE 0
    /\ current' = IF fade > 1 THEN current ELSE position

\* The converter has made a block; its interrupt is still to come.
BlockElapses ==
    /\ pc # "reset"
    /\ pc = "settle" => behind < MaxBehind
    /\ behind' = IF pc = "settle" THEN behind + 1 ELSE 0
    /\ wait' = IF wait > 0 THEN wait - 1 ELSE 0
    /\ UNCHANGED <<pc, switchVars, routeVars, ramp, fade, current, knobVars>>

\* ncr2_factory_audio_process_block.
AudioBlock ==
    /\ pc # "reset"
    /\ ramp' = IF enable THEN Lesser(ramp + 1, RampTop) ELSE IF ramp > 0 THEN ramp - 1 ELSE 0
    /\ Crossfade
    /\ behind' = IF behind > 0 THEN behind - 1 ELSE 0
    /\ UNCHANGED <<pc, wait, switchVars, routeVars, knobVars>>

Next ==
    \/ \E pressed \in BOOLEAN : Poll(pressed)
    \/ Engage \/ Disable \/ Select \/ Knobs
    \/ BlockElapses
    \/ AudioBlock

Spec == Init /\ [][Next]_vars

-----------------------------------------------------------------------------
\* The comments at main.c:2473-2484: the jack is on the processor only while
\* the processor runs at full gain, whatever the audio interrupt's place
\* between the steps of the loop ("disengaging cannot make a gap"), and
\* between two polls the route, the processor and the loop's own idea of the
\* effect agree.
RouteIsClean ==
    /\ relay => enable /\ ramp = RampTop
    /\ pc = "poll" => relay = on /\ enable = on

\* main.c:2409-2410 and the test "tap_hold_latch_and_initial_power_hold": a
\* press that outlives the debouncing is one tap or one hold, never both and
\* never neither, and the press under which the pedal was powered is none.
OneEventPerPress ==
    \/ events = 1
    \/ events = 0 /\ debounced

\* The comment at main.c:622-629: "a control that is merely noisy can never
\* accumulate its way across a boundary".  Between two changes of the effect
\* the reading moves by half the hysteresis at least, and by all of it when
\* the second change takes the first one back.
HysteresisSeparates ==
    [][position' # position /\ turned # NoReading =>
         /\ 2 * Distance(turned, turned') >= Hysteresis
         /\ position' = previous => Distance(turned, turned') >= Hysteresis]_vars

-----------------------------------------------------------------------------
(* Inductive invariants, one for each property.                            *)

RouteTypes ==
    /\ pc \in {"poll", "settle", "disable", "select", "knobs", "reset"}
    /\ wait \in Nat /\ ramp \in 0 .. RampTop /\ behind \in 0 .. MaxBehind
    /\ {on, relay, enable} \subseteq BOOLEAN

\* While the loop waits to engage, the blocks that it still waits for and the
\* ones it is owed are enough for what is left of the fade.
RouteInv ==
    /\ RouteTypes
    /\ relay => enable /\ ramp = RampTop
    /\ pc \in {"poll", "knobs", "select"} => relay = on /\ enable = on
    /\ pc = "settle" =>
         /\ enable /\ on /\ ~relay
         /\ ramp = RampTop \/ ramp + wait + behind >= RampTop + MaxBehind
    /\ pc = "disable" => ~on /\ ~relay

\* A press that has not been reported yet has had no event, and one that is
\* over has had one.
PressInv ==
    /\ {debounced, reported} \subseteq BOOLEAN
    /\ events = IF debounced /\ ~reported THEN 0 ELSE 1
    /\ reported => debounced

\* The reading of the last change was nearest to the position it led to, and
\* clearly nearer to it than to the position it led away from.
SelectorInv ==
    /\ turned \in Readings \cup {NoReading}
    /\ {position, previous} \subseteq Positions
    /\ turned # NoReading =>
         /\ \A p \in Positions :
              Distance(turned, Detents[position]) <= Distance(turned, Detents[p])
         /\ previous # position =>
              Distance(turned, Detents[position]) + Hysteresis
                <= Distance(turned, Detents[previous])
=============================================================================
