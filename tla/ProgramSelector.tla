--------------------------- MODULE ProgramSelector ---------------------------
(***************************************************************************)
(* program_selector.c: a navigation switch that is sampled now and then.   *)
(* Held long enough it advances to the next program, once, and it has to   *)
(* be released for long enough before it can advance again.                *)
(*                                                                         *)
(* The counters are words that saturate at Word.  The history variables    *)
(* keep what the switch did: how long it has been seen pressed since it    *)
(* was last seen released, how long released since last seen pressed, and  *)
(* how many changes there were since it was last released for long enough. *)
(***************************************************************************)
EXTENDS Integers

CONSTANTS Word,           \* UINT32_MAX
          HoldThreshold,  \* hold_threshold_ms
          ReleaseRearm,   \* release_rearm_ms
          Elapsed         \* times between two samples

ASSUME ProgramSelectorAssumption ==
    /\ Word \in Nat /\ Elapsed \subseteq 0 .. Word
    /\ {HoldThreshold, ReleaseRearm} \subseteq 1 .. Word

VARIABLES count,         \* program_count
          selected,      \* current_program
          pressed_ms, released_ms,
          latched,
          held, rest, changes   \* history

selectorVars == <<count, selected, pressed_ms, released_ms, latched, held, rest, changes>>

\* Faulty variant: the counters wrap.
WrappingAdd(value, increment) == (value + increment) % (Word + 1)

\* saturating_add
SaturatingAdd(value, increment) ==
    IF increment > Word - value THEN Word ELSE value + increment

SelectorIdle ==
    /\ selected = 0 /\ pressed_ms = 0 /\ released_ms = 0 /\ latched = FALSE
    /\ held = 0 /\ rest = 0 /\ changes = 0

\* program_selector_initialize, for a selector that is not in use yet.
SelectorInitialize(programs) ==
    /\ count' = programs
    /\ UNCHANGED <<selected, pressed_ms, released_ms, latched, held, rest, changes>>

Capped(value) == IF value > Word THEN Word ELSE value

Released(elapsed) ==
    LET released == SaturatingAdd(released_ms, elapsed)
        rearmed == latched /\ released >= ReleaseRearm
    IN  /\ pressed_ms' = 0
        /\ released_ms' = IF latched /\ ~rearmed THEN released ELSE 0
        /\ latched' = (latched /\ ~rearmed)
        /\ UNCHANGED <<count, selected>>
        /\ held' = 0
        /\ rest' = Capped(rest + elapsed)
        /\ changes' = IF rest' >= ReleaseRearm THEN 0 ELSE changes

Pressed(elapsed) ==
    LET pressed == SaturatingAdd(pressed_ms, elapsed)
        reached == ~latched /\ pressed >= HoldThreshold
    IN  /\ released_ms' = 0
        /\ pressed_ms' = IF latched THEN pressed_ms ELSE IF reached THEN 0 ELSE pressed
        /\ latched' = (latched \/ reached)
        /\ selected' = IF reached THEN (selected + 1) % count ELSE selected
        /\ UNCHANGED count
        /\ held' = Capped(held + elapsed)
        /\ rest' = 0
        /\ changes' = IF selected' # selected THEN changes + 1 ELSE changes

\* program_selector_sample
SelectorSample(pressed, elapsed) == IF pressed THEN Pressed(elapsed) ELSE Released(elapsed)

\* program_selector_select: whoever selects a program directly rearms the switch.
SelectorSelect(target) ==
    /\ target < count
    /\ selected' = target
    /\ pressed_ms' = 0 /\ released_ms' = 0 /\ latched' = FALSE
    /\ UNCHANGED count
    /\ held' = 0 /\ rest' = 0 /\ changes' = 0

\* A caller of the header.
SelectorNext ==
    \/ count = 0 /\ \E programs \in {1, 3} : SelectorInitialize(programs)
    \/ \E pressed \in BOOLEAN, elapsed \in Elapsed :
         count > 0 /\ SelectorSample(pressed, elapsed)
    \/ \E target \in {0, 2} : SelectorSelect(target)

\* docs/app/EFFECT_RUNTIME.md, "Programs and navigation": one hold, however
\* long and however it bounces, advances by exactly one program; nothing
\* shorter advances at all, and no hold is missed.
OneChangePerHold ==
    [][/\ changes' > changes => changes = 0 /\ held' >= HoldThreshold
       /\ held' >= HoldThreshold /\ changes = 0 /\ count > 1 => changes' = 1]_selectorVars

-----------------------------------------------------------------------------
\* Why: until the switch is latched its counter is the time of the hold, and
\* the program has not changed; while it is latched the counter is the time
\* of the rest, which is too short.
SelectorInv ==
    /\ count \in Nat /\ selected \in Nat
    /\ {pressed_ms, released_ms, held, rest} \subseteq 0 .. Word
    /\ latched \in BOOLEAN /\ changes \in {0, 1}
    /\ count = 0 => selected = 0 /\ ~latched
    /\ count > 0 => selected < count
    /\ latched => /\ pressed_ms = 0
                  /\ released_ms = rest /\ rest < ReleaseRearm
                  /\ count > 1 => changes = 1
    /\ ~latched => pressed_ms = held /\ held < HoldThreshold /\ changes = 0
=============================================================================
