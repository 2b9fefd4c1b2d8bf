--------------------------- MODULE BuiltinPrograms ---------------------------
(***************************************************************************)
(* The effects of effects_basic.c and the programs of programs_builtin.c,  *)
(* which the open application carries.  A value is in hundredths.          *)
(***************************************************************************)
EXTENDS Integers, Sequences

OPEN == "OPEN"   \* EFFECT_VENDOR_OPEN
GAIN == <<OPEN, 1>>        \* EFFECT_OPEN_BASIC_GAIN_ID
SOFT_CLIP == <<OPEN, 2>>   \* EFFECT_OPEN_BASIC_SOFT_CLIP_ID
DRIVE == 1
LEVEL == 2
MIX == 3

Parameter(id, minimum, maximum, default) ==
    [id |-> id, minimum |-> minimum, maximum |-> maximum, default |-> default]

\* Both keep nothing but the values of their parameters, one float each, and
\* neither has anything to reset.
BasicEffect(key, parameters) ==
    [key |-> key, complete |-> TRUE, abi |-> 1,
     size |-> 4 * Len(parameters), alignment |-> 4,
     callbacks |-> {"initialize", "process", "set_parameter"},
     parameters |-> parameters]

ncr2_basic_effect_registry ==
    << BasicEffect(GAIN, << Parameter(1, 0, 400, 100) >>),
       BasicEffect(SOFT_CLIP, << Parameter(DRIVE, 100, 3200, 100),
                                 Parameter(LEVEL, 0, 400, 100),
                                 Parameter(MIX, 0, 100, 100) >>) >>

Value(id, value) == [id |-> id, value |-> value]
Gain(value) == [effect |-> GAIN, values |-> << Value(1, value) >>]
Clip(first, second) == [effect |-> SOFT_CLIP, values |-> << first, second >>]
Program(id, nodes) == [key |-> <<OPEN, id>>, complete |-> TRUE, nodes |-> nodes]

ncr2_builtin_program_catalog ==
    << Program(1, << Gain(100) >>),                                       \* Clean
       Program(2, << Gain(200) >>),                                       \* Clean Boost
       Program(3, << Clip(Value(DRIVE, 200), Value(MIX, 100)) >>),        \* Edge
       Program(4, << Clip(Value(DRIVE, 600), Value(LEVEL, 100)) >>),      \* Crunch
       Program(5, << Gain(150),
                     Clip(Value(DRIVE, 800), Value(LEVEL, 90)) >>),       \* Boosted Crunch
       Program(6, << Clip(Value(DRIVE, 1200), Value(MIX, 55)) >>) >>      \* Blend Drive

ncr2_starter_program_bank ==
    [key |-> <<OPEN, 1>>, complete |-> TRUE, programs |-> [i \in 1 .. 6 |-> <<OPEN, i>>]]

ncr2_builtin_program_library ==
    [catalog |-> ncr2_builtin_program_catalog, banks |-> << ncr2_starter_program_bank >>]
=============================================================================
