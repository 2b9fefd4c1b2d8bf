---------------------------- MODULE EffectRegistry ----------------------------
(***************************************************************************)
(* What effect_runtime.c makes of a registry before any audio: which       *)
(* effect descriptors it accepts, and what it finds in them.               *)
(*                                                                         *)
(* A registry is a sequence of descriptors, in the order of the caller's   *)
(* array.  A descriptor is a record                                        *)
(*   [key, complete, abi, size, alignment, callbacks, parameters]          *)
(* where "complete" says that its name, and the names and units of its     *)
(* parameters, are there, "callbacks" names the functions that are, and    *)
(* "parameters" is a sequence of [id, minimum, maximum, default].  A float *)
(* is an integer or NaN.                                                   *)
(***************************************************************************)
EXTENDS Integers, Sequences

CONSTANTS NULL, NaN

ABI == 1   \* EFFECT_RUNTIME_ABI_VERSION

\* The powers of two up to EFFECT_RUNTIME_MAX_CONTEXT_ALIGNMENT.
Alignments == {1, 2, 4, 8, 16, 32, 64, 128, 256}

\* What a loop returns that stops at the first failure.
FirstFailure(statuses) ==
    IF \A i \in DOMAIN statuses : statuses[i] = "OK" THEN "OK"
    ELSE statuses[CHOOSE i \in DOMAIN statuses :
                    /\ statuses[i] # "OK"
                    /\ \A j \in DOMAIN statuses : j < i => statuses[j] = "OK"]

\* No comparison with a NaN is true.
InRange(value, parameter) ==
    /\ value # NaN
    /\ parameter.minimum <= value /\ value <= parameter.maximum

ParameterIsValid(p) ==
    /\ NaN \notin {p.minimum, p.maximum, p.default}
    /\ p.minimum <= p.maximum
    /\ InRange(p.default, p)

\* descriptor_is_valid
DescriptorIsValid(d) ==
    /\ d # NULL /\ d.complete
    /\ d.abi = ABI
    /\ d.alignment \in Alignments
    /\ d.size = 0 => d.alignment = 1
    /\ "process" \in d.callbacks
    /\ d.parameters # << >> => "set_parameter" \in d.callbacks
    /\ \A i \in DOMAIN d.parameters :
         /\ ParameterIsValid(d.parameters[i])
         /\ \A j \in 1 .. i - 1 : d.parameters[j].id # d.parameters[i].id

\* effect_registry_find: the first descriptor with the key.
Named(registry, key) == {i \in DOMAIN registry : registry[i] # NULL /\ registry[i].key = key}
RegistryFind(registry, key) ==
    IF Named(registry, key) = {} THEN NULL
    ELSE registry[CHOOSE i \in Named(registry, key) :
                    \A j \in Named(registry, key) : i <= j]

\* effect_registry_validate
RegistryValidate(registry) ==
    FirstFailure(
        [i \in DOMAIN registry |->
           IF ~DescriptorIsValid(registry[i]) THEN "INVALID_DESCRIPTOR"
           ELSE IF \E j \in Named(registry, registry[i].key) : j < i THEN "DUPLICATE_EFFECT"
           ELSE "OK"])

\* effect_parameter_find.  The ids of a valid descriptor are distinct.
ParameterFind(effect, id) ==
    IF \E i \in DOMAIN effect.parameters : effect.parameters[i].id = id
    THEN effect.parameters[CHOOSE i \in DOMAIN effect.parameters :
                             /\ effect.parameters[i].id = id
                             /\ \A j \in 1 .. i - 1 : effect.parameters[j].id # id]
    ELSE NULL
=============================================================================
