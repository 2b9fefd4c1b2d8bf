----------------------------- MODULE EffectChain -----------------------------
(***************************************************************************)
(* The effect chain of effect_runtime.c: instances whose contexts are      *)
(* carved out of the caller's arena, one behind the other.                 *)
(*                                                                         *)
(* The arena is Arena bytes from the address "base", which nothing aligns. *)
(* Of the memory the model keeps who wrote each byte last, since the chain *)
(* was empty: the position in the chain that the instance had, or was      *)
(* going to have.  What an effect keeps in its context is the values of    *)
(* its parameters and its signal history, of which the model keeps the age *)
(* in frames.  The callbacks are the effect's own code: each may fail.     *)
(***************************************************************************)
EXTENDS EffectRegistry

CONSTANTS Arena,         \* arena_size
          Capacity,      \* instance_capacity
          BlockFrames    \* maximum_block_frames

ASSUME EffectChainAssumption == {Arena, Capacity, BlockFrames} \subseteq Nat \ {0}

VARIABLES registry,   \* the caller's array of descriptors
          base,       \* address of the arena
          instances,  \* sequence of [effect, context, values, age]
          used,       \* arena_used
          owner,      \* who wrote each byte of the arena last
          status      \* what the last call returned

memory == <<registry, base>>
chain == <<instances, used, owner>>

Addresses == base .. base + Arena - 1
Bytes(context, effect) == context .. context + effect.size - 1

-----------------------------------------------------------------------------
\* effect_chain_initialize, its arguments in order.
ChainInit ==
    /\ instances = << >> /\ used = 0
    /\ owner = [a \in Addresses |-> 0]

\* What effect_chain_clear leaves: the contexts are reset, and given up.
Emptied ==
    /\ instances' = << >> /\ used' = 0
    /\ owner' = [a \in Addresses |-> 0]

\* What the next context is padded by: the rest to its alignment.
Padding(effect) == (-(base + used)) % effect.alignment
Context(effect) == base + used + Padding(effect)

\* Faulty variant: the padding is forgotten when the size is held against the room.
AddStatusUnpadded(key) ==
    LET effect == RegistryFind(registry, key)
    IN  IF Len(instances) >= Capacity THEN "CHAIN_FULL"
        ELSE IF effect = NULL THEN "EFFECT_NOT_FOUND"
        ELSE IF effect.size > Arena - used THEN "ARENA_FULL"
        ELSE "OK"

\* What the code checks before it touches the arena.
AddStatus(key) ==
    LET effect == RegistryFind(registry, key)
    IN  IF Len(instances) >= Capacity THEN "CHAIN_FULL"
        ELSE IF effect = NULL THEN "EFFECT_NOT_FOUND"
        ELSE IF Padding(effect) > Arena - used \/ effect.size > Arena - used - Padding(effect)
        THEN "ARENA_FULL"
        ELSE "OK"

\* The context is zeroed, and the callbacks work on it.
Written(effect) ==
    [a \in DOMAIN owner |->
       IF a \in Bytes(Context(effect), effect) THEN Len(instances) + 1 ELSE owner[a]]

Defaults(effect) ==
    [id \in {effect.parameters[i].id : i \in DOMAIN effect.parameters} |->
       ParameterFind(effect, id).default]

AppendInstance(effect) ==
    /\ instances' = Append(instances, [effect |-> effect, context |-> Context(effect),
                                       values |-> Defaults(effect), age |-> 0])
    /\ used' = used + Padding(effect) + effect.size
    /\ owner' = Written(effect)

\* initialize, or set_parameter with a default, may fail.
MayFail(effect) == "initialize" \in effect.callbacks \/ effect.parameters # << >>

AddSucceeds(key) ==
    /\ AddStatus(key) = "OK"
    /\ AppendInstance(RegistryFind(registry, key))
    /\ status' = "OK"

AddFails(key) ==
    \/ AddStatus(key) # "OK" /\ status' = AddStatus(key)
    \/ /\ AddStatus(key) = "OK" /\ MayFail(RegistryFind(registry, key))
       /\ status' = "CALLBACK_FAILED"

\* effect_chain_add.  Whatever fails, the chain is what it was; of the arena,
\* what was free may have been written.
Add(key) ==
    /\ \/ AddSucceeds(key)
       \/ /\ AddFails(key)
          /\ owner' = IF status' = "CALLBACK_FAILED"
                      THEN Written(RegistryFind(registry, key)) ELSE owner
          /\ UNCHANGED <<instances, used>>
    /\ UNCHANGED memory

-----------------------------------------------------------------------------
\* What is left of an instance when its reset, if it has one, is called.
Fresh(instance) ==
    IF "reset" \in instance.effect.callbacks THEN [instance EXCEPT !.age = 0] ELSE instance

\* effect_chain_reset
Reset ==
    /\ instances' = [i \in DOMAIN instances |-> Fresh(instances[i])]
    /\ UNCHANGED <<memory, used, owner, status>>

\* effect_chain_clear
Clear == Emptied /\ UNCHANGED <<memory, status>>

\* What effect_chain_set_parameter checks before the effect is called.
SetStatus(i, id, value) ==
    IF i \notin DOMAIN instances THEN "INVALID_ARGUMENT"
    ELSE IF \/ "set_parameter" \notin instances[i].effect.callbacks
            \/ ParameterFind(instances[i].effect, id) = NULL
    THEN "PARAMETER_NOT_FOUND"
    ELSE IF ~InRange(value, ParameterFind(instances[i].effect, id)) THEN "PARAMETER_OUT_OF_RANGE"
    ELSE "OK"

SetSucceeds(i, id, value) ==
    /\ SetStatus(i, id, value) = "OK"
    /\ instances' = [instances EXCEPT ![i].values[id] = value]
    /\ status' = "OK"

\* A callback that fails has kept the old value.
SetFails(i, id, value) ==
    status' = IF SetStatus(i, id, value) = "OK" THEN "CALLBACK_FAILED"
              ELSE SetStatus(i, id, value)

\* effect_chain_set_parameter
SetParameter(i, id, value) ==
    /\ \/ SetSucceeds(i, id, value)
       \/ SetFails(i, id, value) /\ UNCHANGED instances
    /\ UNCHANGED <<memory, used, owner>>

\* The instances from the first to the last have processed a block.
Older(last, frames) ==
    [i \in DOMAIN instances |->
       IF i <= last THEN [instances[i] EXCEPT !.age = @ + frames] ELSE instances[i]]

\* effect_chain_process: the block stops at the first callback that fails.
Process(frames) ==
    /\ \/ /\ frames > BlockFrames
          /\ status' = "INVALID_ARGUMENT"
          /\ UNCHANGED instances
       \/ /\ frames <= BlockFrames
          /\ instances' = Older(Len(instances), frames)
          /\ status' = "OK"
       \/ /\ frames <= BlockFrames
          /\ \E failing \in DOMAIN instances : instances' = Older(failing - 1, frames)
          /\ status' = "CALLBACK_FAILED"
    /\ UNCHANGED <<memory, used, owner>>

-----------------------------------------------------------------------------
\* effect_runtime.c:230-245: whatever the arena's address, the alignments and
\* the calls that failed in between, every context lies inside the arena at
\* its own alignment, and no other instance has written into it.
ContextsAreIntact ==
    \A i \in DOMAIN instances :
        LET context == instances[i].context
            effect == instances[i].effect
        IN  /\ Bytes(context, effect) \subseteq Addresses
            /\ context % effect.alignment = 0
            /\ \A a \in Bytes(context, effect) : owner[a] = i

-----------------------------------------------------------------------------
(* Why: the contexts lie below the free part of the arena, where alone the *)
(* chain writes.                                                           *)

IsInstance(instance) ==
    instance = [effect |-> instance.effect, context |-> instance.context,
                values |-> instance.values, age |-> instance.age]

\* The context of the i-th instance, below the arena's first free byte.
IsPlaced(i) ==
    LET context == instances[i].context
        effect == instances[i].effect
    IN  /\ context \in Nat /\ effect.size \in Nat
        /\ base <= context /\ context + effect.size <= base + used
        /\ context % effect.alignment = 0
        /\ \A a \in Bytes(context, effect) : owner[a] = i

ChainInv ==
    /\ base \in Nat /\ used \in 0 .. Arena
    /\ DOMAIN owner = Addresses
    /\ instances \in Seq({instances[i] : i \in DOMAIN instances})
    /\ \A i \in DOMAIN instances : IsInstance(instances[i]) /\ IsPlaced(i)
=============================================================================
