---------------------------- MODULE ProgramsProofs ----------------------------
(***************************************************************************)
(* The arena of an effect chain, for every registry, program, address and  *)
(* size: contexts never overlap, in any of the programs that link the      *)
(* effect runtime.                                                         *)
(***************************************************************************)
EXTENDS Programs, WellFoundedInduction, TLAPS

-----------------------------------------------------------------------------
(* What the searches of the code return.                                   *)

\* A search that goes from the front finds the first index that fits.
LEMMA FirstIndex ==
    ASSUME NEW T, T \subseteq Nat, T # {}
    PROVE  \E i \in T : \A j \in T : i <= j
<1>1. PICK i \in T : \A j \in T : ~(<<j, i>> \in OpToRel(<, Nat))
  BY NatLessThanWellFounded, WFMin, Zenon
<1>2. \A j \in T : ~(j < i)
  BY <1>1, Zenon DEF OpToRel
<1>3. \A j \in T : j \in Nat /\ i \in Nat
  BY <1>1
<1>4. \A j \in T : i <= j
  BY <1>2, <1>3
<1> QED
  BY <1>1, <1>4

\* A loop that stops at the first failure returns OK only if nothing failed.
LEMMA FirstFailureSound ==
    ASSUME NEW statuses, DOMAIN statuses \subseteq Nat, FirstFailure(statuses) = "OK"
    PROVE  \A i \in DOMAIN statuses : statuses[i] = "OK"
<1> DEFINE Failed == {i \in DOMAIN statuses : statuses[i] # "OK"}
<1> SUFFICES ASSUME Failed # {} PROVE FALSE
  OBVIOUS
<1>1. PICK i \in Failed : \A j \in Failed : i <= j
  BY FirstIndex
<1>2. \A j \in DOMAIN statuses : j < i => statuses[j] = "OK"
  BY <1>1
<1>3. \E k \in DOMAIN statuses :
         /\ statuses[k] # "OK"
         /\ \A j \in DOMAIN statuses : j < k => statuses[j] = "OK"
  BY <1>1, <1>2
<1> QED
  BY <1>3 DEF FirstFailure

\* What effect_registry_find returns is one of the registry's descriptors.
LEMMA FoundIsRegistered ==
    ASSUME NEW r, DOMAIN r \subseteq Nat, NEW key, RegistryFind(r, key) # NULL
    PROVE  \E i \in DOMAIN r : r[i] # NULL /\ RegistryFind(r, key) = r[i]
<1>1. Named(r, key) # {} /\ Named(r, key) \subseteq DOMAIN r
  BY DEF RegistryFind, Named
<1>2. \E i \in Named(r, key) : \A j \in Named(r, key) : i <= j
  BY <1>1, FirstIndex
<1>3. PICK i \in Named(r, key) : RegistryFind(r, key) = r[i]
  BY <1>1, <1>2 DEF RegistryFind
<1> QED
  BY <1>3 DEF Named

\* What it returns has the key that was asked for.
LEMMA FoundHasKey ==
    ASSUME NEW r, DOMAIN r \subseteq Nat, NEW key, RegistryFind(r, key) # NULL
    PROVE  RegistryFind(r, key).key = key
<1>1. Named(r, key) # {} /\ Named(r, key) \subseteq DOMAIN r
  BY DEF RegistryFind, Named
<1>2. \E i \in Named(r, key) : \A j \in Named(r, key) : i <= j
  BY <1>1, FirstIndex
<1>3. PICK i \in Named(r, key) : RegistryFind(r, key) = r[i]
  BY <1>1, <1>2 DEF RegistryFind
<1> QED
  BY <1>3 DEF Named

\* A descriptor of a valid registry is valid.
LEMMA FoundIsValid ==
    ASSUME NEW r, DOMAIN r \subseteq Nat, NEW key,
           RegistryValidate(r) = "OK", RegistryFind(r, key) # NULL
    PROVE  DescriptorIsValid(RegistryFind(r, key))
<1>1. PICK i \in DOMAIN r : r[i] # NULL /\ RegistryFind(r, key) = r[i]
  BY FoundIsRegistered
<1> DEFINE statuses ==
        [k \in DOMAIN r |->
           IF ~DescriptorIsValid(r[k]) THEN "INVALID_DESCRIPTOR"
           ELSE IF \E j \in Named(r, r[k].key) : j < k THEN "DUPLICATE_EFFECT"
           ELSE "OK"]
<1>2. FirstFailure(statuses) = "OK" /\ DOMAIN statuses = DOMAIN r
  BY DEF RegistryValidate
<1> HIDE DEF statuses
<1>3. statuses[i] = "OK"
  BY <1>1, <1>2, FirstFailureSound
<1> QED
  BY <1>1, <1>3 DEF statuses

\* It has one of the alignments.
LEMMA FoundIsAligned ==
    ASSUME NEW r, DOMAIN r \subseteq Nat, NEW key,
           RegistryValidate(r) = "OK", RegistryFind(r, key) # NULL
    PROVE  RegistryFind(r, key).alignment \in Alignments
BY FoundIsValid DEF DescriptorIsValid

\* What the loop returns is OK or one of the failures.
LEMMA FirstFailureIsOne ==
    ASSUME NEW statuses, DOMAIN statuses \subseteq Nat, FirstFailure(statuses) # "OK"
    PROVE  \E i \in DOMAIN statuses : FirstFailure(statuses) = statuses[i]
<1> DEFINE Failed == {i \in DOMAIN statuses : statuses[i] # "OK"}
<1>1. Failed # {}
  BY DEF FirstFailure
<1>2. PICK i \in Failed : \A j \in Failed : i <= j
  BY <1>1, FirstIndex
<1>3. \A j \in DOMAIN statuses : j < i => statuses[j] = "OK"
  BY <1>2
<1>4. \E k \in DOMAIN statuses :
         /\ statuses[k] # "OK"
         /\ \A j \in DOMAIN statuses : j < k => statuses[j] = "OK"
  BY <1>2, <1>3
<1> QED
  BY <1>4 DEF FirstFailure

\* An array is indexed from 1.
LEMMA ArrayIndices ==
    ASSUME NEW a, IsArray(a)
    PROVE  DOMAIN a = 1 .. Len(a) /\ Len(a) \in Nat /\ DOMAIN a \subseteq Nat
BY DEF IsArray

\* What program_descriptor_validate can say.
LEMMA ProgramStatuses ==
    ASSUME NEW p, HasNodes(p), NEW r
    PROVE  ProgramValidate(p, r) \in {"OK", "INVALID_DESCRIPTOR", "EFFECT_NOT_FOUND"}
<1> SUFFICES ASSUME p # NULL, p.complete, ProgramValidate(p, r) # "OK"
             PROVE  ProgramValidate(p, r) \in {"OK", "INVALID_DESCRIPTOR", "EFFECT_NOT_FOUND"}
  BY DEF ProgramValidate
<1> DEFINE statuses == [i \in DOMAIN p.nodes |->
                          NodeStatus(p.nodes[i], RegistryFind(r, p.nodes[i].effect))]
<1>1. ProgramValidate(p, r) = FirstFailure(statuses)
  BY DEF ProgramValidate
<1>2. DOMAIN statuses \subseteq Nat
  BY ArrayIndices DEF HasNodes
<1>3. PICK i \in DOMAIN statuses : FirstFailure(statuses) = statuses[i]
  BY <1>1, <1>2, FirstFailureIsOne
<1> QED
  BY <1>1, <1>3 DEF NodeStatus

\* What the nodes of a program are that program_descriptor_validate accepts.
LEMMA ValidNodes ==
    ASSUME NEW p, HasNodes(p), NEW r, ProgramValidate(p, r) = "OK"
    PROVE  /\ p # NULL /\ IsArray(p.nodes)
           /\ \A i \in DOMAIN p.nodes :
                /\ IsArray(p.nodes[i].values)
                /\ RegistryFind(r, p.nodes[i].effect) # NULL
                /\ \A k \in DOMAIN p.nodes[i].values :
                     ValueIsValid(p.nodes[i], RegistryFind(r, p.nodes[i].effect), k)
<1> DEFINE statuses == [i \in DOMAIN p.nodes |->
                          NodeStatus(p.nodes[i], RegistryFind(r, p.nodes[i].effect))]
<1>1. p # NULL /\ p.complete /\ FirstFailure(statuses) = "OK"
  BY DEF ProgramValidate
<1>2. /\ IsArray(p.nodes)
      /\ \A i \in DOMAIN p.nodes : IsArray(p.nodes[i].values)
  BY <1>1 DEF HasNodes
<1>3. DOMAIN statuses \subseteq Nat /\ DOMAIN statuses = DOMAIN p.nodes
  BY <1>2, ArrayIndices
<1>4. \A i \in DOMAIN p.nodes : statuses[i] = "OK"
  BY <1>1, <1>3, FirstFailureSound
<1>5. ASSUME NEW i \in DOMAIN p.nodes
      PROVE  /\ RegistryFind(r, p.nodes[i].effect) # NULL
             /\ \A k \in DOMAIN p.nodes[i].values :
                  ValueIsValid(p.nodes[i], RegistryFind(r, p.nodes[i].effect), k)
  <2>1. NodeStatus(p.nodes[i], RegistryFind(r, p.nodes[i].effect)) = "OK"
    BY <1>4
  <2> QED
    BY <2>1 DEF NodeStatus
<1> QED
  BY <1>1, <1>2, <1>5

\* Every program of a library that is accepted is valid.
LEMMA AcceptedPrograms ==
    ASSUME NEW l, HasBanks(l), NEW r, LibraryValidate(l, r) = "OK"
    PROVE  \A i \in DOMAIN l.catalog : ProgramValidate(l.catalog[i], r) = "OK"
<1> DEFINE statuses ==
        [i \in DOMAIN l.catalog |->
           IF ProgramValidate(l.catalog[i], r) # "OK" THEN ProgramValidate(l.catalog[i], r)
           ELSE IF \E j \in Named(l.catalog, l.catalog[i].key) : j < i THEN "DUPLICATE_PROGRAM"
           ELSE "OK"]
<1>1. CatalogValidate(l.catalog, r) = "OK"
  BY DEF LibraryValidate
<1>2. FirstFailure(statuses) = "OK"
  BY <1>1 DEF CatalogValidate
<1>3. DOMAIN statuses \subseteq Nat /\ DOMAIN statuses = DOMAIN l.catalog
  BY ArrayIndices DEF HasBanks
<1>4. \A i \in DOMAIN l.catalog : statuses[i] = "OK"
  BY <1>2, <1>3, FirstFailureSound
<1> QED
  BY <1>4

\* Every bank of it has programs, which are programs of its catalog.
LEMMA AcceptedBanks ==
    ASSUME NEW l, HasBanks(l), NEW r, LibraryValidate(l, r) = "OK",
           NEW b \in DOMAIN l.banks
    PROVE  /\ l.banks[b] # NULL /\ IsArray(l.banks[b].programs)
           /\ 1 \in DOMAIN l.banks[b].programs
           /\ \A i \in DOMAIN l.banks[b].programs :
                CatalogFind(l.catalog, l.banks[b].programs[i]) # NULL
<1> DEFINE bank == l.banks[b]
           statuses ==
        [i \in DOMAIN l.banks |->
           IF BankStatus(l.banks[i], l) # "OK" THEN BankStatus(l.banks[i], l)
           ELSE IF \E j \in Named(l.banks, l.banks[i].key) : j < i THEN "DUPLICATE_BANK"
           ELSE "OK"]
           found ==
        [i \in DOMAIN bank.programs |->
           IF CatalogFind(l.catalog, bank.programs[i]) = NULL THEN "PROGRAM_NOT_FOUND"
           ELSE IF \E j \in 1 .. i - 1 : bank.programs[j] = bank.programs[i]
           THEN "INVALID_DESCRIPTOR"
           ELSE "OK"]
<1>1. FirstFailure(statuses) = "OK"
  BY DEF LibraryValidate
<1>2. DOMAIN statuses \subseteq Nat /\ DOMAIN statuses = DOMAIN l.banks
  BY ArrayIndices DEF HasBanks
<1>3. \A i \in DOMAIN l.banks : statuses[i] = "OK"
  BY <1>1, <1>2, FirstFailureSound
<1>4. BankStatus(bank, l) = "OK"
  BY <1>3
<1>5. /\ bank # NULL /\ bank.complete /\ bank.programs # << >>
      /\ FirstFailure(found) = "OK"
  BY <1>4 DEF BankStatus
<1>6. IsArray(bank.programs)
  BY <1>5 DEF HasBanks
<1>7. 1 \in DOMAIN bank.programs
  BY <1>5, <1>6 DEF IsArray
<1>8. DOMAIN found \subseteq Nat /\ DOMAIN found = DOMAIN bank.programs
  BY <1>6, ArrayIndices
<1>9. \A i \in DOMAIN bank.programs : found[i] = "OK"
  BY <1>5, <1>8, FirstFailureSound
<1> QED
  BY <1>5, <1>6, <1>7, <1>9

\* A library is accepted only over a registry that is valid.
LEMMA AcceptedIsValid ==
    ASSUME NEW l, NEW r, LibraryValidate(l, r) = "OK"
    PROVE  RegistryValidate(r) = "OK"
<1>1. CatalogValidate(l.catalog, r) = "OK"
  BY DEF LibraryValidate
<1> QED
  BY <1>1 DEF CatalogValidate

-----------------------------------------------------------------------------
(* Adding an effect.                                                       *)

\* The built-in registry satisfies what is assumed of the others.
LEMMA RegistriesAreTyped ==
    ASSUME NEW r \in Registries \cup {Registry, ncr2_basic_effect_registry}
    PROVE  /\ DOMAIN r \subseteq Nat
           /\ \A i \in DOMAIN r : r[i] # NULL => r[i].size \in Nat
<1>1. CASE r \in Registries \cup {Registry}
  <2>1. r \in Seq({r[i] : i \in DOMAIN r})
    BY <1>1, ProgramsAssumption DEF IsArray
  <2>2. DOMAIN r \subseteq Nat
    BY <2>1
  <2> QED
    BY <1>1, <2>2, ProgramsAssumption
<1>2. CASE r = ncr2_basic_effect_registry
  <2>1. DOMAIN r = 1 .. 2
    BY <1>2 DEF ncr2_basic_effect_registry
  <2>2. r[1].size = 4 * Len(<< Parameter(1, 0, 400, 100) >>)
    BY <1>2 DEF ncr2_basic_effect_registry, BasicEffect
  <2>3. r[2].size = 4 * Len(<< Parameter(DRIVE, 100, 3200, 100),
                               Parameter(LEVEL, 0, 400, 100),
                               Parameter(MIX, 0, 100, 100) >>)
    BY <1>2 DEF ncr2_basic_effect_registry, BasicEffect
  <2>4. r[1].size = 4 /\ r[2].size = 12
    BY <2>2, <2>3
  <2> QED
    BY <2>1, <2>4
<1> QED
  BY <1>1, <1>2

\* The padding is less than the alignment, and what it leads to is aligned.
LEMMA PaddingAligns ==
    ASSUME NEW address \in Nat, NEW alignment \in Alignments
    PROVE  /\ (-address) % alignment \in 0 .. alignment - 1
           /\ (address + ((-address) % alignment)) % alignment = 0
BY DEF Alignments

\* What is found in a registry that is valid has a size and an alignment.
LEMMA FoundIsTyped ==
    ASSUME ArenaInv, RegistryIsValid, NEW key, RegistryFind(registry, key) # NULL
    PROVE  /\ RegistryFind(registry, key).size \in Nat
           /\ RegistryFind(registry, key).alignment \in Alignments
<1>1. /\ DOMAIN registry \subseteq Nat
      /\ \A i \in DOMAIN registry : registry[i] # NULL => registry[i].size \in Nat
  BY RegistriesAreTyped DEF ArenaInv
<1>2. RegistryFind(registry, key).alignment \in Alignments
  BY <1>1, FoundIsAligned DEF RegistryIsValid
<1>3. PICK i \in DOMAIN registry : registry[i] # NULL /\ RegistryFind(registry, key) = registry[i]
  BY <1>1, FoundIsRegistered
<1> QED
  BY <1>1, <1>2, <1>3

\* Where the next context goes: behind all others, and inside the arena.
LEMMA ContextIsFree ==
    ASSUME ArenaInv, RegistryIsValid, NEW key, AddStatus(key) = "OK",
           NEW effect, effect = RegistryFind(registry, key)
    PROVE  /\ Context(effect) \in Nat /\ effect.size \in Nat
           /\ Padding(effect) \in Nat
           /\ Context(effect) = base + used + Padding(effect)
           /\ used + Padding(effect) + effect.size \in 0 .. Arena
           /\ Context(effect) % effect.alignment = 0
<1>1. effect # NULL
  BY DEF AddStatus
<1>2. effect.size \in Nat /\ effect.alignment \in Alignments
  BY <1>1, FoundIsTyped
<1>3. base \in Nat /\ used \in 0 .. Arena /\ Arena \in Nat
  BY EffectChainAssumption DEF ArenaInv, ChainInv
<1>4. base + used \in Nat
  BY <1>3
<1>5. /\ Padding(effect) \in 0 .. effect.alignment - 1
      /\ (base + used + Padding(effect)) % effect.alignment = 0
  BY <1>2, <1>4, PaddingAligns DEF Padding
<1>6. effect.alignment \in Nat
  BY <1>2 DEF Alignments
<1>7. Padding(effect) \in Nat
  BY <1>5, <1>6
<1>8. ~(Padding(effect) > Arena - used) /\ ~(effect.size > Arena - used - Padding(effect))
  BY <1>1 DEF AddStatus
<1>9. used + Padding(effect) + effect.size \in 0 .. Arena
  BY <1>2, <1>3, <1>7, <1>8
<1>10. Context(effect) \in Nat
  BY <1>3, <1>7 DEF Context
<1> QED
  BY <1>2, <1>5, <1>7, <1>9, <1>10 DEF Context

\* The bytes that a call writes are not below the first free byte, so that
\* they belong to no context.
LEMMA WrittenIsFree ==
    ASSUME ArenaInv, RegistryIsValid, NEW key, AddStatus(key) = "OK",
           NEW effect, effect = RegistryFind(registry, key),
           owner' = Written(effect), UNCHANGED memory
    PROVE  /\ DOMAIN owner' = Addresses'
           /\ \A a \in Addresses : a < base + used => owner'[a] = owner[a]
           /\ \A a \in Bytes(Context(effect), effect) : owner'[a] = Len(instances) + 1
<1>1. base \in Nat /\ used \in 0 .. Arena /\ Arena \in Nat /\ DOMAIN owner = Addresses
  BY EffectChainAssumption DEF ArenaInv, ChainInv
<1>2. DOMAIN owner' = Addresses /\ Addresses' = Addresses
  BY <1>1 DEF Written, memory, Addresses
<1>3. /\ Context(effect) \in Nat /\ effect.size \in Nat
      /\ Padding(effect) \in Nat
      /\ Context(effect) = base + used + Padding(effect)
      /\ used + Padding(effect) + effect.size \in 0 .. Arena
  BY ContextIsFree
<1>4. \A a \in Bytes(Context(effect), effect) : a \in Addresses /\ ~(a < base + used)
  BY <1>1, <1>3 DEF Bytes, Addresses
<1>5. \A a \in Addresses : a < base + used => owner'[a] = owner[a]
  BY <1>1, <1>4 DEF Written
<1>6. \A a \in Bytes(Context(effect), effect) : owner'[a] = Len(instances) + 1
  BY <1>1, <1>4 DEF Written
<1> QED
  BY <1>2, <1>5, <1>6

-----------------------------------------------------------------------------
(* The steps of the chain.                                                 *)

\* The instances stay where they are when nothing is allocated or written and
\* only their values and ages change.
LEMMA UnmovedKeepsChain ==
    ASSUME ChainInv, UNCHANGED <<memory, used, owner>>,
           DOMAIN instances' = DOMAIN instances,
           instances' \in Seq({instances'[i] : i \in DOMAIN instances'}),
           \A i \in DOMAIN instances :
              /\ IsInstance(instances'[i])
              /\ instances'[i].effect = instances[i].effect
              /\ instances'[i].context = instances[i].context
    PROVE  ChainInv'
<1>1. base' = base /\ used' = used /\ owner' = owner
  BY DEF memory
<1>2. \A i \in DOMAIN instances : IsInstance(instances'[i]) /\ IsPlaced(i)'
  BY <1>1 DEF ChainInv, IsPlaced, Bytes
<1>3. Addresses' = Addresses
  BY <1>1 DEF Addresses
<1> QED
  BY <1>1, <1>2, <1>3 DEF ChainInv, IsInstance

\* A chain that is cleared holds no context.
LEMMA EmptiedKeepsChain ==
    ASSUME ChainInv, Emptied, UNCHANGED memory
    PROVE  ChainInv'
<1>1. base' = base /\ used' = 0 /\ instances' = << >>
  BY DEF Emptied, memory
<1>2. DOMAIN owner' = Addresses'
  BY <1>1 DEF Emptied, Addresses
<1>3. DOMAIN instances' = {}
  BY <1>1
<1>4. instances' \in Seq({instances'[i] : i \in DOMAIN instances'})
  BY <1>1
<1> QED
  BY <1>1, <1>2, <1>3, <1>4, EffectChainAssumption DEF ChainInv

\* A call that fails has written behind the contexts only.
LEMMA FailedAddKeepsChain ==
    ASSUME ArenaInv, RegistryIsValid, NEW key, AddStatus(key) = "OK",
           owner' = Written(RegistryFind(registry, key)),
           UNCHANGED <<memory, instances, used>>
    PROVE  ChainInv'
<1>1. base' = base /\ used' = used /\ instances' = instances
  BY DEF memory
<1>2. /\ DOMAIN owner' = Addresses'
      /\ \A a \in Addresses : a < base + used => owner'[a] = owner[a]
  BY WrittenIsFree
<1>3. ASSUME NEW i \in DOMAIN instances
      PROVE  IsInstance(instances'[i]) /\ IsPlaced(i)'
  <2>1. IsInstance(instances[i]) /\ IsPlaced(i)
    BY <1>3 DEF ArenaInv, ChainInv
  <2>2. base \in Nat /\ used \in 0 .. Arena /\ Arena \in Nat
    BY EffectChainAssumption DEF ArenaInv, ChainInv
  <2>3. \A a \in Bytes(instances[i].context, instances[i].effect) :
           a \in Addresses /\ a < base + used
    BY <2>1, <2>2 DEF IsPlaced, Bytes, Addresses
  <2> QED
    BY <1>1, <1>2, <2>1, <2>3 DEF IsPlaced, IsInstance
<1> QED
  BY <1>1, <1>2, <1>3 DEF ArenaInv, ChainInv, IsInstance

\* An effect that is added gets a context of its own.
LEMMA AppendKeepsChain ==
    ASSUME ArenaInv, RegistryIsValid, NEW key, AddStatus(key) = "OK",
           AppendInstance(RegistryFind(registry, key)), UNCHANGED memory
    PROVE  ChainInv'
<1> DEFINE effect == RegistryFind(registry, key)
           added == [effect |-> effect, context |-> Context(effect),
                     values |-> Defaults(effect), age |-> 0]
           Before == {instances[i] : i \in DOMAIN instances}
<1>0. PICK last : last = Len(instances) + 1
  OBVIOUS
<1>1. /\ instances' = Append(instances, added)
      /\ used' = used + Padding(effect) + effect.size
      /\ owner' = Written(effect)
      /\ base' = base
  BY DEF AppendInstance, memory
<1>2. /\ Context(effect) \in Nat /\ effect.size \in Nat
      /\ Padding(effect) \in Nat
      /\ Context(effect) = base + used + Padding(effect)
      /\ used + Padding(effect) + effect.size \in 0 .. Arena
      /\ Context(effect) % effect.alignment = 0
  BY ContextIsFree
<1>3. /\ DOMAIN owner' = Addresses'
      /\ \A a \in Addresses : a < base + used => owner'[a] = owner[a]
      /\ \A a \in Bytes(Context(effect), effect) : owner'[a] = last
  BY <1>0, <1>1, WrittenIsFree
<1>4. base \in Nat /\ used \in 0 .. Arena /\ Arena \in Nat /\ instances \in Seq(Before)
  BY EffectChainAssumption DEF ArenaInv, ChainInv
<1>5. /\ added.effect = effect /\ added.context = Context(effect)
      /\ IsInstance(added)
  BY DEF IsInstance
<1> HIDE DEF effect, added, Before
<1>6. /\ Len(instances) \in Nat /\ DOMAIN instances = 1 .. Len(instances)
      /\ DOMAIN instances' = 1 .. last
      /\ instances'[last] = added
      /\ \A i \in DOMAIN instances : instances'[i] = instances[i]
      /\ instances' \in Seq(Before \cup {added})
  BY <1>0, <1>1, <1>4
<1>7. instances' \in Seq({instances'[i] : i \in DOMAIN instances'})
  BY <1>0, <1>6
<1>8. ASSUME NEW i \in DOMAIN instances
      PROVE  IsInstance(instances'[i]) /\ IsPlaced(i)'
  <2>1. IsInstance(instances[i]) /\ IsPlaced(i)
    BY <1>8 DEF ArenaInv, ChainInv
  <2>2. instances'[i] = instances[i]
    BY <1>6
  <2>3. \A a \in Bytes(instances[i].context, instances[i].effect) :
           a \in Addresses /\ a < base + used
    BY <1>4, <2>1 DEF IsPlaced, Bytes, Addresses
  <2>4. \A a \in Bytes(instances[i].context, instances[i].effect) : owner'[a] = i
    BY <1>3, <2>1, <2>3 DEF IsPlaced
  <2>5. used <= used' /\ used' \in Nat /\ base' = base
    BY <1>1, <1>2, <1>4
  <2>6. /\ instances[i].context \in Nat /\ instances[i].effect.size \in Nat
        /\ instances[i].context + instances[i].effect.size <= base + used
    BY <2>1 DEF IsPlaced
  <2>7. instances[i].context + instances[i].effect.size <= base' + used'
    BY <1>4, <2>5, <2>6
  <2> QED
    BY <1>1, <2>1, <2>2, <2>4, <2>7 DEF IsPlaced, IsInstance, Bytes
<1>9. IsInstance(instances'[last]) /\ IsPlaced(last)'
  <2>1. base <= Context(effect) /\ Context(effect) + effect.size <= base + used'
    BY <1>1, <1>2, <1>4
  <2>2. instances'[last].effect = effect /\ instances'[last].context = Context(effect)
    BY <1>5, <1>6
  <2>3. IsInstance(instances'[last])
    BY <1>5, <1>6 DEF IsInstance
  <2>4. \A a \in Bytes(instances'[last].context, instances'[last].effect) : owner'[a] = last
    BY <1>3, <2>2
  <2>5. IsPlaced(last)'
    BY <1>1, <1>2, <2>1, <2>2, <2>4 DEF IsPlaced
  <2> QED
    BY <2>3, <2>5
<1>9a. \A i \in DOMAIN instances' : i \in DOMAIN instances \/ i = last
  BY <1>0, <1>6
<1>10. \A i \in DOMAIN instances' : IsInstance(instances'[i]) /\ IsPlaced(i)'
  BY <1>8, <1>9, <1>9a DEF IsPlaced, Bytes
<1>11. used' \in 0 .. Arena
  BY <1>1, <1>2
<1> QED
  BY <1>1, <1>3, <1>4, <1>7, <1>10, <1>11 DEF ChainInv, IsInstance

\* effect_chain_add, whatever becomes of it.
LEMMA AddKeepsChain ==
    ASSUME ArenaInv, RegistryIsValid, NEW key, Add(key)
    PROVE  ChainInv'
<1>1. UNCHANGED memory
  BY DEF Add
<1>2. CASE AddSucceeds(key)
  BY <1>1, <1>2, AppendKeepsChain DEF AddSucceeds
<1>3. CASE AddFails(key) /\ status' = "CALLBACK_FAILED" /\ AddStatus(key) = "OK"
           /\ owner' = Written(RegistryFind(registry, key)) /\ UNCHANGED <<instances, used>>
  BY <1>1, <1>3, FailedAddKeepsChain
<1>4. CASE UNCHANGED <<instances, used, owner>>
  BY <1>1, <1>4 DEF ArenaInv, ChainInv, IsInstance, IsPlaced, Bytes, Addresses, memory
<1>5. CASE AddFails(key) /\ status' = "CALLBACK_FAILED" /\ AddStatus(key) = "CALLBACK_FAILED"
  BY <1>5 DEF AddStatus
<1> QED
  BY <1>2, <1>3, <1>4, <1>5 DEF Add, AddFails

\* effect_chain_reset
LEMMA ResetKeepsChain ==
    ASSUME ChainInv, Reset
    PROVE  ChainInv'
<1>1. UNCHANGED <<memory, used, owner>> /\ instances' = [i \in DOMAIN instances |-> Fresh(instances[i])]
  BY DEF Reset
<1>2. DOMAIN instances = 1 .. Len(instances) /\ Len(instances) \in Nat
  BY DEF ChainInv
<1>3. DOMAIN instances' = DOMAIN instances
  BY <1>1
<1>4. instances' \in Seq({instances'[i] : i \in DOMAIN instances'})
  BY <1>1, <1>2, <1>3
<1>5. ASSUME NEW i \in DOMAIN instances
      PROVE  /\ IsInstance(instances'[i])
             /\ instances'[i].effect = instances[i].effect
             /\ instances'[i].context = instances[i].context
  <2>1. instances[i] = [effect |-> instances[i].effect, context |-> instances[i].context,
                        values |-> instances[i].values, age |-> instances[i].age]
    BY DEF ChainInv, IsInstance
  <2>2. instances'[i] = Fresh(instances[i])
    BY <1>1
  <2> QED
    BY <2>1, <2>2 DEF Fresh, IsInstance
<1> QED
  BY <1>1, <1>3, <1>4, <1>5, UnmovedKeepsChain

\* effect_chain_set_parameter where the effect takes the value
LEMMA SetKeepsChain ==
    ASSUME ChainInv, NEW i, NEW id, NEW value, SetSucceeds(i, id, value),
           UNCHANGED <<memory, used, owner>>
    PROVE  ChainInv'
<1>1. instances' = [instances EXCEPT ![i].values[id] = value]
  BY DEF SetSucceeds
<1>2. DOMAIN instances = 1 .. Len(instances) /\ Len(instances) \in Nat
  BY DEF ChainInv
<1>3. DOMAIN instances' = DOMAIN instances
  BY <1>1
<1>3a. instances' = [j \in DOMAIN instances |-> instances'[j]]
  BY <1>1
<1>4. instances' \in Seq({instances'[j] : j \in DOMAIN instances'})
  BY <1>2, <1>3, <1>3a
<1>5. ASSUME NEW j \in DOMAIN instances
      PROVE  /\ IsInstance(instances'[j])
             /\ instances'[j].effect = instances[j].effect
             /\ instances'[j].context = instances[j].context
  <2>1. instances[j] = [effect |-> instances[j].effect, context |-> instances[j].context,
                        values |-> instances[j].values, age |-> instances[j].age]
    BY DEF ChainInv, IsInstance
  <2>2. instances'[j] = instances[j] \/ instances'[j] = [instances[j] EXCEPT !.values[id] = value]
    BY <1>1
  <2> QED
    BY <2>1, <2>2 DEF IsInstance
<1> QED
  BY <1>1, <1>3, <1>4, <1>5, UnmovedKeepsChain

\* effect_chain_process
LEMMA ProcessKeepsChain ==
    ASSUME ChainInv, NEW frames, Process(frames)
    PROVE  ChainInv'
<1>1. UNCHANGED <<memory, used, owner>>
  BY DEF Process
<1>2. DOMAIN instances = 1 .. Len(instances) /\ Len(instances) \in Nat
  BY DEF ChainInv
<1>3. ASSUME NEW last, instances' = Older(last, frames)
      PROVE  ChainInv'
  <2>1. DOMAIN instances' = DOMAIN instances
    BY <1>3 DEF Older
  <2>2. instances' \in Seq({instances'[j] : j \in DOMAIN instances'})
    BY <1>2, <1>3, <2>1 DEF Older
  <2>3. ASSUME NEW j \in DOMAIN instances
        PROVE  /\ IsInstance(instances'[j])
               /\ instances'[j].effect = instances[j].effect
               /\ instances'[j].context = instances[j].context
    <3>1. instances[j] = [effect |-> instances[j].effect, context |-> instances[j].context,
                          values |-> instances[j].values, age |-> instances[j].age]
      BY DEF ChainInv, IsInstance
    <3>2. instances'[j] = instances[j] \/ instances'[j] = [instances[j] EXCEPT !.age = @ + frames]
      BY <1>3 DEF Older
    <3> QED
      BY <3>1, <3>2 DEF IsInstance
  <2> QED
    BY <1>1, <2>1, <2>2, <2>3, UnmovedKeepsChain
<1>4. CASE UNCHANGED instances
  BY <1>1, <1>4 DEF ChainInv, IsInstance, IsPlaced, Bytes, Addresses, memory
<1> QED
  BY <1>3, <1>4 DEF Process

-----------------------------------------------------------------------------
(* The steps of the programs.                                              *)

\* What the steps that do not add, empty or set leave alone.
LEMMA SameArena ==
    ASSUME ArenaInv, UNCHANGED <<memory, chain, prepared, client>>
    PROVE  ArenaInv'
BY DEF ArenaInv, ChainInv, IsInstance, IsPlaced, Bytes, Addresses, RegistryIsValid, memory, chain

\* A round of program_prepare: the registry was found valid when it began.
LEMMA PrepareKeepsArena ==
    ASSUME ArenaInv, Prepare, UNCHANGED client
    PROVE  ArenaInv'
<1>1. prepared = "building" /\ UNCHANGED memory
  BY DEF Prepare, BuildNode, BuildValue
<1>2. RegistryIsValid /\ RegistryIsValid'
  BY <1>1 DEF ArenaInv, RegistryIsValid, memory
<1>3. ChainInv'
  <2>1. CASE Abandoned
    BY <1>1, <2>1, EmptiedKeepsChain DEF Abandoned, ArenaInv
  <2>2. CASE BuildNode /\ ~Abandoned
    <3>1. PICK key : AddSucceeds(key)
      BY <2>2 DEF BuildNode
    <3> QED
      BY <1>1, <1>2, <3>1, AppendKeepsChain DEF AddSucceeds
  <2>3. CASE BuildValue /\ ~Abandoned
    <3>1. PICK i, id, value : SetSucceeds(i, id, value) /\ UNCHANGED <<used, owner>>
      BY <2>3 DEF BuildValue
    <3> QED
      BY <1>1, <3>1, SetKeepsChain DEF ArenaInv
  <2> QED
    BY <2>1, <2>2, <2>3 DEF Prepare
<1> QED
  BY <1>1, <1>2, <1>3 DEF ArenaInv, memory

\* The beginning of program_prepare, over a registry that is valid.
LEMMA PrepareBeginsKeepsArena ==
    ASSUME ArenaInv, RegistryIsValid, NEW p, PrepareBegins(p), UNCHANGED client
    PROVE  ArenaInv'
<1>1. UNCHANGED <<memory, chain>>
  BY DEF PrepareBegins
<1>2. RegistryIsValid'
  BY <1>1 DEF RegistryIsValid, memory
<1> QED
  BY <1>1, <1>2 DEF ArenaInv, ChainInv, IsInstance, IsPlaced, Bytes, Addresses, memory, chain

\* A call that leaves no program under construction.
LEMMA CallKeepsArena ==
    ASSUME ArenaInv, ChainInv', UNCHANGED <<memory, client>>,
           prepared' = prepared \/ prepared' = "none"
    PROVE  ArenaInv'
BY DEF ArenaInv, RegistryIsValid, memory

\* The host process of the editor.
LEMMA EditorKeepsArena ==
    ASSUME ArenaInv, EditorNext
    PROVE  ArenaInv'
<1>1. UNCHANGED client
  BY DEF EditorNext, BadArguments, Start, PrepareStep, Ready, Override, Header, Block, Answer,
         Write, process, hostVars
<1>2. CASE UNCHANGED runtimeVars
  BY <1>1, <1>2, SameArena DEF runtimeVars, memory, preparation
<1>3. CASE Start /\ ~UNCHANGED runtimeVars
  <2>1. RegistryIsValid /\ PrepareBegins(edited)
    BY <1>3 DEF Start, RegistryIsValid
  <2>2. PICK p : PrepareBegins(p)
    BY <2>1
  <2> QED
    BY <1>1, <2>1, <2>2, PrepareBeginsKeepsArena
<1>4. CASE PrepareStep
  BY <1>1, <1>4, PrepareKeepsArena DEF PrepareStep
<1>5. CASE \E k \in DOMAIN overrides : Override(k)
  <2>1. PICK i, id, value : SetParameter(i, id, value)
    BY <1>5 DEF Override
  <2>2. UNCHANGED prepared
    BY <1>5 DEF Override, preparation
  <2>3. UNCHANGED <<memory, used, owner>>
    BY <2>1 DEF SetParameter
  <2>4. CASE SetSucceeds(i, id, value)
    BY <1>1, <2>2, <2>3, <2>4, SetKeepsChain, CallKeepsArena DEF ArenaInv
  <2>5. CASE UNCHANGED instances
    BY <1>1, <2>2, <2>3, <2>5, SameArena DEF chain
  <2> QED
    BY <2>1, <2>4, <2>5 DEF SetParameter
<1>6. CASE Block
  <2>1. PICK frames : Process(frames)
    BY <1>6 DEF Block
  <2>2. UNCHANGED <<memory, prepared>>
    BY <1>6, <2>1 DEF Block, Process, preparation
  <2> QED
    BY <1>1, <2>1, <2>2, ProcessKeepsChain, CallKeepsArena DEF ArenaInv
<1> QED
  BY <1>2, <1>3, <1>4, <1>5, <1>6
  DEF EditorNext, BadArguments, Ready, Header, Answer, Write

\* The caller of the headers.
LEMMA CallerKeepsArena ==
    ASSUME ArenaInv, client = "chain", ChainCalls
    PROVE  ArenaInv'
<1>1. RegistryIsValid
  BY DEF ArenaInv
<1>2. CASE \E p \in Programs : Calls(PrepareBegins(p))
  <2>1. PICK p : PrepareBegins(p) /\ UNCHANGED hostVars
    BY <1>2 DEF Calls
  <2> QED
    BY <1>1, <2>1, PrepareBeginsKeepsArena DEF hostVars, process
<1>3. CASE PrepareStep
  BY <1>3, PrepareKeepsArena DEF PrepareStep, hostVars, process
<1>4. ASSUME ChainInv', UNCHANGED memory, prepared' = "none", UNCHANGED hostVars
      PROVE  ArenaInv'
  BY <1>4, CallKeepsArena DEF hostVars, process
<1>5. CASE \E key \in Keys : OnChain(Add(key))
  <2>1. PICK key : Add(key) /\ prepared' = "none" /\ UNCHANGED hostVars
    BY <1>5 DEF OnChain, Calls
  <2> QED
    BY <1>1, <1>4, <2>1, AddKeepsChain DEF Add
<1>6. CASE \E i \in 1 .. Len(instances) + 1, id \in Ids, value \in Levels :
             OnChain(SetParameter(i, id, value))
  <2>1. PICK i, id, value : SetParameter(i, id, value) /\ prepared' = "none" /\ UNCHANGED hostVars
    BY <1>6 DEF OnChain, Calls
  <2>2. UNCHANGED <<memory, used, owner>>
    BY <2>1 DEF SetParameter
  <2>3. CASE SetSucceeds(i, id, value)
    BY <1>4, <2>1, <2>2, <2>3, SetKeepsChain DEF ArenaInv
  <2>4. CASE UNCHANGED instances
    <3>1. ChainInv'
      BY <2>2, <2>4 DEF ArenaInv, ChainInv, IsInstance, IsPlaced, Bytes, Addresses, memory
    <3> QED
      BY <1>4, <2>1, <2>2, <3>1
  <2> QED
    BY <2>1, <2>3, <2>4 DEF SetParameter
<1>7. CASE OnChain(Clear)
  BY <1>4, <1>7, EmptiedKeepsChain DEF OnChain, Calls, Clear, ArenaInv
<1>8. CASE OnChain(Reset)
  BY <1>4, <1>8, ResetKeepsChain DEF OnChain, Calls, Reset, ArenaInv
<1>9. CASE \E frames \in {BlockFrames, BlockFrames + 1} :
             /\ \A i \in DOMAIN instances : Age(i) < BlockFrames
             /\ OnChain(Process(frames))
  <2>1. PICK frames : Process(frames) /\ prepared' = "none" /\ UNCHANGED hostVars
    BY <1>9 DEF OnChain, Calls
  <2> QED
    BY <1>4, <2>1, ProcessKeepsChain DEF Process, ArenaInv
<1> QED
  BY <1>2, <1>3, <1>5, <1>6, <1>7, <1>8, <1>9 DEF ChainCalls

\* Every call on the cursor leaves the chain alone.
LEMMA CursorKeepsArena ==
    ASSUME ArenaInv, CursorCalls
    PROVE  ArenaInv'
<1>1. UNCHANGED <<memory, chain, preparation, client>>
  BY DEF CursorCalls, Calls, hostVars, process, CursorInitialize, NextProgram, PreviousProgram,
         NextBank, PreviousBank, SelectBank, MoveTo
<1> QED
  BY <1>1, SameArena DEF preparation

\* The arena is laid out when the chain is initialized.
LEMMA ArenaAtFirst ==
    ASSUME Init
    PROVE  ArenaInv
<1>1. /\ instances = << >> /\ used = 0 /\ DOMAIN owner = Addresses
      /\ prepared = "none"
  BY DEF Init, RuntimeInit, ChainInit
<1>2. base \in Nat
  <2>1. Bases \subseteq Nat
    BY ProgramsAssumption
  <2>2. base = 0 \/ base \in Bases
    BY DEF Init, IsApplication, IsEditor, IsCaller
  <2>3. CASE base = 0
    BY <2>3
  <2>4. CASE base \in Bases
    BY <2>1, <2>4
  <2> QED
    BY <2>2, <2>3, <2>4
<1>3. registry \in Registries \cup {Registry, ncr2_basic_effect_registry}
  BY DEF Init, IsApplication, IsEditor, IsCaller
<1>4. client = "chain" => RegistryIsValid
  BY AcceptedIsValid DEF Init, IsApplication, IsEditor, IsCaller, RegistryIsValid
<1>5. instances \in Seq({instances[i] : i \in DOMAIN instances}) /\ DOMAIN instances = {}
  BY <1>1
<1> QED
  BY <1>1, <1>2, <1>3, <1>4, <1>5, EffectChainAssumption DEF ArenaInv, ChainInv

\* What ChainInv says of the contexts.
LEMMA PlacedIsIntact ==
    ASSUME ChainInv
    PROVE  ContextsAreIntact
<1> SUFFICES ASSUME NEW i \in DOMAIN instances
             PROVE  /\ Bytes(instances[i].context, instances[i].effect) \subseteq Addresses
                    /\ instances[i].context % instances[i].effect.alignment = 0
                    /\ \A a \in Bytes(instances[i].context, instances[i].effect) : owner[a] = i
  BY DEF ContextsAreIntact
<1>1. IsPlaced(i) /\ base \in Nat /\ used \in 0 .. Arena /\ Arena \in Nat
  BY EffectChainAssumption DEF ChainInv
<1>2. Bytes(instances[i].context, instances[i].effect) \subseteq Addresses
  BY <1>1 DEF IsPlaced, Bytes, Addresses
<1> QED
  BY <1>1, <1>2 DEF IsPlaced

\* effect_runtime.c: in the application, the editor's process and any caller of
\* the headers the arena is laid out as ArenaInv says.
THEOREM ArenaInvariant == Spec => []ArenaInv
<1>1. Init => ArenaInv
  BY ArenaAtFirst
<1>2. ArenaInv /\ [Next]_vars => ArenaInv'
  <2> SUFFICES ASSUME ArenaInv, [Next]_vars PROVE ArenaInv'
    OBVIOUS
  <2>1. CASE UNCHANGED editorVars
    BY <2>1, SameArena DEF editorVars, runtimeVars, hostVars, process, preparation, memory
  <2>2. CASE client = "editor" /\ EditorNext
    BY <2>2, EditorKeepsArena
  <2>3. CASE client = "chain" /\ ChainCalls
    BY <2>3, CallerKeepsArena
  <2>4. CASE client = "cursor" /\ CursorCalls
    BY <2>4, CursorKeepsArena
  <2> QED
    BY <2>1, <2>2, <2>3, <2>4 DEF Next, vars
<1> QED
  BY <1>1, <1>2, PTL DEF Spec

\* effect_runtime.c:230-245: for every registry, program and order of calls,
\* and every address and size of the arena, the contexts are aligned, lie in
\* the arena and are nobody else's.
THEOREM ContextsStayIntact == Spec => []ContextsAreIntact
<1>1. ArenaInv => ContextsAreIntact
  BY PlacedIsIntact DEF ArenaInv
<1> QED
  BY <1>1, ArenaInvariant, PTL

-----------------------------------------------------------------------------
(* What a program is made of.                                              *)

\* The settings of a program that is being prepared, or was.
LEMMA ProgramIsWellFormed ==
    ASSUME ArenaInv, PreparationInv, prepared \in {"building", "OK"}
    PROVE  /\ IsArray(program.nodes)
           /\ \A i \in DOMAIN program.nodes :
                /\ IsArray(Values(i))
                /\ RegistryFind(registry, program.nodes[i].effect) # NULL
                /\ \A k \in DOMAIN Values(i) :
                     ValueIsValid(program.nodes[i],
                                  RegistryFind(registry, program.nodes[i].effect), k)
<1>1. HasNodes(program) /\ ProgramValidate(program, registry) = "OK"
  BY ProgramsAssumption DEF PreparationInv
<1> QED
  BY <1>1, ValidNodes DEF Values

\* A valid node has one value, or none, for a parameter.
LEMMA OneValue ==
    ASSUME NEW i, IsArray(Values(i)), NEW effect,
           \A k \in DOMAIN Values(i) : ValueIsValid(program.nodes[i], effect, k)
    PROVE  \A j, k \in DOMAIN Values(i) : Values(i)[j].id = Values(i)[k].id => j = k
<1> SUFFICES ASSUME NEW j \in DOMAIN Values(i), NEW k \in DOMAIN Values(i), j < k
             PROVE  Values(i)[j].id # Values(i)[k].id
  BY ArrayIndices
<1>1. j \in 1 .. k - 1
  BY ArrayIndices
<1> QED
  BY <1>1 DEF ValueIsValid, Values

\* What the program gives, as long as no override was accepted.
LEMMA GivenByProgram ==
    ASSUME NEW i, IsArray(Values(i)), NEW effect,
           \A k \in DOMAIN Values(i) : ValueIsValid(program.nodes[i], effect, k),
           \A k \in DOMAIN overrides : overrides[k].status # "OK", NEW id
    PROVE  /\ \A k \in DOMAIN Values(i) :
                Values(i)[k].id = id => Given(i, id) = Values(i)[k].value
           /\ (\A k \in DOMAIN Values(i) : Values(i)[k].id # id) =>
                Given(i, id) = ParameterFind(instances[i].effect, id).default
<1> DEFINE listed == {k \in DOMAIN Values(i) : Values(i)[k].id = id}
<1>1. Given(i, id) = IF listed # {} THEN Values(i)[CHOOSE k \in listed : TRUE].value
                     ELSE ParameterFind(instances[i].effect, id).default
  BY DEF Given, Overriding
<1>2. ASSUME NEW k \in DOMAIN Values(i), Values(i)[k].id = id
      PROVE  Given(i, id) = Values(i)[k].value
  <2>1. k \in listed
    BY <1>2
  <2>2. (CHOOSE j \in listed : TRUE) \in listed
    BY <2>1
  <2>3. \A j \in listed : j = k
    BY <1>2, OneValue
  <2> QED
    BY <1>1, <2>1, <2>2, <2>3
<1> QED
  BY <1>1, <1>2

\* As long as nothing was prepared, no override was accepted.
LEMMA NoOverrideYet ==
    ASSUME OverrideInv, prepared # "OK"
    PROVE  \A k \in DOMAIN overrides : overrides[k].status # "OK"
BY DEF OverrideInv, Unapplied

-----------------------------------------------------------------------------
(* The steps of program_prepare.                                           *)

\* program_prepare begins with the program, or says why not.
LEMMA BeginsRightly ==
    ASSUME ProgramsInv, NEW p \in Edited \cup Programs, PrepareBegins(p)
    PROVE  PreparationInv'
<1>1. /\ program' = p /\ node' = 1 /\ parameter' = 0
      /\ UNCHANGED <<registry, instances, used, library, accepted>>
      /\ prepared' = IF PrepareStatus(p) # "OK" THEN PrepareStatus(p)
                     ELSE IF p.nodes = << >> THEN "OK" ELSE "building"
  BY DEF PrepareBegins, memory, chain
<1>2. HasNodes(p)
  BY ProgramsAssumption
<1>3. PrepareStatus(p) \in {"OK", "CHAIN_NOT_EMPTY", "INVALID_DESCRIPTOR", "EFFECT_NOT_FOUND"}
  BY <1>2, ProgramStatuses DEF PrepareStatus
<1>4. prepared' \in {"OK", "building", "CHAIN_NOT_EMPTY", "INVALID_DESCRIPTOR", "EFFECT_NOT_FOUND"}
  BY <1>1, <1>3
<1>5. ASSUME PrepareStatus(p) = "OK"
      PROVE  /\ instances = << >> /\ ProgramValidate(p, registry) = "OK" /\ IsArray(p.nodes)
             /\ \A i \in DOMAIN p.nodes : IsArray(p.nodes[i].values)
  <2>1. instances = << >> /\ ProgramValidate(p, registry) = "OK"
    BY <1>5 DEF PrepareStatus
  <2> QED
    BY <1>2, <2>1, ValidNodes
<1>6. prepared' \in {"building", "OK"} =>
        /\ program' \in Edited \cup Programs
        /\ ProgramValidate(program', registry') = "OK"
        /\ Len(instances') = Made'
        /\ \A i \in DOMAIN instances' : IsMade(i)'
  <2> SUFFICES ASSUME prepared' \in {"building", "OK"}
               PROVE  /\ program' \in Edited \cup Programs
                      /\ ProgramValidate(program', registry') = "OK"
                      /\ Len(instances') = Made'
                      /\ \A i \in DOMAIN instances' : IsMade(i)'
    OBVIOUS
  <2>1. PrepareStatus(p) = "OK"
    BY <1>1, <1>3
  <2>2. Len(instances') = 0 /\ DOMAIN instances' = {}
    BY <1>1, <1>5, <2>1
  <2>3. Made' = 0
    BY <1>1, <1>5, <2>1 DEF Made
  <2> QED
    BY <1>1, <1>5, <2>1, <2>2, <2>3
<1>7. prepared' = "building" => node' \in DOMAIN program'.nodes /\ parameter' \in 0 .. Len(Values(node)')
  <2> SUFFICES ASSUME prepared' = "building"
               PROVE  node' \in DOMAIN program'.nodes /\ parameter' \in 0 .. Len(Values(node)')
    OBVIOUS
  <2>1. PrepareStatus(p) = "OK" /\ p.nodes # << >>
    BY <1>1, <1>3
  <2>2. 1 \in DOMAIN p.nodes
    BY <1>5, <2>1 DEF IsArray
  <2>3. Values(node)' = p.nodes[1].values
    BY <1>1 DEF Values
  <2>4. Len(Values(node)') \in Nat
    BY <1>5, <2>1, <2>2, <2>3, ArrayIndices
  <2> QED
    BY <1>1, <2>2, <2>4
<1>8. accepted' = "OK" /\ program' \in {library'.catalog[i] : i \in DOMAIN library'.catalog} =>
        prepared' \in {"none", "building", "OK", "CHAIN_NOT_EMPTY", "CHAIN_ERROR"}
  <2> SUFFICES ASSUME accepted = "OK", NEW i \in DOMAIN library.catalog, p = library.catalog[i]
               PROVE  prepared' \in {"none", "building", "OK", "CHAIN_NOT_EMPTY", "CHAIN_ERROR"}
    BY <1>1
  <2>1. ProgramValidate(p, registry) = "OK"
    BY AcceptedPrograms DEF ProgramsInv, CursorInv
  <2>2. PrepareStatus(p) \in {"OK", "CHAIN_NOT_EMPTY"}
    BY <2>1 DEF PrepareStatus
  <2> QED
    BY <1>1, <2>2
<1> QED
  BY <1>4, <1>6, <1>7, <1>8 DEF PreparationInv

\* A failure clears the chain.
LEMMA AbandonsRightly ==
    ASSUME Abandoned, status' \in {"CHAIN_FULL", "ARENA_FULL", "CALLBACK_FAILED"}
    PROVE  PreparationInv'
BY DEF Abandoned, Emptied, PreparationInv

\* Where the loops of program_prepare go.
LEMMA OnwardMoves ==
    ASSUME ProgramsInv, prepared = "building", Onward, UNCHANGED <<program, registry>>
    PROVE  /\ node \in DOMAIN program.nodes /\ node \in Nat
           /\ IsArray(program.nodes) /\ IsArray(Values(node))
           /\ prepared' \in {"building", "OK"}
           /\ prepared' = "building" =>
                node' \in DOMAIN program'.nodes /\ parameter' \in 0 .. Len(Values(node)')
           /\ Made' = node
           /\ prepared' = "building" /\ node' = node =>
                parameter < Len(Values(node)) /\ parameter' = parameter + 1
           /\ prepared' = "building" /\ node' # node => node' = node + 1
           /\ ~(prepared' = "building" /\ node' = node) => parameter = Len(Values(node))
<1>1. /\ node \in DOMAIN program.nodes /\ parameter \in 0 .. Len(Values(node))
      /\ IsArray(program.nodes) /\ \A i \in DOMAIN program.nodes : IsArray(Values(i))
  BY ProgramIsWellFormed DEF ProgramsInv, PreparationInv
<1>2. /\ DOMAIN program.nodes = 1 .. Len(program.nodes) /\ Len(program.nodes) \in Nat
      /\ \A i \in DOMAIN program.nodes : Len(Values(i)) \in Nat
  BY <1>1, ArrayIndices
<1>3. node \in Nat /\ parameter \in Nat /\ node <= Len(program.nodes)
  BY <1>1, <1>2
<1>4. \A i : Values(i)' = Values(i)
  BY DEF Values
<1>5. CASE parameter < Len(Values(node))
  <2>1. node' = node /\ parameter' = parameter + 1 /\ prepared' = "building"
    BY <1>3, <1>5 DEF Onward
  <2>2. parameter' \in 0 .. Len(Values(node))
    BY <1>1, <1>2, <1>3, <1>5, <2>1
  <2>3. Made' = node
    BY <1>3, <2>1 DEF Made
  <2>4. Values(node)' = Values(node)
    BY <2>1 DEF Values
  <2> QED
    BY <1>1, <1>3, <1>5, <2>1, <2>2, <2>3, <2>4
<1>6. CASE ~(parameter < Len(Values(node)))
  <2>1. /\ node' = node + 1 /\ parameter' = 0 /\ parameter = Len(Values(node))
        /\ prepared' = IF node' > Len(program.nodes) THEN "OK" ELSE "building"
    BY <1>1, <1>2, <1>6 DEF Onward
  <2>2. CASE node + 1 > Len(program.nodes)
    <3>1. prepared' = "OK" /\ Len(program.nodes) = node
      BY <1>2, <1>3, <2>1, <2>2
    <3>2. Made' = node
      BY <3>1 DEF Made
    <3> QED
      BY <1>1, <1>3, <2>1, <3>1, <3>2
  <2>3. CASE ~(node + 1 > Len(program.nodes))
    <3>1. prepared' = "building" /\ node' \in DOMAIN program.nodes
      BY <1>2, <1>3, <2>1, <2>3
    <3>2. Made' = node
      BY <1>3, <2>1, <3>1 DEF Made
    <3>3. Values(node)' = program.nodes[node'].values
      BY DEF Values
    <3>4. Len(Values(node)') \in Nat
      BY <1>2, <3>1, <3>3 DEF Values
    <3> QED
      BY <1>1, <1>3, <2>1, <3>1, <3>2, <3>4
  <2> QED
    BY <2>2, <2>3
<1> QED
  BY <1>5, <1>6

\* What the steps of program_prepare leave as it is: the instances that are
\* complete, since no override has been accepted yet.
LEMMA MadeStaysMade ==
    ASSUME ProgramsInv, prepared = "building", NEW i \in DOMAIN instances,
           i # node \/ parameter = 0, UNCHANGED <<program, registry, overrides>>,
           instances'[i] = instances[i],
           ~(prepared' = "building" /\ node' = i)
    PROVE  IsMade(i)'
<1>1. /\ IsMade(i) /\ Len(instances) = Made /\ node \in DOMAIN program.nodes
      /\ IsArray(program.nodes)
  BY ProgramIsWellFormed DEF ProgramsInv, PreparationInv
<1>2. i # node
  <2> SUFFICES ASSUME parameter = 0 PROVE i < node
    BY <1>1, ArrayIndices
  <2>1. i \in 1 .. node - 1
    BY <1>1 DEF Made, ProgramsInv, ArenaInv, ChainInv
  <2> QED
    BY <1>1, <2>1, ArrayIndices
<1>3. \A id : Reached(i, id) /\ Reached(i, id)' /\ Given(i, id)' = Given(i, id)
  BY <1>2 DEF Reached, Given, Overriding, Values
<1>4. instances[i].values = [id \in DOMAIN Defaults(instances[i].effect) |-> Given(i, id)]
  BY <1>1, <1>3 DEF IsMade
<1>5. (instances[i].effect)' = instances[i].effect /\ (instances[i].values)' = instances[i].values
  OBVIOUS
<1>6. Defaults(instances[i].effect)' = Defaults(instances[i].effect)
  BY <1>5
<1> QED
  BY <1>1, <1>3, <1>4, <1>5, <1>6 DEF IsMade

\* A node is added: its instance has the defaults of its effect.
LEMMA NodeIsMade ==
    ASSUME ProgramsInv, prepared = "building", parameter = 0,
           AddSucceeds(program.nodes[node].effect), Onward,
           UNCHANGED <<memory, library, accepted, program, overrides>>
    PROVE  PreparationInv'
<1> DEFINE effect == RegistryFind(registry, program.nodes[node].effect)
           made == [effect |-> effect, context |-> Context(effect),
                    values |-> Defaults(effect), age |-> 0]
<1>1. /\ instances' = Append(instances, made) /\ UNCHANGED registry
  BY DEF AddSucceeds, AppendInstance, memory
<1>1a. made.effect = effect /\ made.values = Defaults(effect)
  OBVIOUS
<1> HIDE DEF made
<1>2. /\ node \in DOMAIN program.nodes /\ node \in Nat
      /\ IsArray(program.nodes) /\ IsArray(Values(node))
      /\ prepared' \in {"building", "OK"}
      /\ prepared' = "building" =>
           node' \in DOMAIN program'.nodes /\ parameter' \in 0 .. Len(Values(node)')
      /\ Made' = node
      /\ prepared' = "building" /\ node' = node =>
           parameter < Len(Values(node)) /\ parameter' = parameter + 1
      /\ prepared' = "building" /\ node' # node => node' = node + 1
      /\ ~(prepared' = "building" /\ node' = node) => parameter = Len(Values(node))
  BY <1>1, OnwardMoves
<1>3. Len(instances) = node - 1 /\ instances \in Seq({instances[i] : i \in DOMAIN instances})
  BY DEF ProgramsInv, PreparationInv, Made, ArenaInv, ChainInv
<1>4. /\ Len(instances') = node /\ DOMAIN instances' = 1 .. node
      /\ instances'[node] = made
      /\ \A i \in DOMAIN instances : instances'[i] = instances[i]
      /\ DOMAIN instances = 1 .. node - 1
  BY <1>1, <1>2, <1>3
<1>5. ASSUME NEW i \in DOMAIN instances
      PROVE  IsMade(i)'
  <2>1. i < node /\ i # node /\ i # node + 1 /\ instances'[i] = instances[i]
    BY <1>2, <1>4
  <2>2. ~(prepared' = "building" /\ node' = i)
    BY <1>2, <2>1
  <2> QED
    BY <1>1, <2>1, <2>2, MadeStaysMade
<1>6. PICK last : last = node
  OBVIOUS
<1>7. IsMade(last)'
  <2>1. instances'[last].effect = effect /\ instances'[last].values = Defaults(effect)
    BY <1>1a, <1>4, <1>6
  <2>2. Defaults(effect) = [id \in DOMAIN Defaults(effect) |-> Defaults(effect)[id]]
    BY DEF Defaults
  <2>3. ASSUME NEW id \in DOMAIN Defaults(effect), Reached(last, id)'
        PROVE  Given(last, id)' = Defaults(effect)[id]
    <3>1. ~(prepared' = "building" /\ node' = last)
      BY <1>2, <1>6, <2>3 DEF Reached
    <3>2. Values(last)' = Values(last) /\ DOMAIN Values(last) = {}
      BY <1>2, <1>6, <3>1, ArrayIndices DEF Values
    <3>3. overrides' = overrides /\ \A k \in DOMAIN overrides : overrides[k].status # "OK"
      BY NoOverrideYet DEF ProgramsInv
    <3>4. Given(last, id)' = ParameterFind(instances'[last].effect, id).default
      BY <3>2, <3>3 DEF Given, Overriding
    <3> QED
      BY <2>1, <2>3, <3>4 DEF Defaults
  <2>4. effect = RegistryFind(registry', program'.nodes[last].effect)
    BY <1>1, <1>6
  <2> QED
    BY <2>1, <2>2, <2>3, <2>4 DEF IsMade
<1>8. \A i \in DOMAIN instances' : i \in DOMAIN instances \/ i = last
  BY <1>2, <1>4, <1>6
<1>9. \A i \in DOMAIN instances' : IsMade(i)'
  BY <1>5, <1>7, <1>8
<1>10. /\ program' \in Edited \cup Programs
       /\ ProgramValidate(program', registry') = "OK"
  BY <1>1 DEF ProgramsInv, PreparationInv
<1> QED
  BY <1>2, <1>4, <1>9, <1>10 DEF PreparationInv

\* A parameter that is found is one of the effect's.
LEMMA FoundParameter ==
    ASSUME NEW effect, NEW id, ParameterFind(effect, id) # NULL
    PROVE  /\ id \in DOMAIN Defaults(effect)
           /\ effect.parameters # << >>
BY DEF ParameterFind, Defaults

\* One value of one instance is another one now.
ChangesOne(i, id, value) ==
    /\ i \in DOMAIN instances /\ ParameterFind(instances[i].effect, id) # NULL
    /\ DOMAIN instances' = DOMAIN instances /\ Len(instances') = Len(instances)
    /\ \A j \in DOMAIN instances :
         /\ instances'[j].effect = instances[j].effect
         /\ instances'[j].age = instances[j].age
         /\ j # i => instances'[j] = instances[j]
    /\ instances'[i].values = [instances[i].values EXCEPT ![id] = value]

\* What effect_chain_set_parameter does where the effect takes the value.
LEMMA SetChangesOne ==
    ASSUME ChainInv, NEW i, NEW id, NEW value, SetSucceeds(i, id, value)
    PROVE  ChangesOne(i, id, value)
<1>1. /\ instances' = [instances EXCEPT ![i].values[id] = value]
      /\ i \in DOMAIN instances /\ ParameterFind(instances[i].effect, id) # NULL
  BY DEF SetSucceeds, SetStatus
<1>2. DOMAIN instances = 1 .. Len(instances) /\ Len(instances) \in Nat
  BY DEF ChainInv
<1>3. DOMAIN instances' = DOMAIN instances
  BY <1>1
<1>4. instances' = [j \in 1 .. Len(instances) |-> instances'[j]]
  BY <1>1, <1>2
<1>5. Len(instances') = Len(instances)
  BY <1>2, <1>3, <1>4
<1>6. ASSUME NEW j \in DOMAIN instances
      PROVE  /\ instances'[j].effect = instances[j].effect
             /\ instances'[j].age = instances[j].age
             /\ j # i => instances'[j] = instances[j]
             /\ j = i => instances'[i].values = [instances[i].values EXCEPT ![id] = value]
  <2>1. instances[j] = [effect |-> instances[j].effect, context |-> instances[j].context,
                        values |-> instances[j].values, age |-> instances[j].age]
    BY DEF ChainInv, IsInstance
  <2>2. CASE j # i
    BY <1>1, <2>2
  <2>3. CASE j = i
    <3>1. instances'[i] = [instances[i] EXCEPT !.values[id] = value]
      BY <1>1
    <3> QED
      BY <2>1, <2>3, <3>1
  <2> QED
    BY <2>2, <2>3
<1> QED
  BY <1>1, <1>3, <1>5, <1>6 DEF ChangesOne

\* A value is set: of the instance at hand one parameter more is as given.
LEMMA ValueIsMade ==
    ASSUME ProgramsInv, prepared = "building", parameter > 0,
           SetSucceeds(Len(instances), Values(node)[parameter].id, Values(node)[parameter].value),
           Onward, UNCHANGED <<memory, library, accepted, program, overrides>>
    PROVE  PreparationInv'
<1>0. PICK last, at : last = node /\ at = parameter
  OBVIOUS
<1>1. UNCHANGED registry
  BY DEF memory
<1>2. /\ node \in DOMAIN program.nodes /\ node \in Nat
      /\ IsArray(program.nodes) /\ IsArray(Values(node))
      /\ prepared' \in {"building", "OK"}
      /\ prepared' = "building" =>
           node' \in DOMAIN program'.nodes /\ parameter' \in 0 .. Len(Values(node)')
      /\ Made' = node
      /\ prepared' = "building" /\ node' = node =>
           parameter < Len(Values(node)) /\ parameter' = parameter + 1
      /\ prepared' = "building" /\ node' # node => node' = node + 1
      /\ ~(prepared' = "building" /\ node' = node) => parameter = Len(Values(node))
  BY <1>1, OnwardMoves
<1>3. /\ parameter \in Nat /\ Len(instances) = node /\ ChainInv
      /\ parameter \in 1 .. Len(Values(node))
      /\ DOMAIN Values(node) = 1 .. Len(Values(node)) /\ Len(Values(node)) \in Nat
  BY <1>2, ArrayIndices DEF ProgramsInv, PreparationInv, Made, ArenaInv
<1> PICK given : given = Values(node)[parameter]
  OBVIOUS
<1>3a. SetSucceeds(last, given.id, given.value) /\ Len(instances) = last /\ ChainInv
  BY <1>0, <1>3
<1>3b. given = Values(last)[at]
  BY <1>0
<1>3c. ChangesOne(last, given.id, given.value)
  BY <1>3a, SetChangesOne
<1>4. /\ last \in DOMAIN instances /\ ParameterFind(instances[last].effect, given.id) # NULL
      /\ DOMAIN instances' = DOMAIN instances /\ Len(instances') = last
      /\ \A j \in DOMAIN instances :
           /\ instances'[j].effect = instances[j].effect
           /\ j # last => instances'[j] = instances[j]
      /\ instances'[last].values = [instances[last].values EXCEPT ![given.id] = given.value]
  BY <1>3a, <1>3c DEF ChangesOne
<1>5. DOMAIN instances = 1 .. last
  BY <1>0, <1>3 DEF ChainInv
<1>6. ASSUME NEW i \in DOMAIN instances, i # last
      PROVE  IsMade(i)'
  <2>1. i < node /\ i # node /\ i # node + 1
    BY <1>0, <1>2, <1>5, <1>6
  <2>2. ~(prepared' = "building" /\ node' = i)
    BY <1>2, <2>1
  <2> QED
    BY <1>1, <1>4, <1>6, <2>1, <2>2, MadeStaysMade
<1>7. IsMade(last)'
  <2> DEFINE effect == instances[last].effect
             values == instances[last].values
  <2>1. /\ effect = RegistryFind(registry, program.nodes[last].effect)
        /\ values = [id \in DOMAIN Defaults(effect) |->
                       IF Reached(last, id) THEN Given(last, id) ELSE Defaults(effect)[id]]
    BY <1>4 DEF ProgramsInv, PreparationInv, IsMade
  <2>2. IsArray(Values(last)) /\ \A k \in DOMAIN Values(last) : ValueIsValid(program.nodes[last], effect, k)
    BY <1>0, <1>2, <2>1, ProgramIsWellFormed DEF ProgramsInv
  <2>3. \A k \in DOMAIN overrides : overrides[k].status # "OK"
    BY NoOverrideYet DEF ProgramsInv
  <2>4. at \in DOMAIN Values(last) /\ DOMAIN Values(last) = 1 .. Len(Values(last)) /\ at \in Nat
        /\ Len(Values(last)) \in Nat
    BY <1>0, <1>3
  <2>5. Values(last)' = Values(last)
    BY DEF Values
  <2>6. \A id : Given(last, id)' = Given(last, id)
    BY <1>4, <2>5 DEF Given, Overriding
  <2>7. Given(last, given.id) = given.value /\ Reached(last, given.id)'
    <3>1. Given(last, given.id) = given.value
      BY <1>0, <2>2, <2>3, <2>4, GivenByProgram
    <3>2. prepared' = "building" /\ node' = last => at \in 1 .. parameter' - 1
      BY <1>0, <1>2, <2>4
    <3> QED
      BY <1>3b, <2>5, <3>1, <3>2 DEF Reached
  <2>8. ASSUME NEW id \in DOMAIN Defaults(effect), id # given.id
        PROVE  IF Reached(last, id) THEN Reached(last, id)'
               ELSE Reached(last, id)' => Given(last, id) = Defaults(effect)[id]
    <3>1. Reached(last, id) <=> \E k \in 1 .. at - 1 : Values(last)[k].id = id
      BY <1>0 DEF Reached
    <3>2. CASE prepared' = "building" /\ node' = last
      <4>1. parameter' = at + 1
        BY <1>0, <1>2, <3>2
      <4>2. Reached(last, id)' <=> \E k \in 1 .. at : Values(last)[k].id = id
        BY <2>4, <2>5, <3>2, <4>1 DEF Reached
      <4>3. \A k \in 1 .. at : Values(last)[k].id = id => k \in 1 .. at - 1
        BY <1>3b, <2>4, <2>8
      <4>4. \A k \in 1 .. at - 1 : k \in 1 .. at
        BY <2>4
      <4> QED
        BY <3>1, <4>2, <4>3, <4>4
    <3>3. CASE ~(prepared' = "building" /\ node' = last)
      <4>1. at = Len(Values(last)) /\ Reached(last, id)'
        BY <1>0, <1>2, <3>3 DEF Reached
      <4>2. ASSUME ~Reached(last, id)
            PROVE  Given(last, id) = Defaults(effect)[id]
        <5>1. \A k \in DOMAIN Values(last) : k = at \/ k \in 1 .. at - 1
          BY <2>4, <4>1
        <5>2. \A k \in DOMAIN Values(last) : Values(last)[k].id # id
          BY <1>3b, <2>8, <3>1, <4>2, <5>1
        <5>3. Given(last, id) = ParameterFind(effect, id).default
          BY <2>2, <2>3, <5>2, GivenByProgram
        <5> QED
          BY <2>8, <5>3 DEF Defaults
      <4> QED
        BY <4>1, <4>2
    <3> QED
      BY <3>2, <3>3
  <2>9. given.id \in DOMAIN Defaults(effect)
    BY <1>4, FoundParameter
  <2>10. instances'[last].effect = effect /\ instances'[last].values = [values EXCEPT ![given.id] = given.value]
    BY <1>4
  <2> HIDE DEF values, effect
  <2>11. instances'[last].values =
           [id \in DOMAIN Defaults(effect) |->
              IF Reached(last, id)' THEN Given(last, id)' ELSE Defaults(effect)[id]]
    <3> DEFINE old == [id \in DOMAIN Defaults(effect) |->
                         IF Reached(last, id) THEN Given(last, id) ELSE Defaults(effect)[id]]
               new == [id \in DOMAIN Defaults(effect) |->
                         IF Reached(last, id)' THEN Given(last, id)' ELSE Defaults(effect)[id]]
    <3>1. ASSUME NEW id \in DOMAIN Defaults(effect)
          PROVE  new[id] = IF id = given.id THEN given.value ELSE old[id]
      <4>1. CASE id = given.id
        BY <2>6, <2>7, <4>1
      <4>2. CASE id # given.id /\ Reached(last, id)
        BY <2>6, <2>8, <4>2
      <4>3. CASE id # given.id /\ ~Reached(last, id)
        BY <2>6, <2>8, <4>3
      <4> QED
        BY <4>1, <4>2, <4>3
    <3>2. [old EXCEPT ![given.id] = given.value] = new
      BY <2>9, <3>1
    <3> QED
      BY <2>1, <2>10, <3>2
  <2>12. Defaults(effect) = Defaults(instances'[last].effect)
    BY <2>10
  <2> QED
    BY <1>1, <2>1, <2>10, <2>11, <2>12 DEF IsMade
<1>8. \A i \in DOMAIN instances' : IsMade(i)'
  BY <1>4, <1>6, <1>7
<1>9. /\ program' \in Edited \cup Programs
      /\ ProgramValidate(program', registry') = "OK"
  BY <1>1 DEF ProgramsInv, PreparationInv
<1> QED
  BY <1>0, <1>2, <1>4, <1>8, <1>9 DEF PreparationInv


\* The values of a valid program are ones that effect_chain_set_parameter takes,
\* unless the effect's own callback fails.
LEMMA ValueIsAcceptable ==
    ASSUME ProgramsInv, prepared = "building", parameter > 0
    PROVE  SetStatus(Len(instances), Values(node)[parameter].id, Values(node)[parameter].value) = "OK"
<1> PICK last, at : last = node /\ at = parameter
  OBVIOUS
<1> PICK given : given = Values(last)[at]
  OBVIOUS
<1>1. /\ last \in DOMAIN program.nodes /\ at \in 0 .. Len(Values(last))
      /\ Len(instances) = last /\ at > 0
  BY DEF ProgramsInv, PreparationInv, Made
<1> DEFINE effect == RegistryFind(registry, program.nodes[last].effect)
<1>2. /\ IsArray(Values(last)) /\ effect # NULL /\ IsArray(program.nodes)
      /\ \A k \in DOMAIN Values(last) : ValueIsValid(program.nodes[last], effect, k)
  BY <1>1, ProgramIsWellFormed DEF ProgramsInv
<1>3. last \in DOMAIN instances
  BY <1>1, <1>2, ArrayIndices DEF ProgramsInv, ArenaInv, ChainInv
<1>4. instances[last].effect = effect
  BY <1>3 DEF ProgramsInv, PreparationInv, IsMade
<1>5. at \in DOMAIN Values(last)
  BY <1>1, <1>2, ArrayIndices
<1>6. ParameterFind(effect, given.id) # NULL /\ InRange(given.value, ParameterFind(effect, given.id))
  BY <1>2, <1>5 DEF ValueIsValid, Values
<1>7. DescriptorIsValid(effect)
  <2>1. DOMAIN registry \subseteq Nat /\ RegistryIsValid
    BY RegistriesAreTyped DEF ProgramsInv, ArenaInv
  <2> QED
    BY <1>2, <2>1, FoundIsValid DEF RegistryIsValid
<1>8. "set_parameter" \in effect.callbacks
  BY <1>6, <1>7, FoundParameter DEF DescriptorIsValid
<1>9. SetStatus(last, given.id, given.value) = "OK"
  BY <1>3, <1>4, <1>6, <1>8 DEF SetStatus
<1> QED
  BY <1>1, <1>9

\* A round of program_prepare.
LEMMA PreparesRightly ==
    ASSUME ProgramsInv, Prepare, UNCHANGED overrides
    PROVE  PreparationInv'
<1>1. prepared = "building" /\ UNCHANGED <<memory, library, accepted, program>>
  BY DEF Prepare, BuildNode, BuildValue
<1>2. CASE BuildNode
  <2>1. RegistryFind(registry, program.nodes[node].effect) # NULL
    BY <1>1, ProgramIsWellFormed DEF ProgramsInv, PreparationInv
  <2>2. CASE AddSucceeds(program.nodes[node].effect) /\ Onward
    BY <1>1, <1>2, <2>2, NodeIsMade DEF BuildNode
  <2>3. CASE AddFails(program.nodes[node].effect) /\ Abandoned
    <3>1. status' \in {"CHAIN_FULL", "ARENA_FULL", "CALLBACK_FAILED"}
      BY <2>1, <2>3 DEF AddFails, AddStatus
    <3> QED
      BY <2>3, <3>1, AbandonsRightly
  <2> QED
    BY <1>2, <2>2, <2>3 DEF BuildNode
<1>3. CASE BuildValue
  <2>1. parameter > 0
    BY <1>3 DEF BuildValue
  <2> PICK given : given = Values(node)[parameter]
    OBVIOUS
  <2>2. CASE SetSucceeds(Len(instances), given.id, given.value) /\ Onward
    BY <1>1, <2>1, <2>2, ValueIsMade
  <2>3. CASE SetFails(Len(instances), given.id, given.value) /\ Abandoned
    <3>1. status' = "CALLBACK_FAILED"
      BY <1>1, <2>1, <2>3, ValueIsAcceptable DEF SetFails
    <3> QED
      BY <2>3, <3>1, AbandonsRightly
  <2> QED
    BY <1>3, <2>2, <2>3 DEF BuildValue
<1> QED
  BY <1>2, <1>3 DEF Prepare

-----------------------------------------------------------------------------
(* The overrides, and the frames.                                          *)

\* Among the indices of an array that fit there is a last one.
LEMMA LastIndex ==
    ASSUME NEW a, IsArray(a), NEW T, T \subseteq DOMAIN a, T # {}
    PROVE  \E i \in T : \A j \in T : j <= i
<1> DEFINE Mirrored == {Len(a) - i : i \in T}
<1>1. DOMAIN a = 1 .. Len(a) /\ Len(a) \in Nat
  BY ArrayIndices
<1>2. Mirrored \subseteq Nat /\ Mirrored # {}
  BY <1>1
<1>3. PICK m \in Mirrored : \A n \in Mirrored : m <= n
  BY <1>2, FirstIndex
<1>4. PICK i \in T : m = Len(a) - i
  BY <1>3
<1>5. \A j \in T : Len(a) - i <= Len(a) - j
  BY <1>3, <1>4
<1>6. \A j \in T : j <= i
  BY <1>1, <1>5
<1> QED
  BY <1>6

\* A program that is whole stays so as long as no value changes.
LEMMA WholeStaysWhole ==
    ASSUME ProgramsInv, prepared = "OK",
           UNCHANGED <<registry, library, accepted, preparation, overrides>>,
           DOMAIN instances' = DOMAIN instances, Len(instances') = Len(instances),
           \A i \in DOMAIN instances :
              /\ instances'[i].effect = instances[i].effect
              /\ instances'[i].values = instances[i].values
    PROVE  PreparationInv'
<1>1. UNCHANGED <<program, node, parameter, prepared>>
  BY DEF preparation
<1>2. \A i \in DOMAIN instances : IsMade(i)
  BY DEF ProgramsInv, PreparationInv
<1>3. ASSUME NEW i \in DOMAIN instances
      PROVE  IsMade(i)'
  <2>1. instances'[i].effect = instances[i].effect /\ instances'[i].values = instances[i].values
    OBVIOUS
  <2>2. \A id : Given(i, id)' = Given(i, id)
    BY <1>1, <2>1 DEF Given, Overriding, Values
  <2>3. \A id : Reached(i, id)' <=> Reached(i, id)
    BY <1>1 DEF Reached, Values
  <2>4. Defaults(instances[i].effect)' = Defaults(instances[i].effect)
    BY <2>1
  <2> QED
    BY <1>1, <1>2, <2>1, <2>2, <2>3, <2>4 DEF IsMade
<1>4. Made' = Made
  BY <1>1 DEF Made
<1> QED
  BY <1>1, <1>3, <1>4 DEF ProgramsInv, PreparationInv

\* effect_chain_process changes nothing but the ages, and of all if it succeeds.
LEMMA ProcessAges ==
    ASSUME ChainInv, NEW frames, Process(frames)
    PROVE  /\ DOMAIN instances' = DOMAIN instances /\ Len(instances') = Len(instances)
           /\ \A i \in DOMAIN instances :
                /\ instances'[i].effect = instances[i].effect
                /\ instances'[i].values = instances[i].values
                /\ status' = "OK" => instances'[i].age = instances[i].age + frames
<1>1. DOMAIN instances = 1 .. Len(instances) /\ Len(instances) \in Nat
  BY DEF ChainInv
<1>2. ASSUME NEW last, instances' = Older(last, frames)
      PROVE  /\ DOMAIN instances' = DOMAIN instances /\ Len(instances') = Len(instances)
             /\ \A i \in DOMAIN instances :
                  /\ instances'[i].effect = instances[i].effect
                  /\ instances'[i].values = instances[i].values
                  /\ i <= last => instances'[i].age = instances[i].age + frames
  <2>1. DOMAIN instances' = 1 .. Len(instances)
    BY <1>1, <1>2 DEF Older
  <2>2. instances' = [i \in 1 .. Len(instances) |-> instances'[i]]
    BY <1>1, <1>2 DEF Older
  <2>3. Len(instances') = Len(instances)
    BY <1>1, <2>2
  <2>4. ASSUME NEW i \in DOMAIN instances
        PROVE  /\ instances'[i].effect = instances[i].effect
               /\ instances'[i].values = instances[i].values
               /\ i <= last => instances'[i].age = instances[i].age + frames
    <3>1. instances[i] = [effect |-> instances[i].effect, context |-> instances[i].context,
                          values |-> instances[i].values, age |-> instances[i].age]
      BY DEF ChainInv, IsInstance
    <3>2. instances'[i] = IF i <= last THEN [instances[i] EXCEPT !.age = @ + frames] ELSE instances[i]
      BY <1>2 DEF Older
    <3> QED
      BY <3>1, <3>2
  <2> QED
    BY <1>1, <2>1, <2>3, <2>4
<1>3. CASE status' # "OK"
  <2>1. UNCHANGED instances \/ \E last : instances' = Older(last, frames)
    BY <1>3 DEF Process
  <2> QED
    BY <1>2, <1>3, <2>1
<1>4. CASE status' = "OK"
  <2>1. instances' = Older(Len(instances), frames)
    BY <1>4 DEF Process
  <2>2. \A i \in DOMAIN instances : i <= Len(instances)
    BY <1>1
  <2> QED
    BY <1>2, <2>1, <2>2
<1> QED
  BY <1>3, <1>4


\* What a parameter was given stays what it was, as long as the same overrides
\* decide it.
LEMMA GivenElsewhere ==
    ASSUME OverrideInv, NEW i, NEW id, Overriding(i, id)' = Overriding(i, id),
           UNCHANGED program, instances'[i].effect = instances[i].effect,
           \A k \in DOMAIN overrides : overrides'[k].value = overrides[k].value
    PROVE  Given(i, id)' = Given(i, id)
<1>1. CASE Overriding(i, id) = {}
  BY <1>1 DEF Given, Values
<1>2. CASE Overriding(i, id) # {}
  <2> DEFINE last == CHOOSE k \in Overriding(i, id) : \A j \in Overriding(i, id) : j <= k
  <2>1. Overriding(i, id) \subseteq DOMAIN overrides /\ IsArray(overrides)
    BY DEF Overriding, OverrideInv
  <2>2. \E k \in Overriding(i, id) : \A j \in Overriding(i, id) : j <= k
    BY <1>2, <2>1, LastIndex
  <2>3. last \in DOMAIN overrides
    BY <2>1, <2>2
  <2>4. Given(i, id) = overrides[last].value /\ Given(i, id)' = overrides'[last].value
    BY <1>2 DEF Given
  <2> QED
    BY <2>3, <2>4
<1> QED
  BY <1>1, <1>2

\* A round of apply_overrides: the overrides are still applied in order.
LEMMA OverridesInOrder ==
    ASSUME OverrideInv, prepared = "OK", NEW k \in DOMAIN overrides, Override(k)
    PROVE  /\ OverrideInv'
           /\ DOMAIN overrides' = DOMAIN overrides
           /\ overrides'[k] = [overrides[k] EXCEPT !.status = status']
           /\ overrides'[k].node = overrides[k].node /\ overrides'[k].id = overrides[k].id
           /\ overrides'[k].value = overrides[k].value /\ overrides'[k].status = status'
           /\ overrides[k].status = "none"
           /\ \A j \in DOMAIN overrides : j # k => overrides'[j] = overrides[j]
           /\ \A j \in DOMAIN overrides : j > k => overrides[j].status = "none"
<1>1. /\ overrides' = [overrides EXCEPT ![k].status = status']
      /\ k \in Unapplied /\ (\A j \in Unapplied : k <= j) /\ UNCHANGED <<client, prepared>>
  BY DEF Override, preparation, process
<1>2. IsArray(overrides) /\ \A j \in DOMAIN overrides : IsOverride(overrides[j])
  BY DEF OverrideInv
<1>3. DOMAIN overrides = 1 .. Len(overrides) /\ Len(overrides) \in Nat
  BY <1>2, ArrayIndices
<1>4. /\ DOMAIN overrides' = DOMAIN overrides
      /\ overrides'[k] = [overrides[k] EXCEPT !.status = status']
      /\ \A j \in DOMAIN overrides : j # k => overrides'[j] = overrides[j]
  BY <1>1
<1>5. /\ overrides'[k].node = overrides[k].node /\ overrides'[k].id = overrides[k].id
      /\ overrides'[k].value = overrides[k].value /\ overrides'[k].status = status'
      /\ IsOverride(overrides'[k])
  BY <1>2, <1>4 DEF IsOverride
<1>6. overrides[k].status = "none" /\ \A j \in DOMAIN overrides : j > k => j \in Unapplied
  BY <1>1, <1>3 DEF Unapplied, OverrideInv
<1>7. IsArray(overrides')
  <2>1. overrides' = [j \in 1 .. Len(overrides) |-> overrides'[j]]
    BY <1>1, <1>3
  <2> QED
    BY <1>3, <2>1 DEF IsArray
<1>8. \A j \in DOMAIN overrides : j # k => (j \in Unapplied' <=> j \in Unapplied)
  BY <1>4 DEF Unapplied
<1>9. ASSUME NEW a \in Unapplied', NEW b \in DOMAIN overrides, a < b
      PROVE  b \in Unapplied'
  <2>0. a \in DOMAIN overrides
    BY <1>4, <1>9 DEF Unapplied
  <2>1. b # k
    BY <1>1, <1>3, <1>8, <1>9, <2>0
  <2>2. CASE a = k
    BY <1>3, <1>6, <1>8, <1>9, <2>1, <2>2
  <2>3. CASE a # k
    BY <1>8, <1>9, <2>0, <2>1, <2>3 DEF OverrideInv
  <2> QED
    BY <2>2, <2>3
<1>10. \A j \in DOMAIN overrides' : IsOverride(overrides'[j])
  BY <1>2, <1>4, <1>5
<1>11. client' # "editor" => overrides' = << >>
  <2>1. overrides # << >>
    BY <1>3
  <2> QED
    BY <1>1, <2>1 DEF OverrideInv
<1>12. OverrideInv'
  BY <1>1, <1>4, <1>7, <1>9, <1>10, <1>11 DEF OverrideInv
<1> QED
  BY <1>4, <1>5, <1>6, <1>12 DEF Unapplied

\* The chain follows: an override that is accepted is what the parameter was
\* given last, and one that is not changes nothing.
LEMMA OverridesRightly ==
    ASSUME ProgramsInv, NEW k \in DOMAIN overrides, Override(k)
    PROVE  /\ PreparationInv' /\ OverrideInv'
           /\ DOMAIN instances' = DOMAIN instances
           /\ \A i \in DOMAIN instances : instances'[i].age = instances[i].age
<1> PICK over : over = overrides[k]
  OBVIOUS
<1>1. /\ prepared = "OK" /\ OverrideInv /\ ChainInv
      /\ SetParameter(over.node, over.id, over.value)
      /\ UNCHANGED <<registry, library, accepted, program, node, parameter, prepared>>
  BY DEF Override, Prepared, ProgramsInv, ArenaInv, preparation, SetParameter, memory
<1>2. /\ OverrideInv'
      /\ DOMAIN overrides' = DOMAIN overrides
      /\ overrides'[k].node = over.node /\ overrides'[k].id = over.id
      /\ overrides'[k].value = over.value /\ overrides'[k].status = status'
      /\ over.status = "none"
      /\ \A j \in DOMAIN overrides : j # k => overrides'[j] = overrides[j]
      /\ \A j \in DOMAIN overrides : j > k => overrides[j].status = "none"
  BY <1>1, OverridesInOrder
<1>3. \A j \in DOMAIN overrides : overrides'[j].value = overrides[j].value
  BY <1>2
<1>4. \A i \in DOMAIN instances : IsMade(i) /\ \A id : Reached(i, id) /\ Reached(i, id)'
  BY <1>1 DEF ProgramsInv, PreparationInv, Reached
<1>5. Made' = Made /\ Len(instances) = Made
  BY <1>1 DEF Made, ProgramsInv, PreparationInv
<1>6. CASE status' # "OK"
  <2>1. UNCHANGED instances
    BY <1>1, <1>6 DEF SetParameter, SetSucceeds
  <2>2. \A i, id : Overriding(i, id)' = Overriding(i, id)
    BY <1>2, <1>6 DEF Overriding
  <2>3. \A i \in DOMAIN instances : \A id : Given(i, id)' = Given(i, id)
    BY <1>1, <1>3, <2>1, <2>2, GivenElsewhere
  <2>4. ASSUME NEW i \in DOMAIN instances
        PROVE  IsMade(i)'
    <3>1. /\ instances'[i] = instances[i]
          /\ Defaults(instances'[i].effect) = Defaults(instances[i].effect)
      BY <2>1
    <3>2. instances[i].values = [id \in DOMAIN Defaults(instances[i].effect) |-> Given(i, id)]
      BY <1>4 DEF IsMade
    <3>3. \A id : Reached(i, id)' /\ Given(i, id)' = Given(i, id)
      BY <1>4, <2>3
    <3> QED
      BY <1>1, <1>4, <3>1, <3>2, <3>3 DEF IsMade
  <2>5. PreparationInv'
    BY <1>1, <1>5, <2>1, <2>4 DEF ProgramsInv, PreparationInv
  <2> QED
    BY <1>2, <2>1, <2>5
<1>7. CASE status' = "OK"
  <2>1. ChangesOne(over.node, over.id, over.value)
    <3>1. SetSucceeds(over.node, over.id, over.value)
      BY <1>1, <1>7 DEF SetParameter, SetFails
    <3> QED
      BY <1>1, <3>1, SetChangesOne
  <2>2. Given(over.node, over.id)' = over.value
    <3>1. k \in Overriding(over.node, over.id)'
      BY <1>2, <1>7 DEF Overriding
    <3>2. \A j \in Overriding(over.node, over.id)' : j <= k /\ j \in Nat
      <4>1. DOMAIN overrides \subseteq Nat
        BY <1>1, ArrayIndices DEF OverrideInv
      <4> QED
        BY <1>2, <4>1 DEF Overriding
    <3> DEFINE found == Overriding(over.node, over.id)'
    <3>3. (CHOOSE l \in found : \A j \in found : j <= l) = k
      BY <3>1, <3>2
    <3> QED
      BY <1>2, <3>1, <3>3 DEF Given
  <2>3. ASSUME NEW i \in DOMAIN instances, NEW id, i # over.node \/ id # over.id
        PROVE  Given(i, id)' = Given(i, id)
    <3>1. Overriding(i, id)' = Overriding(i, id)
      BY <1>2, <2>3 DEF Overriding
    <3>2. instances'[i].effect = instances[i].effect
      BY <2>1 DEF ChangesOne
    <3> QED
      BY <1>1, <1>3, <3>1, <3>2, GivenElsewhere
  <2>4. ASSUME NEW i \in DOMAIN instances
        PROVE  IsMade(i)'
    <3> DEFINE effect == instances[i].effect
               values == instances[i].values
               new == [id \in DOMAIN Defaults(effect) |-> Given(i, id)']
    <3>1. /\ effect = RegistryFind(registry, program.nodes[i].effect)
          /\ values = [id \in DOMAIN Defaults(effect) |-> Given(i, id)]
      BY <1>4 DEF IsMade
    <3>2. instances'[i].effect = effect
      BY <2>1 DEF ChangesOne
    <3>3. instances'[i].values = new
      <4>1. CASE i # over.node
        <5>1. instances'[i].values = values
          BY <2>1, <4>1 DEF ChangesOne
        <5> QED
          BY <2>3, <3>1, <4>1, <5>1
      <4>2. CASE i = over.node
        <5>1. instances'[i].values = [values EXCEPT ![over.id] = over.value]
          BY <2>1, <4>2 DEF ChangesOne
        <5>2. over.id \in DOMAIN Defaults(effect)
          BY <2>1, <4>2, FoundParameter DEF ChangesOne
        <5>3. \A id \in DOMAIN Defaults(effect) :
                 new[id] = IF id = over.id THEN over.value ELSE values[id]
          BY <2>2, <2>3, <3>1, <4>2
        <5> HIDE DEF effect, values
        <5> QED
          BY <3>1, <5>1, <5>2, <5>3
      <4> QED
        BY <4>1, <4>2
    <3>4. \A id : Reached(i, id)'
      BY <1>4
    <3>5. Defaults(instances'[i].effect) = Defaults(effect)
      BY <3>2
    <3> QED
      BY <1>1, <3>1, <3>2, <3>3, <3>4, <3>5 DEF IsMade
  <2>5. PreparationInv'
    BY <1>1, <1>5, <2>1, <2>4 DEF ProgramsInv, PreparationInv, ChangesOne
  <2> QED
    BY <1>2, <2>1, <2>5 DEF ChangesOne
<1> QED
  BY <1>6, <1>7


-----------------------------------------------------------------------------
(* The invariant of the program runtime and its callers.                   *)

\* What no step of any program changes.
LEMMA NothingElseChanges ==
    ASSUME Next
    PROVE  UNCHANGED <<registry, library, accepted, client, mode, edited>>
<1>1. CASE UNCHANGED editorVars
  BY <1>1 DEF editorVars, runtimeVars, hostVars, process
<1>2. CASE EditorNext
  BY <1>2 DEF EditorNext, BadArguments, Start, PrepareStep, Ready, Override, Header, Block, Answer,
              Write, PrepareBegins, Prepare, BuildNode, BuildValue, SetParameter, Process,
              runtimeVars, hostVars, process, memory
<1>3. CASE ChainCalls
  BY <1>3 DEF ChainCalls, Calls, OnChain, PrepareStep, PrepareBegins, Prepare, BuildNode,
              BuildValue, Add, SetParameter, Clear, Reset, Process, hostVars, process, memory
<1>4. CASE CursorCalls
  BY <1>4 DEF CursorCalls, Calls, CursorInitialize, NextProgram, PreviousProgram, NextBank,
              PreviousBank, SelectBank, MoveTo, hostVars, process, memory
<1> QED
  BY <1>1, <1>2, <1>3, <1>4 DEF Next

\* Steps that leave the chain and the overrides alone.
LEMMA SamePreparation ==
    ASSUME PreparationInv, OverrideInv,
           UNCHANGED <<registry, chain, status, library, accepted, preparation, client, overrides>>
    PROVE  PreparationInv' /\ OverrideInv'
<1>1. UNCHANGED <<instances, used, program, node, parameter, prepared>>
  BY DEF chain, preparation
<1>2. \A i : IsMade(i)' <=> IsMade(i)
  BY <1>1 DEF IsMade, Reached, Given, Overriding, Values, Defaults
<1>3. PreparationInv'
  BY <1>1, <1>2 DEF PreparationInv, Made, Values
<1>4. OverrideInv'
  BY <1>1 DEF OverrideInv, Unapplied
<1> QED
  BY <1>3, <1>4

\* As long as nothing is prepared no override is applied.
LEMMA SameOverrides ==
    ASSUME OverrideInv, prepared # "OK" \/ client # "editor", UNCHANGED <<client, overrides>>
    PROVE  OverrideInv'
<1>1. Unapplied' = Unapplied
  BY DEF Unapplied
<1>2. Unapplied = DOMAIN overrides
  <2>1. CASE prepared # "OK"
    BY <2>1 DEF OverrideInv
  <2>2. CASE client # "editor"
    <3>1. DOMAIN overrides = {}
      BY <2>2 DEF OverrideInv
    <3> QED
      BY <3>1 DEF Unapplied
  <2> QED
    BY <2>1, <2>2
<1> QED
  BY <1>1, <1>2 DEF OverrideInv

\* What program_prepare makes is new.
LEMMA PreparesAfresh ==
    ASSUME ProgramsInv, Prepare, \A i \in DOMAIN instances : Age(i) = 0
    PROVE  \A i \in DOMAIN instances' : Age(i)' = 0
<1>1. ChainInv /\ DOMAIN instances = 1 .. Len(instances) /\ Len(instances) \in Nat
      /\ instances \in Seq({instances[i] : i \in DOMAIN instances})
  BY DEF ProgramsInv, ArenaInv, ChainInv
<1>2. CASE Abandoned
  BY <1>2 DEF Abandoned, Emptied
<1>3. CASE BuildNode /\ ~Abandoned
  <2>1. PICK key : AddSucceeds(key)
    BY <1>3 DEF BuildNode
  <2> DEFINE effect == RegistryFind(registry, key)
             made == [effect |-> effect, context |-> Context(effect),
                      values |-> Defaults(effect), age |-> 0]
  <2>2. instances' = Append(instances, made) /\ made.age = 0
    BY <2>1 DEF AddSucceeds, AppendInstance
  <2> HIDE DEF made
  <2>3. \A i \in DOMAIN instances' : IF i \in DOMAIN instances THEN instances'[i] = instances[i]
                                     ELSE instances'[i] = made
    BY <1>1, <2>2
  <2> QED
    BY <2>2, <2>3 DEF Age
<1>4. CASE BuildValue /\ ~Abandoned
  <2>1. PICK i, id, value : SetSucceeds(i, id, value)
    BY <1>4 DEF BuildValue
  <2>2. ChangesOne(i, id, value)
    BY <1>1, <2>1, SetChangesOne
  <2> QED
    BY <2>2 DEF ChangesOne, Age
<1> QED
  BY <1>2, <1>3, <1>4 DEF Prepare

\* The host process of the editor, up to its first frame.
LEMMA EditorPrepares ==
    ASSUME ProgramsInv, client = "editor", client' = client, edited' = edited, registry' = registry,
           Start \/ PrepareStep \/ \E k \in DOMAIN overrides : Override(k)
    PROVE  PreparationInv' /\ OverrideInv' /\ SessionInv'
<1>0. PreparationInv /\ OverrideInv /\ SessionInv /\ edited \in Edited
  BY DEF ProgramsInv, SessionInv
<1>1. CASE Start
  <2>1. /\ pc = "arguments" /\ pc' = "prepare" /\ prepared = "none" /\ instances = << >>
        /\ UNCHANGED <<overrides, request, left, answered>>
    BY <1>0, <1>1 DEF Start, SessionInv
  <2>2. OverrideInv'
    BY <1>0, <2>1, SameOverrides
  <2>3. PreparationInv' /\ instances' = << >>
    <3>1. CASE PrepareBegins(edited)
      <4>1. instances' = << >>
        BY <2>1, <3>1 DEF PrepareBegins, chain
      <4>2. PICK p \in Edited \cup Programs : PrepareBegins(p)
        BY <1>0, <3>1
      <4> QED
        BY <4>1, <4>2, BeginsRightly
    <3>2. CASE UNCHANGED runtimeVars
      BY <1>0, <2>1, <3>2, SamePreparation DEF runtimeVars, chain
    <3> QED
      BY <1>1, <3>1, <3>2 DEF Start
  <2>4. SessionInv'
    BY <1>0, <2>1, <2>3 DEF SessionInv, StreamKeepsTime
  <2> QED
    BY <2>2, <2>3, <2>4
<1>2. CASE PrepareStep
  <2>1. /\ Prepare /\ prepared = "building" /\ UNCHANGED <<pc, overrides, request, left, answered, mode>>
    BY <1>2 DEF PrepareStep, Prepare, BuildNode, BuildValue, hostVars, process
  <2>2. PreparationInv' /\ OverrideInv'
    BY <1>0, <2>1, PreparesRightly, SameOverrides
  <2>3. pc \notin {"arguments", "header", "blocks"}
    BY <1>0, <2>1 DEF SessionInv, Prepared
  <2>4. pc = "prepare" => \A i \in DOMAIN instances' : Age(i)' = 0
    BY <1>0, <2>1, PreparesAfresh DEF SessionInv
  <2>5. SessionInv'
    BY <1>0, <2>1, <2>3, <2>4 DEF SessionInv, StreamKeepsTime
  <2> QED
    BY <2>2, <2>5
<1>3. CASE \E k \in DOMAIN overrides : Override(k)
  <2>1. PICK k \in DOMAIN overrides : Override(k)
    BY <1>3
  <2>2. pc = "prepare" /\ UNCHANGED <<pc, request, left, answered>>
    BY <2>1 DEF Override
  <2>3. /\ PreparationInv' /\ OverrideInv'
        /\ DOMAIN instances' = DOMAIN instances
        /\ \A i \in DOMAIN instances : instances'[i].age = instances[i].age
    BY <2>1, OverridesRightly
  <2>4. SessionInv'
    BY <1>0, <2>2, <2>3 DEF SessionInv, StreamKeepsTime, Age
  <2> QED
    BY <2>3, <2>4
<1> QED
  BY <1>1, <1>2, <1>3

\* A block: every effect is older by what is left no more.
LEMMA BlockKeepsTime ==
    ASSUME ProgramsInv, client = "editor", client' = client, edited' = edited, mode' = mode,
           Block
    PROVE  PreparationInv' /\ OverrideInv' /\ SessionInv'
<1> PICK frames : frames = Lesser(left, BlockFrames)
  OBVIOUS
<1>0. PreparationInv /\ OverrideInv /\ SessionInv /\ ChainInv
  BY DEF ProgramsInv, ArenaInv
<1>1. /\ pc = "blocks" /\ left > 0 /\ Process(frames) /\ prepared = "OK" /\ Prepared
      /\ UNCHANGED <<library, accepted, preparation, overrides, request, answered>>
      /\ IF status' = "OK" THEN left' = left - frames /\ pc' = pc
         ELSE left' = left /\ (mode = "stream" => pc' = "exited") /\ pc' \in {"exited", "write"}
  BY <1>0 DEF Block, FailureEnds, Exits, SessionInv, Prepared
<1>2. {request, left, answered} \subseteq Nat /\ BlockFrames \in Nat /\ frames \in Nat /\ frames <= left
  BY <1>0, EffectChainAssumption DEF SessionInv, Lesser
<1>3. /\ DOMAIN instances' = DOMAIN instances /\ Len(instances') = Len(instances)
      /\ \A i \in DOMAIN instances :
           /\ instances'[i].effect = instances[i].effect
           /\ instances'[i].values = instances[i].values
           /\ status' = "OK" => instances'[i].age = instances[i].age + frames
  BY <1>0, <1>1, ProcessAges
<1>4. UNCHANGED <<registry, prepared>>
  BY <1>1 DEF Process, memory, preparation
<1>5. PreparationInv'
  BY <1>1, <1>3, <1>4, WholeStaysWhole
<1>6. OverrideInv'
  BY <1>0, <1>1, <1>4 DEF OverrideInv, Unapplied
<1>7. Prepared'
  BY <1>1, <1>4 DEF Prepared
<1>8. StreamKeepsTime'
  <2> SUFFICES ASSUME mode = "stream", pc' \in {"header", "blocks"}
               PROVE  Accepted' /\ \A i \in DOMAIN instances' : Age(i)' = answered' + request' - left'
    BY <1>7 DEF StreamKeepsTime
  <2>1. status' = "OK" /\ left' = left - frames
    BY <1>1
  <2>2. Accepted /\ \A i \in DOMAIN instances : Age(i) = answered + request - left
    BY <1>0, <1>1 DEF SessionInv, StreamKeepsTime
  <2>3. \A i \in DOMAIN instances : Age(i)' = answered' + request' - left'
    <3> SUFFICES ASSUME NEW i \in DOMAIN instances
                 PROVE  Age(i)' = answered' + request' - left'
      OBVIOUS
    <3>1. Age(i)' = Age(i) + frames /\ Age(i) = answered + request - left
      BY <1>3, <2>1, <2>2 DEF Age
    <3>2. answered' = answered /\ request' = request
      BY <1>1
    <3> QED
      BY <1>2, <2>1, <3>1, <3>2
  <2> QED
    BY <1>1, <1>3, <2>2, <2>3 DEF Accepted
<1>9. {request', left', answered'} \subseteq Nat
  BY <1>1, <1>2
<1>10. pc' \in {"blocks", "exited", "write"}
  BY <1>1
<1> QED
  BY <1>0, <1>5, <1>6, <1>7, <1>8, <1>9, <1>10 DEF SessionInv

\* What the requests and the answers count.
LEMMA SessionKeepsTime ==
    ASSUME ProgramsInv, client = "editor", client' = client, edited' = edited, mode' = mode,
           BadArguments \/ Ready \/ Header \/ Answer \/ Write
    PROVE  PreparationInv' /\ OverrideInv' /\ SessionInv'
<1>0. PreparationInv /\ OverrideInv /\ SessionInv
  BY DEF ProgramsInv
<1>1. UNCHANGED runtimeVars /\ UNCHANGED overrides
  BY DEF BadArguments, Ready, Header, Answer, Write
<1>2. PreparationInv' /\ OverrideInv'
  BY <1>0, <1>1, SamePreparation DEF runtimeVars
<1>3. UNCHANGED <<registry, instances, prepared>>
  BY <1>1 DEF runtimeVars, chain, preparation
<1>4. (Prepared' <=> Prepared) /\ (Accepted' <=> Accepted)
      /\ DOMAIN instances' = DOMAIN instances /\ \A i : Age(i)' = Age(i)
  BY <1>1, <1>3 DEF Prepared, Accepted, Age
<1>5. /\ request \in Nat /\ left \in Nat /\ answered \in Nat /\ edited \in Edited
      /\ Requests \subseteq Nat
  BY <1>0, EditorHostAssumption DEF SessionInv
<1>6. CASE pc' \in {"exited", "write"}
  <2>1. request' \in Nat /\ left' \in Nat /\ answered' \in Nat
    BY <1>5 DEF BadArguments, Ready, Header, Answer, Write
  <2> QED
    BY <1>2, <1>5, <1>6, <2>1 DEF SessionInv, StreamKeepsTime
<1>7. CASE Ready /\ pc' = "header"
  <2>1. /\ pc = "prepare" /\ Prepared /\ Accepted /\ UNCHANGED <<request, left, answered>>
    BY <1>7 DEF Ready, ReadyStatus, Exits
  <2>2. request = 0 /\ left = 0 /\ answered = 0 /\ \A i \in DOMAIN instances : Age(i) = 0
    BY <1>0, <2>1 DEF SessionInv
  <2> QED
    BY <1>2, <1>4, <1>5, <1>7, <2>1, <2>2 DEF SessionInv, StreamKeepsTime
<1>8. CASE Ready /\ pc' = "blocks"
  <2>1. /\ mode = "render" /\ Prepared /\ answered' = answered
        /\ request' \in Requests /\ left' \in Requests
    BY <1>8 DEF Ready, Exits
  <2> QED
    BY <1>2, <1>4, <1>5, <1>8, <2>1 DEF SessionInv, StreamKeepsTime
<1>9. CASE Header /\ pc' = "blocks"
  <2>1. /\ pc = "header" /\ answered' = answered /\ request' = left' /\ left' \in Requests
    BY <1>9 DEF Header, Exits
  <2>2. request = 0 /\ left = 0 /\ Prepared
    BY <1>0, <2>1 DEF SessionInv
  <2>3. mode = "stream" => Accepted /\ \A i \in DOMAIN instances : Age(i) = answered' + request' - left'
    BY <1>0, <1>5, <2>1, <2>2 DEF SessionInv, StreamKeepsTime
  <2> QED
    BY <1>2, <1>4, <1>5, <1>9, <2>1, <2>2, <2>3 DEF SessionInv, StreamKeepsTime
<1>10. CASE Answer /\ pc' = "header"
  <2>1. /\ pc = "blocks" /\ left = 0 /\ left' = left /\ request' = 0
        /\ answered' = answered + request /\ Prepared
    BY <1>0, <1>10 DEF Answer, SessionInv
  <2>2. mode = "stream" =>
          Accepted /\ \A i \in DOMAIN instances : Age(i) = answered' + request' - left'
    BY <1>0, <1>5, <2>1 DEF SessionInv, StreamKeepsTime
  <2> QED
    BY <1>2, <1>4, <1>5, <1>10, <2>1, <2>2 DEF SessionInv, StreamKeepsTime
<1> QED
  BY <1>6, <1>7, <1>8, <1>9, <1>10 DEF BadArguments, Ready, Header, Answer, Write, Exits


\* The caller of the headers: a call of its own gives up what was prepared.
LEMMA CallerPrepares ==
    ASSUME ProgramsInv, client = "chain", client' = client, ChainCalls
    PROVE  PreparationInv' /\ OverrideInv' /\ SessionInv'
<1>0. PreparationInv /\ OverrideInv /\ SessionInv /\ pc = "calls"
  BY DEF ProgramsInv, SessionInv
<1>1. UNCHANGED <<pc, edited, overrides, request, left, answered, mode>>
  BY DEF ChainCalls, Calls, OnChain, PrepareStep, hostVars, process
<1>2. OverrideInv'
  BY <1>0, <1>1, SameOverrides
<1>3. SessionInv'
  BY <1>0, <1>1 DEF SessionInv, StreamKeepsTime
<1>4. PreparationInv'
  <2>1. CASE \E p \in Programs : Calls(PrepareBegins(p))
    <3>1. PICK p \in Edited \cup Programs : PrepareBegins(p)
      BY <2>1 DEF Calls
    <3> QED
      BY <3>1, BeginsRightly
  <2>2. CASE PrepareStep
    BY <1>1, <2>2, PreparesRightly DEF PrepareStep
  <2>3. CASE prepared' = "none"
    BY <2>3 DEF PreparationInv
  <2> QED
    BY <2>1, <2>2, <2>3 DEF ChainCalls, OnChain
<1> QED
  BY <1>2, <1>3, <1>4

\* Where a bank has a program there is one to go to.
LEMMA CursorStays ==
    ASSUME ProgramsInv, client = "cursor", client' = client,
           UNCHANGED <<library, accepted, registry>>, CursorCalls
    PROVE  PreparationInv' /\ OverrideInv' /\ SessionInv' /\ CursorInv'
<1>0. PreparationInv /\ OverrideInv /\ SessionInv /\ CursorInv /\ pc = "calls"
  BY DEF ProgramsInv, SessionInv
<1>1. /\ UNCHANGED <<chain, status, preparation, pc, mode, edited, overrides, request, left, answered>>
      /\ \E bank, position : MoveTo(bank, position)
  BY DEF CursorCalls, Calls, hostVars, process, CursorInitialize, NextProgram, PreviousProgram,
         NextBank, PreviousBank, SelectBank, MoveTo
<1>2. PreparationInv' /\ OverrideInv'
  BY <1>0, <1>1, SamePreparation
<1>3. SessionInv'
  BY <1>0, <1>1 DEF SessionInv, StreamKeepsTime
<1>4. ASSUME accepted = "OK", NEW bank, NEW position, IsAt(BankAt(bank), position), MoveTo(bank, position)
      PROVE  IsAt(BankAt(cursor.bank)', cursor'.program)
  <2>1. cursor'.bank = bank /\ cursor'.program = position
    BY <1>4 DEF MoveTo
  <2> QED
    BY <1>4, <2>1 DEF BankAt, IsAt
<1>5. ASSUME accepted = "OK"
      PROVE  IsAt(BankAt(cursor.bank)', cursor'.program)
  <2>1. \A b \in DOMAIN library.banks :
           /\ BankAt(b) = library.banks[b] /\ BankAt(b) # NULL
           /\ DOMAIN BankAt(b).programs = 1 .. Len(BankAt(b).programs)
           /\ Len(BankAt(b).programs) \in Nat \ {0} /\ IsAt(BankAt(b), 1)
    <3> SUFFICES ASSUME NEW b \in DOMAIN library.banks
                 PROVE  /\ BankAt(b) = library.banks[b] /\ BankAt(b) # NULL
                        /\ DOMAIN BankAt(b).programs = 1 .. Len(BankAt(b).programs)
                        /\ Len(BankAt(b).programs) \in Nat \ {0} /\ IsAt(BankAt(b), 1)
      OBVIOUS
    <3>1. BankAt(b) = library.banks[b]
      BY DEF BankAt
    <3>2. BankAt(b) # NULL /\ IsArray(BankAt(b).programs) /\ 1 \in DOMAIN BankAt(b).programs
      BY <1>0, <1>5, <3>1, AcceptedBanks DEF CursorInv
    <3> QED
      BY <3>1, <3>2, ArrayIndices DEF IsAt
  <2>2. \A b, position : IsAt(BankAt(b), position) => b \in DOMAIN library.banks
    BY DEF IsAt, BankAt
  <2>3. DOMAIN library.banks = 1 .. Len(library.banks) /\ Len(library.banks) \in Nat
    BY <1>0, ArrayIndices DEF CursorInv, HasBanks
  <2>4. CASE NextProgram
    <3> DEFINE programs == BankAt(cursor.bank).programs
    <3>1. cursor.bank \in DOMAIN library.banks /\ cursor.program \in DOMAIN programs
      BY <2>2, <2>4 DEF NextProgram, IsAt
    <3>2. DOMAIN programs = 1 .. Len(programs) /\ Len(programs) \in Nat \ {0} /\ BankAt(cursor.bank) # NULL
      BY <2>1, <3>1
    <3> HIDE DEF programs
    <3>3. (cursor.program % Len(programs)) + 1 \in DOMAIN programs
      BY <3>1, <3>2
    <3>4. IsAt(BankAt(cursor.bank), (cursor.program % Len(programs)) + 1)
      BY <3>2, <3>3 DEF IsAt, programs
    <3> QED
      BY <1>4, <1>5, <2>4, <3>4 DEF NextProgram, programs
  <2>5. CASE PreviousProgram
    <3> DEFINE programs == BankAt(cursor.bank).programs
               target == IF cursor.program = 1 THEN Len(programs) ELSE cursor.program - 1
    <3>1. cursor.bank \in DOMAIN library.banks /\ cursor.program \in DOMAIN programs
      BY <2>2, <2>5 DEF PreviousProgram, IsAt
    <3>2. DOMAIN programs = 1 .. Len(programs) /\ Len(programs) \in Nat \ {0} /\ BankAt(cursor.bank) # NULL
      BY <2>1, <3>1
    <3> HIDE DEF programs
    <3>3. target \in DOMAIN programs
      BY <3>1, <3>2
    <3>4. IsAt(BankAt(cursor.bank), target)
      BY <3>2, <3>3 DEF IsAt, programs
    <3> QED
      BY <1>4, <1>5, <2>5, <3>4 DEF PreviousProgram, programs
  <2>6. CASE NextBank
    <3>1. cursor.bank \in DOMAIN library.banks
      BY <2>6 DEF NextBank
    <3>2. (cursor.bank % Len(library.banks)) + 1 \in DOMAIN library.banks
      BY <2>3, <3>1
    <3> QED
      BY <1>4, <1>5, <2>1, <2>6, <3>2 DEF NextBank
  <2>7. CASE PreviousBank
    <3> DEFINE target == IF cursor.bank = 1 THEN Len(library.banks) ELSE cursor.bank - 1
    <3>1. cursor.bank \in DOMAIN library.banks
      BY <2>7 DEF PreviousBank
    <3>2. target \in DOMAIN library.banks
      BY <2>3, <3>1
    <3> QED
      BY <1>4, <1>5, <2>1, <2>7, <3>2 DEF PreviousBank
  <2>8. CASE \E bank, position : IsAt(BankAt(bank), position) /\ MoveTo(bank, position)
    BY <1>4, <1>5, <2>8
  <2> QED
    BY <2>4, <2>5, <2>6, <2>7, <2>8 DEF CursorCalls, Calls, CursorInitialize, SelectBank
<1>6. CursorInv'
  BY <1>0, <1>5 DEF CursorInv
<1> QED
  BY <1>2, <1>3, <1>6

\* The tables that the programs start with are arrays.
LEMMA TablesAtFirst ==
    ASSUME Init
    PROVE  HasBanks(library)
<1>1. CASE IsApplication
  <2>1. /\ library.catalog = ncr2_builtin_program_catalog
        /\ library.banks = << ncr2_starter_program_bank >>
    BY <1>1 DEF IsApplication, ncr2_builtin_program_library
  <2>2. IsArray(ncr2_builtin_program_catalog)
    BY DEF IsArray, ncr2_builtin_program_catalog
  <2>3. ncr2_starter_program_bank.programs = [i \in 1 .. 6 |-> <<OPEN, i>>]
    BY DEF ncr2_starter_program_bank
  <2>4. IsArray(ncr2_starter_program_bank.programs)
    BY <2>3 DEF IsArray
  <2> QED
    BY <2>1, <2>2, <2>4 DEF HasBanks, IsArray
<1>2. CASE IsEditor
  <2>1. /\ library.catalog = << edited >>
        /\ library.banks = << [key |-> "bank", complete |-> TRUE, programs |-> << edited.key >>] >>
    BY <1>2 DEF IsEditor, EditorLibrary
  <2>2. DOMAIN library.banks = {1} /\ library.banks[1].programs = << edited.key >>
    BY <2>1
  <2>3. \A only : IsArray(<< only >>)
    BY DEF IsArray
  <2> QED
    BY <2>1, <2>2, <2>3 DEF HasBanks
<1>3. CASE IsCaller
  BY <1>3, ProgramsAssumption DEF IsCaller
<1> QED
  BY <1>1, <1>2, <1>3 DEF Init

\* The invariant holds before anything was prepared.
LEMMA ProgramsAtFirst ==
    ASSUME Init
    PROVE  ProgramsInv
<1>1. /\ instances = << >> /\ prepared = "none" /\ program = NULL /\ cursor = NULL
      /\ request = 0 /\ left = 0 /\ answered = 0
      /\ pc = IF client = "editor" THEN "arguments" ELSE "calls"
      /\ accepted = LibraryValidate(library, registry)
  BY DEF Init, RuntimeInit, HostInit, ChainInit
<1>2. ArenaInv
  BY ArenaAtFirst
<1>3. PreparationInv
  BY <1>1 DEF PreparationInv
<1>4. OverrideInv
  <2>1. CASE overrides = << >> /\ client # "editor"
    BY <2>1 DEF OverrideInv, Unapplied, IsArray
  <2>2. CASE overrides \in OverrideLists /\ client = "editor"
    BY <2>2, ProgramsAssumption DEF OverrideInv, Unapplied
  <2> QED
    BY <2>1, <2>2 DEF Init, IsApplication, IsEditor, IsCaller
<1>5. SessionInv
  <2>1. client = "editor" => edited \in Edited
    BY DEF Init, IsApplication, IsEditor, IsCaller
  <2> QED
    BY <1>1, <2>1 DEF SessionInv, StreamKeepsTime
<1>6. CursorInv
  BY <1>1, TablesAtFirst DEF CursorInv
<1> QED
  BY <1>2, <1>3, <1>4, <1>5, <1>6 DEF ProgramsInv

\* program_runtime.c and its callers: for every registry, library, program,
\* override and request the state is as ProgramsInv says.
THEOREM ProgramsInvariant == Spec => []ProgramsInv
<1>1. Init => ProgramsInv
  BY ProgramsAtFirst
<1>2. ProgramsInv /\ ArenaInv' /\ [Next]_vars => ProgramsInv'
  <2> SUFFICES ASSUME ProgramsInv, ArenaInv', [Next]_vars PROVE ProgramsInv'
    OBVIOUS
  <2>0. PreparationInv /\ OverrideInv /\ SessionInv /\ CursorInv
    BY DEF ProgramsInv
  <2>1. UNCHANGED <<registry, library, accepted, client, mode, edited>>
    BY NothingElseChanges DEF vars, editorVars, runtimeVars, hostVars, process
  <2>2. CASE UNCHANGED editorVars
    <3>1. PreparationInv' /\ OverrideInv'
      BY <2>0, <2>2, SamePreparation DEF editorVars, runtimeVars, hostVars, process
    <3>2. SessionInv' /\ CursorInv'
      BY <2>0, <2>2
      DEF editorVars, runtimeVars, hostVars, process, chain, preparation, SessionInv,
          StreamKeepsTime, Prepared, Accepted, Age, CursorInv, BankAt
    <3> QED
      BY <3>1, <3>2 DEF ProgramsInv
  <2>3. CASE UNCHANGED cursor
    <3>1. CursorInv'
      BY <2>0, <2>1, <2>3 DEF CursorInv, BankAt
    <3>2. CASE client = "editor" /\ EditorNext
      BY <2>1, <3>1, <3>2, EditorPrepares, BlockKeepsTime, SessionKeepsTime DEF ProgramsInv, EditorNext
    <3>3. CASE client = "chain" /\ ChainCalls
      BY <2>1, <3>1, <3>3, CallerPrepares DEF ProgramsInv
    <3>4. CASE client = "cursor" /\ CursorCalls
      BY <2>1, <3>4, CursorStays DEF ProgramsInv
    <3> QED
      BY <2>2, <3>2, <3>3, <3>4 DEF Next, vars
  <2>4. CASE client = "cursor" /\ CursorCalls
    BY <2>1, <2>4, CursorStays DEF ProgramsInv
  <2>5. CASE ~UNCHANGED cursor /\ client \in {"editor", "chain"}
    <3>1. ~EditorNext
      BY <2>5 DEF EditorNext, BadArguments, Start, PrepareStep, Ready, Override, Header, Block,
                  Answer, Write, PrepareBegins, Prepare, BuildNode, BuildValue, runtimeVars
    <3>2. ~ChainCalls
      BY <2>5 DEF ChainCalls, Calls, OnChain, PrepareStep, PrepareBegins, Prepare, BuildNode, BuildValue
    <3> QED
      BY <2>2, <2>5, <3>1, <3>2 DEF Next, vars
  <2> QED
    BY <2>2, <2>3, <2>4, <2>5 DEF Next, vars
<1> QED
  BY <1>1, <1>2, ArenaInvariant, PTL DEF Spec

\* program_runtime.h:99-102: for every program, registry and callback that
\* fails, what program_prepare leaves is the whole program or nothing.
THEOREM PreparedStaysWhole == Spec => []PreparedIsWhole
<1>1. ProgramsInv => PreparedIsWhole
  <2> SUFFICES ASSUME ProgramsInv PROVE PreparedIsWhole
    OBVIOUS
  <2>1. ASSUME prepared = "OK"
        PROVE  /\ [i \in DOMAIN instances |-> instances[i].effect.key]
                    = [i \in DOMAIN program.nodes |-> program.nodes[i].effect]
               /\ \A i \in DOMAIN instances : \A id \in DOMAIN instances[i].values :
                    instances[i].values[id] = Given(i, id)
    <3>1. /\ IsArray(program.nodes)
          /\ \A i \in DOMAIN program.nodes : RegistryFind(registry, program.nodes[i].effect) # NULL
      BY <2>1, ProgramIsWellFormed DEF ProgramsInv
    <3>2. Len(instances) = Len(program.nodes) /\ \A i \in DOMAIN instances : IsMade(i)
      BY <2>1 DEF ProgramsInv, PreparationInv, Made
    <3>3. DOMAIN instances = DOMAIN program.nodes
      BY <3>1, <3>2, ArrayIndices DEF ProgramsInv, ArenaInv, ChainInv
    <3>4. DOMAIN registry \subseteq Nat
      BY RegistriesAreTyped DEF ProgramsInv, ArenaInv
    <3>5. \A i \in DOMAIN instances : instances[i].effect.key = program.nodes[i].effect
      <4> SUFFICES ASSUME NEW i \in DOMAIN instances
                   PROVE  instances[i].effect.key = program.nodes[i].effect
        OBVIOUS
      <4>1. /\ instances[i].effect = RegistryFind(registry, program.nodes[i].effect)
            /\ RegistryFind(registry, program.nodes[i].effect) # NULL
        BY <3>1, <3>2, <3>3 DEF IsMade
      <4> QED
        BY <3>4, <4>1, FoundHasKey
    <3>6. \A i \in DOMAIN instances : \A id : Reached(i, id)
      BY <2>1 DEF Reached
    <3> QED
      BY <3>2, <3>3, <3>5, <3>6 DEF IsMade
  <2> QED
    BY <2>1 DEF PreparedIsWhole, ProgramsInv, PreparationInv
<1> QED
  BY <1>1, ProgramsInvariant, PTL

\* editor_host.c:16: however the frames are cut into requests and blocks, the
\* history of every effect is as long as what was answered.
THEOREM StreamStaysInTime == Spec => []StreamKeepsTime
<1>1. ProgramsInv => StreamKeepsTime
  BY DEF ProgramsInv, SessionInv
<1> QED
  BY <1>1, ProgramsInvariant, PTL

\* program_library_validate: what it accepts can be moved through and prepared,
\* for every library, registry and order of calls.
THEOREM LibraryStaysUsable == Spec => []LibraryIsUsable
<1>1. ProgramsInv => LibraryIsUsable
  <2> SUFFICES ASSUME ProgramsInv PROVE LibraryIsUsable
    OBVIOUS
  <2>1. ASSUME accepted = "OK", cursor # NULL
        PROVE  Current # NULL
    <3>1. /\ IsAt(BankAt(cursor.bank), cursor.program)
          /\ HasBanks(library) /\ LibraryValidate(library, registry) = "OK"
      BY <2>1 DEF ProgramsInv, CursorInv
    <3>2. cursor.bank \in DOMAIN library.banks /\ BankAt(cursor.bank) = library.banks[cursor.bank]
      BY <3>1 DEF IsAt, BankAt
    <3>3. \A i \in DOMAIN library.banks[cursor.bank].programs :
             CatalogFind(library.catalog, library.banks[cursor.bank].programs[i]) # NULL
      BY <3>1, <3>2, AcceptedBanks
    <3> QED
      BY <3>1, <3>2, <3>3 DEF Current, IsAt
  <2> QED
    BY <2>1 DEF LibraryIsUsable, ProgramsInv, PreparationInv
<1> QED
  BY <1>1, ProgramsInvariant, PTL


-----------------------------------------------------------------------------
(* The navigation switch.                                                  *)

\* The saturating counter is what the history counts.
LEMMA SaturatesAsCapped ==
    ASSUME NEW value \in 0 .. Word, NEW elapsed \in 0 .. Word
    PROVE  /\ SaturatingAdd(value, elapsed) = Capped(value + elapsed)
           /\ Capped(value + elapsed) \in 0 .. Word
           /\ value <= Capped(value + elapsed)
BY ProgramSelectorAssumption DEF SaturatingAdd, Capped

\* From a program to the next one, which is another one if there are two.
LEMMA NextIsAnother ==
    ASSUME NEW programs \in Nat \ {0}, NEW here \in Nat, here < programs
    PROVE  /\ (here + 1) % programs \in Nat /\ (here + 1) % programs < programs
           /\ programs > 1 => (here + 1) % programs # here
           /\ programs = 1 => (here + 1) % programs = here
<1>1. CASE here + 1 < programs
  <2>1. (here + 1) % programs = here + 1
    BY <1>1
  <2> QED
    BY <1>1, <2>1
<1>2. CASE here + 1 = programs
  <2>1. (here + 1) % programs = 0
    BY <1>2
  <2> QED
    BY <1>2, <2>1
<1> QED
  BY <1>1, <1>2

\* What the invariant and the assumption say of the counters.
LEMMA SelectorTypes ==
    ASSUME SelectorInv
    PROVE  /\ pressed_ms \in 0 .. Word /\ released_ms \in 0 .. Word
           /\ held \in 0 .. Word /\ rest \in 0 .. Word
           /\ Word \in Nat /\ HoldThreshold \in 1 .. Word /\ ReleaseRearm \in 1 .. Word
BY ProgramSelectorAssumption DEF SelectorInv

\* A sample of the released switch.
LEMMA ReleasedKeeps ==
    ASSUME SelectorInv, NEW elapsed \in 0 .. Word, Released(elapsed)
    PROVE  SelectorInv' /\ changes' <= changes /\ held' = 0
<1>1. /\ pressed_ms \in 0 .. Word /\ released_ms \in 0 .. Word
      /\ held \in 0 .. Word /\ rest \in 0 .. Word
      /\ Word \in Nat /\ HoldThreshold \in 1 .. Word /\ ReleaseRearm \in 1 .. Word
  BY SelectorTypes
<1>2. /\ SaturatingAdd(released_ms, elapsed) = Capped(released_ms + elapsed)
      /\ Capped(rest + elapsed) \in 0 .. Word
  BY <1>1, SaturatesAsCapped
<1>3. /\ pressed_ms' = 0 /\ held' = 0 /\ rest' = Capped(rest + elapsed)
      /\ UNCHANGED <<count, selected>>
      /\ changes' = IF rest' >= ReleaseRearm THEN 0 ELSE changes
  BY DEF Released
<1>3a. /\ count' \in Nat /\ selected' \in Nat
       /\ count' = 0 => selected' = 0
       /\ count' > 0 => selected' < count'
  BY <1>3 DEF SelectorInv
<1>4. CASE latched /\ rest' < ReleaseRearm
  <2>1. SaturatingAdd(released_ms, elapsed) = rest'
    BY <1>2, <1>3, <1>4 DEF SelectorInv
  <2>1a. ~(SaturatingAdd(released_ms, elapsed) >= ReleaseRearm) /\ ~(rest' >= ReleaseRearm)
    BY <1>1, <1>2, <1>3, <1>4, <2>1
  <2>2. latched' = TRUE /\ released_ms' = rest' /\ changes' = changes
    BY <1>3, <1>4, <2>1, <2>1a DEF Released
  <2> QED
    BY <1>1, <1>2, <1>3, <1>4, <2>2 DEF SelectorInv
<1>5. CASE latched /\ ~(rest' < ReleaseRearm)
  <2>1. SaturatingAdd(released_ms, elapsed) = rest'
    BY <1>2, <1>3, <1>5 DEF SelectorInv
  <2>2. rest' >= ReleaseRearm
    BY <1>1, <1>2, <1>3, <1>5
  <2>3. latched' = FALSE /\ released_ms' = 0 /\ changes' = 0
    BY <1>3, <1>5, <2>1, <2>2 DEF Released
  <2>4. {pressed_ms', released_ms', held', rest'} \subseteq 0 .. Word /\ held' < HoldThreshold
    BY <1>1, <1>2, <1>3, <2>3
  <2>5. SelectorInv'
    BY <1>3, <1>3a, <2>3, <2>4 DEF SelectorInv
  <2>6. changes' <= changes
    BY <2>3 DEF SelectorInv
  <2> QED
    BY <1>3, <2>5, <2>6
<1>6. CASE ~latched
  <2>1. latched' = FALSE /\ released_ms' = 0 /\ changes' = 0
    BY <1>3, <1>6 DEF Released, SelectorInv
  <2>2. {pressed_ms', released_ms', held', rest'} \subseteq 0 .. Word /\ held' < HoldThreshold
    BY <1>1, <1>2, <1>3, <2>1
  <2>3. SelectorInv'
    BY <1>3, <1>3a, <2>1, <2>2 DEF SelectorInv
  <2>4. changes' <= changes
    BY <2>1 DEF SelectorInv
  <2> QED
    BY <1>3, <2>3, <2>4
<1> QED
  BY <1>4, <1>5, <1>6

\* A sample of the pressed switch, and the change that it makes.
LEMMA PressedKeeps ==
    ASSUME SelectorInv, count > 0, NEW elapsed \in 0 .. Word, Pressed(elapsed)
    PROVE  /\ SelectorInv'
           /\ changes' > changes => changes = 0 /\ held' >= HoldThreshold
           /\ held' >= HoldThreshold /\ changes = 0 /\ count > 1 => changes' = 1
<1>1. /\ pressed_ms \in 0 .. Word /\ released_ms \in 0 .. Word
      /\ held \in 0 .. Word /\ rest \in 0 .. Word
      /\ Word \in Nat /\ HoldThreshold \in 1 .. Word /\ ReleaseRearm \in 1 .. Word
  BY SelectorTypes
<1>2. /\ SaturatingAdd(pressed_ms, elapsed) = Capped(pressed_ms + elapsed)
      /\ Capped(held + elapsed) \in 0 .. Word
  BY <1>1, SaturatesAsCapped
<1>3. /\ released_ms' = 0 /\ rest' = 0 /\ held' = Capped(held + elapsed)
      /\ count' = count
      /\ changes' = IF selected' # selected THEN changes + 1 ELSE changes
  BY DEF Pressed
<1>4. count \in Nat \ {0} /\ selected \in Nat /\ selected < count /\ changes \in {0, 1}
  BY DEF SelectorInv
<1>5. CASE latched
  <2>1. latched' = TRUE /\ pressed_ms' = 0 /\ selected' = selected /\ changes' = changes
    BY <1>3, <1>5 DEF Pressed, SelectorInv
  <2>2. count > 1 => changes = 1
    BY <1>5 DEF SelectorInv
  <2>3. SelectorInv'
    BY <1>1, <1>2, <1>3, <1>4, <2>1, <2>2 DEF SelectorInv
  <2> QED
    BY <1>4, <2>1, <2>2, <2>3
<1>6. CASE ~latched /\ held' >= HoldThreshold
  <2>1. SaturatingAdd(pressed_ms, elapsed) = held' /\ changes = 0
    BY <1>2, <1>3, <1>6 DEF SelectorInv
  <2>2. latched' = TRUE /\ pressed_ms' = 0 /\ selected' = (selected + 1) % count
    BY <1>6, <2>1 DEF Pressed
  <2>3. /\ selected' \in Nat /\ selected' < count
        /\ count > 1 => selected' # selected
        /\ count = 1 => selected' = selected
    BY <1>4, <2>2, NextIsAnother
  <2>4. changes' \in {0, 1} /\ (count > 1 => changes' = 1)
    BY <1>3, <2>1, <2>3
  <2>5. SelectorInv'
    BY <1>1, <1>2, <1>3, <1>4, <2>2, <2>3, <2>4 DEF SelectorInv
  <2> QED
    BY <1>6, <2>1, <2>4, <2>5
<1>7. CASE ~latched /\ ~(held' >= HoldThreshold)
  <2>1. SaturatingAdd(pressed_ms, elapsed) = held' /\ changes = 0
    BY <1>2, <1>3, <1>7 DEF SelectorInv
  <2>2. latched' = FALSE /\ pressed_ms' = held' /\ selected' = selected /\ changes' = changes
    BY <1>3, <1>7, <2>1 DEF Pressed
  <2>3. held' < HoldThreshold
    BY <1>1, <1>2, <1>3, <1>7
  <2>3a. {pressed_ms', released_ms', held', rest'} \subseteq 0 .. Word
    BY <1>1, <1>2, <1>3, <2>2
  <2>4. SelectorInv'
    BY <1>3, <1>4, <2>1, <2>2, <2>3, <2>3a DEF SelectorInv
  <2> QED
    BY <1>4, <1>7, <2>2, <2>4
<1> QED
  BY <1>5, <1>6, <1>7

\* A step of the selector: it keeps the invariant, and a hold changes once.
SelectorStep ==
    /\ SelectorInv'
    /\ changes' > changes => changes = 0 /\ held' >= HoldThreshold
    /\ held' >= HoldThreshold /\ changes = 0 /\ count > 1 => changes' = 1

\* program_selector_sample
LEMMA SampleKeeps ==
    ASSUME SelectorInv, count > 0, NEW pressed, NEW elapsed \in Elapsed,
           SelectorSample(pressed, elapsed)
    PROVE  SelectorStep
<1>1. elapsed \in 0 .. Word
  BY ProgramSelectorAssumption
<1>2. CASE pressed
  BY <1>1, <1>2, PressedKeeps DEF SelectorSample, SelectorStep
<1>3. CASE ~pressed
  <2>1. SelectorInv' /\ changes' <= changes /\ held' = 0
    BY <1>1, <1>3, ReleasedKeeps DEF SelectorSample
  <2>2. changes \in {0, 1} /\ changes' \in {0, 1} /\ HoldThreshold \in 1 .. Word
    BY <2>1, SelectorTypes DEF SelectorInv
  <2> QED
    BY <2>1, <2>2 DEF SelectorStep
<1> QED
  BY <1>2, <1>3

\* program_selector_initialize, once
LEMMA InitializeKeeps ==
    ASSUME SelectorInv, count = 0, NEW programs \in Nat \ {0}, SelectorInitialize(programs)
    PROVE  SelectorStep /\ count' > 0
<1>1. count' = programs /\ selected' = 0 /\ ~latched
  BY DEF SelectorInitialize, SelectorInv
<1>2. UNCHANGED <<selected, pressed_ms, released_ms, latched, held, rest, changes>>
  BY DEF SelectorInitialize
<1>3. SelectorInv'
  BY <1>1, <1>2 DEF SelectorInv
<1>4. held < HoldThreshold /\ held \in 0 .. Word /\ HoldThreshold \in 1 .. Word /\ changes \in {0, 1}
  BY <1>1, SelectorTypes DEF SelectorInv
<1> QED
  BY <1>1, <1>2, <1>3, <1>4 DEF SelectorStep

\* program_selector_select
LEMMA SelectKeeps ==
    ASSUME SelectorInv, NEW target \in Nat, SelectorSelect(target)
    PROVE  SelectorStep
<1>1. /\ pressed_ms \in 0 .. Word /\ released_ms \in 0 .. Word
      /\ held \in 0 .. Word /\ rest \in 0 .. Word
      /\ Word \in Nat /\ HoldThreshold \in 1 .. Word /\ ReleaseRearm \in 1 .. Word
  BY SelectorTypes
<1>2. /\ count' = count /\ selected' = target /\ target < count
      /\ pressed_ms' = 0 /\ released_ms' = 0 /\ held' = 0 /\ rest' = 0 /\ changes' = 0
      /\ latched' = FALSE
  BY DEF SelectorSelect
<1>3. {pressed_ms', released_ms', held', rest'} \subseteq 0 .. Word /\ held' < HoldThreshold
  BY <1>1, <1>2
<1>4. count \in Nat /\ changes \in {0, 1}
  BY DEF SelectorInv
<1>5. count' \in Nat /\ count' # 0 /\ selected' \in Nat /\ selected' < count'
  BY <1>2, <1>4
<1>5a. ~latched' /\ latched' \in BOOLEAN /\ pressed_ms' = held' /\ changes' = 0 /\ changes' \in {0, 1}
  BY <1>2
<1>6. SelectorInv'
  BY <1>3, <1>5, <1>5a DEF SelectorInv
<1> QED
  BY <1>2, <1>3, <1>4, <1>6, <1>1 DEF SelectorStep

\* What a step of any program does to the selector.
LEMMA SelectorMoves ==
    ASSUME NavigationInv, Next
    PROVE  NavigationInv' /\ (SelectorStep \/ UNCHANGED selectorVars)
<1>1. UNCHANGED client
  BY DEF Next, editorVars, hostVars, process, applicationVars, EditorNext, BadArguments, Start,
         PrepareStep, Ready, Override, Header, Block, Answer, Write, ChainCalls, CursorCalls,
         Calls, OnChain
<1>2. CASE UNCHANGED <<selectorVars, app_pc>>
  BY <1>1, <1>2 DEF NavigationInv, SelectorInv, selectorVars
<1>3. CASE client = "application" /\ ProgramsReady
  <2>1. app_pc = "start" /\ app_pc' \in {"confirm", "loop"} /\ count = 0
    BY <1>3 DEF ProgramsReady, NavigationInv
  <2>2. Len(ncr2_starter_program_bank.programs) \in Nat \ {0}
    BY DEF ncr2_starter_program_bank
  <2>3. PICK programs \in Nat \ {0} : SelectorInitialize(programs)
    BY <1>3, <2>2 DEF ProgramsReady
  <2>4. SelectorStep /\ count' > 0
    BY <2>1, <2>3, InitializeKeeps DEF NavigationInv
  <2>5. count' # 0 /\ app_pc' # "start"
    BY <2>1, <2>4
  <2> QED
    BY <2>4, <2>5 DEF NavigationInv, SelectorStep
<1>4. CASE client = "application" /\ Confirm
  <2>1. UNCHANGED selectorVars /\ app_pc # "start" /\ app_pc' # "start"
    BY <1>4 DEF Confirm
  <2> QED
    BY <1>1, <1>4, <2>1 DEF NavigationInv, SelectorInv, selectorVars
<1>5. CASE /\ client = "application"
           /\ \E pressed \in BOOLEAN, elapsed \in Elapsed : NavigationSample(pressed, elapsed)
  <2>1. PICK pressed \in BOOLEAN, elapsed \in Elapsed : NavigationSample(pressed, elapsed)
    BY <1>5
  <2>2. app_pc = "loop" /\ app_pc' = app_pc /\ count # 0 /\ SelectorInv
    BY <1>5, <2>1 DEF NavigationSample, NavigationInv
  <2>3. count > 0 /\ count' = count
    BY <2>1, <2>2 DEF NavigationSample, SelectorSample, Pressed, Released, SelectorInv
  <2>4. SelectorStep
    BY <2>1, <2>2, <2>3, SampleKeeps DEF NavigationSample
  <2> QED
    BY <1>1, <1>5, <2>2, <2>3, <2>4 DEF NavigationInv, SelectorStep
<1>6. CASE client = "navigator" /\ SelectorNext
  <2>1. SelectorInv
    BY DEF NavigationInv
  <2>2. SelectorStep
    <3>1. CASE count = 0 /\ \E programs \in {1, 3} : SelectorInitialize(programs)
      <4>1. PICK programs \in Nat \ {0} : SelectorInitialize(programs)
        BY <3>1
      <4> QED
        BY <2>1, <3>1, <4>1, InitializeKeeps
    <3>2. CASE \E pressed \in BOOLEAN, elapsed \in Elapsed :
                 count > 0 /\ SelectorSample(pressed, elapsed)
      BY <2>1, <3>2, SampleKeeps
    <3>3. CASE \E target \in {0, 2} : SelectorSelect(target)
      BY <2>1, <3>3, SelectKeeps
    <3> QED
      BY <1>6, <3>1, <3>2, <3>3 DEF SelectorNext
  <2> QED
    BY <1>1, <1>6, <2>2 DEF NavigationInv, SelectorStep
<1> QED
  BY <1>2, <1>3, <1>4, <1>5, <1>6 DEF Next, ApplicationNext, applicationVars

\* program_selector.c: for every word, threshold and pattern of samples, one
\* hold is one change, whatever it is interrupted by.
THEOREM OneHoldChangesOnce == Spec => OneChangePerHold
<1>1. Init => NavigationInv
  <2> SUFFICES ASSUME Init PROVE NavigationInv
    OBVIOUS
  <2>1. /\ count = 0 /\ selected = 0 /\ pressed_ms = 0 /\ released_ms = 0 /\ latched = FALSE
        /\ held = 0 /\ rest = 0 /\ changes = 0 /\ app_pc = "start"
    BY DEF Init, ApplicationInit, SelectorIdle
  <2>2. 0 < HoldThreshold /\ 0 \in 0 .. Word
    BY ProgramSelectorAssumption
  <2> QED
    BY <2>1, <2>2 DEF NavigationInv, SelectorInv
<1>2. NavigationInv /\ [Next]_vars => NavigationInv' /\ (SelectorStep \/ UNCHANGED selectorVars)
  <2> SUFFICES ASSUME NavigationInv, [Next]_vars
               PROVE  NavigationInv' /\ (SelectorStep \/ UNCHANGED selectorVars)
    OBVIOUS
  <2>1. CASE UNCHANGED vars
    BY <2>1 DEF vars, editorVars, hostVars, process, applicationVars, selectorVars, NavigationInv, SelectorInv
  <2> QED
    BY <2>1, SelectorMoves
<1>3. SelectorStep \/ UNCHANGED selectorVars =>
        [/\ changes' > changes => changes = 0 /\ held' >= HoldThreshold
         /\ held' >= HoldThreshold /\ changes = 0 /\ count > 1 => changes' = 1]_selectorVars
  BY DEF SelectorStep
<1> QED
  BY <1>1, <1>2, <1>3, PTL DEF Spec, OneChangePerHold

=============================================================================
