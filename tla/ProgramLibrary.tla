---------------------------- MODULE ProgramLibrary ----------------------------
(***************************************************************************)
(* What program_runtime.c accepts as a program, a catalog of programs, and *)
(* a library: a catalog with the banks that name its programs.             *)
(*                                                                         *)
(* A program is [key, complete, nodes], a node is [effect, values], and a  *)
(* value is [id, value]; a bank is [key, complete, programs]; a library is *)
(* [catalog, banks].  "complete" says that the name and the arrays that    *)
(* the counts promise are there.                                           *)
(***************************************************************************)
EXTENDS EffectRegistry

ValueIsValid(node, effect, i) ==
    /\ ParameterFind(effect, node.values[i].id) # NULL
    /\ InRange(node.values[i].value, ParameterFind(effect, node.values[i].id))
    /\ \A j \in 1 .. i - 1 : node.values[j].id # node.values[i].id

NodeStatus(node, effect) ==
    IF effect = NULL THEN "EFFECT_NOT_FOUND"
    ELSE IF Len(node.values) > Len(effect.parameters) THEN "INVALID_DESCRIPTOR"
    ELSE IF \A i \in DOMAIN node.values : ValueIsValid(node, effect, i) THEN "OK"
    ELSE "INVALID_DESCRIPTOR"

\* program_descriptor_validate
ProgramValidate(program, registry) ==
    IF program = NULL THEN "INVALID_DESCRIPTOR"
    ELSE IF ~program.complete THEN "INVALID_DESCRIPTOR"
    ELSE FirstFailure(
        [i \in DOMAIN program.nodes |->
           NodeStatus(program.nodes[i], RegistryFind(registry, program.nodes[i].effect))])

\* program_catalog_find: the same search as effect_registry_find.
CatalogFind(catalog, key) == RegistryFind(catalog, key)

\* program_catalog_validate
CatalogValidate(catalog, registry) ==
    IF RegistryValidate(registry) # "OK" THEN "INVALID_ARGUMENT"
    ELSE FirstFailure(
        [i \in DOMAIN catalog |->
           IF ProgramValidate(catalog[i], registry) # "OK"
           THEN ProgramValidate(catalog[i], registry)
           ELSE IF \E j \in Named(catalog, catalog[i].key) : j < i THEN "DUPLICATE_PROGRAM"
           ELSE "OK"])

\* Faulty variant: a bank is not held against the catalog.
UnlistedBankStatus(bank, library) ==
    IF bank = NULL THEN "INVALID_DESCRIPTOR"
    ELSE IF ~bank.complete \/ bank.programs = << >> THEN "INVALID_DESCRIPTOR"
    ELSE FirstFailure(
        [i \in DOMAIN bank.programs |->
           IF \E j \in 1 .. i - 1 : bank.programs[j] = bank.programs[i]
           THEN "INVALID_DESCRIPTOR"
           ELSE "OK"])

BankStatus(bank, library) ==
    IF bank = NULL THEN "INVALID_DESCRIPTOR"
    ELSE IF ~bank.complete \/ bank.programs = << >> THEN "INVALID_DESCRIPTOR"
    ELSE FirstFailure(
        [i \in DOMAIN bank.programs |->
           IF CatalogFind(library.catalog, bank.programs[i]) = NULL
           THEN "PROGRAM_NOT_FOUND"
           ELSE IF \E j \in 1 .. i - 1 : bank.programs[j] = bank.programs[i]
           THEN "INVALID_DESCRIPTOR"
           ELSE "OK"])

\* program_library_validate
LibraryValidate(library, registry) ==
    IF library.catalog = << >> \/ library.banks = << >> THEN "INVALID_ARGUMENT"
    ELSE IF CatalogValidate(library.catalog, registry) # "OK"
    THEN CatalogValidate(library.catalog, registry)
    ELSE FirstFailure(
        [i \in DOMAIN library.banks |->
           IF BankStatus(library.banks[i], library) # "OK"
           THEN BankStatus(library.banks[i], library)
           ELSE IF \E j \in Named(library.banks, library.banks[i].key) : j < i
           THEN "DUPLICATE_BANK"
           ELSE "OK"])
=============================================================================
