------------------------------- MODULE Programs -------------------------------
(***************************************************************************)
(* The programs that the effect runtime is linked into: the open           *)
(* application, the host process of the effect editor, a caller of the     *)
(* headers of the runtime, and one of the header of the selector.  One of  *)
(* them runs.                                                              *)
(***************************************************************************)
EXTENDS EditorHost, Application

CONSTANTS Registries,      \* registries that the editor may generate
          Edited,          \* programs that it may generate
          OverrideLists,   \* overrides of its command line
          Registry,        \* the registry of a caller
          Libraries,       \* the libraries of a caller
          Bases            \* addresses of its arena

\* The arrays are as long as their counts say, where they are there.
IsArray(a) == a \in Seq({a[i] : i \in DOMAIN a})

HasNodes(p) ==
    p # NULL /\ p.complete =>
        IsArray(p.nodes) /\ \A i \in DOMAIN p.nodes : IsArray(p.nodes[i].values)

HasBanks(l) ==
    /\ IsArray(l.catalog) /\ IsArray(l.banks)
    /\ \A i \in DOMAIN l.banks :
         l.banks[i] # NULL /\ l.banks[i].complete => IsArray(l.banks[i].programs)

\* Of an override of the command line nothing was applied when it was parsed.
IsOverride(o) == o = [node |-> o.node, id |-> o.id, value |-> o.value, status |-> o.status]

\* Sizes and addresses are unsigned.
ASSUME ProgramsAssumption ==
    /\ Bases \subseteq Nat
    /\ \A r \in Registries \cup {Registry} :
         IsArray(r) /\ \A i \in DOMAIN r : r[i] # NULL => r[i].size \in Nat
    /\ \A p \in Edited \cup Programs : HasNodes(p)
    /\ \A l \in Libraries : HasBanks(l)
    /\ \A list \in OverrideLists :
         /\ IsArray(list)
         /\ \A k \in DOMAIN list : IsOverride(list[k]) /\ list[k].status = "none"

\* The tables that the editor generates around its one program.
EditorLibrary(p) ==
    [catalog |-> << p >>,
     banks |-> << [key |-> "bank", complete |-> TRUE, programs |-> << p.key >>] >>]

IsApplication ==
    /\ client \in {"application", "navigator"}
    /\ registry = ncr2_basic_effect_registry
    /\ library = ncr2_builtin_program_library
    /\ mode = "verify" /\ edited = NULL /\ overrides = << >> /\ base = 0

IsEditor ==
    /\ client = "editor"
    /\ registry \in Registries
    /\ mode \in {"stream", "render", "verify"}
    /\ edited \in Edited
    /\ library = EditorLibrary(edited)
    /\ overrides \in OverrideLists
    /\ base = 0   \* its arena is aligned

IsCaller ==
    /\ client \in {"chain", "cursor"}
    /\ registry = Registry
    /\ library \in Libraries
    /\ mode = "verify" /\ edited = NULL /\ overrides = << >>
    /\ base \in Bases
    \* docs/app/EFFECT_RUNTIME.md: rejected "before audio starts"
    /\ client = "chain" => LibraryValidate(library, registry) = "OK"

Init ==
    /\ IsApplication \/ IsEditor \/ IsCaller
    /\ accepted = LibraryValidate(library, registry)
    /\ RuntimeInit /\ HostInit /\ ApplicationInit

Next ==
    \/ client = "application" /\ ApplicationNext /\ UNCHANGED editorVars
    \/ client = "editor" /\ EditorNext /\ UNCHANGED applicationVars
    \/ client = "chain" /\ ChainCalls /\ UNCHANGED applicationVars
    \/ client = "cursor" /\ CursorCalls /\ UNCHANGED applicationVars
    \/ client = "navigator" /\ SelectorNext /\ UNCHANGED <<editorVars, app_pc, active, advances>>

vars == <<editorVars, applicationVars>>

Spec == Init /\ [][Next]_vars

-----------------------------------------------------------------------------
\* The inductive invariant of the arena: a registry is valid whenever effects
\* of it are added to the chain.
RegistryIsValid == RegistryValidate(registry) = "OK"

ArenaInv ==
    /\ ChainInv
    /\ registry \in Registries \cup {Registry, ncr2_basic_effect_registry}
    /\ client = "chain" \/ prepared = "building" => RegistryIsValid

\* The inductive invariant of the navigation switch: the selector is sampled
\* only once it has programs.
NavigationInv ==
    /\ SelectorInv
    /\ client = "application" => (app_pc = "start" <=> count = 0)

-----------------------------------------------------------------------------
(* The inductive invariant of the program runtime and its callers.         *)

\* How much of the program program_prepare has made: so many instances, and
\* of the one at hand what the values before the next one say.
Made == IF prepared = "OK" THEN Len(program.nodes)
        ELSE IF parameter = 0 THEN node - 1 ELSE node

Reached(i, id) ==
    prepared = "building" /\ i = node =>
        \E k \in 1 .. parameter - 1 : Values(i)[k].id = id

IsMade(i) ==
    LET effect == instances[i].effect
    IN  /\ effect = RegistryFind(registry, program.nodes[i].effect)
        /\ instances[i].values =
             [id \in DOMAIN Defaults(effect) |->
                IF Reached(i, id) THEN Given(i, id) ELSE Defaults(effect)[id]]

\* A program that is being prepared was found valid, so that nothing but
\* want of room or an effect's own callback can stop it.
PreparationInv ==
    /\ prepared \in {"building", "OK"} =>
         /\ program \in Edited \cup Programs
         /\ ProgramValidate(program, registry) = "OK"
         /\ Len(instances) = Made
         /\ \A i \in DOMAIN instances : IsMade(i)
    /\ prepared = "building" =>
         node \in DOMAIN program.nodes /\ parameter \in 0 .. Len(Values(node))
    /\ prepared = "CHAIN_ERROR" =>
         /\ instances = << >> /\ used = 0
         /\ status \in {"CHAIN_FULL", "ARENA_FULL", "CALLBACK_FAILED"}
    /\ accepted = "OK" /\ program \in {library.catalog[i] : i \in DOMAIN library.catalog} =>
         prepared \in {"none", "building", "OK", "CHAIN_NOT_EMPTY", "CHAIN_ERROR"}

\* The overrides are applied in order, and only to a program that is whole.
OverrideInv ==
    /\ IsArray(overrides) /\ \A k \in DOMAIN overrides : IsOverride(overrides[k])
    /\ client # "editor" => overrides = << >>
    /\ \A k \in Unapplied : \A j \in DOMAIN overrides : k < j => j \in Unapplied
    /\ prepared # "OK" => Unapplied = DOMAIN overrides

\* No effect is older than the frames of the stream, before there are any too.
SessionInv ==
    /\ {request, left, answered} \subseteq Nat
    /\ IF client = "editor" THEN edited \in Edited ELSE pc = "calls"
    /\ pc = "arguments" => prepared = "none" /\ instances = << >>
    /\ pc \in {"arguments", "prepare"} =>
         answered = 0 /\ \A i \in DOMAIN instances : Age(i) = 0
    /\ pc \in {"arguments", "prepare", "header"} => request = 0 /\ left = 0
    /\ pc \in {"header", "blocks"} => Prepared
    /\ StreamKeepsTime

\* Once a library was accepted every bank of it has a program to be at.
CursorInv ==
    /\ HasBanks(library)
    /\ accepted = LibraryValidate(library, registry)
    /\ accepted = "OK" /\ cursor # NULL => IsAt(BankAt(cursor.bank), cursor.program)

ProgramsInv == ArenaInv /\ PreparationInv /\ OverrideInv /\ SessionInv /\ CursorInv
=============================================================================
