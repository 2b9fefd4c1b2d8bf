---------------------------- MODULE ProgramRuntime ----------------------------
(***************************************************************************)
(* program_prepare and the program cursor of program_runtime.c.            *)
(*                                                                         *)
(* program_prepare builds a program into an empty chain, node by node and  *)
(* value by value; every call that it makes of the effects may fail.  The  *)
(* model takes one step for each node added and one for each value set.    *)
(* The cursor is a bank of the library and a program of the bank.          *)
(***************************************************************************)
EXTENDS EffectChain, ProgramLibrary

VARIABLES library,          \* the caller's library
          accepted,         \* what program_library_validate said of it
          program,          \* the program being prepared, or prepared last
          node, parameter,  \* the loops of program_prepare; parameter 0 adds the node
          prepared,         \* what program_prepare returned, or "building"
          cursor            \* NULL, or [bank, program]

preparation == <<program, node, parameter, prepared>>
runtimeVars == <<registry, base, chain, status, library, accepted, preparation, cursor>>

RuntimeInit ==
    /\ ChainInit /\ status = "OK"
    /\ program = NULL /\ node = 0 /\ parameter = 0 /\ prepared = "none"
    /\ cursor = NULL

-----------------------------------------------------------------------------
Values(n) == program.nodes[n].values

\* What program_prepare checks first.
PrepareStatus(p) ==
    IF instances # << >> \/ used # 0 THEN "CHAIN_NOT_EMPTY" ELSE ProgramValidate(p, registry)

PrepareBegins(p) ==
    /\ prepared # "building"
    /\ program' = p /\ node' = 1 /\ parameter' = 0
    /\ prepared' = IF PrepareStatus(p) # "OK" THEN PrepareStatus(p)
                   ELSE IF p.nodes = << >> THEN "OK" ELSE "building"
    /\ UNCHANGED <<memory, chain, status, library, accepted, cursor>>

\* The next value of the node, the next node, or the end.
Onward ==
    /\ node' = IF parameter < Len(Values(node)) THEN node ELSE node + 1
    /\ parameter' = IF parameter < Len(Values(node)) THEN parameter + 1 ELSE 0
    /\ prepared' = IF node' > Len(program.nodes) THEN "OK" ELSE "building"

\* Faulty variant: what was built before the failure is left in the chain.
AbandonedAsIs ==
    /\ UNCHANGED chain
    /\ prepared' = "CHAIN_ERROR"
    /\ node' = 0 /\ parameter' = 0

\* Any failure clears the chain.
Abandoned ==
    /\ Emptied
    /\ prepared' = "CHAIN_ERROR"
    /\ node' = 0 /\ parameter' = 0

BuildNode ==
    LET key == program.nodes[node].effect
    IN  /\ prepared = "building" /\ parameter = 0
        /\ \/ AddSucceeds(key) /\ Onward
           \/ AddFails(key) /\ Abandoned
        /\ UNCHANGED <<memory, library, accepted, program, cursor>>

BuildValue ==
    LET given == Values(node)[parameter]
    IN  /\ prepared = "building" /\ parameter > 0
        /\ \/ SetSucceeds(Len(instances), given.id, given.value) /\ Onward /\ UNCHANGED <<used, owner>>
           \/ SetFails(Len(instances), given.id, given.value) /\ Abandoned
        /\ UNCHANGED <<memory, library, accepted, program, cursor>>

\* program_prepare
Prepare == BuildNode \/ BuildValue

-----------------------------------------------------------------------------
(* The cursor.  A call that is refused changes nothing.                    *)

BankAt(i) == IF i \in DOMAIN library.banks THEN library.banks[i] ELSE NULL

IsAt(bank, position) == bank # NULL /\ position \in DOMAIN bank.programs

\* program_cursor_current
Current ==
    IF IsAt(BankAt(cursor.bank), cursor.program)
    THEN CatalogFind(library.catalog, BankAt(cursor.bank).programs[cursor.program])
    ELSE NULL

MoveTo(bank, position) ==
    /\ cursor' = [bank |-> bank, program |-> position]
    /\ UNCHANGED <<memory, chain, status, library, accepted, preparation>>

CursorInitialize(bank, position) == IsAt(BankAt(bank), position) /\ MoveTo(bank, position)

\* From the last program to the first, and back.
NextProgram ==
    /\ cursor # NULL /\ IsAt(BankAt(cursor.bank), cursor.program)
    /\ MoveTo(cursor.bank, (cursor.program % Len(BankAt(cursor.bank).programs)) + 1)

PreviousProgram ==
    /\ cursor # NULL /\ IsAt(BankAt(cursor.bank), cursor.program)
    /\ MoveTo(cursor.bank, IF cursor.program = 1 THEN Len(BankAt(cursor.bank).programs)
                           ELSE cursor.program - 1)

\* A change of bank starts at its first program.
NextBank ==
    /\ cursor # NULL /\ cursor.bank \in DOMAIN library.banks
    /\ MoveTo((cursor.bank % Len(library.banks)) + 1, 1)

PreviousBank ==
    /\ cursor # NULL /\ cursor.bank \in DOMAIN library.banks
    /\ MoveTo(IF cursor.bank = 1 THEN Len(library.banks) ELSE cursor.bank - 1, 1)

\* program_library_find_bank finds the same one.
SelectBank(key, position) ==
    LET found == Named(library.banks, key)
        bank == CHOOSE i \in found : \A j \in found : i <= j
    IN  /\ cursor # NULL
        /\ found # {} /\ IsAt(BankAt(bank), position)
        /\ MoveTo(bank, position)

-----------------------------------------------------------------------------
\* docs/app/EFFECT_RUNTIME.md, "Effect ABI" and "Program and bank descriptors":
\* in a library that was accepted the cursor always names a program, and a
\* program of the catalog is only refused for want of room or by an effect's
\* own callback; no program, accepted or not, reaches an effect with a value
\* that its descriptor rules out.
LibraryIsUsable ==
    /\ accepted = "OK" /\ cursor # NULL => Current # NULL
    /\ accepted = "OK" /\ program \in {library.catalog[i] : i \in DOMAIN library.catalog} =>
         prepared \in {"none", "building", "OK", "CHAIN_NOT_EMPTY", "CHAIN_ERROR"}
    /\ prepared = "CHAIN_ERROR" => status \in {"CHAIN_FULL", "ARENA_FULL", "CALLBACK_FAILED"}
=============================================================================
