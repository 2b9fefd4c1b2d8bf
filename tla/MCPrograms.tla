------------------------------ MODULE MCPrograms ------------------------------
EXTENDS Programs

Effect(id, size, alignment, callbacks, parameters) ==
    [key |-> <<"V", id>>, complete |-> TRUE, abi |-> 1, size |-> size,
     alignment |-> alignment, callbacks |-> callbacks, parameters |-> parameters]

\* One that nothing aligns, one that the arena's address never suits, and one
\* without a context.
A == Effect(1, 3, 1, {"initialize", "reset", "process", "set_parameter"}, << Parameter(1, 0, 2, 1) >>)
B == Effect(2, 4, 8, {"initialize", "process", "set_parameter"},
            << Parameter(1, 0, 1, 0), Parameter(2, 1, 2, 1) >>)
C == Effect(3, 0, 1, {"process"}, << >>)

MCRegistry == << A, B, C >>
MCRegistries ==
    { MCRegistry, << A, A >>, << A, NULL, B >>,
      << A, [B EXCEPT !.parameters[2].default = NaN] >>,
      << A, [B EXCEPT !.parameters[2].default = 3] >>,
      << A, [B EXCEPT !.parameters[2].id = 1] >>,
      << A, [B EXCEPT !.alignment = 6] >>, << A, [C EXCEPT !.alignment = 4] >>,
      << A, [B EXCEPT !.callbacks = {"process"}] >> }

Node(effect, values) == [effect |-> effect.key, values |-> values]

Plain == Program(1, << >>)
Pair == Program(2, << Node(A, << Value(1, 2) >>), Node(B, << Value(2, 2) >>) >>)
Reversed == Program(3, << Node(B, << Value(2, 2), Value(1, 1) >>), Node(C, << >>), Node(A, << >>) >>)
Large == Program(4, << Node(B, << >>), Node(B, << >>), Node(B, << >>) >>)
Long == Program(5, << Node(C, << >>), Node(A, << >>), Node(C, << >>), Node(C, << >>) >>)
Unknown == Program(6, << Node([A EXCEPT !.key = <<"V", 9>>], << >>) >>)
NotANumber == Program(7, << Node(A, << Value(1, NaN) >>) >>)
TooMuch == Program(8, << Node(A, << Value(1, 3) >>) >>)
Twice == Program(9, << Node(B, << Value(1, 0), Value(1, 1) >>) >>)

Bank(id, programs) == [key |-> id, complete |-> TRUE, programs |-> programs]
Good == [catalog |-> << Plain, Pair, Reversed, Large, Long >>,
         banks |-> << Bank(1, << Pair.key, Plain.key, Reversed.key >>), Bank(2, << Long.key >>) >>]

MCLibraries ==
    { Good,
      [Good EXCEPT !.banks[2] = Bank(2, << Unknown.key >>)],
      [Good EXCEPT !.banks[2] = NULL],
      [Good EXCEPT !.banks[2] = Bank(2, << >>)],
      [Good EXCEPT !.banks[2] = Bank(1, << Long.key >>)],
      [Good EXCEPT !.catalog[3] = TooMuch],
      [Good EXCEPT !.catalog[3] = Pair],
      [Good EXCEPT !.catalog[3] = NULL],
      [Good EXCEPT !.banks = << >>] }

MCEdited == {Plain, Pair, Reversed, Large, Unknown, NotANumber, Twice}
MCPrograms == MCEdited \cup {Long, TooMuch}

Setting(n, id, value) == [node |-> n, id |-> id, value |-> value, status |-> "none"]
MCOverrides ==
    { << >>, << Setting(1, 1, 0), Setting(1, 1, 1) >>, << Setting(2, 2, 5), Setting(2, 1, 1) >>,
      << Setting(1, 1, 1), Setting(9, 1, 1) >> }

MCKeys == {A.key, B.key, C.key, <<"V", 9>>}
MCLevels == {2, NaN}
=============================================================================
