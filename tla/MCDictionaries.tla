--------------------------- MODULE MCDictionaries ---------------------------
(* Small instances of Dictionaries.                                          *)
EXTENDS Dictionaries

CONSTANTS c1, c2, n1, n2, n3, d1, d2, sh

\* sh is shared and grows; d2 is made while the program runs.
BaseStacks == [c \in Context |-> IF c = c1 THEN <<sh, d1>> ELSE <<sh>>]
Lengths == [d \in Dict |-> IF d = sh THEN 4 ELSE IF d = d1 THEN 2 ELSE 1]
Starts == [d \in Dict |-> IF d = d1 THEN 2 ELSE 1]
Bits == [d \in Dict |-> IF d = sh THEN 1 ELSE 2]

\* n1 and n2 start in the last slot of every table, n3 in the middle.
Colliding == [n \in Name |-> IF n = n3 THEN 5 ELSE 9]

Program(ops, dicts, names, values, levels) ==
  [ops |-> ops, dicts |-> dicts, names |-> names, values |-> values, levels |-> levels]
Idle == Program({}, {}, {}, {}, 0)
Alone(p) == [c \in Context |-> IF c = c1 THEN p ELSE Idle]

\* One context saves and restores; the other does nothing.
Saving ==
  Alone(Program({"put", "load", "undef", "dict", "begin", "save"}, {d1, d2}, {n1, n2}, {1}, 1))
\* The same at two levels, with one name.
Nesting == Alone(Program({"put", "undef", "dict", "save"}, {d1, d2}, {n1}, {1, 2}, 2))
Locking == Alone(Program({"put", "undef", "access", "save"}, {d1}, {n1}, {1, 2}, 2))
\* Keys are overwritten at two levels, and moved at one.
Overwriting == Alone(Program({"put", "save"}, {d1}, {n1, n2}, {1, 2}, 2))
Moving == Alone(Program({"put", "undef", "save"}, {d1}, {n1, n2}, {1, 2}, 1))
\* Two contexts use a shared dictionary.
Sharing ==
  [c \in Context |-> IF c = c1
     THEN Program({"def", "store", "load", "access", "begin"}, {d1, sh}, {n1}, {1}, 0)
     ELSE Program({"put", "load", "undef"}, {sh}, Name, {2}, 0)]
AllPrograms == {Saving, Nesting, Locking, Overwriting, Moving, Sharing}
=============================================================================
