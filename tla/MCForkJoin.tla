----------------------------- MODULE MCForkJoin -----------------------------
(* Small instances of ForkJoin.                                             *)
EXTENDS ForkJoin

CONSTANTS c1, c2, c3, c4, s1, s2

\* c1 and the contexts it forks share a space; c4 is another application.
TwoSpaces == [c \in Context |-> IF c = c4 THEN s2 ELSE s1]

\* One that forks, with saves, characters and every end of a context; beside
\* another application; and three contexts of one space, two of which may wait
\* for the third.
ForkInstances ==
  {[initial |-> {c1}, forked |-> {c2}, ops |-> {"save", "font", "terminate"}],
   [initial |-> {c1, c4}, forked |-> {c2}, ops |-> {"terminate"}],
   [initial |-> {c1}, forked |-> {c2, c3}, ops |-> {"save"}]}
=============================================================================
