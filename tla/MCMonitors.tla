----------------------------- MODULE MCMonitors -----------------------------
(* Small instances of Monitors: contexts of one space and of two, private    *)
(* and shared locks.                                                        *)
EXTENDS Monitors, TLC

CONSTANTS c1, c2, c3, s1, s2, l1, l2, v1

\* Two contexts forked in one space, a third of another application.
TwoSpaces == (c1 :> s1) @@ (c2 :> s1) @@ (c3 :> s2)
OneSpace == [c \in Context |-> s1]

\* The contexts of one space are interchangeable.
ForkedSymmetry == Permutations({c1, c2})
AllSymmetry == Permutations(Context)

AllShared == [o \in Lock \cup Cond |-> NIL]
=============================================================================
