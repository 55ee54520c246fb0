--------------------------- MODULE AbstractMonitor ---------------------------
(***************************************************************************)
(* What the monitor and wait operators promise their callers: the body of   *)
(* a monitor is executed by one context at a time.  Which context gets a    *)
(* lock next, and how it waits for it, is left to the implementation.       *)
(***************************************************************************)
CONSTANTS Context, Lock

VARIABLE inside   \* inside[l]: the contexts executing the body of a monitor on l

Init == inside = [l \in Lock |-> {}]

\* c enters a monitor on l, or returns to it from wait.
Enter(c, l) ==
  /\ inside[l] = {}
  /\ inside' = [inside EXCEPT ![l] = {c}]

\* c leaves the bodies of the monitors on L: at their end, by a stop or an
\* exit, in a wait on one of them, or because c is destroyed.
Leave(c, L) ==
  /\ \A l \in L : c \in inside[l]
  /\ inside' = [l \in Lock |-> IF l \in L THEN inside[l] \ {c} ELSE inside[l]]

Next == \E c \in Context :
          \/ \E l \in Lock : Enter(c, l)
          \/ \E L \in SUBSET Lock : Leave(c, L)

Spec == Init /\ [][Next]_inside

\* The promise, as an invariant.
OneInside == \A l \in Lock : \A c, d \in inside[l] : c = d
=============================================================================
