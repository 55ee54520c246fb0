--------------------------- MODULE MCIPCScheduler ---------------------------
(* Small instances of IPCScheduler: applications, and a window bitmap client. *)
EXTENDS IPCScheduler

CONSTANTS c1, c2

Two == <<c2, c1>>
AllPS == [c \in Context |-> "ps"]
OneWB == [c \in Context |-> IF c = c1 THEN "wb" ELSE "ps"]

Instance(kind, ops) == [kind |-> kind, ops |-> ops]
ForSafety ==
  {Instance(AllPS, {"rpc", "out", "wait"}),
   Instance(OneWB, {"rpc", "out", "wait", "save", "die", "dirty"})}
ForLiveness == {Instance(AllPS, {"printer", "out", "die"})}

Apart == [c \in Context |-> c]

\* How many messages the clients send.
TwoAndOne == [c \in Context |-> IF c = c1 THEN 2 ELSE 1]
=============================================================================
