--------------------------- MODULE MCClientEvents ---------------------------
(* Small instances of ClientEvents.                                          *)
EXTENDS ClientEvents, TLC

CONSTANTS f1, f2, p1, t1, c1, c2

Priorities == (f1 :> 2) @@ (f2 :> 0) @@ (p1 :> 1) @@ (t1 :> 1)

Ask(arg, ctxs, mask, forever) ==
  [arg |-> arg, ctxs |-> ctxs, mask |-> mask, forever |-> forever, peek |-> FALSE]
Peek(arg, ctxs, mask) == [Ask(arg, ctxs, mask, FALSE) EXCEPT !.peek = TRUE]
Pause(arg) == Ask(arg, {}, {}, FALSE)

Uses(ops, gets, keys) == [ops |-> ops, gets |-> gets, keys |-> keys]
Returns == Uses({}, {}, {})
First(x) == <<x, 1>>

\* Procs of fds wait themselves, remove and add fds, and raise.
Files(fd) ==
  [list |-> <<First(f2), First(f1)>>, servers |-> {},
   level |-> <<Uses({"get"}, {Ask(0, {}, {}, TRUE), Pause(1)}, {}),
               Uses({"get", "add", "remove", "raise"}, {Pause(0)}, {fd}),
               Uses({"raise"}, {}, {})>>]
Lists ==
  [list |-> <<First(p1), First(t1)>>, servers |-> {},
   level |-> <<Uses({"get"}, {Ask(0, {}, {}, TRUE)}, {}),
               Uses({"get", "add", "remove", "raise"}, {Pause(0)}, {p1, t1}),
               Uses({"add", "remove", "raise"}, {}, {p1, t1})>>]
Mixed(x, y) ==
  [list |-> <<First(x), First(y)>>, servers |-> {c1},
   level |-> <<Uses({"get"}, {Ask(0, Ctx, Type, TRUE)}, {}),
               Uses({"get"}, {Ask(3, {c1}, {"up"}, FALSE)}, {}),
               Returns>>]
Events ==
  [list |-> <<First(p1)>>, servers |-> {c1, c2},
   level |-> <<Uses({"get", "track"}, {Ask(0, Ctx, Type, TRUE)}, {}),
               Uses({"get", "post", "discard", "track"}, {Ask(0, {c2}, {"drag"}, FALSE), Peek(0, {c1}, {"drag"})}, {}),
               Uses({"discard", "track"}, {Ask(0, {c2}, {"drag"}, FALSE)}, {})>>]
AllScenarios == {Files(f1), Files(f2), Lists, Mixed(f1, f2), Mixed(p1, t1), Events}
=============================================================================
