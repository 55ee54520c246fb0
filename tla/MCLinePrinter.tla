--------------------------- MODULE MCLinePrinter ---------------------------
(* Small instances of LinePrinter.                                           *)
EXTENDS LinePrinter, TLC

CONSTANTS hA, hB, j1, j2

\* The queue of hA is sent to hB, which prints.
Sending == [h \in Host |-> IF h = hA THEN hB ELSE NIL]

At1(a, b) == [j \in Job |-> IF j = j1 THEN a ELSE b]
Left(reprint, lpc, lprm, loss, crash) ==
  [reprint |-> reprint, lpc |-> lpc, rm |-> lprm, loss |-> loss, crash |-> crash]

AllScenarios ==
  {[home |-> At1(hB, hB), left |-> Left(1, 1, 1, 0, 0)],
   [home |-> At1(hB, hB), left |-> Left(0, 0, 1, 0, 1)],
   [home |-> At1(hA, NIL), left |-> Left(0, 0, 1, 1, 0)],
   [home |-> At1(hA, hA), left |-> Left(0, 0, 0, 1, 0)],
   [home |-> At1(hA, NIL), left |-> Left(0, 0, 0, 1, 1)]}

Processes == Permutations(Proc)
=============================================================================
