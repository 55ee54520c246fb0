CONSTANTS
  hA = hA
  hB = hB
  j1 = j1
  j2 = j2
  NIL = NIL
  Host = {hA, hB}
  Job = {j1, j2}
  Proc = {p1, p2, p3}
  Remote <- Sending
  Scenarios <- AllScenarios
  MaxPrints = 2
SPECIFICATION Spec
SYMMETRY Processes
CHECK_DEADLOCK FALSE
INVARIANTS
  OneDaemon
  NothingForgotten
  DataKept
  PrintedOnce
  NoneStranded
