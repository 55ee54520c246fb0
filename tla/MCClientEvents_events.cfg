CONSTANTS
  f1 = f1
  f2 = f2
  p1 = p1
  t1 = t1
  c1 = c1
  c2 = c2
  NIL = NIL
  FD = {f1, f2}
  Port = {p1}
  Timer = {t1}
  Ctx = {c1, c2}
  Priority <- Priorities
  Width = 4
  Filtered = {c2}
  MaxDepth = 2
  MaxQueue = 2
  Scenarios <- AllScenarios
SPECIFICATION Spec
CHECK_DEADLOCK FALSE
INVARIANTS
  ThresholdObeyed
  NothingIgnored
  EventNoticed
PROPERTIES
  CalledForData
