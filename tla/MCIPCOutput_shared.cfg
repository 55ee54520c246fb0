CONSTANTS
  m = m
  f = f
  e = e
  NIL = NIL
  Context = {m, f, e}
  Main = m
  EventContext = e
  BufSize = 2
  Backlog = 1
  MaxWrite = 5
  MaxRef = 3
SPECIFICATION FairSpec
CHECK_DEADLOCK FALSE
INVARIANTS
  OutputInOrder
  FlagTellsTruth
  OpenWhileUsed
PROPERTIES
  GatheredGoes
  WriterGoesOn
