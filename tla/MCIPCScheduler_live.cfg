CONSTANTS
  c1 = c1
  c2 = c2
  NIL = NIL
  Context = {c1, c2}
  MaxMsg <- TwoAndOne
  MaxBuf = 4
  Created <- Two
  Instances <- ForLiveness
  SpaceOf <- Apart
SPECIFICATION FairSpec
CHECK_DEADLOCK FALSE
PROPERTIES
  RunnableRuns
  MessageServed
  GoneDestroyed
