CONSTANTS
  c1 = c1
  c2 = c2
  NIL = NIL
  Context = {c1, c2}
  MaxMsg <- TwoAndOne
  MaxBuf = 4
  Created <- Two
  Instances <- ForSafety
  SpaceOf <- Apart
SPECIFICATION Spec
CHECK_DEADLOCK FALSE
INVARIANTS
  InOrder
  RestrictedBit
  BufferOneUser
