CONSTANTS
  o1 = o1
  o2 = o2
  o3 = o3
  o4 = o4
  NIL = NIL
  Obj = {o1, o2, o3}
  NIndex = 8
  NGen = 8
  InitSize = 2
  MaxIndex = 3
  MaxTime = 6
SPECIFICATION Spec
SYMMETRY AnyObject
CHECK_DEADLOCK FALSE
INVARIANTS
  LiveIdsResolve
  StaleIdsFindNothing
  FreeListSound
PROPERTIES
  NeverReissued
