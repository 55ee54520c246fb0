CONSTANTS
  c1 = c1
  c2 = c2
  c3 = c3
  c4 = c4
  s1 = s1
  s2 = s2
  NIL = NIL
  Context = {c1, c2, c3, c4}
  Space = {s1, s2}
  Lock = {}
  Reason = {"terminate"}
  MaxLevel = 1
  MaxFrames = 1
  Kinds = {"font"}
  Instances <- ForkInstances
  SpaceOf <- TwoSpaces
SPECIFICATION FairSpec
CHECK_DEADLOCK FALSE
INVARIANTS
  JoinableSound
  NoOrphanJoiner
PROPERTIES
  JoinedOnce
  JoinReturns
