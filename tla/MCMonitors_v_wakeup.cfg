CONSTANTS
  c1 = c1
  c2 = c2
  c3 = c3
  s1 = s1
  s2 = s2
  l1 = l1
  l2 = l2
  v1 = v1
  NIL = NIL
  Context = {c1, c2, c3}
  Space = {s1}
  Lock = {l1}
  Cond = {}
  Reason = {"terminate"}
  MaxLevel = 0
  MaxFrames = 1
  Kinds = {}
  CustomOps = FALSE
  SpaceOf <- OneSpace
  Home <- AllShared
SPECIFICATION Spec
CHECK_DEADLOCK FALSE
INVARIANTS
  NoLostWakeup
