CONSTANTS
  c1 = c1
  c2 = c2
  c3 = c3
  s1 = s1
  s2 = s2
  l1 = l1
  l2 = l2
  v1 = v1
  NIL = NIL
  Context = {c1, c2, c3}
  Space = {s1}
  Lock = {l1}
  Cond = {v1}
  Reason = {"terminate"}
  MaxLevel = 0
  MaxFrames = 2
  Kinds = {"stopped"}
  CustomOps = TRUE
  SpaceOf <- OneSpace
  Home <- AllShared
SPECIFICATION Spec
SYMMETRY AllSymmetry
CHECK_DEADLOCK FALSE
INVARIANTS
  TypeOK
  ListsSound
PROPERTIES
  ImplementsMonitor
  OnlyOwnerReleases
