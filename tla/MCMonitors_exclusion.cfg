CONSTANTS
  c1 = c1
  c2 = c2
  c3 = c3
  s1 = s1
  s2 = s2
  l1 = l1
  l2 = l2
  v1 = v1
  NIL = NIL
  Context = {c1, c2, c3}
  Space = {s1, s2}
  Lock = {l1}
  Cond = {}
  Reason = {"interrupt"}
  MaxLevel = 1
  MaxFrames = 2
  Kinds = {"stopped", "font", "stroke"}
  CustomOps = FALSE
  SpaceOf <- TwoSpaces
  Home <- AllShared
SPECIFICATION Spec
SYMMETRY ForkedSymmetry
CHECK_DEADLOCK FALSE
INVARIANTS
  ExclusionObeyed
  SemaphoreBalanced
  SaverNeverBehindExcluded
