CONSTANTS
  c1 = c1
  c2 = c2
  n1 = n1
  n2 = n2
  n3 = n3
  d1 = d1
  d2 = d2
  sh = sh
  NIL = NIL
  Context = {c1, c2}
  Name = {n1, n2, n3}
  Value = {1, 2}
  Dict = {d1, d2, sh}
  Shared = {sh}
  MaxLen <- Lengths
  CurMax <- Starts
  Bit <- Bits
  Hash <- Colliding
  HashRange = 10
  Base <- BaseStacks
  MaxStack = 1
  MaxLevel = 2
  MaxGen = 2
  Programs <- AllPrograms
SPECIFICATION Spec
CHECK_DEADLOCK FALSE
PROPERTIES
  ImplementsDictionaries
INVARIANTS
  TableSound
  LookupRight
