SPECIFICATION Spec
CONSTANTS
  Objs = {a, b, c}
  Keys = {k1, k2}
  Null = Null
  NoKey = NoKey
  MaxRefs = 4
  RemoveFromCycles = FALSE
SYMMETRY Symmetry
INVARIANTS
  TypeOK
  
  NoDangling
  TornDownOnce
  OriginsExact
  SlotsAccounted
  CountsExact
