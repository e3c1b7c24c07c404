SPECIFICATION Spec
CONSTANTS
  Objs = {a, b, c}
  Keys = {k1}
  Null = Null
  NoKey = NoKey
  MaxRefs = 4
  RemoveFromCycles = FALSE
INVARIANTS
  NothingLeaks
