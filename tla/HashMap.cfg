SPECIFICATION Spec
CONSTANTS
  Keys = {k1, k2, k3, k4}
  Data = {d1, d2}
  Hashes = {0, 7, 15}
  DefaultSize = 8
  MinSize = 8
  Capacities = {0, 7}
  MaxSize = 16
  Null = Null
SYMMETRY Symmetry
INVARIANTS
  TypeOK
  Chained
PROPERTIES
  ImplementsDict
  NothingSkipped
