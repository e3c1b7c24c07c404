SPECIFICATION Spec
CONSTANTS
  r = r
  a = a
  b = b
  f = f
  n = n
  k1 = k1
  k2 = k2
  k3 = k3
  Structs = {r, a, b}
  Leaves = {f}
  Scalars = {n}
  Unknown = Unknown
  Null = Null
  Root = r
  KeySeq <- KeysInOrder
  MayHold <- Graphs
  Capacity = 1
INVARIANTS
  TypeOK
  
  SharingKept
  PlacesCounted
CHECK_DEADLOCK FALSE
