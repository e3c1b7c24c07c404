SPECIFICATION Spec
CONSTANTS
  o1 = o1
  o2 = o2
  Threads = {t1, t2}
  Objects = {o1, o2}
  Names = {n1, n2}
  Sessions = {s1, s2}
  Proto <- MCProto
  Params <- MCParams
  Null = Null
  MaxCalls = 2
SYMMETRY Symmetry
INVARIANTS
  TypeOK
  BalancedContext
  OwnContext
  LocalsAgree
  
  CacheFits
