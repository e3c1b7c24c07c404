SPECIFICATION Spec
CONSTANTS
  Conns = {c1, c2}
  Workers = {w1, w2}
  NoConn = NoConn
  MaxFd = 1
  Grow = 1
  MaxRequests = 2
SYMMETRY Symmetry
INVARIANTS
  TypeOK
  DataOfPersons
  JobsHaveData
  RequestsDrained
  
