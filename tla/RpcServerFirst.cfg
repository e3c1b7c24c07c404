SPECIFICATION Spec
CONSTANTS
  Conns = {c1}
  Workers = {w1}
  NoConn = NoConn
  MaxFd = 0
  Grow = 1
  MaxRequests = 1
INVARIANTS
  NeverOutside
