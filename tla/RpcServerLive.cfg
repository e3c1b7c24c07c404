SPECIFICATION FairSpec
CONSTANTS
  Conns = {c1, c2}
  Workers = {w1}
  NoConn = NoConn
  MaxFd = 1
  Grow = 1
  MaxRequests = 1
PROPERTIES
  EndedIsClosed
  RequestIsRead
  StopReturns
