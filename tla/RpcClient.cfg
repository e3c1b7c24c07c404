SPECIFICATION Spec
CONSTANTS
  Clients = {c1}
  Callers = {t1, t2}
  Fns = {f1, f2}
  Fds = {3}
  None = None
INVARIANTS
  TypeOK
  OwnReply
PROPERTIES
  
  PingEnds
CHECK_DEADLOCK FALSE
