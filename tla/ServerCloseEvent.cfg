SPECIFICATION Spec
CONSTANTS
  Closers = {k1, k2}
  NoHandle = NoHandle
  MaxListens = 2
  Conns = {c1}
INVARIANT CloseMeansClosed
CHECK_DEADLOCK FALSE
