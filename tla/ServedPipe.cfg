SPECIFICATION FairSpec
CONSTANTS
  Closers = {k1}
  NoHandle = NoHandle
  MaxListens = 1
  Conns = {c1, c2}
  Served = c1
  MaxQueue = 1
INVARIANT ClosedAfterPipes
PROPERTY DestroyedPipesLetClose
\* Everything has closed.
CHECK_DEADLOCK FALSE
