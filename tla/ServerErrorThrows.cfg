SPECIFICATION FairSpec
CONSTANTS
  Closers = {k1}
  NoHandle = NoHandle
  MaxListens = 1
  Conns = {c1}
PROPERTY CloseEmitted
CHECK_DEADLOCK FALSE
