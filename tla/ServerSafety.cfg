SPECIFICATION FairSpec
CONSTANTS
  Closers = {k1, k2}
  NoHandle = NoHandle
  MaxListens = 2
  Conns = {c1, c2, c3}
INVARIANTS
  TypeOK HandleGuarded RefAgrees ClosersOwed FailureOwned CloseAwaited
PROPERTIES CloseCompletes ClosersCalled FailureReported ImplementsLifecycle
\* A server that nobody calls any more rests.
CHECK_DEADLOCK FALSE
