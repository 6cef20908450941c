SPECIFICATION FairSpec
CONSTANT MaxQueue = 3
INVARIANTS
  TypeOK CallbacksOwned OneRequestEach ClosedOnce ReadingAgrees
  NothingAfterClose EventsOnce Consistent
PROPERTIES DestroyCompletes TeardownCompletes ImplementsLifecycle
\* A closed pipe has nothing left to do.
CHECK_DEADLOCK FALSE
