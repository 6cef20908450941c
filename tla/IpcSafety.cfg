SPECIFICATION Spec
CONSTANTS
  Handles = {h1, h2}
  NoTarget = NoTarget
  MaxMessages = 4
  MaxThrows = 1
INVARIANTS TypeOK QueuesAligned NothingLost HandleRidesUnlessThrown
\* Everything was sent and read.
CHECK_DEADLOCK FALSE
