SPECIFICATION Spec
CONSTANTS
  Handles = {h1, h2}
  NoTarget = NoTarget
  MaxMessages = 2
  MaxThrows = 1
INVARIANT HandleRidesAlone
CHECK_DEADLOCK FALSE
