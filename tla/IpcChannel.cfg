SPECIFICATION FairSpec
CONSTANTS
  Handles = {h1, h2}
  NoTarget = NoTarget
  MaxMessages = 3
  MaxThrows = 0
PROPERTIES ReadEnds ImplementsChannel
CHECK_DEADLOCK FALSE
