SPECIFICATION Spec
CONSTANTS
  FramesPerSecond = 13
  LowBase = 2
  MaxSecond = 6
  MaxLostInARow = 3
  MaxOutages = 2
INVARIANTS ZmqSubInv Recovers
CHECK_DEADLOCK FALSE
