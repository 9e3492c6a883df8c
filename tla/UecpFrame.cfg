SPECIFICATION UecpSpec
CONSTANTS
  Frames <- MCFrames
  MaxFrames = 2
  MaxChunk = 17
  MaxLosses = 1
INVARIANTS UecpInv
PROPERTIES ReadyBetweenFrames
CHECK_DEADLOCK FALSE
