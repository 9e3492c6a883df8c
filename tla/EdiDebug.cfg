SPECIFICATION Spec
CONSTANTS
  PseqModulus = 2
  Fcounts = {0, 1, 2}
  MaxFrames = 3
  MaxCopies = 1
  MaxLosses = 1
INVARIANTS FrameInv WrittenOnce NothingHeldBack
CHECK_DEADLOCK FALSE
