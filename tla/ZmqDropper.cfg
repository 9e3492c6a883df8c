CONSTANTS
  NUM_FRAMES_PER_ZMQ_MESSAGE = 2
  Lengths = {0, 1, 2, 3}
  MaxMessages = 3
  MaxSignals = 2
SPECIFICATION Spec
INVARIANTS DropperInv ForwardedInOrder FullMessagesIntact
CHECK_DEADLOCK FALSE
