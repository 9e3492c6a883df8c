CONSTANTS
  Clients = {c1}
  PACKET_SIZE = 1
  QUEUE_PACKET_CAPACITY = 1
  W = 3
  InputEnds = TRUE
  Interrupts = FALSE
  None = None
SPECIFICATION FairSpec
PROPERTIES ContiguousStream TerminatedRemoved UnservedRemoved
