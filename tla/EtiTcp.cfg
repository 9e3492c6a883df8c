CONSTANTS
  Clients = {c1, c2}
  PACKET_SIZE = 1
  QUEUE_PACKET_CAPACITY = 1
  W = 1
  InputEnds = FALSE
  Interrupts = TRUE
  None = None
SPECIFICATION Spec
SYMMETRY Symmetry
INVARIANTS TcpInv NoneForgotten
CHECK_DEADLOCK FALSE
