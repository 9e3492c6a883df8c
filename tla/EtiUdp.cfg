CONSTANTS
  K = 2
  M = 3
  START_DELAY = 2
  MAX_WAIT_GROUPS = 2
  Breakpoint = TRUE
  MaxGroups = 3
  MaxLoss = 2
  MaxDup = 1
  Reorder = 1
  SeqNrs = {1, 2, 3}
SPECIFICATION FairUdpSpec
INVARIANTS UdpIndInv IntactWithoutDuplicates
PROPERTIES NeverReopened ImplementsStream EveryGroupWritten
CHECK_DEADLOCK FALSE
