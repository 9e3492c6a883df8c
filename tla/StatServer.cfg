SPECIFICATION FairSpec
CONSTANTS
  MaxVersion = 2
  MaxInterrupts = 2
INVARIANT StatInv
PROPERTIES EveryRequestAnswered StatisticsPublished ShutdownEnds
CHECK_DEADLOCK FALSE
