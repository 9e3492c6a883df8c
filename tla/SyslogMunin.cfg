CONSTANTS
  Datagrams = {d1, d2, d3}
  Priorities = {3, 188, 189}
  QueueSize = 2
  MaxInterrupts = 2
SPECIFICATION MuninFairSpec
INVARIANTS MuninInv AnswersAreCurrent
PROPERTIES EveryEntryQueued QuitsWithRoom
CHECK_DEADLOCK FALSE
