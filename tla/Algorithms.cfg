SPECIFICATION Spec
CONSTANTS
  Paths = {"p", "q"}
  Methods <- MCMethods
  MaxGroups = 2
  MaxRules = 3
  Sizes = {0, 3}
  RangeLists <- MCRangeLists
  MaxEdits = 3
  MaxTime = 3
  FieldBits = 3
  FieldPoly = 11
  NSym = 4
  Messages <- MCMessages
  ErrorValues = {1, 6}
  MaxDamage = 5
  FirstBytes <- MCFirstBytes
  OtherBytes = {0, 129, 255}
  MaxLength = 3
  Transmitters <- MCTransmitters
  Fading <- MCFading
  NullSize = 4
  SymbolsSize = 5
  FileSizes <- MCFileSizes
  MaxChunkSize = 4
  ParitySize = 2
  MaxAfLength = 14
  MaxFragments = 9
  PacketKinds <- MCPacketKinds
  MaxPackets = 3
  MaxCut = 16
  Detis <- MCDetis
  Ests <- MCEsts
  MaxEsts = 2
  RawFrame = 8
  FrameSizes = {4, 7, 8}
  Junk = {0, 1, 3}
  MaxFrames = 3
  MaxEtiCut = 7
INVARIANTS
  MatchesFirstRule
  StaticAnswers
  RsCorrects
  CrcDivides
  TiiIdentifies
  AfPacketRestored
  SendsTheFile
  FrameReadsBack
  FramesReadInOrder
CHECK_DEADLOCK FALSE
