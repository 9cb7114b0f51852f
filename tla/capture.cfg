SPECIFICATION LiveSpec
CONSTANTS
  NInputBlocks = 3
  NDebugInputBlocks = 0
  TimeDemux = 2
  NTimePerBlock = 2
  NTimePerPacket = 1
  NInputsPerPacket = 2
  Na = 1
  UintMod = 4
  PktMcnts = {0, 8, 12, 34, 42, 48}
  PktAnts = {0, 1}
  MaxCount = 2
  Parts <- MCParts
INVARIANTS
  TypeOK
  FillsInSequence
  RingOrder
  HeldBlocksNotFilled
  NoCircularWait
  HeadersMatchWindowWhenAligned
PROPERTIES
  StatusKeysPartOnlyOnReject
  FilledStableWhenAligned
  ImplementsBlockQueue
  AcquireEnds
CHECK_DEADLOCK FALSE
