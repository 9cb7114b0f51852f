SPECIFICATION Spec
CONSTANTS
  NInputBlocks = 3
  NDebugInputBlocks = 0
  TimeDemux = 2
  NTimePerBlock = 2
  NTimePerPacket = 1
  NInputsPerPacket = 2
  Na = 1
  UintMod = 2
  PktMcnts = {8, 12, 16, 42, 48}
  PktAnts = {0}
  MaxCount = 2
  NBlockPerFile = 2
  BlockIdAtStart = {0}
  Unwritten = Unwritten
  MaxHanded = 4
  Parts <- MCParts
INVARIANTS
  RecordedAsHandedOver
PROPERTIES
  ImplementsCapture
CHECK_DEADLOCK FALSE
