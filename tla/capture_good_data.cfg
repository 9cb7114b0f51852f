SPECIFICATION Spec
CONSTANTS
  NInputBlocks = 3
  NDebugInputBlocks = 0
  TimeDemux = 2
  NTimePerBlock = 2
  NTimePerPacket = 1
  NInputsPerPacket = 2
  Na = 1
  UintMod = 4
  PktMcnts = {0, 2, 4, 6, 8, 10, 12}
  PktAnts = {0, 1}
  MaxCount = 2
  Parts <- MCParts
INVARIANTS
  GoodBlocksComplete
CHECK_DEADLOCK FALSE
