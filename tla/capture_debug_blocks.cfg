SPECIFICATION Spec
CONSTANTS
  NInputBlocks = 3
  NDebugInputBlocks = 1
  TimeDemux = 2
  NTimePerBlock = 2
  NTimePerPacket = 1
  NInputsPerPacket = 2
  Na = 1
  UintMod = 4
  PktMcnts = {0, 4, 8, 12, 16, 20, 24, 28, 32}
  PktAnts = {0}
  MaxCount = 1
  Parts <- MCParts
INVARIANTS
  NoCircularWait
CHECK_DEADLOCK FALSE
