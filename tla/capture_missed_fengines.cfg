SPECIFICATION Spec
CONSTANTS
  NInputBlocks = 3
  NDebugInputBlocks = 0
  TimeDemux = 2
  NTimePerBlock = 2
  NTimePerPacket = 1
  NInputsPerPacket = 4
  Na = 2
  UintMod = 16
  PktMcnts = {0, 2, 4, 6, 8, 10, 12}
  PktAnts = {0}
  MaxCount = 3
  Parts <- MCParts
INVARIANTS
  MissedFenginesExplained
CHECK_DEADLOCK FALSE
