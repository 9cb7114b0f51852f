SPECIFICATION Spec
CONSTANTS
  NInputBlocks = 3
  NDebugInputBlocks = 0
  TimeDemux = 2
  NTimePerBlock = 2
  NTimePerPacket = 1
  NInputsPerPacket = 2
  Na = 1
  UintMod = 2
  PktAnts = {0}
  MaxCount = 8
  NFrames = 2
  ClockMod = 36
  PacketSpan = 2
  FirstAnts = {0}
  MaxFaults = 2
  MaxOvertaken = 1
  Parts <- MCParts
  PktMcnts <- MCPktMcnts
PROPERTIES
  StraysTolerated
CHECK_DEADLOCK FALSE
