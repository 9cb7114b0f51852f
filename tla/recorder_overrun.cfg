SPECIFICATION Spec
CONSTANTS
  NInputBlocks = 2
  NDebugInputBlocks = 0
  Parts = {1, 2}
  FakeMcntStep = 1
  MaxBlocks = 6
  NBlockPerFile = 2
  BlockIdAtStart = {0}
  Unwritten = Unwritten
INVARIANTS
  RecordedInOrder
CHECK_DEADLOCK FALSE
