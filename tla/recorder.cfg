SPECIFICATION LiveSpec
CONSTANTS
  NInputBlocks = 2
  NDebugInputBlocks = 0
  Parts = {1, 2}
  FakeMcntStep = 1
  MaxBlocks = 5
  NBlockPerFile = 2
  BlockIdAtStart = {0, 1, 9}
  Unwritten = Unwritten
INVARIANTS
  TypeOK
  RecordedUnlessLapped
PROPERTIES
  FilesNeverTruncated
  ImplementsBlockQueue
  InputAlwaysDrains
  OutputDrainsUnlessLapped
CHECK_DEADLOCK FALSE
