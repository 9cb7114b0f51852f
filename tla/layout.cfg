SPECIFICATION Spec
CONSTANTS
  NTimePerBlock = 4
  NTimePerPacket = 2
  NAnts = 2
  NInputsPerPacket = 4
  NChanPerX = 3
  NChanPerPacket = 2
  NStrpChansPerX = 2
  NBlockPerFile = 2
  Word = 4
  PktAnts = {0, 1, 2}
  PktChans = {3, 5}
  MaxStored = 2
  Zero = Zero
INVARIANTS
  TypeOK
  OnlyLastRowLeavesBlock
  InputIsLastReceived
  FileIsLastReceived
CHECK_DEADLOCK FALSE
