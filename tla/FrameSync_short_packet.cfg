SPECIFICATION FSSpec
CONSTANTS
  SyncWord <- Word
  NidSpan = 3
  StatusPeriod = 6
  BlockDibits = 5
  MaxTSDUBlocks = 2
  PayloadLen <- Lengths
  SyncThresh = 1
  SyncThreshCold = 2
  SoftReach = 3
  HintMin = 2
  NACs <- OneNAC
  Units <- ShortPDU
  MaxGarbled = 0
  MaxBlocks = 3
  NoiseDibits <- Quiet
  NoUnit = NoUnit
  NoFrame = NoFrame
  NoNID = NoNID

PROPERTY PduSized
