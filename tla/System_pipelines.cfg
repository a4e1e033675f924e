SPECIFICATION Spec
CONSTANTS
  Idens <- ZeroOne
  Nums <- ZeroTwo
  IdenEntries <- Bands
  IdenTables <- Tables
  FreqMod = 8
  TGs <- Zero
  Units <- Zero
  SuperGroups <- Zero
  Callsigns <- None
  BSIs <- None
  IdenUps <- OnAir
  Flags <- None
  Loads <- None
  WACNs <- ZeroOne
  SysIDs <- ZeroOne
  SiteNums <- Zero
  StatusFlags <- OneStatus
  PatchExpiry = 1
  ControlFreq = 4
  Window <- Wide
  Denied <- NoDenied
  WarmVoice <- Warm
  WarmData <- WarmUp
  NoIden = NoIden
  NoChan = NoChan
  NoPatch = NoPatch
  NoFreq = NoFreq
  NoParams = NoParams
CHECK_DEADLOCK FALSE
INVARIANTS OnePipeline PipelinesTunable Primed
