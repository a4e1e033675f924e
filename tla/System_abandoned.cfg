SPECIFICATION Spec
CONSTANTS
  Idens <- Zero
  Nums <- Zero3
  IdenEntries <- Bands
  IdenTables <- FdmaOnly
  FreqMod = 8
  TGs <- FourTGs
  Units <- Zero
  SuperGroups <- Zero
  Callsigns <- None
  BSIs <- None
  IdenUps <- None
  Flags <- None
  Loads <- None
  WACNs <- None
  SysIDs <- None
  SiteNums <- None
  StatusFlags <- OneStatus
  PatchExpiry = 1
  ControlFreq = 1
  Window <- InWindow
  Denied <- DenyThree
  WarmVoice <- Cold
  WarmData <- Cold
  NoIden = NoIden
  NoChan = NoChan
  NoPatch = NoPatch
  NoFreq = NoFreq
  NoParams = NoParams
CHECK_DEADLOCK FALSE
PROPERTY AbandonedIsTold
