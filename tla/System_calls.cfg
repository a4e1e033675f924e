SPECIFICATION Spec
CONSTANTS
  Idens <- ZeroOne
  Nums <- ZeroTwo
  IdenEntries <- Bands
  IdenTables <- BothOnly
  FreqMod = 8
  TGs <- FourTGs
  Units <- Zero
  SuperGroups <- One
  Callsigns <- None
  BSIs <- None
  IdenUps <- None
  Flags <- None
  Loads <- None
  WACNs <- None
  SysIDs <- None
  SiteNums <- None
  StatusFlags <- OneStatus
  PatchExpiry = 1
  ControlFreq = 1
  Window <- InWindow
  Denied <- DenyThree
  WarmVoice <- Cold
  WarmData <- Cold
  NoIden = NoIden
  NoChan = NoChan
  NoPatch = NoPatch
  NoFreq = NoFreq
  NoParams = NoParams
CHECK_DEADLOCK FALSE
INVARIANTS SystemTypeOK NoFDMATwin GrantsDistinct
