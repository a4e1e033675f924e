SPECIFICATION TrackerSpec
CONSTANTS
  Idens <- ZeroOne
  Nums <- Zero
  IdenEntries <- None
  FreqMod = 2
  TGs <- FourTGs
  Units <- Zero
  SuperGroups <- OneTwo
  Callsigns <- ZeroOne
  BSIs <- ZeroOne
  IdenUps <- None
  Flags <- Zero
  Loads <- Zero
  WACNs <- ZeroOne
  SysIDs <- ZeroOne
  SiteNums <- ZeroOne
  StatusFlags <- BothWays
  PatchExpiry = 1
  NoIden = NoIden
  NoChan = NoChan
  NoPatch = NoPatch
INVARIANTS SiteViewCurrent PatchViewCurrent
