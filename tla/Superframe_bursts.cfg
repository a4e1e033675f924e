SPECIFICATION SFSpec
CONSTANTS
  SyncDibits = 2
  BurstDibits = 5
  SuperframeBursts = 12
  WhichSlot <- Pattern
  SIsch <- Syncs
  SyncBurstCount = 3
  Bodies <- Heard
  MaxLost = 3
  MaxAdded = 4
  NoBurst = NoBurst
  NoCall = NoCall
INVARIANTS SFTypeOK PositionHeld OwnIdentity
PROPERTIES OnSync Identified
