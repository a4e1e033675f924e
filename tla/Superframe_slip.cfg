SPECIFICATION SFSpec
CONSTANTS
  SyncDibits = 2
  BurstDibits = 5
  SuperframeBursts = 12
  WhichSlot <- Pattern
  SIsch <- Syncs
  SyncBurstCount = 1
  Bodies <- Voice
  MaxLost = 3
  MaxAdded = 4
  NoBurst = NoBurst
  NoCall = NoCall
PROPERTY PositionRecovers
