SPECIFICATION FairSpec
CONSTANTS
  c1 = c1
  c2 = c2
  c3 = c3
  c4 = c4
  NoCC = NoCC
  NoEntry = NoEntry
  NoBroadcast = NoBroadcast
  Sites <- OneSite
  Freqs <- SomeFreqs
  Window <- InWindow
  Broadcasts <- AdsOne
  Trunks <- OneTrunk
  MaxSites = 2
  Decoders <- Pair
  NacTimeout = 0
  IdleDespawn = 0
  MaxLag = 1
PROPERTIES HandlerReturns PendingResolved FlaggedReleased
