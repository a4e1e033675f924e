SPECIFICATION Spec
CONSTANTS
  c1 = c1
  c2 = c2
  c3 = c3
  c4 = c4
  NoCC = NoCC
  NoEntry = NoEntry
  NoBroadcast = NoBroadcast
  Sites <- TwoSites
  Freqs <- SomeFreqs
  Window <- InWindow
  Broadcasts <- AdsTwo
  Trunks <- OneTrunk
  MaxSites = 3
  Decoders <- Pool4
  NacTimeout = 0
  IdleDespawn = 0
  MaxLag = 1
INVARIANT RunningWithinCap
