SPECIFICATION Spec
CONSTANTS
  c1 = c1
  c2 = c2
  c3 = c3
  c4 = c4
  NoCC = NoCC
  NoEntry = NoEntry
  NoBroadcast = NoBroadcast
  Sites <- ThreeSites
  Freqs <- SomeFreqs
  Window <- InWindow
  Broadcasts <- AdsThree
  Trunks <- OneTrunk
  MaxSites = 2
  Decoders <- Pool4
  NacTimeout = 0
  IdleDespawn = 0
  MaxLag = 0
SYMMETRY Symmetry4
INVARIANTS TypeOK NoLostDecoder OneHolder TeardownOnce DrainingKept DiscoveredWithinCap
PROPERTY ImplementsLifecycle
