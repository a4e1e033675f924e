SPECIFICATION TDFairSpec
CONSTANTS
    ana = ana
    bob = bob
    secret = secret
    open = open
    odd = odd
    plain = plain
    Nobody = Nobody
    Talkers = {ana, bob}
    Calls = {secret, open, odd, plain}
    Services <- Both
    WhoTalks <- Talks
    KeyOf <- KeyKinds
    BlocksOf <- OneBlock
    EssCorrects = 14
    aliasMaxBlocks = 15
    aliasMaxFailedSets = 1
INVARIANTS TDTypeOK
PROPERTIES KeystreamCurrent Regained
