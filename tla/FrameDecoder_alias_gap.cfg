SPECIFICATION FDSpec
CONSTANTS
    ana = ana
    bob = bob
    cat = cat
    Nobody = Nobody
    Talkers = {ana, bob, cat}
    BlocksOf <- Blocks
    Radios <- ByMake
    AliasSeq <- Seqs
    HarrisText <- Texts
    aliasMaxBlocks = 16
    aliasMaxFailedSets = 4
INVARIANT HarrisConverges
