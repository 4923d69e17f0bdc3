CONSTANTS
    ENTRIES_PER_SECTOR = 4
    MAX_LFN_SETS = 4
    MAX_ALT = 2
    Piece <- MCPiece
    Fold <- MCFold
    Name <- MCName
    ShortName <- MCShortName
    MakeShort <- MCMakeShort
    Tilde <- MCTilde
    ShortDecode <- MCShortDecode
    Checksum <- MCChecksum
    DataClusters = 3
    DIR_MAX_CLUSTERS = 2
    Block <- MCBlock
    Contents <- MCContents
    MaxCuts = 2
SPECIFICATION FairTreeSpec
CONSTRAINT Bounded
INVARIANTS
    TypeOK
    Accounted
    ChainsDisjoint
    NoDangling
    ChainsComplete
    MirrorLags
    NamesUnique
    ShortsUnique
PROPERTIES
    CallsReturn
    GivesUpOnlyWhenFull
    NeverOverwrites
    ImplementsFileSystem
