SPECIFICATION FairSpec
CONSTANTS
    Pages = {1, 2}
    PageSize = 10
    HeaderSize = 2
    Sizes = {0, 3, 7}
INVARIANTS
    TypeOK
    BlocksSafe
    ChunksTilePages
    ListConsistent
    Coalesced
PROPERTIES
    RightfulFreeTaken
    CallsEnd
