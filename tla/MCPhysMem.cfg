SPECIFICATION Spec
CONSTANTS
    PageSize = 2
    WordSize = 64
    HeadersPerChunk = 4
    MaxChunks = 2
    Regions <- TwoRegions
    Lengths = {1, 3}
    ReserveAddrs = {2, 14}
    Framebuffers <- AlignedFramebuffers
INVARIANTS
    TypeOK
    ListConsistent
    MemoryConserved
    AreasExclusive
    Coalesced
PROPERTIES
    ImplementsAllocator
