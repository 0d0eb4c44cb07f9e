SPECIFICATION Spec
CONSTANTS
    PageSize = 2
    WordSize = 64
    HeadersPerChunk = 3
    MaxChunks = 2
    Regions <- LongFirstRegion
    Lengths = {1, 3}
    ReserveAddrs = {4, 12}
    Framebuffers <- FirstRegionFramebuffer
INVARIANTS
    MemoryConserved
