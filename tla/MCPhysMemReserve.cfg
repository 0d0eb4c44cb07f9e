SPECIFICATION Spec
CONSTANTS
    PageSize = 2
    WordSize = 64
    HeadersPerChunk = 4
    MaxChunks = 1
    Regions <- TwoRegions
    Lengths = {1}
    ReserveAddrs = {4}
    Framebuffers <- NoFramebuffer
INVARIANTS
    AreasExclusive
