SPECIFICATION Spec
CONSTANTS
    PageSize = 64
    WordSize = 2048
    HeaderSize = 10
    RegionSize = 8
    MmapSize = 24
    RegionAlign = 4
    FdtSize = 40
    MbmpAt = 94
    Hole <- TheHole
    Kernels <- SomeKernels
    Objects <- SomeObjects
    Maps <- SomeMaps
    Garbages <- SomeGarbage
    Trees <- SomeTrees
    RsvMaps <- SomeRsvMaps
    TreesAt <- SomeTreesAt
INVARIANT KernelKept
