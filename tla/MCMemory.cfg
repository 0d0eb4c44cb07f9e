SPECIFICATION Spec
CONSTANTS
    PageSize = 2
    NumPages = 13
    KernelPages = {5}
    RecursivePages = {10, 11, 12}
    Ram <- RamBytes
    Lengths = {1, 4}
    Devices <- AlignedDevices
INVARIANTS
    TypeOK
    SearchableInSync
    BlocksMapped
    NoPhysicalLeak
    InterruptsRestored
    NothingLeftMapped
