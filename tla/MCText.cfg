SPECIFICATION FairSpec
CONSTANTS
    WordSize = 4096
    IntSize = 16
    BufDigits = 3
    Bases = {2, 8, 10, 16}
    Widths = {1, 4}
    MaxPower = 12
    BufSize = 6
    IntMax = 9
    StrLens = {0, 3, 6}
    Formats <- AllFormats
    Numbers <- SomeNumbers
INVARIANTS
    ArgumentsInStep
    ShowsItsOwn
    NumberWritten
PROPERTIES
    Advances
    NtostrReturns
