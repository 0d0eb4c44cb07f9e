SPECIFICATION FairSpec
CONSTANTS
    Stacks = {s1, s2, s3}
    BootStack = boot
    InitialStack = s1
    CounterMod = 3
    TicksPerSecond = 2
    StackDepth = 2
INVARIANTS
    TypeOK
    MutualExclusion
    LockHeldWhenCritical
    NoFreedStackInUse
    StacksOwnedOnce
    NeverUnreachable
    NeverHaltedDeaf
    IInv
PROPERTIES
    InterruptsComeBack
    FinishedReclaimed
