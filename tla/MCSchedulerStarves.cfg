SPECIFICATION FairSpec
CONSTANTS
    Stacks = {s1, s2, s3}
    BootStack = boot
    InitialStack = s1
    CounterMod = 3
    TicksPerSecond = 2
    StackDepth = 2
PROPERTIES
    NewTaskRuns
