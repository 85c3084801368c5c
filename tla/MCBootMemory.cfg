SPECIFICATION Spec
CONSTANTS
    FrameUnits = 2
    LowEnd = 1
    KernelEnd = 2
    ReservedEnd = 4
    MemEnd = 9
    MemoryMaps <- MCMaps
    Cuts <- MCCuts
    Rank <- MCRank
    ModelSizes = {1, 3}
    InstructSizes = {1}
    ChunkUnits = 2
    MaxFreeBlocks = 2
    DefaultBlocks = 2
    MaxEntries = 5
    MaxTries = 2
    MaxChanges = 2
INVARIANTS FramesAreRam ListMatchesMap ModuleBodiesAreKept ModelArrivesWhole
CHECK_DEADLOCK FALSE
