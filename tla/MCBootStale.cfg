SPECIFICATION Spec
CONSTANTS
    FrameUnits = 2
    LowEnd = 1
    KernelEnd = 2
    ReservedEnd = 4
    MemEnd = 9
    MemoryMaps <- MCMaps
    Cuts <- MCCuts
    Rank <- MCRank
    ModelSizes = {1}
    InstructSizes = {1}
    ChunkUnits = 2
    MaxFreeBlocks = 3
    DefaultBlocks = 2
    MaxEntries = 5
    MaxTries = 2
    MaxChanges = 1
INVARIANTS UsableIsUsable
CHECK_DEADLOCK FALSE
