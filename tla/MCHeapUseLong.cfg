SPECIFICATION UseSpec
CONSTANTS
    Frames <- MCFrames
    MaxFreeBlocks = 7
    MaxRun = 7
    PageSize = 18
    Header = 3
    Align = 2
    Requests = {5}
    MaxLive = 6
    BootRequests <- MCBoot
    Scratch = 6
INVARIANTS StoredInOwnPages
