SPECIFICATION Spec
CONSTANTS
    Frames <- MCFrames
    MaxFreeBlocks = 6
    MaxRun = 3
INVARIANTS TypeOK ListIsExact
PROPERTIES ImplementsFrameSet
CHECK_DEADLOCK FALSE
