SPECIFICATION Spec
CONSTANTS
    Listed = 5
INVARIANTS TypeOK StacksApart OneEmulator CountIsEarned
PROPERTIES BootEnds EmulatorComesUp
CHECK_DEADLOCK FALSE
