SPECIFICATION Spec
CONSTANTS
    Levels <- ThreeLevels
    Default = 2
    BusErrors = FALSE
    EnableFails = FALSE
    DisableFails = FALSE
    MaxCycles = 1
    MaxOps = 1
INVARIANT HighSpeedForDuration
CHECK_DEADLOCK FALSE
