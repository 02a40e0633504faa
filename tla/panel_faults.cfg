SPECIFICATION Spec
CONSTANTS
    Levels <- ThreeLevels
    Default = 2
    BusErrors = TRUE
    EnableFails = TRUE
    DisableFails = TRUE
    MaxCycles = 2
    MaxOps = 2
INVARIANTS LpmRestored SuppliesBalanced ReleasedMeansPowered PreparedMeansInitialised ShowsRequested
CHECK_DEADLOCK FALSE
