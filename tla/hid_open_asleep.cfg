SPECIFICATION Spec
CONSTANTS
    HasResetGpio = FALSE
    EdgeTriggered = FALSE
    SpiErrors = FALSE
    AllocFails = FALSE
    Timeouts = FALSE
    QuickBoot = TRUE
    DescKinds <- GoodDevice
    Spontaneous <- Silent
    Unbinds = FALSE
    MaxEvents = 0
    MaxCycles = 1
    QueueMax = 1
INVARIANT OpenMeansOn
CHECK_DEADLOCK FALSE
