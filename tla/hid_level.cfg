SPECIFICATION FairSpec
CONSTANTS
    HasResetGpio = FALSE
    EdgeTriggered = FALSE
    SpiErrors = FALSE
    AllocFails = FALSE
    Timeouts = FALSE
    QuickBoot = TRUE
    DescKinds <- AnyDescriptor
    Spontaneous <- Touches
    Unbinds = TRUE
    MaxEvents = 3
    MaxCycles = 2
    QueueMax = 2
INVARIANTS RegisteredMeansDescribed ActiveMeansOn
PROPERTY ProbeSucceeds
CHECK_DEADLOCK FALSE
