SPECIFICATION FairSpec
CONSTANTS
    HasResetGpio = TRUE
    EdgeTriggered = FALSE
    SpiErrors = TRUE
    AllocFails = TRUE
    Timeouts = TRUE
    QuickBoot = FALSE
    DescKinds <- AnyDescriptor
    Spontaneous <- AnyDevice
    Unbinds = TRUE
    MaxEvents = 2
    MaxCycles = 2
    QueueMax = 2
INVARIANTS IrqDepthBalanced HandlerQuiet CompletionPublishes RegisteredMeansFetched
           HandlerTouchesLiveMemory FreesWhatItHad
PROPERTIES ProbeReturns ReportsAreRead
CHECK_DEADLOCK FALSE
