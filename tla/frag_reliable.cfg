SPECIFICATION FairSpec
CONSTANTS
    Shapes <- ReliableDevice
    HeaderSize = 2
    MaxInput = 8
    Word = 2
    GarbageContent <- SomeGarbage
    MaxReports = 4
    ReadErrors = "between"
    AllocFails = FALSE
INVARIANT ReadMeansDispatched
PROPERTY ImplementsStream
CHECK_DEADLOCK FALSE
