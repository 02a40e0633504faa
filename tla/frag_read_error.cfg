SPECIFICATION Spec
CONSTANTS
    Shapes <- ReliableDevice
    HeaderSize = 2
    MaxInput = 8
    Word = 2
    GarbageContent <- SomeGarbage
    MaxReports = 3
    ReadErrors = "anywhere"
    AllocFails = FALSE
INVARIANT DispatchesWholeReports
CHECK_DEADLOCK FALSE
