SPECIFICATION Spec
CONSTANTS
    Shapes <- AnyDevice
    HeaderSize = 2
    MaxInput = 8
    Word = 2
    GarbageContent <- SomeGarbage
    MaxReports = 3
    ReadErrors = "anywhere"
    AllocFails = TRUE
INVARIANTS LenMatchesBuffer OnlyFirstCopyUnbounded
CHECK_DEADLOCK FALSE
