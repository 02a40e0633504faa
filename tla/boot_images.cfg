SPECIFICATION Spec
CONSTANTS
    None = None
    Jobs <- MCJobs
    LaterJobs <- MCLaterJobs
    Max32 = 1073741824
    Max64 = 1610612736
    LongNames <- MCLongNames
    MaxBuilds = 2
    MaxUnpacks = 2
INVARIANTS
    TypeOK
    BootRoundTrip
    VendorRoundTrip
    Rebuild
    NoStaleFile
    LinksCurrent
    AcceptedMeansComplete
    DeclaredHeaderSize
CHECK_DEADLOCK FALSE
