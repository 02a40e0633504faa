SPECIFICATION FairSpec
CONSTANTS
    core = core
    user = user
    NoOne = NoOne
    Writers <- TwoWriters
    SpiErrors = TRUE
    MaxRequests = 2
    MaxInputs = 1
INVARIANTS ReportsUntorn SentMeansReceivedOnce
PROPERTY CallsReturn
CHECK_DEADLOCK FALSE
