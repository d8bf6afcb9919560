\* A write is cut short, as on a full disk, and a query comes upon it.
CONSTANTS
    MaxFileSize = 0
    Burst = 2
    Matching <- SomeEntries
    Limit = 2
    MaxSeconds = 1
    MaxFaults = 1
SPECIFICATION FairSpec
PROPERTIES QueryReturns
CHECK_DEADLOCK FALSE
