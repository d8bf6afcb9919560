\* Up to ten entries, three rotations, one query at a time.
CONSTANTS
    MaxFileSize = 3
    Burst = 2
    Matching <- SomeEntries
    Limit = 2
    MaxSeconds = 4
    MaxFaults = 2
SPECIFICATION Spec
INVARIANTS TypeOK AcceptedIsKept
PROPERTIES QueryIsComplete
CHECK_DEADLOCK FALSE
