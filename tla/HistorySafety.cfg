\* Three snapshots, failing saves, restarts, a failing load, and requests of every kind.
CONSTANTS
    p = p  q = q
    Path = {p, q}
    Snapshots <- SomeSnapshots
    Reader = {r1, r2}
    Kinds = {"query", "stats", "trend", "all"}
    Retention = 2
    MaxEntries = 3
    Window = 2
    Periods = {1, 2}
    MaxRecords = 3
    MaxFaults = 2
SPECIFICATION Spec
INVARIANTS TypeOK SavedHistoryIsCurrent CrashLosesOneSnapshot ChangesCoverPeriods
PROPERTIES OldestAreDropped OneHistoryPerCall
CHECK_DEADLOCK FALSE
