\* A request for all trends while the recorder asks for the write lock.
CONSTANTS
    p = p  q = q
    Path = {p, q}
    Snapshots <- OneSnapshot
    Reader = {r1}
    Kinds = {"query", "stats", "trend", "all"}
    Retention = 2
    MaxEntries = 2
    Window = 2
    Periods = {1, 2}
    MaxRecords = 3
    MaxFaults = 0
SPECIFICATION FairSpec
PROPERTIES CallsReturn
CHECK_DEADLOCK FALSE
