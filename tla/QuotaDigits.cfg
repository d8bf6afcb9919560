\* The decimal digits of one project id occur in those of another.
CONSTANTS
    a = a  b = b  na = na  nb = nb  ia = ia  ib = ib  da = da  db = db
    PV = {a, b}
    NoPV = NoPV  NoPath = NoPath  NoID = NoID
    Name = {na, nb}  ID = {ia, ib}  Path = {da, db}
    Within <- DigitsOverlap
    Volume <- TwoVolumes
    ProjectID <- TwoIDs
    Capacity = {512, 2048}
    FsType = "ext4"
    ProcessAllNFS = FALSE
    Rebuild = TRUE
    MaxOps = 4
    MaxFaults = 0
SPECIFICATION Spec
INVARIANTS TrackedIsListed
CHECK_DEADLOCK FALSE
