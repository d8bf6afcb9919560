\* Two volumes on ext4, every interleaving of the two goroutines with the cluster.
CONSTANTS
    a = a  b = b  na = na  nb = nb  ia = ia  ib = ib  da = da  db = db
    PV = {a, b}
    NoPV = NoPV  NoPath = NoPath  NoID = NoID
    Name = {na, nb}  ID = {ia, ib}  Path = {da, db}
    Within = {}
    Volume <- TwoVolumes
    ProjectID <- TwoIDs
    Capacity = {512, 2048}
    FsType = "ext4"
    ProcessAllNFS = FALSE
    Rebuild = TRUE
    MaxOps = 4
    MaxFaults = 1
SPECIFICATION Spec
INVARIANTS TypeOK TrackedIsEnforced TrackedIsListed ProjectsAreNamed StatusMeansLimited
PROPERTIES AuditIsTruthful
CHECK_DEADLOCK FALSE
