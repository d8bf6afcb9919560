\* One volume on XFS: from the quiet end of the cluster's changes and faults on,
\* its present capacity is enforced.
CONSTANTS
    a = a  b = b  na = na  nb = nb  ia = ia  ib = ib  da = da  db = db
    PV = {a}
    NoPV = NoPV  NoPath = NoPath  NoID = NoID
    Name = {na}  ID = {ia}  Path = {da}
    Within = {}
    Volume <- OneVolume
    ProjectID <- OneID
    Capacity = {512, 2048}
    FsType = "xfs"
    ProcessAllNFS = FALSE
    Rebuild = FALSE
    MaxOps = 4
    MaxFaults = 2
SPECIFICATION FairSpec
PROPERTIES
    Converges
    ImplementsTable
CHECK_DEADLOCK FALSE
