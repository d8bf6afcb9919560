\* As QuotaConverges, but the directory may be removed and made again.
CONSTANTS
    a = a  b = b  na = na  nb = nb  ia = ia  ib = ib  da = da  db = db
    PV = {a}
    NoPV = NoPV  NoPath = NoPath  NoID = NoID
    Name = {na}  ID = {ia}  Path = {da}
    Within = {}
    Volume <- OneVolume
    ProjectID <- OneID
    Capacity = {512, 2048}
    FsType = "xfs"
    ProcessAllNFS = FALSE
    Rebuild = TRUE
    MaxOps = 4
    MaxFaults = 0
SPECIFICATION FairSpec
PROPERTIES Converges
CHECK_DEADLOCK FALSE
