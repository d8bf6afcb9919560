\* One removal next to the agent and the cleanup command, on the same files.
CONSTANTS
    a = a  b = b  na = na  nb = nb  ia = ia  ib = ib  da = da  db = db
    Name = {na, nb}  ID = {ia, ib}  Path = {da, db}
    Within = {}
    Vol = {a, b}
    Volume <- TwoVolumes
    NoName = NoName
    Remover = {"loop"}
    AgentDir = "/etc"  BaseDir = "/etc"
    DryRun = FALSE
    MaxEvents = 2
SPECIFICATION InstanceSpec
INVARIANTS TypeOK BystandersKeepLines RemovalsHaveCause
PROPERTIES RestartHeals
CHECK_DEADLOCK FALSE
