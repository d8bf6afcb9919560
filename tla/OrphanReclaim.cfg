\* Live mode: the loop next to one request at a time, a hidden directory beside one
\* with a subdirectory, and everything changing.
CONSTANTS
    t = t  s = s  h = h
    Top = {t, h}  Sub = {s}
    Parent <- OneBranch
    Hidden = {h}
    Request = {r}
    Grace = 1
    DryRun = FALSE
    Enabled = TRUE
    Vanish = TRUE
    MaxOps = 3
    MaxFaults = 1
SPECIFICATION FairSpec
INVARIANTS TypeOK TargetsWereUnclaimed LoopGivesNotice
PROPERTIES OrphansAreReclaimed ImplementsCleaner
CHECK_DEADLOCK FALSE
