\* A PV's directory in which its pod has made a subdirectory.
CONSTANTS
    t = t  s = s  h = h
    Top = {t}  Sub = {s}
    Parent <- OneBranch
    Hidden = {}
    Request = {}
    Grace = 1
    DryRun = FALSE
    Enabled = TRUE
    Vanish = FALSE
    MaxOps = 3
    MaxFaults = 0
SPECIFICATION Spec
INVARIANTS KnownDataSurvives
CHECK_DEADLOCK FALSE
