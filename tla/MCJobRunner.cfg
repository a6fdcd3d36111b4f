SPECIFICATION EndlessSpec
CONSTANTS
    MaxJobs = 2
    Workspaces = {default, w1}
    Default = default
    Agents = {g1, g2}
    Patches = {FALSE}
    Limits = {1, 2}
    MaxCrashes = 1
INVARIANTS
    TypeOK
    RunningJobsAreSound
    NothingIsLost
PROPERTIES
    JobsOnlyMoveForward
    StartsKeepToLimit
    PendingJobsEnd
CHECK_DEADLOCK FALSE
