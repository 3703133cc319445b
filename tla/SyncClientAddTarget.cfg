\* A target added to the open stream of another target.
SPECIFICATION ModifySpec
CONSTANTS
    Targets = {g1, g2}
    OnceTasks = {}
    LiveTasks = {t2}
    BatchLimit = 1
    TotalLimits = {0}
    SnapshotsKeepUp = TRUE
    MaxSeq = 1
    MaxInbox = 1
    MaxFailures = 0
INVARIANTS OwnEventsOnly
CHECK_DEADLOCK FALSE
