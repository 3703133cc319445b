\* Progress, with a budget per catch-up, when the latest snapshot is always near
\* enough to go on from.
SPECIFICATION MCSpec
CONSTANTS
    Targets = {g1}
    OnceTasks = {t1}
    LiveTasks = {t2}
    BatchLimit = 1
    TotalLimits = {0, 1}
    SnapshotsKeepUp = TRUE
    MaxSeq = 2
    MaxInbox = 1
    MaxFailures = 1
PROPERTIES CatchUpEnds SubscriptionCatchesUp StopResolves
CHECK_DEADLOCK FALSE
