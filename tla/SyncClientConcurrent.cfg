\* A catchUp() beside a subscription of the same binding, with lost calls,
\* late acks, restarts and a boundary that moves freely.
SPECIFICATION MCSpec
CONSTANTS
    Targets = {g1}
    OnceTasks = {t1}
    LiveTasks = {t2}
    BatchLimit = 2
    TotalLimits = {0, 2}
    SnapshotsKeepUp = FALSE
    MaxSeq = 3
    MaxInbox = 1
    MaxFailures = 1
INVARIANTS AckBehindApplied NoSilentGap
CHECK_DEADLOCK FALSE
