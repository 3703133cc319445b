\* Two sessions of one subscriber, on one stream that is appended to, truncated,
\* deleted and recreated, and whose cursor is reset.
SPECIFICATION EngineSpec
CONSTANTS
    u1 = u1
    a1 = a1
    a2 = a2
    Streams = {s1}
    Subscribers = {u1}
    Waiters = {}
    Compactors = {}
    Keys = {}
    NoKey = NoKey
    MaxSeq = 2
    MaxTime = 1
    Retentions <- MCCountLimit
    Callers = {a1, a2}
    SubscriberOf <- MCSubscriberOf
    Limits = {1, 2}
    TotalLimits = {0, 1}
SYMMETRY CallerSymmetry
INVARIANTS BatchFollowsCursor FinalMeansCaughtUp TooLongIsJustified CursorWithinHead
