\* The refinement: two sessions of one subscriber on one stream that is appended to,
\* truncated, compacted and put under a count limit.
SPECIFICATION SteadySpec
CONSTANTS
    u1 = u1
    a1 = a1
    a2 = a2
    Streams = {s1}
    Subscribers = {u1}
    Waiters = {}
    Compactors = {c1}
    Keys = {}
    NoKey = NoKey
    MaxSeq = 2
    MaxTime = 1
    Retentions <- MCCountLimit
    Callers = {a1, a2}
    SubscriberOf <- MCSubscriberOf
    Limits = {1, 2}
    TotalLimits = {0, 1}
SYMMETRY CallerSymmetry
PROPERTIES ImplementsService CompactionKeepsCounted
