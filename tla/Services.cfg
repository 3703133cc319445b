\* Each part on its own small instance; see MCServices.
SPECIFICATION MCSpec
CONSTANTS
    s1 = s1
    u1 = u1
    Streams <- MCStreams
    Subscribers <- MCSubscribers
    Callers = {a1, a2}
    SubscriberOf <- MCSubscriberOf
    Operators = {o1}
    PayloadTypes = {p1}
    Keys = {k1, k2}
    NoKey = NoKey
    Absent = Absent
    Limits <- MCLimits
    TotalLimits <- MCTotalLimits
    MaxSeq = 3
    Prefixes <- MCPrefixes
    Retentions <- MCRetentions
    ListLimits = {0, 1}
    MaxLimit = 1
    AdminMaxSeq = 2
    MaxTime = 3
    Payloads = {body}
    Checksums = {sumA, sumB}
    AnyType = AnyType
    Seqs = {1, 2}
    Versions = {1, 2}
    MaxVersions = {0, 1}
    SnapshotLimits = {0, 1, 2}
    SnapshotMaxLimit = 3
    Subscriber = u1
    Tailed = s1
    BatchLimit = 2
    MaxInFlight = 1
    LoopMaxSeq = 3
    MaxWire = 2
    SubscriberIds <- MCSubscriberIds
    BindingNames <- MCBindingNames
    SyncTargets <- MCSyncTargets
    DefaultName <- MCDefaultName
    RecordMaxSeq = 2
INVARIANTS
    ServicesTypeOK ReadYourAcks AppendsAnsweredOnce EventsAccountedFor SnapshotsExact NextFrameFits
PROPERTIES
    EventsArrive ImplementsStore
CHECK_DEADLOCK FALSE
