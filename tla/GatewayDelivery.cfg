\* A window smaller than a batch, and a target that comes and goes.
SPECIFICATION Spec
CONSTANTS
    s1 = s1
    s2 = s2
    u1 = u1
    b1 = b1
    t1 = t1
    t2 = t2
    Subscribers = {u1}
    Subscriber = u1
    PayloadTypes = {note}
    Keys = {}
    NoKey = NoKey
    Absent = Absent
    Payloads = {}
    Checksums = {}
    AnyType = AnyType
    Namespaces = {"ns"}
    Ids = {t1, t2}
    Views = {"default"}
    BindingKeys = {b1}
    NoBindingKey = NoBindingKey
    SubscriptionIds = {}
    NoSubscriptionId = NoSubscriptionId
    RejectionCodes = {}
    Streams = {s1, s2}
    Targets <- MCTargets
    BindingsOf <- MCBindings
    Subscriptions <- SafeSubscriptions
    MaxWire = 2
INVARIANTS TypeOK NextBatchFits OneBatchAhead
PROPERTIES SendsWithinWindow TooLongStopsDelivery
