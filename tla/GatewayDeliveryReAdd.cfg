\* A target that is removed and added again.
SPECIFICATION LiveSpec
CONSTANTS
    s1 = s1
    s2 = s2
    u1 = u1
    b1 = b1
    t1 = t1
    t2 = t2
    Subscribers = {u1}
    Subscriber = u1
    PayloadTypes = {note}
    Keys = {}
    NoKey = NoKey
    Absent = Absent
    Payloads = {}
    Checksums = {}
    AnyType = AnyType
    Namespaces = {"ns"}
    Ids = {t1, t2}
    Views = {"default"}
    BindingKeys = {b1}
    NoBindingKey = NoBindingKey
    SubscriptionIds = {}
    NoSubscriptionId = NoSubscriptionId
    RejectionCodes = {}
    Streams = {s1, s2}
    Targets <- MCTargets
    BindingsOf <- MCBindings
    Subscriptions <- AddedSubscriptions
    MaxWire = 2
PROPERTIES EventsArrive
