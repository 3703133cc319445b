\* Sessions of three kinds, on targets of one and two streams, while other sessions
\* ack, the log grows and is cut, and access comes and goes.
SPECIFICATION Spec
CONSTANTS
    s1 = s1
    s2 = s2
    u1 = u1
    b1 = b1
    b2 = b2
    t1 = t1
    t2 = t2
    Subscribers = {u1}
    Subscriber = u1
    PayloadTypes = {note}
    Keys = {}
    NoKey = NoKey
    Absent = Absent
    Payloads = {body}
    Checksums = {sum}
    AnyType = AnyType
    Namespaces = {"ns"}
    Ids = {t1, t2}
    Views = {"default"}
    BindingKeys = {b1, b2}
    NoBindingKey = NoBindingKey
    SubscriptionIds = {live}
    NoSubscriptionId = NoSubscriptionId
    RejectionCodes = {refused}
    Streams = {s1, s2}
    BindingsOf <- MCBindings
    Clients <- MCClients
    Limits = {1}
    TotalLimits = {0, 1}
    MaxSeq = 2
INVARIANTS TypeOK StatesShownFit EveryTargetAnswered AckShown
