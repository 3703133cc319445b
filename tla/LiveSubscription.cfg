\* Two streams of two subscribers and a modify call around one id.
SPECIFICATION Spec
CONSTANTS
    u1 = u1
    u2 = u2
    h1 = h1
    h2 = h2
    Targets = {g1}
    Ids = {i1}
    NoId = NoId
    Subscribers = {u1, u2}
    Handlers = {h1, h2}
    SubscriberOf <- MCSubscriberOf
    NoHandler = NoHandler
    Modifiers = {m1}
    MaxHelpers = 1
INVARIANTS RegistryExact
PROPERTIES OwnStreamOnly ModificationIsPolled LeavingFreesId
CHECK_DEADLOCK FALSE
