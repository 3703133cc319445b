\* One stream under every operation on its log and its policy, with a retrying
\* producer and a waiter.
SPECIFICATION Spec
CONSTANTS
    Streams = {s1}
    Subscribers = {}
    Waiters = {w1, w2}
    Compactors = {}
    Keys = {k1, k2}
    NoKey = NoKey
    MaxSeq = 3
    MaxTime = 3
    Retentions <- MCRetentions
INVARIANTS LogContiguous CountLimitHolds NoMissedWakeup
PROPERTIES IdempotencyConsistent PassedWaiterReturns
