------------------------------ MODULE SyncService ------------------------------
(***************************************************************************)
(* What the sync log promises its callers, whatever engine and storage are *)
(* behind it.  A stream is a log known by its head and its boundary, a     *)
(* subscriber has one committed cursor per stream, and a catch-up is a     *)
(* request that is answered once, as of a single instant, from the cursor  *)
(* the subscriber had when it asked:                                       *)
(*   - with the events that follow that cursor, or                         *)
(*   - with TOO_LONG, when these are gone or too many.                     *)
(* Cursors are committed forward and within the log.                       *)
(***************************************************************************)
EXTENDS Replay, Sequences

CONSTANTS Streams, Subscribers, Callers, SubscriberOf, Limits, TotalLimits

VARIABLES
    head,       \* per stream: the last seq
    retained,   \* per stream: the first seq that is left; 0 before the first event
    cursor,     \* per subscriber and stream: the committed seq
    request     \* per caller: none, asked or answered

vars == <<head, retained, cursor, request>>

NoRequest == [phase |-> "none"]

Asked(s, limit, totalLimit, from) ==
    [phase |-> "asked", stream |-> s, limit |-> limit, totalLimit |-> totalLimit, from |-> from]

Answered(q, answer) ==
    [phase |-> "answered", stream |-> q.stream, from |-> q.from, answer |-> answer]

Init ==
    /\ head = [s \in Streams |-> 0]
    /\ retained = [s \in Streams |-> 0]
    /\ cursor = [c \in Subscribers \X Streams |-> 0]
    /\ request = [c \in Callers |-> NoRequest]

-----------------------------------------------------------------------------
(* An event is added at the end; what is too old goes in the same step.    *)
Publish(s, boundary) ==
    /\ boundary >= Larger(retained[s], 1) /\ boundary <= head[s] + 2
    /\ head' = [head EXCEPT ![s] = @ + 1]
    /\ retained' = [retained EXCEPT ![s] = boundary]
    /\ UNCHANGED <<cursor, request>>

Discard(s, boundary) ==
    /\ boundary > retained[s] /\ boundary <= head[s] + 1
    /\ head[s] > 0
    /\ retained' = [retained EXCEPT ![s] = boundary]
    /\ UNCHANGED <<head, cursor, request>>

Commit(u, s, seq) ==
    /\ seq > cursor[<<u, s>>] /\ seq <= head[s]
    /\ cursor' = [cursor EXCEPT ![<<u, s>>] = seq]
    /\ UNCHANGED <<head, retained, request>>

-----------------------------------------------------------------------------
Ask(c, s, limit, totalLimit) ==
    /\ request[c].phase # "asked"
    /\ request' = [request EXCEPT ![c] =
                     Asked(s, limit, totalLimit, cursor[<<SubscriberOf[c], s>>])]
    /\ UNCHANGED <<head, retained, cursor>>

TooLong == [status |-> "too_long"]

(* The events after from, at most limit of a log that ends at last.        *)
Batch(from, limit, last) ==
    LET seq == Smaller(from + limit, last)
    IN  [status |-> "ok", head |-> last, seqs |-> [i \in 1..(seq - from) |-> from + i],
         final |-> seq = last]

AnswerTooLong(c) ==
    LET q == request[c]
    IN  /\ q.phase = "asked"
        /\ ReplayTooOld(q.from, retained[q.stream])
           \/ ReplayOverBudget(q.from, head[q.stream], q.totalLimit)
        /\ request' = [request EXCEPT ![c] = Answered(q, TooLong)]
        /\ UNCHANGED <<head, retained, cursor>>

(* Mutant: does not look at the boundary.                                  *)
AnswerBatchUnchecked(c) ==
    LET q == request[c]
    IN  /\ q.phase = "asked"
        /\ request' = [request EXCEPT ![c] = Answered(q, Batch(q.from, q.limit, head[q.stream]))]
        /\ UNCHANGED <<head, retained, cursor>>

AnswerBatch(c) ==
    LET q == request[c]
    IN  /\ q.phase = "asked"
        /\ ~ReplayTooOld(q.from, retained[q.stream])
        /\ request' = [request EXCEPT ![c] = Answered(q, Batch(q.from, q.limit, head[q.stream]))]
        /\ UNCHANGED <<head, retained, cursor>>

Forget(c) ==
    /\ request[c].phase = "answered"
    /\ request' = [request EXCEPT ![c] = NoRequest]
    /\ UNCHANGED <<head, retained, cursor>>

-----------------------------------------------------------------------------
Next ==
    \/ \E s \in Streams :
          \/ \E boundary \in retained[s]..(head[s] + 2) : Publish(s, boundary)
          \/ \E boundary \in retained[s]..(head[s] + 1) : Discard(s, boundary)
          \/ \E u \in Subscribers, seq \in 1..head[s] : Commit(u, s, seq)
    \/ \E c \in Callers :
          \/ \E s \in Streams, limit \in Limits, totalLimit \in TotalLimits :
                Ask(c, s, limit, totalLimit)
          \/ AnswerTooLong(c) \/ AnswerBatch(c) \/ Forget(c)

Spec == Init /\ [][Next]_vars
=============================================================================
