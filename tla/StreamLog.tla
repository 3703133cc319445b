------------------------------ MODULE StreamLog ------------------------------
(***************************************************************************)
(* The value kept for one stream by the memory store (streamState in       *)
(* internal/storage/memory/store.go) and the pure operations on it.  Every *)
(* operator stands for code that runs under the store's mutex.             *)
(*                                                                         *)
(* An event keeps what the log decides on: its seq, its idempotency key    *)
(* and its creation time; payload bytes, types and versions are left out.  *)
(* Times are natural numbers of an arbitrary unit; 0 is "no time".         *)
(* A map entry that is missing is the record NoStream, and a key without   *)
(* an idempotency entry is mapped to 0 (sequence numbers start at 1).      *)
(***************************************************************************)
EXTENDS Replay, Sequences, FiniteSets

CONSTANTS
    Keys,       \* the non-empty idempotency keys producers use
    NoKey       \* the empty idempotency key

ASSUME KeyAssumption == NoKey \notin Keys

(* The stream the map does not hold. *)
NoStream ==
    [exists |-> FALSE, head |-> 0, retained |-> 0, events |-> <<>>,
     idempotency |-> [k \in Keys |-> 0]]

EventSet == [seq : Nat, key : Keys \cup {NoKey}, at : Nat]

StreamSet ==
    [exists : BOOLEAN, head : Nat, retained : Nat, events : Seq(EventSet),
     idempotency : [Keys -> Nat]]

(* A retention policy; 0 switches a limit off, as in the code. *)
RetentionSet == [ttl : Nat, max : Nat]
NoRetention == [ttl |-> 0, max |-> 0]

-----------------------------------------------------------------------------
(* The scan of a prefix: how many leading events have a seq below before.  *)
PrefixBelow(events, before) ==
    Cardinality({n \in 1..Len(events) : \A i \in 1..n : events[i].seq < before})

(* How many leading events carry a creation time that is below the cutoff. *)
PrefixExpired(events, cutoff) ==
    Cardinality({n \in 1..Len(events) :
                    \A i \in 1..n : events[i].at > 0 /\ events[i].at < cutoff})

(* Mutant: the boundary stays when the last event goes. *)
DropPrefixStaleBoundary(st, n) ==
    LET rest == SubSeq(st.events, n + 1, Len(st.events))
    IN  [st EXCEPT !.events = rest,
                   !.retained = IF rest # <<>> THEN rest[1].seq ELSE st.retained]

(* Remove the first n events and move the retention boundary: to the first *)
(* event that is left, or one past the head when none is.                  *)
DropPrefix(st, n) ==
    LET rest == SubSeq(st.events, n + 1, Len(st.events))
    IN  [st EXCEPT !.events = rest,
                   !.retained = IF rest # <<>> THEN rest[1].seq
                                ELSE IF st.head > 0 THEN st.head + 1
                                ELSE st.retained]

TruncateBefore(st, before) == DropPrefix(st, PrefixBelow(st.events, before))

(* Mutant: the count limit is only looked at without an age limit. *)
ExcessOneLimit(st, policy, now) ==
    IF policy.ttl > 0 THEN PrefixExpired(st.events, now - policy.ttl)
    ELSE IF policy.max > 0 THEN Larger(Len(st.events) - policy.max, 0) ELSE 0

(* How many events a policy removes at time now: expired ones first, more  *)
(* when the count limit is still exceeded.                                 *)
Excess(st, policy, now) ==
    Larger(IF policy.ttl > 0 THEN PrefixExpired(st.events, now - policy.ttl) ELSE 0,
           IF policy.max > 0 THEN Len(st.events) - policy.max ELSE 0)

ApplyRetention(st, policy, now) ==
    IF Excess(st, policy, now) > 0 THEN DropPrefix(st, Excess(st, policy, now)) ELSE st

-----------------------------------------------------------------------------
EnsureStream(st) == [st EXCEPT !.exists = TRUE]

(* Mutant: a key is forgotten with its event. *)
KeyUsedWhileRetained(st, key) ==
    key \in Keys /\ \E i \in 1..Len(st.events) : st.events[i].key = key

(* The key was used on this stream before, whether its event is left or not. *)
KeyUsed(st, key) == key \in Keys /\ st.idempotency[key] > 0

(* A first write: the head advances and the event is added at the end.     *)
AppendEvent(st, key, at) ==
    LET seq == st.head + 1
    IN  [exists |-> TRUE,
         head |-> seq,
         retained |-> IF st.retained = 0 \/ seq < st.retained THEN seq ELSE st.retained,
         events |-> Append(st.events, [seq |-> seq, key |-> key, at |-> at]),
         idempotency |-> [k \in Keys |-> IF k = key THEN seq ELSE st.idempotency[k]]]

-----------------------------------------------------------------------------
(* Mutant: the storage does not look at the boundary again. *)
ReadTooLongUnchecked(st, after) == FALSE

(* A batch is described by the seq numbers it carries; Read fails with     *)
(* ErrTooLong when the position is not replayable.                         *)
ReadTooLong(st, after) == ReplayTooOld(after, st.retained)

ReadBatch(st, after, limit) ==
    LET skip == PrefixBelow(st.events, after + 1)
        sent == SubSeq(st.events, skip + 1, Smaller(skip + limit, Len(st.events)))
    IN  IF skip = Len(st.events)
        THEN [seqs |-> <<>>, seq |-> st.head, final |-> TRUE]
        ELSE [seqs |-> [i \in 1..Len(sent) |-> sent[i].seq],
              seq |-> sent[Len(sent)].seq,
              final |-> sent[Len(sent)].seq = st.head]

-----------------------------------------------------------------------------
(* What every operation above keeps true of a stream.                      *)

(* What the log of one stream holds: exactly the events retained .. head,  *)
(* in order and without a gap.  An empty stream has boundary 0 before its  *)
(* first event and head + 1 when everything was removed.                   *)
Contiguous(st) ==
    /\ \A i \in 1..Len(st.events) : st.events[i].seq = st.retained + i - 1
    /\ IF st.head = 0
       THEN st.retained = 0 /\ st.events = <<>>
       ELSE st.retained > 0 /\ st.retained + Len(st.events) = st.head + 1

(* An idempotency entry outlives its event; while the event is there the   *)
(* entry names it, so a retry is answered with the first write, and no two *)
(* events of a stream carry the same key.                                  *)
KeyNamesFirstWrite(st) ==
    /\ \A k \in Keys : st.idempotency[k] <= st.head
    /\ \A i \in 1..Len(st.events) :
          st.events[i].key # NoKey => st.idempotency[st.events[i].key] = st.events[i].seq
    /\ \A k \in Keys : \A i \in 1..Len(st.events) :
          st.events[i].seq = st.idempotency[k] => st.events[i].key = k
=============================================================================
