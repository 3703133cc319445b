-------------------------- MODULE MemoryStoreProofs --------------------------
(***************************************************************************)
(* The memory store for every set of streams, subscribers, waiters and     *)
(* keys: its type invariant, the contiguity of its logs and the absence of *)
(* lost wake-ups are invariants.  What the operations on one stream return *)
(* and preserve comes first.                                               *)
(***************************************************************************)
EXTENDS MemoryStore, FiniteSetTheorems, SequenceTheorems, TLAPS

(* A set of positions of a sequence of length n has at most n elements.    *)
LEMMA PositionsBound ==
    ASSUME NEW n \in Nat, NEW P \in SUBSET (1..n)
    PROVE  Cardinality(P) \in 0..n
  <1>1. IsFiniteSet(1..n) /\ Cardinality(1..n) = n
    BY FS_Interval
  <1>2. IsFiniteSet(P) /\ Cardinality(P) <= n
    BY <1>1, FS_Subset
  <1> QED BY <1>2, FS_CardinalityType

(* Both prefix scans stop within the log.                                  *)
LEMMA PrefixBelowBound ==
    ASSUME NEW S, NEW events \in Seq(S), NEW before
    PROVE  PrefixBelow(events, before) \in 0..Len(events)
  <1> Len(events) \in Nat
    BY LenProperties
  <1> QED BY PositionsBound DEF PrefixBelow

(* The scan by age.                                                        *)
LEMMA PrefixExpiredBound ==
    ASSUME NEW S, NEW events \in Seq(S), NEW cutoff
    PROVE  PrefixExpired(events, cutoff) \in 0..Len(events)
  <1> Len(events) \in Nat
    BY LenProperties
  <1> QED BY PositionsBound DEF PrefixExpired

(* The number of events retention removes lies within the log.             *)
LEMMA ExcessBound ==
    ASSUME NEW st \in StreamSet, NEW policy \in RetentionSet, NEW time
    PROVE  /\ Excess(st, policy, time) \in Int
           /\ Excess(st, policy, time) <= Len(st.events)
           /\ policy.max > 0 => Excess(st, policy, time) >= Len(st.events) - policy.max
  <1>1. st.events \in Seq(EventSet) /\ Len(st.events) \in Nat
    BY LenProperties DEF StreamSet
  <1>2. PrefixExpired(st.events, time - policy.ttl) \in 0..Len(st.events)
    BY <1>1, PrefixExpiredBound
  <1>3. policy.ttl \in Nat /\ policy.max \in Nat
    BY DEF RetentionSet
  <1> QED BY <1>1, <1>2, <1>3 DEF Excess, Larger

-----------------------------------------------------------------------------
(* What removing a prefix leaves.                                          *)
LEMMA DropPrefixParts ==
    ASSUME NEW st \in StreamSet, NEW n \in 0..Len(st.events)
    PROVE  LET d == DropPrefix(st, n)
           IN  /\ d \in StreamSet
               /\ d.exists = st.exists
               /\ d.head = st.head
               /\ d.idempotency = st.idempotency
               /\ Len(d.events) = Len(st.events) - n
               /\ \A i \in 1..(Len(st.events) - n) : d.events[i] = st.events[i + n]
               /\ d.retained = IF n < Len(st.events) THEN st.events[n + 1].seq
                               ELSE IF st.head > 0 THEN st.head + 1 ELSE st.retained
  <1> DEFINE rest == SubSeq(st.events, n + 1, Len(st.events))
  <1> DEFINE boundary == IF rest # <<>> THEN rest[1].seq
                         ELSE IF st.head > 0 THEN st.head + 1 ELSE st.retained
  <1>1. st.events \in Seq(EventSet) /\ Len(st.events) \in Nat /\ n \in Nat
    BY LenProperties DEF StreamSet
  <1>2. \A i \in (n + 1)..Len(st.events) : st.events[i] \in EventSet
    BY <1>1, ElementOfSeq
  <1>3. /\ rest \in Seq(EventSet)
        /\ Len(rest) = Len(st.events) - n
        /\ \A i \in 1..(Len(st.events) - n) : rest[i] = st.events[i + n]
    <2>1. /\ rest \in Seq(EventSet)
          /\ Len(rest) = IF n + 1 <= Len(st.events) THEN Len(st.events) - (n + 1) + 1 ELSE 0
          /\ \A i \in 1..(Len(st.events) - (n + 1) + 1) : rest[i] = st.events[(n + 1) + i - 1]
      BY <1>1, <1>2, SubSeqProperties
    <2> QED BY <1>1, <2>1
  <1>4. rest # <<>> <=> n < Len(st.events)
    <2>1. <<>> \in Seq(EventSet) /\ Len(<<>>) = 0
      BY EmptySeq
    <2>2. CASE Len(rest) = 0
      <3>1. rest = <<>>
        BY <1>3, <2>1, <2>2, SeqEqual
      <3> QED BY <1>1, <1>3, <2>2, <3>1
    <2>3. CASE Len(rest) # 0
      <3>1. rest # <<>>
        BY <2>1, <2>3
      <3> QED BY <1>1, <1>3, <2>3, <3>1
    <2> QED BY <2>2, <2>3
  <1>5. n < Len(st.events) => rest[1] = st.events[n + 1] /\ rest[1].seq \in Nat
    BY <1>1, <1>2, <1>3 DEF EventSet
  <1>6. boundary \in Nat
    BY <1>4, <1>5 DEF StreamSet
  <1>7. DropPrefix(st, n) = [st EXCEPT !.events = rest, !.retained = boundary]
    BY DEF DropPrefix
  <1> HIDE DEF rest, boundary
  <1>8. DropPrefix(st, n) \in StreamSet
    BY <1>3, <1>6, <1>7 DEF StreamSet
  <1>9. boundary = IF n < Len(st.events) THEN st.events[n + 1].seq
                   ELSE IF st.head > 0 THEN st.head + 1 ELSE st.retained
    BY <1>4, <1>5 DEF boundary
  <1> QED BY <1>3, <1>7, <1>8, <1>9 DEF StreamSet

-----------------------------------------------------------------------------
(* Removing a prefix keeps the log contiguous up to its head.              *)
LEMMA DropPrefixContiguous ==
    ASSUME NEW st \in StreamSet, NEW n \in 0..Len(st.events), Contiguous(st)
    PROVE  Contiguous(DropPrefix(st, n))
  <1> DEFINE d == DropPrefix(st, n)
  <1>1. /\ st.head \in Nat /\ st.retained \in Nat
        /\ st.events \in Seq(EventSet) /\ Len(st.events) \in Nat /\ n \in Nat
    BY LenProperties DEF StreamSet
  <1>2. /\ d \in StreamSet
        /\ d.head = st.head
        /\ Len(d.events) = Len(st.events) - n
        /\ \A i \in 1..(Len(st.events) - n) : d.events[i] = st.events[i + n]
        /\ d.retained = IF n < Len(st.events) THEN st.events[n + 1].seq
                        ELSE IF st.head > 0 THEN st.head + 1 ELSE st.retained
    BY DropPrefixParts
  <1> HIDE DEF d
  <1>3. CASE st.head = 0
    <2>1. st.events = <<>> /\ st.retained = 0 /\ n = 0
      BY <1>1, <1>3, EmptySeq DEF Contiguous
    <2>2. d.events \in Seq(EventSet) /\ Len(d.events) = 0
      BY <1>1, <1>2, <2>1 DEF StreamSet
    <2>3. d.events = <<>>
      BY <2>2, EmptySeq, SeqEqual
    <2> QED BY <1>1, <1>2, <1>3, <2>1, <2>2, <2>3 DEF Contiguous, d
  <1>4. CASE st.head > 0 /\ n < Len(st.events)
    <2>1. d.retained = st.retained + n
      BY <1>1, <1>2, <1>4 DEF Contiguous
    <2>2. \A i \in 1..Len(d.events) : d.events[i].seq = d.retained + i - 1
      <3> TAKE i \in 1..Len(d.events)
      <3>1. i \in 1..(Len(st.events) - n) /\ i + n \in 1..Len(st.events)
        BY <1>1, <1>2, <1>4
      <3>2. d.events[i].seq = st.events[i + n].seq
        BY <1>2, <3>1
      <3>3. st.events[i + n].seq = st.retained + (i + n) - 1
        BY <3>1 DEF Contiguous
      <3> QED BY <1>1, <2>1, <3>1, <3>2, <3>3
    <2> QED BY <1>1, <1>2, <1>4, <2>1, <2>2 DEF Contiguous, d
  <1>5. CASE st.head > 0 /\ n = Len(st.events)
    BY <1>1, <1>2, <1>5 DEF Contiguous, d
  <1> QED BY <1>1, <1>3, <1>4, <1>5

(* A truncation and a retention pass remove a prefix or nothing.           *)
LEMMA TruncateBeforeContiguous ==
    ASSUME NEW st \in StreamSet, NEW before
    PROVE  /\ TruncateBefore(st, before) \in StreamSet
           /\ TruncateBefore(st, before).head = st.head
           /\ Contiguous(st) => Contiguous(TruncateBefore(st, before))
  <1>1. PrefixBelow(st.events, before) \in 0..Len(st.events)
    BY PrefixBelowBound DEF StreamSet
  <1> QED BY <1>1, DropPrefixParts, DropPrefixContiguous DEF TruncateBefore

(* Retention removes a prefix or nothing, so the log stays contiguous.     *)
LEMMA ApplyRetentionContiguous ==
    ASSUME NEW st \in StreamSet, NEW policy \in RetentionSet, NEW time
    PROVE  /\ ApplyRetention(st, policy, time) \in StreamSet
           /\ ApplyRetention(st, policy, time).head = st.head
           /\ Contiguous(st) => Contiguous(ApplyRetention(st, policy, time))
  <1>1. Len(st.events) \in Nat
    BY LenProperties DEF StreamSet
  <1>2. CASE Excess(st, policy, time) > 0
    <2>1. Excess(st, policy, time) \in 0..Len(st.events)
      BY <1>1, <1>2, ExcessBound
    <2> QED BY <1>2, <2>1, DropPrefixParts, DropPrefixContiguous DEF ApplyRetention
  <1>3. CASE ~(Excess(st, policy, time) > 0)
    BY <1>3 DEF ApplyRetention
  <1> QED BY <1>2, <1>3

(* A first write extends the log by the next seq.                          *)
LEMMA AppendEventContiguous ==
    ASSUME NEW st \in StreamSet, NEW key \in Keys \cup {NoKey}, NEW at \in Nat
    PROVE  /\ AppendEvent(st, key, at) \in StreamSet
           /\ AppendEvent(st, key, at).head = st.head + 1
           /\ Contiguous(st) => Contiguous(AppendEvent(st, key, at))
  <1> DEFINE new == [seq |-> st.head + 1, key |-> key, at |-> at]
  <1> DEFINE a == AppendEvent(st, key, at)
  <1>1. /\ st.head \in Nat /\ st.retained \in Nat /\ st.idempotency \in [Keys -> Nat]
        /\ st.events \in Seq(EventSet) /\ Len(st.events) \in Nat
    BY LenProperties DEF StreamSet
  <1>2. new \in EventSet
    BY <1>1 DEF EventSet
  <1>3. /\ a.events = Append(st.events, new)
        /\ a.head = st.head + 1
        /\ a.exists = TRUE
        /\ a.retained = IF st.retained = 0 \/ st.head + 1 < st.retained
                        THEN st.head + 1 ELSE st.retained
    BY DEF AppendEvent
  <1>4. /\ a.events \in Seq(EventSet)
        /\ Len(a.events) = Len(st.events) + 1
        /\ \A i \in 1..Len(st.events) : a.events[i] = st.events[i]
        /\ a.events[Len(st.events) + 1] = new
    BY <1>1, <1>2, <1>3
  <1>5. a \in StreamSet
    BY <1>1, <1>2 DEF AppendEvent, StreamSet
  <1> HIDE DEF a
  <1>6. ASSUME Contiguous(st) PROVE Contiguous(a)
    <2>1. CASE st.head = 0
      <3>1. st.events = <<>> /\ st.retained = 0 /\ Len(st.events) = 0
        BY <1>1, <1>6, <2>1, EmptySeq DEF Contiguous
      <3> QED BY <1>1, <1>3, <1>4, <2>1, <3>1 DEF Contiguous
    <2>2. CASE st.head > 0
      <3>1. /\ st.retained > 0
            /\ st.retained + Len(st.events) = st.head + 1
            /\ \A i \in 1..Len(st.events) : st.events[i].seq = st.retained + i - 1
        BY <1>6, <2>2 DEF Contiguous
      <3>2. a.retained = st.retained
        BY <1>1, <1>3, <3>1
      <3>3. \A i \in 1..Len(a.events) : a.events[i].seq = a.retained + i - 1
        <4> TAKE i \in 1..Len(a.events)
        <4>1. CASE i = Len(st.events) + 1
          BY <1>1, <1>4, <3>1, <3>2, <4>1
        <4>2. CASE i \in 1..Len(st.events)
          BY <1>4, <3>1, <3>2, <4>2
        <4> QED BY <1>1, <1>4, <4>1, <4>2
      <3>4. a.head # 0 /\ a.retained > 0 /\ a.retained + Len(a.events) = a.head + 1
        <4>1. a.head = st.head + 1 /\ Len(a.events) = Len(st.events) + 1
          BY <1>3, <1>4
        <4>2. st.head \in Nat /\ Len(st.events) \in Nat /\ st.retained \in Nat
          BY <1>1
        <4>3. st.retained > 0 /\ st.retained + Len(st.events) = st.head + 1
          BY <3>1
        <4> QED BY <3>2, <4>1, <4>2, <4>3
      <3> QED BY <3>3, <3>4 DEF Contiguous
    <2> QED BY <1>1, <2>1, <2>2
  <1> QED BY <1>3, <1>5, <1>6 DEF a
-----------------------------------------------------------------------------
(* Removing a prefix leaves fewer events and no other ones.                *)
LEMMA DropPrefixKeys ==
    ASSUME NEW st \in StreamSet, NEW n \in 0..Len(st.events), KeyNamesFirstWrite(st)
    PROVE  KeyNamesFirstWrite(DropPrefix(st, n))
  <1> DEFINE d == DropPrefix(st, n)
  <1>1. st.events \in Seq(EventSet) /\ Len(st.events) \in Nat /\ n \in Nat
    BY LenProperties DEF StreamSet
  <1>2. /\ d.head = st.head
        /\ d.idempotency = st.idempotency
        /\ Len(d.events) = Len(st.events) - n
        /\ \A i \in 1..(Len(st.events) - n) : d.events[i] = st.events[i + n]
    BY DropPrefixParts
  <1> HIDE DEF d
  <1>3. \A i \in 1..Len(d.events) : i + n \in 1..Len(st.events) /\ d.events[i] = st.events[i + n]
    BY <1>1, <1>2
  <1>4. KeyNamesFirstWrite(d)
    BY <1>2, <1>3 DEF KeyNamesFirstWrite
  <1> QED BY <1>4 DEF d

(* Neither truncation nor retention makes a key name another event.        *)
LEMMA PrefixRemovalKeys ==
    ASSUME NEW st \in StreamSet, KeyNamesFirstWrite(st)
    PROVE  /\ \A before : KeyNamesFirstWrite(TruncateBefore(st, before))
           /\ \A policy \in RetentionSet : \A time :
                 KeyNamesFirstWrite(ApplyRetention(st, policy, time))
  <1>1. ASSUME NEW before PROVE KeyNamesFirstWrite(TruncateBefore(st, before))
    <2>1. PrefixBelow(st.events, before) \in 0..Len(st.events)
      BY PrefixBelowBound DEF StreamSet
    <2> QED BY <2>1, DropPrefixKeys DEF TruncateBefore
  <1>2. ASSUME NEW policy \in RetentionSet, NEW time
        PROVE  KeyNamesFirstWrite(ApplyRetention(st, policy, time))
    <2>1. Len(st.events) \in Nat
      BY LenProperties DEF StreamSet
    <2>2. CASE Excess(st, policy, time) > 0
      <3>1. Excess(st, policy, time) \in 0..Len(st.events)
        BY <2>1, <2>2, ExcessBound
      <3> QED BY <2>2, <3>1, DropPrefixKeys DEF ApplyRetention
    <2>3. CASE ~(Excess(st, policy, time) > 0)
      BY <2>3 DEF ApplyRetention
    <2> QED BY <2>2, <2>3
  <1> QED BY <1>1, <1>2

(* Neither truncation nor retention touches an entry.                      *)
LEMMA PrefixRemovalEntries ==
    ASSUME NEW st \in StreamSet
    PROVE  /\ \A before : TruncateBefore(st, before).idempotency = st.idempotency
           /\ \A policy \in RetentionSet : \A time :
                 ApplyRetention(st, policy, time).idempotency = st.idempotency
  <1>1. ASSUME NEW before PROVE TruncateBefore(st, before).idempotency = st.idempotency
    <2>1. PrefixBelow(st.events, before) \in 0..Len(st.events)
      BY PrefixBelowBound DEF StreamSet
    <2> QED BY <2>1, DropPrefixParts DEF TruncateBefore
  <1>2. ASSUME NEW policy \in RetentionSet, NEW time
        PROVE  ApplyRetention(st, policy, time).idempotency = st.idempotency
    <2>1. Len(st.events) \in Nat
      BY LenProperties DEF StreamSet
    <2>2. CASE Excess(st, policy, time) > 0
      <3>1. Excess(st, policy, time) \in 0..Len(st.events)
        BY <2>1, <2>2, ExcessBound
      <3> QED BY <2>2, <3>1, DropPrefixParts DEF ApplyRetention
    <2>3. CASE ~(Excess(st, policy, time) > 0)
      BY <2>3 DEF ApplyRetention
    <2> QED BY <2>2, <2>3
  <1> QED BY <1>1, <1>2

(* A first write takes a seq that no key names yet, under a key that names *)
(* no event yet.                                                           *)
LEMMA AppendEventKeys ==
    ASSUME NEW st \in StreamSet, NEW key \in Keys \cup {NoKey}, NEW at \in Nat,
           Contiguous(st), KeyNamesFirstWrite(st), ~KeyUsed(st, key)
    PROVE  KeyNamesFirstWrite(AppendEvent(st, key, at))
  <1> DEFINE new == [seq |-> st.head + 1, key |-> key, at |-> at]
  <1> DEFINE a == AppendEvent(st, key, at)
  <1>1. /\ st.head \in Nat /\ st.retained \in Nat /\ st.idempotency \in [Keys -> Nat]
        /\ st.events \in Seq(EventSet) /\ Len(st.events) \in Nat
    BY LenProperties DEF StreamSet
  <1>2. /\ a.head = st.head + 1
        /\ \A k \in Keys : a.idempotency[k] = IF k = key THEN st.head + 1 ELSE st.idempotency[k]
        /\ Len(a.events) = Len(st.events) + 1
        /\ \A i \in 1..Len(st.events) : a.events[i] = st.events[i]
        /\ a.events[Len(st.events) + 1] = new
    <2>1. new \in EventSet
      BY <1>1 DEF EventSet
    <2> QED BY <1>1, <2>1 DEF AppendEvent
  <1> HIDE DEF a
  <1>3. \A i \in 1..Len(st.events) :
           /\ st.events[i] \in EventSet
           /\ st.events[i].seq > 0 /\ st.events[i].seq <= st.head
    <2> SUFFICES ASSUME NEW i \in 1..Len(st.events)
                 PROVE  /\ st.events[i] \in EventSet
                        /\ st.events[i].seq > 0 /\ st.events[i].seq <= st.head
      OBVIOUS
    <2>1. st.events[i] \in EventSet
      BY <1>1, ElementOfSeq
    <2>2. st.head # 0
      BY <1>1, EmptySeq DEF Contiguous
    <2>3. /\ st.retained > 0 /\ st.retained + Len(st.events) = st.head + 1
          /\ st.events[i].seq = st.retained + i - 1
      BY <2>2 DEF Contiguous
    <2> QED BY <1>1, <2>1, <2>3
  <1>4. \A i \in 1..Len(st.events) : st.events[i].key # NoKey => st.events[i].key # key
    BY <1>1, <1>3 DEF KeyNamesFirstWrite, KeyUsed, EventSet
  <1>5. \A k \in Keys : a.idempotency[k] <= a.head
    BY <1>1, <1>2 DEF KeyNamesFirstWrite
  <1>6. ASSUME NEW i \in 1..Len(a.events), a.events[i].key # NoKey
        PROVE  a.idempotency[a.events[i].key] = a.events[i].seq
    <2>1. CASE i = Len(st.events) + 1
      BY <1>2, <1>6, <2>1
    <2>2. CASE i \in 1..Len(st.events)
      <3>1. st.events[i].key \in Keys /\ st.events[i].key # key
        BY <1>2, <1>3, <1>4, <1>6, <2>2 DEF EventSet
      <3>2. st.idempotency[st.events[i].key] = st.events[i].seq
        BY <2>2, <3>1, KeyAssumption DEF KeyNamesFirstWrite
      <3>3. a.idempotency[st.events[i].key] = st.idempotency[st.events[i].key]
        BY <1>2, <3>1
      <3>4. a.events[i] = st.events[i]
        BY <1>2, <2>2
      <3> QED BY <3>2, <3>3, <3>4
    <2> QED BY <1>1, <1>2, <2>1, <2>2
  <1>7. ASSUME NEW k \in Keys, NEW i \in 1..Len(a.events), a.events[i].seq = a.idempotency[k]
        PROVE  a.events[i].key = k
    <2>1. CASE i = Len(st.events) + 1
      <3>1. a.idempotency[k] = st.head + 1
        BY <1>2, <1>7, <2>1
      <3>2. st.idempotency[k] <= st.head /\ st.idempotency[k] \in Nat
        BY <1>1 DEF KeyNamesFirstWrite
      <3>3. k = key
        BY <1>1, <1>2, <3>1, <3>2
      <3> QED BY <1>2, <2>1, <3>3
    <2>2. CASE i \in 1..Len(st.events)
      <3>1. st.events[i].seq = a.idempotency[k] /\ st.events[i].seq <= st.head
        BY <1>2, <1>3, <1>7, <2>2
      <3>2. k # key
        BY <1>1, <1>2, <1>3, <2>2, <3>1 DEF EventSet
      <3> QED BY <1>2, <2>2, <3>1, <3>2 DEF KeyNamesFirstWrite
    <2> QED BY <1>1, <1>2, <2>1, <2>2
  <1> QED BY <1>5, <1>6, <1>7 DEF KeyNamesFirstWrite, a

(* After a retention pass the log is within the count limit.               *)
LEMMA ApplyRetentionCount ==
    ASSUME NEW st \in StreamSet, NEW policy \in RetentionSet, NEW time
    PROVE  policy.max > 0 => Len(ApplyRetention(st, policy, time).events) <= policy.max
  <1>1. Len(st.events) \in Nat /\ policy.max \in Nat
    BY LenProperties DEF StreamSet, RetentionSet
  <1>2. CASE Excess(st, policy, time) > 0
    <2>1. Excess(st, policy, time) \in 0..Len(st.events)
      BY <1>1, <1>2, ExcessBound
    <2>2. Len(ApplyRetention(st, policy, time).events) = Len(st.events) - Excess(st, policy, time)
      BY <1>2, <2>1, DropPrefixParts DEF ApplyRetention
    <2> QED BY <1>1, <2>1, <2>2, ExcessBound
  <1>3. CASE ~(Excess(st, policy, time) > 0)
    BY <1>1, <1>3, ExcessBound DEF ApplyRetention
  <1> QED BY <1>2, <1>3

(* A truncation never adds an event.                                       *)
LEMMA TruncateBeforeCount ==
    ASSUME NEW st \in StreamSet, NEW before
    PROVE  Len(TruncateBefore(st, before).events) <= Len(st.events)
  <1>1. Len(st.events) \in Nat
    BY LenProperties DEF StreamSet
  <1>2. PrefixBelow(st.events, before) \in 0..Len(st.events)
    BY PrefixBelowBound DEF StreamSet
  <1>3. Len(TruncateBefore(st, before).events)
          = Len(st.events) - PrefixBelow(st.events, before)
    BY <1>2, DropPrefixParts DEF TruncateBefore
  <1> QED BY <1>1, <1>2, <1>3

-----------------------------------------------------------------------------
(* The store.                                                              *)

(* A stream that does not exist reads as an empty, contiguous log.         *)
LEMMA NoStreamFacts == NoStream \in StreamSet /\ NoStream.head = 0 /\ Contiguous(NoStream)
  <1>1. <<>> \in Seq(EventSet) /\ Len(<<>>) = 0
    BY EmptySeq
  <1> QED BY <1>1 DEF NoStream, StreamSet, Contiguous

(* No key was used on it.                                                  *)
LEMMA NoStreamKeys == KeyNamesFirstWrite(NoStream)
  <1>1. Len(<<>>) = 0
    BY EmptySeq
  <1> QED BY <1>1 DEF NoStream, KeyNamesFirstWrite

(* Creating a stream on first use changes nothing in its log.              *)
LEMMA EnsureStreamFacts ==
    ASSUME NEW st \in StreamSet
    PROVE  /\ EnsureStream(st) \in StreamSet
           /\ EnsureStream(st).head = st.head
           /\ Contiguous(st) => Contiguous(EnsureStream(st))
  BY DEF EnsureStream, StreamSet, Contiguous

(* A step of the log leaves the head alone or adds one to it.              *)
LEMMA AppendNewFacts ==
    ASSUME NEW st \in StreamSet, NEW key \in Keys \cup {NoKey}, NEW at \in Nat,
           NEW policy \in RetentionSet, NEW t
    PROVE  LET a == ApplyRetention(AppendEvent(st, key, at), policy, t)
           IN  /\ a \in StreamSet
               /\ a.head = st.head + 1
               /\ Contiguous(st) => Contiguous(a)
  <1> DEFINE e == AppendEvent(st, key, at)
  <1>1. e \in StreamSet /\ e.head = st.head + 1 /\ (Contiguous(st) => Contiguous(e))
    BY AppendEventContiguous
  <1> HIDE DEF e
  <1>2. /\ ApplyRetention(e, policy, t) \in StreamSet
        /\ ApplyRetention(e, policy, t).head = e.head
        /\ Contiguous(e) => Contiguous(ApplyRetention(e, policy, t))
    BY <1>1, ApplyRetentionContiguous
  <1> QED BY <1>1, <1>2 DEF e

-----------------------------------------------------------------------------
(* A new store is well-typed.                                              *)
LEMMA StoreTypeInit == Init => TypeOK
  <1> SUFFICES ASSUME Init PROVE TypeOK
    OBVIOUS
  <1>1. streams \in [Streams -> StreamSet]
    BY NoStreamFacts DEF Init
  <1>2. cursors \in [Subscribers \X Streams -> Nat \cup {NoCursor}]
    BY DEF Init
  <1>3. retention \in [Streams -> RetentionSet]
    BY DEF Init, NoRetention, RetentionSet
  <1>4. watchers \in [Streams -> SUBSET [after : Nat, owner : Waiters]]
    BY DEF Init
  <1>5. waiting \in [Waiters -> WaitSet]
    <2>1. [phase : {"idle"}, stream : Streams, after : {0}] \subseteq WaitSet
      BY DEF WaitSet
    <2> QED BY <2>1 DEF Init
  <1>6. compacting \in [Compactors -> CompactSet]
    <2>1. [phase : {"idle"}, stream : Streams, min : {0}, counted : {{}}] \subseteq CompactSet
      BY DEF CompactSet
    <2> QED BY <2>1 DEF Init
  <1> QED BY <1>1, <1>2, <1>3, <1>4, <1>5, <1>6 DEF Init, TypeOK

(* An append leaves every variable its type, whatever the creation time.   *)
LEMMA AppendNewType ==
    ASSUME TypeOK, NEW s \in Streams, NEW key \in Keys \cup {NoKey}, NEW at \in Nat,
           AppendNew(s, key, at)
    PROVE  TypeOK'
  <1> USE DEF TypeOK
  <1>1. streams' \in [Streams -> StreamSet]
    BY AppendNewFacts DEF AppendNew
  <1>2. waiting' \in [Waiters -> WaitSet]
    BY DEF AppendNew, NotifyStream, WaitSet
  <1>3. watchers' \in [Streams -> SUBSET [after : Nat, owner : Waiters]]
    BY DEF AppendNew, NotifyStream
  <1> QED BY <1>1, <1>2, <1>3 DEF AppendNew

(* So does every other operation.                                          *)
LEMMA StoreTypeStep == TypeOK /\ [Next]_storeVars => TypeOK'
  <1> SUFFICES ASSUME TypeOK, [Next]_storeVars PROVE TypeOK'
    OBVIOUS
  <1> USE DEF TypeOK
  <1>1. ASSUME NEW w \in Waiters, NEW s \in Streams, NEW after \in 0..MaxSeq,
               WaitForStream(w, s, after)
        PROVE  TypeOK'
    <2>1. after \in Nat
      BY StoreAssumption
    <2>2. watchers' \in [Streams -> SUBSET [after : Nat, owner : Waiters]]
      BY <1>1, <2>1 DEF WaitForStream
    <2>3. waiting' \in [Waiters -> WaitSet]
      BY <1>1, <2>1 DEF WaitForStream, WaitSet
    <2> QED BY <1>1, <2>2, <2>3 DEF WaitForStream
  <1>2. ASSUME NEW w \in Waiters, WaitReturn(w) PROVE TypeOK'
    BY <1>2 DEF WaitReturn, WaitSet
  <1>3. ASSUME NEW w \in Waiters, WaitCancel(w) PROVE TypeOK'
    <2>1. waiting' \in [Waiters -> WaitSet]
      BY <1>3 DEF WaitCancel, WaitSet
    <2>2. watchers' \in [Streams -> SUBSET [after : Nat, owner : Waiters]]
      BY <1>3 DEF WaitCancel
    <2> QED BY <1>3, <2>1, <2>2 DEF WaitCancel
  <1>4. ASSUME NEW s \in Streams, NEW key \in Keys \cup {NoKey}, NEW at \in 0..MaxTime,
               AppendNew(s, key, at)
        PROVE  TypeOK'
    <2> HIDE DEF TypeOK
    <2>1. at \in Nat
      BY StoreAssumption
    <2> QED BY <1>4, <2>1, AppendNewType
  <1>5. ASSUME NEW s \in Streams, NEW key \in Keys, AppendRetry(s, key) PROVE TypeOK'
    BY <1>5 DEF AppendRetry, storeVars
  <1>6. ASSUME NEW s \in Streams, NEW before \in 0..(MaxSeq + 1), TruncateStream(s, before)
        PROVE  TypeOK'
    BY <1>6, TruncateBeforeContiguous DEF TruncateStream
  <1>7. ASSUME NEW s \in Streams, NEW policy \in Retentions, SetStreamRetention(s, policy)
        PROVE  TypeOK'
    <2>1. policy \in RetentionSet
      BY StoreAssumption
    <2> QED BY <1>7, <2>1, ApplyRetentionContiguous DEF SetStreamRetention
  <1>8. ASSUME NEW s \in Streams, CreateStream(s) PROVE TypeOK'
    BY <1>8, EnsureStreamFacts DEF CreateStream
  <1>9. ASSUME NEW s \in Streams, DeleteStream(s) PROVE TypeOK'
    <2>1. NoRetention \in RetentionSet
      BY DEF NoRetention, RetentionSet
    <2> QED BY <1>9, <2>1, NoStreamFacts DEF DeleteStream
  <1>10. ASSUME NEW c \in Compactors, NEW s \in Streams, CompactMinimum(c, s) PROVE TypeOK'
    <2>1. PICK min \in {cursors[<<u, s>>] : u \in CursorsOn(s)} :
             /\ min > 0
             /\ compacting' = [compacting EXCEPT ![c] =
                   [phase |-> "truncate", stream |-> s, min |-> min, counted |-> CursorsOn(s)]]
      BY <1>10 DEF CompactMinimum
    <2>2. min \in Nat
      BY <2>1 DEF CursorsOn, NoCursor
    <2>3. CursorsOn(s) \subseteq Subscribers
      BY DEF CursorsOn
    <2>4. compacting' \in [Compactors -> CompactSet]
      BY <2>1, <2>2, <2>3 DEF CompactSet
    <2> QED BY <1>10, <2>4 DEF CompactMinimum
  <1>11. ASSUME NEW c \in Compactors, CompactTruncate(c) PROVE TypeOK'
    <2>1. streams' \in [Streams -> StreamSet]
      BY <1>11, TruncateBeforeContiguous DEF CompactTruncate, CompactSet
    <2>2. compacting' \in [Compactors -> CompactSet]
      BY <1>11 DEF CompactTruncate, CompactSet
    <2> QED BY <1>11, <2>1, <2>2 DEF CompactTruncate
  <1>12. ASSUME NEW u \in Subscribers, NEW s \in Streams, NEW seq \in 0..MaxSeq,
                StoreAck(u, s, seq)
         PROVE  TypeOK'
    BY <1>12, StoreAssumption DEF StoreAck
  <1>13. ASSUME NEW u \in Subscribers, NEW s \in Streams, NEW seq \in 0..MaxSeq,
                ResetCursor(u, s, seq)
         PROVE  TypeOK'
    BY <1>13, StoreAssumption DEF ResetCursor
  <1>14. CASE Tick
    BY <1>14 DEF Tick
  <1>15. CASE UNCHANGED storeVars
    BY <1>15 DEF storeVars
  <1> QED
    BY <1>1, <1>2, <1>3, <1>4, <1>5, <1>6, <1>7, <1>8, <1>9, <1>10, <1>11, <1>12,
       <1>13, <1>14, <1>15
    DEF Next, WatcherNext, LogNext, RegistryNext, CompactNext, AckNext, ResetNext

(* Every variable keeps its type whatever the callers of the storage       *)
(* interface do, in whatever order.                                        *)
THEOREM TypeCorrect == Spec => []TypeOK
  BY StoreTypeInit, StoreTypeStep, PTL DEF Spec

-----------------------------------------------------------------------------
(* An append extends one contiguous log, whatever the creation time.       *)
LEMMA AppendNewContiguous ==
    ASSUME TypeOK, LogContiguous, NEW s \in Streams, NEW key \in Keys \cup {NoKey},
           NEW at \in Nat, AppendNew(s, key, at)
    PROVE  LogContiguous'
  <1> DEFINE st == ApplyRetention(AppendEvent(streams[s], key, at), retention[s], now)
  <1>1. /\ streams \in [Streams -> StreamSet]
        /\ retention \in [Streams -> RetentionSet]
        /\ \A r \in Streams : streams[r] \in StreamSet /\ Contiguous(streams[r])
    BY DEF TypeOK, LogContiguous
  <1>2. Contiguous(st)
    BY <1>1, AppendNewFacts
  <1>3. streams' = [streams EXCEPT ![s] = st]
    BY DEF AppendNew
  <1> HIDE DEF st
  <1> QED BY <1>1, <1>2, <1>3 DEF LogContiguous

(* Every other operation removes a prefix, empties the log or leaves it.   *)
LEMMA StoreContiguousStep == TypeOK /\ LogContiguous /\ [Next]_storeVars => LogContiguous'
  <1> SUFFICES ASSUME TypeOK, LogContiguous, [Next]_storeVars
               PROVE  LogContiguous'
    OBVIOUS
  <1>1. /\ streams \in [Streams -> StreamSet]
        /\ retention \in [Streams -> RetentionSet]
        /\ \A r \in Streams : streams[r] \in StreamSet /\ Contiguous(streams[r])
    BY DEF TypeOK, LogContiguous
  <1>2. CASE UNCHANGED streams
    BY <1>2 DEF LogContiguous
  <1>3. ASSUME NEW s \in Streams, NEW st, Contiguous(st),
               streams' = [streams EXCEPT ![s] = st]
        PROVE  LogContiguous'
    BY <1>1, <1>3 DEF LogContiguous
  <1>4. CASE WatcherNext \/ AckNext \/ ResetNext \/ Tick \/ UNCHANGED storeVars
    BY <1>2, <1>4 DEF WatcherNext, WaitForStream, WaitReturn, WaitCancel, AckNext, StoreAck,
                      ResetNext, ResetCursor, Tick, storeVars
  <1>5. ASSUME NEW s \in Streams, NEW key \in Keys \cup {NoKey}, NEW at \in 0..MaxTime,
               AppendNew(s, key, at)
        PROVE  LogContiguous'
    <2>1. at \in Nat
      BY StoreAssumption
    <2> QED BY <1>5, <2>1, AppendNewContiguous
  <1>6. ASSUME NEW s \in Streams, NEW key \in Keys, AppendRetry(s, key)
        PROVE  LogContiguous'
    BY <1>2, <1>6 DEF AppendRetry, storeVars
  <1>7. ASSUME NEW s \in Streams, NEW before, TruncateStream(s, before)
        PROVE  LogContiguous'
    <2>1. Contiguous(TruncateBefore(streams[s], before))
      BY <1>1, TruncateBeforeContiguous
    <2> QED BY <1>3, <1>7, <2>1 DEF TruncateStream
  <1>8. ASSUME NEW s \in Streams, NEW policy \in Retentions, SetStreamRetention(s, policy)
        PROVE  LogContiguous'
    <2>1. Contiguous(ApplyRetention(streams[s], policy, now))
      BY <1>1, StoreAssumption, ApplyRetentionContiguous
    <2> QED BY <1>3, <1>8, <2>1 DEF SetStreamRetention
  <1>9. ASSUME NEW s \in Streams, CreateStream(s) PROVE LogContiguous'
    <2>1. Contiguous(EnsureStream(streams[s]))
      BY <1>1, EnsureStreamFacts
    <2> QED BY <1>3, <1>9, <2>1 DEF CreateStream
  <1>10. ASSUME NEW s \in Streams, DeleteStream(s) PROVE LogContiguous'
    BY <1>3, <1>10, NoStreamFacts DEF DeleteStream
  <1>11. ASSUME NEW c \in Compactors, NEW s \in Streams, CompactMinimum(c, s)
         PROVE  LogContiguous'
    BY <1>2, <1>11 DEF CompactMinimum
  <1>12. ASSUME NEW c \in Compactors, CompactTruncate(c) PROVE LogContiguous'
    <2>1. compacting[c].stream \in Streams
      BY DEF TypeOK, CompactSet
    <2>2. Contiguous(TruncateBefore(streams[compacting[c].stream], compacting[c].min + 1))
      BY <1>1, <2>1, TruncateBeforeContiguous
    <2> QED BY <1>3, <1>12, <2>1, <2>2 DEF CompactTruncate
  <1> QED
    BY <1>4, <1>5, <1>6, <1>7, <1>8, <1>9, <1>10, <1>11, <1>12
    DEF Next, LogNext, RegistryNext, CompactNext

(* Whatever mix of appends, retention passes, truncations, compactions and *)
(* deletions runs, a log holds exactly the events from its boundary to its *)
(* head.  LogContiguous is inductive next to the type invariant: every     *)
(* operation extends a log by the next seq or removes a prefix.            *)
THEOREM LogStaysContiguous == Spec => []LogContiguous
  <1>1. Init => LogContiguous
    BY NoStreamFacts DEF Init, LogContiguous
  <1> QED BY <1>1, StoreContiguousStep, TypeCorrect, PTL DEF Spec

-----------------------------------------------------------------------------
(* Nobody sleeps through an append: a caller blocked in WaitForStream is   *)
(* registered with the head not past what it waits for, and no watcher     *)
(* outlives its call.  The registration and the head check share a         *)
(* critical section, and so do the new head and the notification.          *)
THEOREM NoWakeupIsMissed == Spec => []NoMissedWakeup
  <1>1. Init => NoMissedWakeup
    BY DEF Init, NoMissedWakeup
  <1>2. TypeOK /\ NoMissedWakeup /\ [Next]_storeVars => NoMissedWakeup'
    <2> SUFFICES ASSUME TypeOK, NoMissedWakeup, [Next]_storeVars
                 PROVE  NoMissedWakeup'
      OBVIOUS
    <2>1. /\ streams \in [Streams -> StreamSet]
          /\ \A r \in Streams : streams[r] \in StreamSet /\ streams[r].head \in Nat
          /\ waiting \in [Waiters -> WaitSet]
          /\ \A w \in Waiters : waiting[w].stream \in Streams /\ waiting[w].after \in Nat
          /\ watchers \in [Streams -> SUBSET [after : Nat, owner : Waiters]]
      BY DEF TypeOK, WaitSet, StreamSet
    <2>2. CASE UNCHANGED <<streams, watchers, waiting>>
      BY <2>2 DEF NoMissedWakeup
    <2>3. ASSUME UNCHANGED <<watchers, waiting>>, NEW s \in Streams, NEW st \in StreamSet,
                 st.head <= streams[s].head, streams' = [streams EXCEPT ![s] = st]
          PROVE  NoMissedWakeup'
      <3>1. \A r \in Streams : streams'[r].head \in Nat /\ streams'[r].head <= streams[r].head
        BY <2>1, <2>3 DEF StreamSet
      <3>2. ASSUME NEW w \in Waiters, waiting[w].phase = "blocked"
            PROVE  streams'[waiting[w].stream].head <= waiting[w].after
        <4>1. streams[waiting[w].stream].head <= waiting[w].after
          BY <3>2 DEF NoMissedWakeup
        <4> QED BY <2>1, <3>1, <4>1
      <3> QED BY <2>3, <3>2 DEF NoMissedWakeup
    <2>4. ASSUME NEW w \in Waiters, NEW s \in Streams, NEW after \in 0..MaxSeq,
                 WaitForStream(w, s, after)
          PROVE  NoMissedWakeup'
      BY <2>1, <2>4 DEF WaitForStream, NoMissedWakeup
    <2>5. ASSUME NEW w \in Waiters, WaitReturn(w) PROVE NoMissedWakeup'
      BY <2>1, <2>5 DEF WaitReturn, NoMissedWakeup, WaitSet
    <2>6. ASSUME NEW w \in Waiters, WaitCancel(w) PROVE NoMissedWakeup'
      BY <2>1, <2>6 DEF WaitCancel, NoMissedWakeup, WaitSet
    <2>7. ASSUME NEW s \in Streams, NEW key \in Keys \cup {NoKey}, NEW at \in 0..MaxTime,
                 AppendNew(s, key, at)
          PROVE  NoMissedWakeup'
      <3> DEFINE head == streams[s].head + 1
      <3> DEFINE woken == {x \in watchers[s] : x.after < head}
      <3>1. at \in Nat
        BY StoreAssumption
      <3>2. /\ streams'[s].head = head
            /\ \A r \in Streams \ {s} : streams'[r] = streams[r]
        BY <2>1, <2>7, <3>1, AppendNewFacts DEF AppendNew, TypeOK
      <3>3. /\ watchers' = [watchers EXCEPT ![s] = @ \ woken]
            /\ waiting' = [w \in Waiters |->
                             IF \E x \in woken : x.owner = w
                             THEN [waiting[w] EXCEPT !.phase = "woken"]
                             ELSE waiting[w]]
        BY <2>7 DEF AppendNew, NotifyStream
      <3>4. ASSUME NEW w \in Waiters, waiting'[w].phase = "blocked"
            PROVE  /\ waiting'[w] = waiting[w]
                   /\ [after |-> waiting[w].after, owner |-> w] \in watchers'[waiting[w].stream]
                   /\ streams'[waiting[w].stream].head <= waiting[w].after
        <4> DEFINE me == [after |-> waiting[w].after, owner |-> w]
        <4>1. ~\E x \in woken : x.owner = w
          BY <2>1, <3>3, <3>4 DEF WaitSet
        <4>2. waiting'[w] = waiting[w]
          BY <3>3, <4>1
        <4>3. /\ me \in watchers[waiting[w].stream]
              /\ streams[waiting[w].stream].head <= waiting[w].after
          BY <3>4, <4>2 DEF NoMissedWakeup
        <4>4. CASE waiting[w].stream = s
          <5>1. me \notin woken
            BY <4>1
          <5>2. ~(waiting[w].after < head)
            BY <4>3, <4>4, <5>1
          <5> QED BY <2>1, <3>2, <3>3, <4>2, <4>3, <4>4, <5>1, <5>2
        <4>5. CASE waiting[w].stream # s
          BY <2>1, <3>2, <3>3, <4>2, <4>3, <4>5
        <4> QED BY <4>4, <4>5
      <3>5. ASSUME NEW r \in Streams, NEW x \in watchers'[r]
            PROVE  /\ waiting'[x.owner].phase = "blocked"
                   /\ waiting'[x.owner].stream = r
                   /\ waiting'[x.owner].after = x.after
        <4>1. x \in watchers[r] /\ x.owner \in Waiters /\ x.after \in Nat
          BY <2>1, <3>3
        <4>2. /\ waiting[x.owner].phase = "blocked"
              /\ waiting[x.owner].stream = r
              /\ waiting[x.owner].after = x.after
          BY <4>1 DEF NoMissedWakeup
        <4>3. ASSUME NEW y \in woken PROVE y.owner # x.owner
          <5>1. y \in watchers[s] /\ waiting[y.owner].stream = s /\ waiting[y.owner].after = y.after
            BY <4>3 DEF NoMissedWakeup
          <5>2. CASE r = s
            BY <2>1, <3>3, <4>1, <4>2, <4>3, <5>1, <5>2
          <5>3. CASE r # s
            BY <4>2, <5>1, <5>3
          <5> QED BY <5>2, <5>3
        <4>4. waiting'[x.owner] = waiting[x.owner]
          BY <3>3, <4>1, <4>3
        <4> QED BY <4>2, <4>4
      <3> QED BY <3>4, <3>5 DEF NoMissedWakeup
    <2>8. CASE AckNext \/ ResetNext \/ Tick \/ UNCHANGED storeVars
      BY <2>2, <2>8 DEF AckNext, StoreAck, ResetNext, ResetCursor, Tick, storeVars
    <2>9. ASSUME NEW s \in Streams, NEW key \in Keys, AppendRetry(s, key)
          PROVE  NoMissedWakeup'
      BY <2>2, <2>9 DEF AppendRetry, storeVars
    <2>10. ASSUME NEW s \in Streams, NEW before, TruncateStream(s, before)
           PROVE  NoMissedWakeup'
      <3> DEFINE st == TruncateBefore(streams[s], before)
      <3>1. st \in StreamSet /\ st.head <= streams[s].head
        BY <2>1, TruncateBeforeContiguous
      <3> QED BY <2>3, <2>10, <3>1 DEF TruncateStream
    <2>11. ASSUME NEW s \in Streams, NEW policy \in Retentions, SetStreamRetention(s, policy)
           PROVE  NoMissedWakeup'
      <3> DEFINE st == ApplyRetention(streams[s], policy, now)
      <3>1. st \in StreamSet /\ st.head <= streams[s].head
        BY <2>1, StoreAssumption, ApplyRetentionContiguous
      <3> QED BY <2>3, <2>11, <3>1 DEF SetStreamRetention
    <2>12. ASSUME NEW s \in Streams, CreateStream(s) PROVE NoMissedWakeup'
      <3> DEFINE st == EnsureStream(streams[s])
      <3>1. st \in StreamSet /\ st.head <= streams[s].head
        BY <2>1, EnsureStreamFacts
      <3> QED BY <2>3, <2>12, <3>1 DEF CreateStream
    <2>13. ASSUME NEW s \in Streams, DeleteStream(s) PROVE NoMissedWakeup'
      <3>1. NoStream \in StreamSet /\ NoStream.head <= streams[s].head
        BY <2>1, NoStreamFacts
      <3> QED BY <2>3, <2>13, <3>1 DEF DeleteStream
    <2>14. ASSUME NEW c \in Compactors, NEW s \in Streams, CompactMinimum(c, s)
           PROVE  NoMissedWakeup'
      BY <2>2, <2>14 DEF CompactMinimum
    <2>15. ASSUME NEW c \in Compactors, CompactTruncate(c) PROVE NoMissedWakeup'
      <3> DEFINE s == compacting[c].stream
      <3> DEFINE st == TruncateBefore(streams[s], compacting[c].min + 1)
      <3>1. s \in Streams
        BY DEF TypeOK, CompactSet
      <3>2. st \in StreamSet /\ st.head <= streams[s].head
        BY <2>1, <3>1, TruncateBeforeContiguous
      <3> QED BY <2>3, <2>15, <3>1, <3>2 DEF CompactTruncate
    <2> QED
      BY <2>4, <2>5, <2>6, <2>7, <2>8, <2>9, <2>10, <2>11, <2>12, <2>13, <2>14, <2>15
      DEF Next, WatcherNext, LogNext, RegistryNext, CompactNext
  <1> QED BY <1>1, <1>2, TypeCorrect, PTL DEF Spec
-----------------------------------------------------------------------------
(* A retry of a used key is answered with the first write or refused,      *)
(* whatever ran between the two: keys outlive their events, a new event    *)
(* takes a seq that no key names, no step but a deletion of the stream     *)
(* changes an entry, and so nothing is appended under a used key again.    *)
THEOREM KeysNameFirstWrites == Spec => IdempotencyConsistent
  <1>1. Init => EntriesNameEvents
    BY NoStreamKeys DEF Init, EntriesNameEvents
  <1>2. TypeOK /\ LogContiguous /\ EntriesNameEvents /\ [Next]_storeVars
          => EntriesNameEvents'
    <2> SUFFICES ASSUME TypeOK, LogContiguous, EntriesNameEvents, [Next]_storeVars
                 PROVE  EntriesNameEvents'
      OBVIOUS
    <2>1. /\ streams \in [Streams -> StreamSet]
          /\ retention \in [Streams -> RetentionSet]
          /\ \A r \in Streams : /\ streams[r] \in StreamSet /\ Contiguous(streams[r])
                                /\ KeyNamesFirstWrite(streams[r])
      BY DEF TypeOK, LogContiguous, EntriesNameEvents
    <2>2. CASE UNCHANGED streams
      BY <2>2 DEF EntriesNameEvents
    <2>3. ASSUME NEW s \in Streams, NEW st, KeyNamesFirstWrite(st),
                 streams' = [streams EXCEPT ![s] = st]
          PROVE  EntriesNameEvents'
      BY <2>1, <2>3 DEF EntriesNameEvents
    <2>4. CASE WatcherNext \/ AckNext \/ ResetNext \/ Tick \/ UNCHANGED storeVars
      BY <2>2, <2>4 DEF WatcherNext, WaitForStream, WaitReturn, WaitCancel, AckNext, StoreAck,
                        ResetNext, ResetCursor, Tick, storeVars
    <2>5. ASSUME NEW s \in Streams, NEW key \in Keys \cup {NoKey}, NEW at \in 0..MaxTime,
                 AppendNew(s, key, at)
          PROVE  EntriesNameEvents'
      <3> DEFINE e == AppendEvent(streams[s], key, at)
      <3>1. at \in Nat
        BY StoreAssumption
      <3>2. e \in StreamSet
        BY <2>1, <3>1, AppendEventContiguous
      <3>3. ~KeyUsed(streams[s], key)
        BY <2>5 DEF AppendNew
      <3>4. KeyNamesFirstWrite(e)
        BY <2>1, <3>1, <3>3, AppendEventKeys
      <3>5. streams' = [streams EXCEPT ![s] = ApplyRetention(e, retention[s], now)]
        BY <2>5 DEF AppendNew
      <3> HIDE DEF e
      <3>6. KeyNamesFirstWrite(ApplyRetention(e, retention[s], now))
        BY <2>1, <3>2, <3>4, PrefixRemovalKeys
      <3> QED BY <2>3, <3>5, <3>6
    <2>6. ASSUME NEW s \in Streams, NEW key \in Keys, AppendRetry(s, key)
          PROVE  EntriesNameEvents'
      BY <2>2, <2>6 DEF AppendRetry, storeVars
    <2>7. ASSUME NEW s \in Streams, NEW before, TruncateStream(s, before)
          PROVE  EntriesNameEvents'
      <3>1. KeyNamesFirstWrite(TruncateBefore(streams[s], before))
        BY <2>1, PrefixRemovalKeys
      <3> QED BY <2>3, <2>7, <3>1 DEF TruncateStream
    <2>8. ASSUME NEW s \in Streams, NEW policy \in Retentions, SetStreamRetention(s, policy)
          PROVE  EntriesNameEvents'
      <3>1. KeyNamesFirstWrite(ApplyRetention(streams[s], policy, now))
        BY <2>1, StoreAssumption, PrefixRemovalKeys
      <3> QED BY <2>3, <2>8, <3>1 DEF SetStreamRetention
    <2>9. ASSUME NEW s \in Streams, CreateStream(s) PROVE EntriesNameEvents'
      <3>1. KeyNamesFirstWrite(EnsureStream(streams[s]))
        BY <2>1 DEF EnsureStream, KeyNamesFirstWrite, StreamSet
      <3> QED BY <2>3, <2>9, <3>1 DEF CreateStream
    <2>10. ASSUME NEW s \in Streams, DeleteStream(s) PROVE EntriesNameEvents'
      BY <2>3, <2>10, NoStreamKeys DEF DeleteStream
    <2>11. ASSUME NEW c \in Compactors, NEW s \in Streams, CompactMinimum(c, s)
           PROVE  EntriesNameEvents'
      BY <2>2, <2>11 DEF CompactMinimum
    <2>12. ASSUME NEW c \in Compactors, CompactTruncate(c) PROVE EntriesNameEvents'
      <3> DEFINE s == compacting[c].stream
      <3>1. s \in Streams
        BY DEF TypeOK, CompactSet
      <3>2. KeyNamesFirstWrite(TruncateBefore(streams[s], compacting[c].min + 1))
        BY <2>1, <3>1, PrefixRemovalKeys
      <3> QED BY <2>3, <2>12, <3>1, <3>2 DEF CompactTruncate
    <2> QED
      BY <2>4, <2>5, <2>6, <2>7, <2>8, <2>9, <2>10, <2>11, <2>12
      DEF Next, LogNext, RegistryNext, CompactNext
  <1> DEFINE Stay == \A s \in Streams, k \in Keys : EntryStays(s, k)
  <1>3. TypeOK /\ [Next]_storeVars => [Stay]_storeVars
    <2> SUFFICES ASSUME TypeOK, Next PROVE Stay
      OBVIOUS
    <2>1. /\ streams \in [Streams -> StreamSet]
          /\ \A r \in Streams : streams[r] \in StreamSet
      BY DEF TypeOK
    <2>2. CASE UNCHANGED streams
      BY <2>2 DEF EntryStays
    <2>3. ASSUME NEW s \in Streams, NEW st, streams' = [streams EXCEPT ![s] = st],
                 \A k \in Keys : streams[s].idempotency[k] > 0 =>
                     st.idempotency[k] = streams[s].idempotency[k]
          PROVE  Stay
      <3>1. ASSUME NEW r \in Streams, NEW k \in Keys, streams[r].idempotency[k] > 0
            PROVE  streams'[r].idempotency[k] = streams[r].idempotency[k]
        BY <2>1, <2>3, <3>1
      <3> QED BY <3>1 DEF EntryStays
    <2>4. CASE WatcherNext \/ AckNext \/ ResetNext \/ Tick
      BY <2>2, <2>4 DEF WatcherNext, WaitForStream, WaitReturn, WaitCancel, AckNext, StoreAck,
                        ResetNext, ResetCursor, Tick
    <2>5. ASSUME NEW s \in Streams, NEW key \in Keys \cup {NoKey}, NEW at \in 0..MaxTime,
                 AppendNew(s, key, at)
          PROVE  Stay
      <3>1. at \in Nat
        BY StoreAssumption
      <3>2. ~KeyUsed(streams[s], key)
        BY <2>5 DEF AppendNew
      <3>3. PICK e : e = AppendEvent(streams[s], key, at)
        OBVIOUS
      <3>4. streams' = [streams EXCEPT ![s] = ApplyRetention(e, retention[s], now)]
        BY <2>5, <3>3 DEF AppendNew
      <3>5. e \in StreamSet
        BY <2>1, <3>1, <3>3, AppendEventContiguous
      <3>6. \A k \in Keys : k # key => e.idempotency[k] = streams[s].idempotency[k]
        BY <3>3 DEF AppendEvent
      <3>7. \A k \in Keys : streams[s].idempotency[k] > 0 =>
                 e.idempotency[k] = streams[s].idempotency[k]
        BY <3>2, <3>6 DEF KeyUsed
      <3>8. retention[s] \in RetentionSet
        BY DEF TypeOK
      <3>9. ApplyRetention(e, retention[s], now).idempotency = e.idempotency
        BY <3>5, <3>8, PrefixRemovalEntries
      <3>10. PICK st : st = ApplyRetention(e, retention[s], now)
        OBVIOUS
      <3>11. \A k \in Keys : streams[s].idempotency[k] > 0 =>
                  st.idempotency[k] = streams[s].idempotency[k]
        BY <3>7, <3>9, <3>10
      <3>12. streams' = [streams EXCEPT ![s] = st]
        BY <3>4, <3>10
      <3> HIDE DEF Stay
      <3> QED BY <2>3, <3>11, <3>12
    <2>6. ASSUME NEW s \in Streams, NEW key \in Keys, AppendRetry(s, key) PROVE Stay
      BY <2>2, <2>6 DEF AppendRetry, storeVars
    <2>7. ASSUME NEW s \in Streams, NEW before, TruncateStream(s, before) PROVE Stay
      <3>1. TruncateBefore(streams[s], before).idempotency = streams[s].idempotency
        BY <2>1, PrefixRemovalEntries
      <3> QED BY <2>3, <2>7, <3>1 DEF TruncateStream
    <2>8. ASSUME NEW s \in Streams, NEW policy \in Retentions, SetStreamRetention(s, policy)
          PROVE  Stay
      <3>1. ApplyRetention(streams[s], policy, now).idempotency = streams[s].idempotency
        BY <2>1, StoreAssumption, PrefixRemovalEntries
      <3> QED BY <2>3, <2>8, <3>1 DEF SetStreamRetention
    <2>9. ASSUME NEW s \in Streams, CreateStream(s) PROVE Stay
      <3>1. EnsureStream(streams[s]).idempotency = streams[s].idempotency
        BY <2>1 DEF EnsureStream, StreamSet
      <3> QED BY <2>3, <2>9, <3>1 DEF CreateStream
    <2>10. ASSUME NEW s \in Streams, DeleteStream(s) PROVE Stay
      <3>1. streams' = [streams EXCEPT ![s] = NoStream]
        BY <2>10 DEF DeleteStream
      <3>2. \A r \in Streams : r # s => streams'[r] = streams[r]
        BY <2>1, <3>1
      <3> QED BY <2>10, <3>2 DEF EntryStays
    <2>11. ASSUME NEW c \in Compactors, NEW s \in Streams, CompactMinimum(c, s) PROVE Stay
      BY <2>2, <2>11 DEF CompactMinimum
    <2>12. ASSUME NEW c \in Compactors, CompactTruncate(c) PROVE Stay
      <3>1. PICK s : s = compacting[c].stream
        OBVIOUS
      <3>2. s \in Streams
        BY <3>1 DEF TypeOK, CompactSet
      <3>3. TruncateBefore(streams[s], compacting[c].min + 1).idempotency
              = streams[s].idempotency
        BY <2>1, <3>2, PrefixRemovalEntries
      <3> QED BY <2>3, <2>12, <3>1, <3>2, <3>3 DEF CompactTruncate
    <2> QED
      BY <2>4, <2>5, <2>6, <2>7, <2>8, <2>9, <2>10, <2>11, <2>12
      DEF Next, LogNext, RegistryNext, CompactNext
  <1> QED
    BY <1>1, <1>2, <1>3, TypeCorrect, LogStaysContiguous, PTL DEF Spec, IdempotencyConsistent

-----------------------------------------------------------------------------
(* Between two calls no log is longer than its policy allows, also right   *)
(* after a policy was set and after a stream was created again.            *)
THEOREM CountLimitIsKept == Spec => []CountLimitHolds
  <1>1. Init => CountLimitHolds
    BY DEF Init, CountLimitHolds, NoRetention
  <1>2. TypeOK /\ CountLimitHolds /\ [Next]_storeVars => CountLimitHolds'
    <2> SUFFICES ASSUME TypeOK, CountLimitHolds, [Next]_storeVars
                 PROVE  CountLimitHolds'
      OBVIOUS
    <2>1. /\ streams \in [Streams -> StreamSet]
          /\ retention \in [Streams -> RetentionSet]
          /\ \A r \in Streams : retention[r].max > 0 =>
                Len(streams[r].events) <= retention[r].max
      BY DEF TypeOK, CountLimitHolds
    <2>2. ASSUME UNCHANGED <<streams, retention>> PROVE CountLimitHolds'
      BY <2>2 DEF CountLimitHolds
    <2>3. ASSUME NEW s \in Streams, NEW st, NEW policy,
                 policy.max > 0 => Len(st.events) <= policy.max,
                 streams' = [streams EXCEPT ![s] = st],
                 retention' = [retention EXCEPT ![s] = policy]
          PROVE  CountLimitHolds'
      BY <2>1, <2>3 DEF CountLimitHolds
    <2>4. ASSUME NEW s \in Streams, NEW st \in StreamSet,
                 Len(st.events) <= Len(streams[s].events),
                 streams' = [streams EXCEPT ![s] = st], UNCHANGED retention
          PROVE  CountLimitHolds'
      <3>1. Len(st.events) \in Nat /\ Len(streams[s].events) \in Nat /\ retention[s].max \in Nat
        BY <2>1, LenProperties DEF StreamSet, RetentionSet
      <3>2. retention[s].max > 0 => Len(st.events) <= retention[s].max
        BY <2>1, <2>4, <3>1
      <3> QED BY <2>1, <2>4, <3>2 DEF CountLimitHolds
    <2>5. CASE WatcherNext \/ AckNext \/ ResetNext \/ Tick \/ UNCHANGED storeVars
      BY <2>2, <2>5 DEF WatcherNext, WaitForStream, WaitReturn, WaitCancel, AckNext, StoreAck,
                        ResetNext, ResetCursor, Tick, storeVars
    <2>6. ASSUME NEW s \in Streams, NEW key \in Keys \cup {NoKey}, NEW at \in 0..MaxTime,
                 AppendNew(s, key, at)
          PROVE  CountLimitHolds'
      <3> DEFINE e == AppendEvent(streams[s], key, at)
      <3>1. at \in Nat
        BY StoreAssumption
      <3>2. e \in StreamSet
        BY <2>1, <3>1, AppendEventContiguous
      <3>3. streams' = [streams EXCEPT ![s] = ApplyRetention(e, retention[s], now)]
        BY <2>6 DEF AppendNew
      <3>4. UNCHANGED retention
        BY <2>6 DEF AppendNew
      <3> HIDE DEF e
      <3>5. retention[s].max > 0 =>
               Len(ApplyRetention(e, retention[s], now).events) <= retention[s].max
        BY <2>1, <3>2, ApplyRetentionCount
      <3> QED BY <2>1, <3>3, <3>4, <3>5 DEF CountLimitHolds
    <2>7. ASSUME NEW s \in Streams, NEW key \in Keys, AppendRetry(s, key)
          PROVE  CountLimitHolds'
      BY <2>2, <2>7 DEF AppendRetry, storeVars
    <2>8. ASSUME NEW s \in Streams, NEW before, TruncateStream(s, before)
          PROVE  CountLimitHolds'
      <3> DEFINE st == TruncateBefore(streams[s], before)
      <3>1. st \in StreamSet /\ Len(st.events) <= Len(streams[s].events)
        BY <2>1, TruncateBeforeContiguous, TruncateBeforeCount
      <3>2. streams' = [streams EXCEPT ![s] = st] /\ UNCHANGED retention
        BY <2>8 DEF TruncateStream
      <3> HIDE DEF st
      <3> QED BY <2>4, <3>1, <3>2
    <2>9. ASSUME NEW s \in Streams, NEW policy \in Retentions, SetStreamRetention(s, policy)
          PROVE  CountLimitHolds'
      <3> DEFINE st == ApplyRetention(streams[s], policy, now)
      <3>1. policy.max > 0 => Len(st.events) <= policy.max
        BY <2>1, StoreAssumption, ApplyRetentionCount
      <3>2. /\ streams' = [streams EXCEPT ![s] = st]
            /\ retention' = [retention EXCEPT ![s] = policy]
        BY <2>9 DEF SetStreamRetention
      <3> HIDE DEF st
      <3> QED BY <2>3, <3>1, <3>2
    <2>10. ASSUME NEW s \in Streams, CreateStream(s) PROVE CountLimitHolds'
      <3>1. EnsureStream(streams[s]).events = streams[s].events
        BY <2>1 DEF EnsureStream, StreamSet
      <3> QED BY <2>1, <2>10, <3>1 DEF CreateStream, CountLimitHolds
    <2>11. ASSUME NEW s \in Streams, DeleteStream(s) PROVE CountLimitHolds'
      <3>1. ~(NoRetention.max > 0)
        BY DEF NoRetention
      <3> QED BY <2>3, <2>11, <3>1 DEF DeleteStream
    <2>12. ASSUME NEW c \in Compactors, NEW s \in Streams, CompactMinimum(c, s)
           PROVE  CountLimitHolds'
      BY <2>2, <2>12 DEF CompactMinimum
    <2>13. ASSUME NEW c \in Compactors, CompactTruncate(c) PROVE CountLimitHolds'
      <3> DEFINE s == compacting[c].stream
      <3> DEFINE st == TruncateBefore(streams[s], compacting[c].min + 1)
      <3>1. s \in Streams
        BY DEF TypeOK, CompactSet
      <3>2. st \in StreamSet /\ Len(st.events) <= Len(streams[s].events)
        BY <2>1, <3>1, TruncateBeforeContiguous, TruncateBeforeCount
      <3>3. streams' = [streams EXCEPT ![s] = st] /\ UNCHANGED retention
        BY <2>13 DEF CompactTruncate
      <3> HIDE DEF s, st
      <3> QED BY <2>4, <3>1, <3>2, <3>3
    <2> QED
      BY <2>5, <2>6, <2>7, <2>8, <2>9, <2>10, <2>11, <2>12, <2>13
      DEF Next, LogNext, RegistryNext, CompactNext
  <1> QED BY <1>1, <1>2, TypeCorrect, PTL DEF Spec
=============================================================================
