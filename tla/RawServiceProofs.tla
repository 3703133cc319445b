-------------------------- MODULE RawServiceProofs --------------------------
(***************************************************************************)
(* Proofs about RawService: its types, that an answered ack is read, and   *)
(* that an append is answered once.  The engine below the service is the   *)
(* one of EngineService, so the proofs of EngineProofs are used for it as  *)
(* they stand (P), with the waiters, the compactors and the policies that  *)
(* no method of this service has left empty.  Above them stand three       *)
(* invariants of the handlers: what each session holds between two phases  *)
(* of its call, what it was promised, and what producers have been told.   *)
(***************************************************************************)
EXTENDS RawService, SequenceTheorems, TLAPS

-----------------------------------------------------------------------------
(* The proofs about the engine, read for the service.                      *)

P == INSTANCE EngineProofs WITH
    Waiters <- {}, Compactors <- {}, Retentions <- {}, MaxTime <- 1

(* What is assumed of the service is what the proofs about the engine      *)
(* below it assume of its constants.                                       *)
LEMMA Assumptions ==
    ServiceAssumption => P!KeyAssumption /\ P!StoreAssumption /\ P!EngineAssumption
  BY DEF ServiceAssumption, P!KeyAssumption, P!StoreAssumption, P!EngineAssumption

(* The service names the engine by an instance of EngineService, the       *)
(* proofs about it by one of EngineProofs: the operators of the two are    *)
(* the same, first those on one log.                                       *)
LEMMA SameStream ==
    /\ Engine!NoStream = P!NoStream
    /\ Engine!NoRetention = P!NoRetention
    /\ Engine!NoCursor = P!NoCursor
    /\ Engine!NoResult = P!NoResult
    /\ \A st, n : Engine!DropPrefix(st, n) = P!DropPrefix(st, n)
    /\ \A S : Engine!Cardinality(S) = P!Cardinality(S)
    /\ \A e, n : Engine!PrefixBelow(e, n) = P!PrefixBelow(e, n)
    /\ \A e, n : Engine!PrefixExpired(e, n) = P!PrefixExpired(e, n)
    /\ \A a, b : Engine!Larger(a, b) = P!Larger(a, b)
    /\ \A a, b : Engine!Smaller(a, b) = P!Smaller(a, b)
    /\ \A st, key : Engine!KeyUsed(st, key) = P!KeyUsed(st, key)
    /\ \A st, key, at : Engine!AppendEvent(st, key, at) = P!AppendEvent(st, key, at)
  <1>1. Engine!NoStream = P!NoStream
    BY DEF Engine!NoStream, P!NoStream
  <1>2. Engine!NoRetention = P!NoRetention
    BY DEF Engine!NoRetention, P!NoRetention
  <1>3. Engine!NoCursor = P!NoCursor
    BY DEF Engine!NoCursor, P!NoCursor
  <1>4. Engine!NoResult = P!NoResult
    BY DEF Engine!NoResult, P!NoResult
  <1>5. \A st, n : Engine!DropPrefix(st, n) = P!DropPrefix(st, n)
    BY DEF Engine!DropPrefix, P!DropPrefix
  <1>6. \A S : Engine!Cardinality(S) = P!Cardinality(S)
    BY DEF Engine!Cardinality, P!Cardinality
  <1>7. \A e, n : Engine!PrefixBelow(e, n) = P!PrefixBelow(e, n)
    BY <1>6 DEF Engine!PrefixBelow, P!PrefixBelow
  <1>8. \A e, n : Engine!PrefixExpired(e, n) = P!PrefixExpired(e, n)
    BY <1>6 DEF Engine!PrefixExpired, P!PrefixExpired
  <1>9. \A a, b : Engine!Larger(a, b) = P!Larger(a, b)
    BY DEF Engine!Larger, P!Larger
  <1>10. \A a, b : Engine!Smaller(a, b) = P!Smaller(a, b)
    BY DEF Engine!Smaller, P!Smaller
  <1>11. \A st, key : Engine!KeyUsed(st, key) = P!KeyUsed(st, key)
    BY DEF Engine!KeyUsed, P!KeyUsed
  <1>12. \A st, key, at : Engine!AppendEvent(st, key, at) = P!AppendEvent(st, key, at)
    BY DEF Engine!AppendEvent, P!AppendEvent
  <1> QED BY <1>1, <1>2, <1>3, <1>4, <1>5, <1>6, <1>7, <1>8, <1>9, <1>10, <1>11, <1>12

(* The same for the operators of the store and of the engine.              *)
LEMMA SameStore ==
    /\ \A st, policy, t : Engine!Excess(st, policy, t) = P!Excess(st, policy, t)
    /\ \A st, policy, t :
      Engine!ApplyRetention(st, policy, t) = P!ApplyRetention(st, policy, t)
    /\ \A st, before : Engine!TruncateBefore(st, before) = P!TruncateBefore(st, before)
    /\ \A st, after, limit :
      Engine!ReadBatch(st, after, limit) = P!ReadBatch(st, after, limit)
    /\ \A a, b : Engine!ReplayTooOld(a, b) = P!ReplayTooOld(a, b)
    /\ \A st, after : Engine!ReadTooLong(st, after) = P!ReadTooLong(st, after)
    /\ \A a, b, d :
      Engine!ReplayOverBudget(a, b, d) = P!ReplayOverBudget(a, b, d)
    /\ \A u, s : Engine!CursorSeq(u, s) = P!CursorSeq(u, s)
  <1>1. \A st, policy, t : Engine!Excess(st, policy, t) = P!Excess(st, policy, t)
    BY SameStream DEF Engine!Excess, P!Excess
  <1>2. \A st, policy, t :
          Engine!ApplyRetention(st, policy, t) = P!ApplyRetention(st, policy, t)
    BY SameStream, <1>1 DEF Engine!ApplyRetention, P!ApplyRetention
  <1>3. \A st, before : Engine!TruncateBefore(st, before) = P!TruncateBefore(st, before)
    BY SameStream DEF Engine!TruncateBefore, P!TruncateBefore
  <1>4. \A st, after, limit :
          Engine!ReadBatch(st, after, limit) = P!ReadBatch(st, after, limit)
    <2>1. SUFFICES ASSUME NEW st, NEW after, NEW limit
                   PROVE  Engine!ReadBatch(st, after, limit) = P!ReadBatch(st, after, limit)
      OBVIOUS
    <2>2. Engine!PrefixBelow(st.events, after + 1) = P!PrefixBelow(st.events, after + 1)
      BY SameStream
    <2> DEFINE skip == P!PrefixBelow(st.events, after + 1)
    <2>3. Engine!Smaller(skip + limit, Len(st.events)) = P!Smaller(skip + limit, Len(st.events))
      BY SameStream
    <2> QED BY <2>2, <2>3, Zenon DEF Engine!ReadBatch, P!ReadBatch
  <1>5. \A a, b : Engine!ReplayTooOld(a, b) = P!ReplayTooOld(a, b)
    BY DEF Engine!ReplayTooOld, P!ReplayTooOld
  <1>6. \A st, after : Engine!ReadTooLong(st, after) = P!ReadTooLong(st, after)
    BY <1>5 DEF Engine!ReadTooLong, P!ReadTooLong
  <1>7. \A a, b, d :
          Engine!ReplayOverBudget(a, b, d) = P!ReplayOverBudget(a, b, d)
    BY DEF Engine!ReplayOverBudget, P!ReplayOverBudget
  <1>8. \A u, s : Engine!CursorSeq(u, s) = P!CursorSeq(u, s)
    BY SameStream DEF Engine!CursorSeq, P!CursorSeq
  <1> QED BY <1>1, <1>2, <1>3, <1>4, <1>5, <1>6, <1>7, <1>8

(* The same for the actions: appends.                                      *)
LEMMA SameAppend ==
    /\ \A s, key : Engine!StampedAppend(s, key) <=> P!StampedAppend(s, key)
    /\ \A s, key : Engine!AppendRetry(s, key) <=> P!AppendRetry(s, key)
  <1>1. \A s, h : Engine!NotifyStream(s, h) <=> P!NotifyStream(s, h)
    BY DEF Engine!NotifyStream, P!NotifyStream
  <1>2. \A s, key, at : Engine!AppendNew(s, key, at) <=> P!AppendNew(s, key, at)
    <2>1. SUFFICES ASSUME NEW s, NEW key, NEW at
                   PROVE  Engine!AppendNew(s, key, at) <=> P!AppendNew(s, key, at)
      OBVIOUS
    <2> DEFINE st == P!AppendEvent(streams[s], key, at)
    <2>2. /\ Engine!KeyUsed(streams[s], key) = P!KeyUsed(streams[s], key)
          /\ Engine!AppendEvent(streams[s], key, at) = st
      BY SameStream
    <2>3. Engine!ApplyRetention(st, retention[s], now) = P!ApplyRetention(st, retention[s], now)
      BY SameStore
    <2>4. Engine!NotifyStream(s, streams[s].head + 1) <=> P!NotifyStream(s, streams[s].head + 1)
      BY <1>1
    <2> HIDE DEF st
    <2> QED BY <2>2, <2>3, <2>4, Zenon DEF Engine!AppendNew, P!AppendNew, st
  <1>3. \A s, key : Engine!StampedAppend(s, key) <=> P!StampedAppend(s, key)
    BY <1>2, Zenon DEF Engine!StampedAppend, P!StampedAppend
  <1>4. \A s, key : Engine!AppendRetry(s, key) <=> P!AppendRetry(s, key)
    BY SameStream, Zenon DEF Engine!AppendRetry, P!AppendRetry, Engine!storeVars, P!storeVars
  <1> QED BY <1>3, <1>4

(* The same for the phases of a catch-up.                                  *)
LEMMA SameCatchUp ==
    /\ \A c, s, limit, totalLimit :
          Engine!CatchUp(c, s, limit, totalLimit) <=> P!CatchUp(c, s, limit, totalLimit)
    /\ \A c : Engine!CatchUpHead(c) <=> P!CatchUpHead(c)
    /\ \A c : Engine!CatchUpRead(c) <=> P!CatchUpRead(c)
  <1> USE DEF Engine!storeVars, P!storeVars
  <1>1. ASSUME NEW c, NEW s, NEW limit, NEW totalLimit
        PROVE  Engine!CatchUp(c, s, limit, totalLimit) <=> P!CatchUp(c, s, limit, totalLimit)
    BY SameStream, SameStore, Zenon DEF Engine!CatchUp, P!CatchUp
  <1>2. ASSUME NEW c PROVE Engine!CatchUpHead(c) <=> P!CatchUpHead(c)
    BY SameStore, Zenon DEF Engine!CatchUpHead, P!CatchUpHead
  <1>3. ASSUME NEW c PROVE Engine!CatchUpRead(c) <=> P!CatchUpRead(c)
    BY SameStore, Zenon DEF Engine!CatchUpRead, P!CatchUpRead
  <1> QED BY <1>1, <1>2, <1>3

(* The same for the acks, the steps outside the five methods, and the      *)
(* initial states.                                                         *)
LEMMA SameAck ==
    /\ \A c, s, seq : Engine!Ack(c, s, seq) <=> P!Ack(c, s, seq)
    /\ \A c : Engine!AckCursor(c) <=> P!AckCursor(c)
    /\ \A s, before : Engine!TruncateStream(s, before) <=> P!TruncateStream(s, before)
    /\ \A u, s, seq : Engine!ResetCursor(u, s, seq) <=> P!ResetCursor(u, s, seq)
    /\ \A s : Engine!DeleteStream(s) <=> P!DeleteStream(s)
    /\ Engine!EngineInit <=> P!EngineInit
  <1> USE DEF Engine!storeVars, P!storeVars
  <1>1. ASSUME NEW c, NEW s, NEW seq PROVE Engine!Ack(c, s, seq) <=> P!Ack(c, s, seq)
    BY SameStream, Zenon DEF Engine!Ack, P!Ack
  <1>2. ASSUME NEW u, NEW s, NEW seq PROVE Engine!StoreAck(u, s, seq) <=> P!StoreAck(u, s, seq)
    BY SameStore, Zenon DEF Engine!StoreAck, P!StoreAck
  <1>3. ASSUME NEW c PROVE Engine!AckCursor(c) <=> P!AckCursor(c)
    BY <1>2, Zenon DEF Engine!AckCursor, P!AckCursor
  <1>4. ASSUME NEW s, NEW before
        PROVE  Engine!TruncateStream(s, before) <=> P!TruncateStream(s, before)
    BY SameStore, Zenon DEF Engine!TruncateStream, P!TruncateStream
  <1>5. ASSUME NEW u, NEW s, NEW seq
        PROVE  Engine!ResetCursor(u, s, seq) <=> P!ResetCursor(u, s, seq)
    BY Zenon DEF Engine!ResetCursor, P!ResetCursor
  <1>6. ASSUME NEW s PROVE Engine!DeleteStream(s) <=> P!DeleteStream(s)
    BY SameStream, Zenon DEF Engine!DeleteStream, P!DeleteStream
  <1>7. Engine!EngineInit <=> P!EngineInit
    <2>1. Engine!Init <=> P!Init
      BY SameStream, Zenon DEF Engine!Init, P!Init
    <2> QED BY <2>1, SameStream, Zenon DEF Engine!EngineInit, P!EngineInit
  <1> QED BY <1>1, <1>3, <1>4, <1>5, <1>6, <1>7

-----------------------------------------------------------------------------
(* The engine below the service keeps its invariant.                       *)

(* Every step of the service is one of the engine, or none.                *)
LEMMA EngineStep == [Next]_vars => [P!EngineSpecNext]_P!vars
  <1> SUFFICES ASSUME [Next]_vars PROVE [P!EngineSpecNext]_P!vars
    OBVIOUS
  <1> USE DEF P!vars, P!storeVars, storeVars
  <1>1. ASSUME UNCHANGED <<storeVars, call, steady>> PROVE [P!EngineSpecNext]_P!vars
    BY <1>1
  <1>2. ASSUME NEW s \in Streams, NEW key \in Keys \cup {NoKey}, AppendFirst(s, key),
               UNCHANGED steady
        PROVE  P!EngineSpecNext
    BY <1>2, SameAppend
    DEF AppendFirst, P!EngineSpecNext, P!SteadyNext, P!ProducerNext
  <1>3. ASSUME NEW s \in Streams, NEW key \in Keys, AppendAgain(s, key), UNCHANGED steady
        PROVE  UNCHANGED <<storeVars, call, steady>>
    BY <1>3, SameAppend DEF AppendAgain, P!AppendRetry
  <1>4. ASSUME NEW c \in Callers, NEW s \in Streams, NEW limit \in Limits,
               NEW totalLimit \in TotalLimits, CatchUp(c, s, limit, totalLimit),
               UNCHANGED steady
        PROVE  P!EngineSpecNext
    BY <1>4, SameCatchUp DEF CatchUp, P!EngineSpecNext, P!SteadyNext, P!EngineNext
  <1>5. ASSUME NEW c \in Callers, CatchUpStep(c), UNCHANGED steady
        PROVE  P!EngineSpecNext
    BY <1>5, SameCatchUp DEF CatchUpStep, P!EngineSpecNext, P!SteadyNext, P!EngineNext
  <1>6. ASSUME NEW c \in Callers, NEW s \in Streams, NEW seq \in 0..MaxSeq, Ack(c, s, seq),
               UNCHANGED steady
        PROVE  P!EngineSpecNext
    BY <1>6, SameAck DEF Ack, P!EngineSpecNext, P!SteadyNext, P!EngineNext
  <1>7. ASSUME NEW c \in Callers, AckCursor(c), UNCHANGED steady
        PROVE  P!EngineSpecNext
    BY <1>7, SameAck DEF AckCursor, P!EngineSpecNext, P!SteadyNext, P!EngineNext
  <1>8. ASSUME NEW s \in Streams, NEW before \in 0..(MaxSeq + 1), Truncate(s, before)
        PROVE  P!EngineSpecNext
    BY <1>8, SameAck DEF Truncate, P!EngineSpecNext, P!SteadyNext, P!RetentionNext
  <1>9. ASSUME NEW s \in Streams, NEW u \in Subscribers, NEW seq \in 0..MaxSeq,
               Reset(u, s, seq)
        PROVE  P!EngineSpecNext
    BY <1>9, SameAck DEF Reset, P!EngineSpecNext, P!AdminNext, P!ResetNext
  <1>10. ASSUME NEW s \in Streams, Delete(s) PROVE P!EngineSpecNext
    BY <1>10, SameAck DEF Delete, P!EngineSpecNext, P!AdminNext, P!RegistryNext
  <1>11. CASE UNCHANGED vars
    BY <1>11 DEF vars, engineVars
  <1>12. CASE ProducerNext \/ SessionNext
    <2>1. ASSUME NEW s \in Streams, NEW c \in Callers, UNCHANGED steady,
                 GetHead(s) \/ GetCursor(c, s) \/ GetCursorHead(c)
                   \/ \E seq \in 0..MaxSeq : AckTooHigh(c, s, seq)
          PROVE  UNCHANGED <<storeVars, call, steady>>
      BY <2>1 DEF GetHead, GetCursor, GetCursorHead, AckTooHigh
    <2>2. ASSUME NEW s \in Streams, UNCHANGED steady, GetHead(s)
          PROVE  UNCHANGED <<storeVars, call, steady>>
      BY <2>2 DEF GetHead
    <2>3. ASSUME NEW c \in Callers, UNCHANGED steady, GetCursorHead(c)
          PROVE  UNCHANGED <<storeVars, call, steady>>
      BY <2>3 DEF GetCursorHead
    <2> QED BY <1>12, <1>1, <1>2, <1>3, <1>4, <1>5, <1>6, <1>7, <2>1, <2>2, <2>3
        DEF ProducerNext, SessionNext
  <1> QED BY <1>8, <1>9, <1>10, <1>11, <1>12 DEF Next, SteadyNext, LogNext, OperatorNext

KeysNameWrites == \A s \in Streams : P!KeyNamesFirstWrite(streams[s])

EngineOK ==
    /\ P!EngineTyped /\ P!LogContiguous /\ P!CursorWithinHead /\ P!AnswersFollow
    /\ KeysNameWrites

(* What the invariant says of the log of every stream.                     *)
LEMMA StoreFacts ==
    ASSUME EngineOK
    PROVE  /\ streams \in [Streams -> P!StreamSet] /\ call \in [Callers -> P!CallSet]
           /\ retention \in [Streams -> P!RetentionSet] /\ now \in Nat
           /\ cursors \in [Subscribers \X Streams -> Nat \cup {P!NoCursor}]
           /\ \A s \in Streams : /\ streams[s] \in P!StreamSet /\ P!Contiguous(streams[s])
                                 /\ P!KeyNamesFirstWrite(streams[s])
                                 /\ streams[s].head \in Nat /\ streams[s].retained \in Nat
                                 /\ streams[s].events \in Seq(P!EventSet)
                                 /\ streams[s].idempotency \in [Keys -> Nat]
  BY DEF EngineOK, KeysNameWrites, P!EngineTyped, P!EngineTypeOK, P!TypeOK, P!LogContiguous,
         P!StreamSet

(* The log of a stream after an append of a first write.                   *)
LEMMA AppendKeeps ==
    ASSUME ServiceAssumption, EngineOK, NEW s \in Streams, NEW key \in Keys \cup {NoKey},
           P!StampedAppend(s, key)
    PROVE  LET e == P!AppendEvent(streams[s], key, now)
           IN  /\ streams' = [streams EXCEPT ![s] = P!ApplyRetention(e, retention[s], now)]
               /\ e \in P!StreamSet /\ P!KeyNamesFirstWrite(e)
               /\ P!KeyNamesFirstWrite(P!ApplyRetention(e, retention[s], now))
               /\ ~P!KeyUsed(streams[s], key) /\ P!NotifyStream(s, streams[s].head + 1)
               /\ UNCHANGED <<cursors, retention, compacting, now>>
  <1> DEFINE e == P!AppendEvent(streams[s], key, now)
  <1>1. /\ P!KeyAssumption /\ P!StoreAssumption /\ P!EngineAssumption
    BY Assumptions
  <1>2. /\ streams[s] \in P!StreamSet /\ P!Contiguous(streams[s])
        /\ P!KeyNamesFirstWrite(streams[s]) /\ now \in Nat /\ retention[s] \in P!RetentionSet
    BY StoreFacts
  <1>3. /\ streams' = [streams EXCEPT ![s] = P!ApplyRetention(e, retention[s], now)]
        /\ ~P!KeyUsed(streams[s], key) /\ P!NotifyStream(s, streams[s].head + 1)
        /\ UNCHANGED <<cursors, retention, compacting, now>>
    BY Zenon DEF P!StampedAppend, P!AppendNew
  <1>4. e \in P!StreamSet
    BY <1>1, <1>2, P!AppendEventContiguous
  <1>5. P!KeyNamesFirstWrite(e)
    BY <1>1, <1>2, <1>3, P!AppendEventKeys
  <1> HIDE DEF e
  <1>6. P!KeyNamesFirstWrite(P!ApplyRetention(e, retention[s], now))
    BY <1>1, <1>2, <1>4, <1>5, P!PrefixRemovalKeys
  <1> QED BY <1>3, <1>4, <1>5, <1>6 DEF e

(* Cutting a prefix off keeps the head, the keys, and events of the log.   *)
LEMMA CutKeeps ==
    ASSUME ServiceAssumption, NEW st \in P!StreamSet,
           NEW cut, \/ \E before : cut = P!TruncateBefore(st, before)
                    \/ \E policy \in P!RetentionSet : \E t : cut = P!ApplyRetention(st, policy, t)
    PROVE  /\ cut.head = st.head /\ cut.idempotency = st.idempotency
           /\ \A i \in 1..Len(cut.events) :
                 \E j \in 1..Len(st.events) : cut.events[i] = st.events[j]
  <1>1. P!KeyAssumption /\ P!StoreAssumption /\ P!EngineAssumption
    BY Assumptions
  <1>2. Len(st.events) \in Nat /\ st.events \in Seq(P!EventSet)
    BY LenProperties DEF P!StreamSet
  <1>3. ASSUME NEW n \in 0..Len(st.events), cut = P!DropPrefix(st, n)
        PROVE  /\ cut.head = st.head /\ cut.idempotency = st.idempotency
               /\ \A i \in 1..Len(cut.events) :
                     \E j \in 1..Len(st.events) : cut.events[i] = st.events[j]
    <2>1. /\ cut.head = st.head /\ cut.idempotency = st.idempotency
          /\ Len(cut.events) = Len(st.events) - n
          /\ \A i \in 1..(Len(st.events) - n) : cut.events[i] = st.events[i + n]
      BY <1>1, <1>3, P!DropPrefixParts
    <2>2. \A i \in 1..(Len(st.events) - n) : i + n \in 1..Len(st.events)
      BY <1>2
    <2> QED BY <2>1, <2>2
  <1>4. ASSUME NEW before, cut = P!TruncateBefore(st, before)
        PROVE  \E n \in 0..Len(st.events) : cut = P!DropPrefix(st, n)
    <2>1. P!PrefixBelow(st.events, before) \in 0..Len(st.events)
      BY <1>1, <1>2, P!PrefixBelowBound
    <2> QED BY <1>4, <2>1 DEF P!TruncateBefore
  <1>5. ASSUME NEW policy \in P!RetentionSet, NEW t, cut = P!ApplyRetention(st, policy, t)
        PROVE  cut = st \/ \E n \in 0..Len(st.events) : cut = P!DropPrefix(st, n)
    <2>1. P!Excess(st, policy, t) \in Int /\ P!Excess(st, policy, t) <= Len(st.events)
      BY <1>1, P!ExcessBound
    <2> QED BY <1>2, <1>5, <2>1 DEF P!ApplyRetention
  <1> QED BY <1>3, <1>4, <1>5

(* No step makes an idempotency key name another event than the first one  *)
(* written with it.                                                        *)
LEMMA KeysStep ==
    ASSUME ServiceAssumption, EngineOK, [Next]_vars
    PROVE  KeysNameWrites'
  <1>a. P!KeyAssumption /\ P!StoreAssumption /\ P!EngineAssumption
    BY Assumptions
  <1>1. ASSUME UNCHANGED streams PROVE KeysNameWrites'
    BY <1>1, StoreFacts DEF KeysNameWrites
  <1>2. ASSUME NEW s \in Streams, NEW st, P!KeyNamesFirstWrite(st),
               streams' = [streams EXCEPT ![s] = st]
        PROVE  KeysNameWrites'
    BY <1>2, StoreFacts DEF KeysNameWrites
  <1>3. CASE \E s \in Streams, key \in Keys \cup {NoKey} : AppendFirst(s, key)
    <2>1. PICK s \in Streams, key \in Keys \cup {NoKey} : P!StampedAppend(s, key)
      BY <1>3, SameAppend DEF AppendFirst
    <2> QED BY <1>2, <2>1, AppendKeeps
  <1>4. CASE \E s \in Streams, before \in 0..(MaxSeq + 1) : Truncate(s, before)
    <2>1. PICK s \in Streams, before \in 0..(MaxSeq + 1) : P!TruncateStream(s, before)
      BY <1>4, SameAck DEF Truncate
    <2>2. P!KeyNamesFirstWrite(P!TruncateBefore(streams[s], before))
      BY <1>a, StoreFacts, P!PrefixRemovalKeys
    <2> QED BY <1>2, <2>1, <2>2 DEF P!TruncateStream
  <1>5. CASE \E s \in Streams : Delete(s)
    <2>1. PICK s \in Streams : P!DeleteStream(s)
      BY <1>5, SameAck DEF Delete
    <2> QED BY <1>2, <1>a, <2>1, P!NoStreamKeys DEF P!DeleteStream
  <1>6. ASSUME NEW s \in Streams, NEW c \in Callers,
               \/ \E key : AppendAgain(s, key)
               \/ GetCursor(c, s) \/ GetCursorHead(c) \/ CatchUpStep(c) \/ AckCursor(c)
               \/ \E limit, totalLimit : CatchUp(c, s, limit, totalLimit)
               \/ \E seq : Ack(c, s, seq) \/ AckTooHigh(c, s, seq)
               \/ \E u, seq : Reset(u, s, seq)
        PROVE  UNCHANGED streams
    BY <1>6, SameAppend, SameCatchUp, SameAck
    DEF AppendAgain, P!AppendRetry, GetCursor, GetCursorHead, CatchUpStep, AckCursor, CatchUp,
        Ack, AckTooHigh, Reset, P!CatchUp, P!CatchUpHead, P!CatchUpRead, P!AckCursor, P!Ack,
        P!ResetCursor, P!StoreAck, storeVars, P!storeVars
  <1>7. ASSUME NEW s \in Streams,
               \/ \E key \in Keys : AppendAgain(s, key)
               \/ GetHead(s)
               \/ \E u, seq : Reset(u, s, seq)
        PROVE  UNCHANGED streams
    BY <1>7, SameAppend, SameAck
    DEF AppendAgain, P!AppendRetry, GetHead, Reset, P!ResetCursor, storeVars, P!storeVars
  <1>8. ASSUME NEW c \in Callers, GetCursorHead(c) \/ CatchUpStep(c) \/ AckCursor(c)
        PROVE  UNCHANGED streams
    BY <1>8, SameCatchUp, SameAck
    DEF GetCursorHead, CatchUpStep, AckCursor, P!CatchUpHead, P!CatchUpRead, P!AckCursor,
        P!StoreAck, storeVars, P!storeVars
  <1>9. CASE UNCHANGED vars
    BY <1>1, <1>9 DEF vars, engineVars, storeVars
  <1> QED BY <1>1, <1>3, <1>4, <1>5, <1>6, <1>7, <1>8, <1>9
      DEF Next, SteadyNext, ProducerNext, SessionNext, LogNext, OperatorNext

(* The engine below the service keeps what is proved of it.                *)
LEMMA EngineStays ==
    ASSUME ServiceAssumption, EngineOK, [Next]_vars
    PROVE  EngineOK'
  <1>1. P!KeyAssumption /\ P!StoreAssumption /\ P!EngineAssumption
    BY Assumptions
  <1>2. [P!EngineSpecNext]_P!vars
    BY EngineStep
  <1>3. P!EngineTyped'
    BY <1>1, <1>2, P!EngineTypeStep DEF EngineOK
  <1>4. P!LogContiguous'
    BY <1>1, <1>2, P!EngineContiguousStep DEF EngineOK
  <1>5. P!CursorWithinHead'
    BY <1>1, <1>2, <1>3, P!CursorWithinHeadStep DEF EngineOK
  <1>6. P!AnswersFollow'
    BY <1>1, <1>2, P!AnswersFollowStep DEF EngineOK
  <1> QED BY <1>3, <1>4, <1>5, <1>6, KeysStep DEF EngineOK

(* The engine below the service starts in the invariant.                   *)
LEMMA EngineStarts ==
    ASSUME ServiceAssumption, Init
    PROVE  EngineOK
  <1>1. P!KeyAssumption /\ P!StoreAssumption /\ P!EngineAssumption
    BY Assumptions
  <1>2. P!EngineInit
    BY SameAck DEF Init
  <1>3. P!EngineTyped
    BY <1>1, <1>2, P!EngineTypeInit
  <1>4. streams = [s \in Streams |-> P!NoStream] /\ \A c \in Callers : call[c].phase = "idle"
    BY <1>2 DEF P!EngineInit, P!Init
  <1>5. P!LogContiguous /\ KeysNameWrites
    BY <1>1, <1>4, P!NoStreamFacts, P!NoStreamKeys DEF P!LogContiguous, KeysNameWrites
  <1>6. P!CursorWithinHead
    BY <1>1, <1>2, P!CursorWithinInit
  <1>7. P!AnswersFollow
    BY <1>2, <1>4 DEF P!EngineInit, P!AnswersFollow, P!AnswerFollows, P!NoResult
  <1> QED BY <1>3, <1>5, <1>6, <1>7 DEF EngineOK

-----------------------------------------------------------------------------
(* What the phases of one call do.                                         *)

(* What a step of one session's call leaves alone.                         *)
OthersStay(c) == \A d \in Callers \ {c} : call'[d] = call[d]
SameRequest(c) ==
    /\ call'[c].stream = call[c].stream /\ call'[c].limit = call[c].limit
    /\ call'[c].totalLimit = call[c].totalLimit /\ call'[c].seq = call[c].seq

(* A catch-up begins by reading the stored cursor.                         *)
LEMMA CatchUpBegins ==
    ASSUME EngineOK, NEW c \in Callers, NEW s, NEW limit, NEW totalLimit,
           P!CatchUp(c, s, limit, totalLimit)
    PROVE  /\ call[c].phase = "idle" /\ call'[c].phase = "head" /\ OthersStay(c)
           /\ call'[c].stream = s /\ call'[c].limit = limit /\ call'[c].totalLimit = totalLimit
           /\ call'[c].result.cursor = P!CursorSeq(SubscriberOf[c], s)
           /\ UNCHANGED storeVars
  <1> DEFINE r == [P!NoResult EXCEPT !.cursor = P!CursorSeq(SubscriberOf[c], s)]
             d == [phase |-> "head", stream |-> s, limit |-> limit,
                   totalLimit |-> totalLimit, seq |-> 0, result |-> r]
  <1>1. call' = [call EXCEPT ![c] = d] /\ call[c].phase = "idle"
    BY Zenon DEF P!CatchUp
  <1>2. call \in [Callers -> P!CallSet]
    BY StoreFacts
  <1>3. r.cursor = P!CursorSeq(SubscriberOf[c], s)
    BY DEF P!NoResult
  <1>4. UNCHANGED storeVars
    BY DEF P!CatchUp, P!storeVars, storeVars
  <1> HIDE DEF r
  <1>5. /\ d.phase = "head" /\ d.stream = s /\ d.limit = limit /\ d.totalLimit = totalLimit
        /\ d.result = r
    OBVIOUS
  <1> HIDE DEF d
  <1>6. call'[c] = d /\ OthersStay(c)
    BY <1>1, <1>2 DEF OthersStay
  <1> QED BY <1>1, <1>3, <1>4, <1>5, <1>6

(* The later phases of a catch-up keep that cursor and write nothing.      *)
LEMMA CatchUpSteps ==
    ASSUME EngineOK, NEW c \in Callers, P!CatchUpHead(c) \/ P!CatchUpRead(c)
    PROVE  /\ call[c].phase \in {"head", "read"} /\ OthersStay(c) /\ SameRequest(c)
           /\ call'[c].result.cursor = call[c].result.cursor
           /\ UNCHANGED storeVars
           /\ P!CatchUpHead(c) =>
                 \/ call'[c].phase = "read"
                 \/ call'[c].phase = "idle" /\ call'[c].result.status = "too_long"
           /\ P!CatchUpRead(c) => call'[c].phase = "idle"
  <1>t. /\ call \in [Callers -> P!CallSet] /\ call[c] \in P!CallSet
        /\ call[c].result \in P!ResultSet
    BY StoreFacts DEF P!CallSet
  <1>1. ASSUME NEW phase, NEW r,
               call' = [call EXCEPT ![c] = [@ EXCEPT !.phase = phase, !.result = r]]
        PROVE  /\ call'[c].phase = phase /\ call'[c].result = r
               /\ OthersStay(c) /\ SameRequest(c)
    BY <1>1, <1>t DEF OthersStay, SameRequest, P!CallSet
  <1>2. ASSUME P!CatchUpHead(c)
        PROVE  /\ call[c].phase = "head" /\ OthersStay(c) /\ SameRequest(c)
               /\ call'[c].result.cursor = call[c].result.cursor
               /\ \/ call'[c].phase = "read"
                  \/ call'[c].phase = "idle" /\ call'[c].result.status = "too_long"
               /\ UNCHANGED storeVars
    <2> DEFINE st == streams[call[c].stream]
               r == [call[c].result EXCEPT !.head = st.head, !.retained = st.retained]
               tooLong == [r EXCEPT !.status = "too_long"]
    <2>1. \/ call' = [call EXCEPT ![c] = [@ EXCEPT !.phase = "idle", !.result = tooLong]]
          \/ call' = [call EXCEPT ![c] = [@ EXCEPT !.phase = "read", !.result = r]]
      BY <1>2 DEF P!CatchUpHead
    <2>2. /\ r.cursor = call[c].result.cursor /\ tooLong.cursor = r.cursor
          /\ tooLong.status = "too_long"
      <3> HIDE DEF st
      <3> QED BY <1>t DEF P!ResultSet
    <2>3. call[c].phase = "head" /\ UNCHANGED storeVars
      BY <1>2 DEF P!CatchUpHead, P!storeVars, storeVars
    <2> HIDE DEF tooLong, r
    <2>4. CASE call' = [call EXCEPT ![c] = [@ EXCEPT !.phase = "idle", !.result = tooLong]]
      <3>1. /\ call'[c].phase = "idle" /\ call'[c].result = tooLong
            /\ OthersStay(c) /\ SameRequest(c)
        BY <1>1, <2>4
      <3> QED BY <2>2, <2>3, <3>1
    <2>5. CASE call' = [call EXCEPT ![c] = [@ EXCEPT !.phase = "read", !.result = r]]
      <3>1. /\ call'[c].phase = "read" /\ call'[c].result = r
            /\ OthersStay(c) /\ SameRequest(c)
        BY <1>1, <2>5
      <3> QED BY <2>2, <2>3, <3>1
    <2> QED BY <2>1, <2>4, <2>5
  <1>3. ASSUME P!CatchUpRead(c)
        PROVE  /\ call[c].phase = "read" /\ OthersStay(c) /\ SameRequest(c)
               /\ call'[c].result.cursor = call[c].result.cursor
               /\ call'[c].phase = "idle" /\ UNCHANGED storeVars
    <2> DEFINE st == streams[call[c].stream]
               r == call[c].result
               batch == P!ReadBatch(st, r.cursor, call[c].limit)
               tooLong == [r EXCEPT !.status = "too_long"]
               ok == [status |-> "ok", cursor |-> r.cursor,
                      head |-> st.head, retained |-> st.retained,
                      seqs |-> batch.seqs, seq |-> batch.seq, final |-> batch.final]
    <2>1. \/ call' = [call EXCEPT ![c] = [@ EXCEPT !.phase = "idle", !.result = tooLong]]
          \/ call' = [call EXCEPT ![c] = [@ EXCEPT !.phase = "idle", !.result = ok]]
      BY <1>3 DEF P!CatchUpRead
    <2>2. tooLong.cursor = call[c].result.cursor /\ ok.cursor = call[c].result.cursor
      <3> HIDE DEF st, batch
      <3> QED BY <1>t DEF P!ResultSet
    <2>3. call[c].phase = "read" /\ UNCHANGED storeVars
      BY <1>3 DEF P!CatchUpRead, P!storeVars, storeVars
    <2> HIDE DEF tooLong, ok
    <2>4. CASE call' = [call EXCEPT ![c] = [@ EXCEPT !.phase = "idle", !.result = tooLong]]
      <3>1. /\ call'[c].phase = "idle" /\ call'[c].result = tooLong
            /\ OthersStay(c) /\ SameRequest(c)
        BY <1>1, <2>4
      <3> QED BY <2>2, <2>3, <3>1
    <2>5. CASE call' = [call EXCEPT ![c] = [@ EXCEPT !.phase = "idle", !.result = ok]]
      <3>1. /\ call'[c].phase = "idle" /\ call'[c].result = ok
            /\ OthersStay(c) /\ SameRequest(c)
        BY <1>1, <2>5
      <3> QED BY <2>2, <2>3, <3>1
    <2> QED BY <2>1, <2>4, <2>5
  <1>4. P!CatchUpHead(c) => ~P!CatchUpRead(c)
    BY <1>2, <1>3
  <1> QED BY <1>2, <1>3, <1>4

(* An ack checks the head, then stores the larger of two positions.        *)
LEMMA AckSteps ==
    ASSUME EngineOK, NEW c \in Callers
    PROVE  /\ \A s, seq : P!Ack(c, s, seq) =>
                 /\ call[c].phase = "idle" /\ call'[c].phase = "ack" /\ OthersStay(c)
                 /\ call'[c].stream = s /\ call'[c].seq = seq /\ seq <= streams[s].head
                 /\ UNCHANGED storeVars
           /\ P!AckCursor(c) =>
                 /\ call[c].phase = "ack" /\ call'[c].phase = "idle" /\ OthersStay(c)
                 /\ SameRequest(c) /\ call'[c].result = call[c].result
                 /\ UNCHANGED <<streams, retention, watchers, waiting, compacting, now>>
                 /\ \A u \in Subscribers, s \in Streams :
                       P!CursorSeq(u, s)' =
                         IF u = SubscriberOf[c] /\ s = call[c].stream
                         THEN P!Larger(P!CursorSeq(u, s), call[c].seq) ELSE P!CursorSeq(u, s)
  <1>t. /\ call \in [Callers -> P!CallSet] /\ call[c] \in P!CallSet
    BY StoreFacts
  <1>1. ASSUME NEW s, NEW seq, P!Ack(c, s, seq)
        PROVE  /\ call[c].phase = "idle" /\ call'[c].phase = "ack" /\ OthersStay(c)
               /\ call'[c].stream = s /\ call'[c].seq = seq /\ seq <= streams[s].head
               /\ UNCHANGED storeVars
    BY <1>1, <1>t DEF P!Ack, OthersStay, P!CallSet, P!storeVars, storeVars
  <1>2. ASSUME P!AckCursor(c)
        PROVE  /\ call[c].phase = "ack" /\ call'[c].phase = "idle" /\ OthersStay(c)
               /\ SameRequest(c) /\ call'[c].result = call[c].result
    BY <1>2, <1>t DEF P!AckCursor, OthersStay, SameRequest, P!CallSet
  <1>3. ASSUME P!AckCursor(c)
        PROVE  UNCHANGED <<streams, retention, watchers, waiting, compacting, now>>
    BY <1>3 DEF P!AckCursor, P!StoreAck
  <1>4. ASSUME P!AckCursor(c), NEW u \in Subscribers, NEW s \in Streams
        PROVE  P!CursorSeq(u, s)' =
                 IF u = SubscriberOf[c] /\ s = call[c].stream
                 THEN P!Larger(P!CursorSeq(u, s), call[c].seq) ELSE P!CursorSeq(u, s)
    <2> DEFINE v == SubscriberOf[c]
               r == call[c].stream
               seq == call[c].seq
    <2>1. cursors' = [cursors EXCEPT ![<<v, r>>] = IF seq > P!CursorSeq(v, r) THEN seq ELSE @]
      BY <1>4, Zenon DEF P!AckCursor, P!StoreAck
    <2>2. cursors \in [Subscribers \X Streams -> Nat \cup {P!NoCursor}]
      BY StoreFacts
    <2>3. seq \in Nat
      BY <1>t DEF P!CallSet
    <2> HIDE DEF v, r, seq
    <2>4. CASE u = v /\ s = r
      <3>1. cursors'[<<u, s>>] = IF seq > P!CursorSeq(u, s) THEN seq ELSE cursors[<<u, s>>]
        BY <2>1, <2>2, <2>4
      <3>2. cursors[<<u, s>>] \in Nat \cup {-1}
        BY <2>2 DEF P!NoCursor
      <3>3. P!CursorSeq(u, s)' = P!Larger(P!CursorSeq(u, s), seq)
        BY <2>3, <3>1, <3>2 DEF P!CursorSeq, P!Larger
      <3> QED BY <2>4, <3>3 DEF v, r, seq
    <2>5. CASE ~(u = v /\ s = r)
      <3>1. cursors'[<<u, s>>] = cursors[<<u, s>>]
        BY <2>1, <2>2, <2>5
      <3> QED BY <2>5, <3>1 DEF P!CursorSeq, v, r
    <2> QED BY <2>4, <2>5
  <1> QED BY <1>1, <1>2, <1>3, <1>4

-----------------------------------------------------------------------------
(* What the sessions hold between two phases.                              *)

(* What a session has read first, by the phase its call is in.             *)
SessionOK(c) ==
    /\ call[c].phase = "ack" => seen[c] \in Cursor
    /\ call[c].phase \in {"head", "read"} => seen[c] = Absent

SessionsOK ==
    /\ seen \in [Callers -> Optional(Cursor)]
    /\ acked \in [Subscribers \X Streams -> Nat] /\ promised \in [Callers -> Nat]
    /\ \A c \in Callers : SessionOK(c)

(* A stored cursor is a position, zero when there is none.                 *)
LEMMA CursorSeqs ==
    ASSUME ServiceAssumption, EngineOK, NEW u \in Subscribers, NEW s \in Streams
    PROVE  /\ P!CursorSeq(u, s) \in Nat
           /\ Engine!CursorSeq(u, s) = P!CursorSeq(u, s)
           /\ cursors[<<u, s>>] <= P!CursorSeq(u, s)
  <1>1. P!KeyAssumption /\ P!StoreAssumption /\ P!EngineAssumption
    BY Assumptions
  <1>2. P!TypeOK
    BY DEF EngineOK, P!EngineTyped, P!EngineTypeOK
  <1> QED BY <1>1, <1>2, P!CursorSeqType, SameStore

(* What the type of a call says of its request and of its session.         *)
LEMMA CallFacts ==
    ASSUME ServiceAssumption, EngineOK, NEW c \in Callers
    PROVE  /\ call[c].stream \in Streams /\ call[c].limit \in Nat /\ call[c].totalLimit \in Nat
           /\ call[c].seq \in Nat /\ call[c].result \in P!ResultSet
           /\ SubscriberOf[c] \in Subscribers
  BY StoreFacts DEF P!CallSet, ServiceAssumption

(* What AckCursor does with the cursor it stores.                          *)
AckStores(c, u, s, stored) ==
    /\ P!CursorSeq(u, s) <= stored
    /\ P!CursorSeq(u, s)' = stored
    /\ \A v \in Subscribers, t \in Streams : P!CursorSeq(v, t) <= P!CursorSeq(v, t)'
    /\ Reply("ack", AckInput(c, s, call[c].seq),
             [cursor |-> PBCursor(s, stored), head |-> seen[c]], promised[c])
    /\ acked' = [acked EXCEPT ![<<u, s>>] = P!Larger(@, stored)]
    /\ seen' = [seen EXCEPT ![c] = Absent] /\ UNCHANGED <<promised, answered>>

(* The cursor an ack stores is answered as it is stored.                   *)
LEMMA StoredCursor ==
    ASSUME ServiceAssumption, EngineOK, NEW c \in Callers, AckCursor(c),
           NEW u \in Subscribers, NEW s \in Streams, u = SubscriberOf[c], s = call[c].stream
    PROVE  \E stored \in Nat : AckStores(c, u, s, stored)
  <1> DEFINE old == P!CursorSeq(u, s)
             stored == P!Larger(old, call[c].seq)
  <1>1. call[c].seq \in Nat
    BY CallFacts
  <1>2. P!AckCursor(c)
    BY SameAck DEF AckCursor
  <1>3. old \in Nat
    BY CursorSeqs
  <1>4. \A v \in Subscribers, t \in Streams :
          P!CursorSeq(v, t)' = IF v = u /\ t = s THEN P!Larger(P!CursorSeq(v, t), call[c].seq)
                               ELSE P!CursorSeq(v, t)
    BY <1>2, AckSteps
  <1>5. P!CursorSeq(u, s)' = stored
    BY <1>4
  <1>6. call'[c].stream = s
    BY <1>2, AckSteps DEF SameRequest
  <1>7. \A a, b : Engine!Larger(a, b) = P!Larger(a, b)
    BY SameStream
  <1>8. stored \in Nat /\ old <= stored
    <2> HIDE DEF old
    <2> QED BY <1>1, <1>3 DEF P!Larger
  <1>9. \A v \in Subscribers, t \in Streams : P!CursorSeq(v, t) <= P!CursorSeq(v, t)'
    <2> SUFFICES ASSUME NEW v \in Subscribers, NEW t \in Streams
                 PROVE  P!CursorSeq(v, t) <= P!CursorSeq(v, t)'
      OBVIOUS
    <2>1. P!CursorSeq(v, t) \in Nat
      BY CursorSeqs
    <2>2. CASE v = u /\ t = s
      BY <1>5, <1>8, <2>2
    <2>3. CASE ~(v = u /\ t = s)
      BY <1>4, <2>1, <2>3
    <2> QED BY <2>2, <2>3
  <1>10. Engine!CursorSeq(SubscriberOf[c], call[c].stream)' = P!CursorSeq(u, s)'
    BY <1>6, <1>7, Zenon DEF Engine!CursorSeq, P!CursorSeq
  <1>11. Reply("ack", AckInput(c, s, call[c].seq),
               [cursor |-> PBCursor(s, stored), head |-> seen[c]], promised[c])
    BY <1>5, <1>10, Zenon DEF AckCursor
  <1>12. acked' = [acked EXCEPT ![<<u, s>>] = P!Larger(@, stored)]
    BY <1>5, <1>7, <1>10, Zenon DEF AckCursor
  <1>13. seen' = [seen EXCEPT ![c] = Absent] /\ UNCHANGED <<promised, answered>>
    BY DEF AckCursor
  <1> HIDE DEF stored
  <1>14. stored \in Nat
    BY <1>8
  <1> WITNESS stored \in Nat
  <1> QED BY <1>5, <1>8, <1>9, <1>11, <1>12, <1>13 DEF AckStores

(* The sessions a step does not touch.                                     *)
LEMMA SessionsKept ==
    ASSUME SessionsOK, NEW c \in Callers, OthersStay(c),
           seen' \in [Callers -> Optional(Cursor)],
           \A d \in Callers \ {c} : seen'[d] = seen[d],
           acked' \in [Subscribers \X Streams -> Nat], promised' \in [Callers -> Nat],
           SessionOK(c)'
    PROVE  SessionsOK'
  BY DEF SessionsOK, SessionOK, OthersStay

(* The first phase of a read or of an ack notes what had been acked when   *)
(* it began.                                                               *)
LEMMA Beginning ==
    ASSUME ServiceAssumption, SessionsOK, NEW c \in Callers, NEW s \in Streams, Begin(c, s)
    PROVE  /\ seen[c] = Absent /\ promised' \in [Callers -> Nat]
           /\ promised'[c] = acked[<<SubscriberOf[c], s>>]
           /\ \A d \in Callers \ {c} : promised'[d] = promised[d]
  <1>1. SubscriberOf[c] \in Subscribers
    BY DEF ServiceAssumption
  <1> QED BY <1>1 DEF Begin, SessionsOK

(* No step takes a session out of its phase and what it read first.        *)
LEMMA SessionsStay ==
    ASSUME ServiceAssumption, EngineOK, SessionsOK, [Next]_vars
    PROVE  SessionsOK'
  <1>t. /\ seen \in [Callers -> Optional(Cursor)] /\ promised \in [Callers -> Nat]
        /\ acked \in [Subscribers \X Streams -> Nat]
        /\ \A c \in Callers : SessionOK(c)
        /\ \A n \in Nat, s \in Streams : PBCursor(s, n) \in Cursor
    BY DEF SessionsOK, PBCursor, Cursor
  <1>1. ASSUME UNCHANGED <<call, seen, acked, promised>> PROVE SessionsOK'
    BY <1>1 DEF SessionsOK, SessionOK
  <1>2. ASSUME NEW c \in Callers, NEW s \in Streams, GetCursor(c, s)
        PROVE  SessionsOK'
    <2> DEFINE cursor == PBCursor(s, Engine!CursorSeq(SubscriberOf[c], s))
    <2>1. /\ Begin(c, s) /\ call[c].phase = "idle" /\ UNCHANGED <<call, acked>>
          /\ seen' = [seen EXCEPT ![c] = cursor]
      BY <1>2 DEF GetCursor
    <2>2. cursor \in Cursor
      BY <1>t, CallFacts, CursorSeqs
    <2> HIDE DEF cursor
    <2>3. /\ seen' \in [Callers -> Optional(Cursor)]
          /\ \A d \in Callers \ {c} : seen'[d] = seen[d]
      BY <1>t, <2>1, <2>2 DEF Optional
    <2>4. SessionOK(c)' /\ OthersStay(c)
      BY <2>1 DEF SessionOK, OthersStay
    <2> QED BY <1>t, <2>1, <2>3, <2>4, Beginning, SessionsKept
  <1>3. ASSUME NEW c \in Callers, GetCursorHead(c) PROVE SessionsOK'
    <2>1. /\ call[c].phase = "idle" /\ UNCHANGED <<call, acked, promised>>
          /\ seen' = [seen EXCEPT ![c] = Absent]
      BY <1>3 DEF GetCursorHead
    <2>2. /\ seen' \in [Callers -> Optional(Cursor)]
          /\ \A d \in Callers \ {c} : seen'[d] = seen[d]
      BY <1>t, <2>1 DEF Optional
    <2>3. SessionOK(c)' /\ OthersStay(c)
      BY <2>1 DEF SessionOK, OthersStay
    <2> QED BY <1>t, <2>1, <2>2, <2>3, SessionsKept
  <1>4. ASSUME NEW c \in Callers, NEW s \in Streams, NEW limit, NEW totalLimit,
               CatchUp(c, s, limit, totalLimit)
        PROVE  SessionsOK'
    <2>1. Begin(c, s) /\ P!CatchUp(c, s, limit, totalLimit) /\ UNCHANGED <<seen, acked>>
      BY <1>4, SameCatchUp DEF CatchUp
    <2>2. call'[c].phase = "head" /\ OthersStay(c)
      BY <2>1, CatchUpBegins
    <2>3. seen[c] = Absent /\ promised' \in [Callers -> Nat]
      BY <2>1, Beginning
    <2>4. SessionOK(c)'
      BY <2>1, <2>2, <2>3 DEF SessionOK
    <2> QED BY <1>t, <2>1, <2>2, <2>3, <2>4, SessionsKept
  <1>5. ASSUME NEW c \in Callers, CatchUpStep(c) PROVE SessionsOK'
    <2>1. (P!CatchUpHead(c) \/ P!CatchUpRead(c)) /\ UNCHANGED <<seen, acked, promised>>
      BY <1>5, SameCatchUp DEF CatchUpStep
    <2>2. /\ call[c].phase \in {"head", "read"} /\ OthersStay(c)
          /\ call'[c].phase \in {"idle", "read"}
      BY <2>1, CatchUpSteps
    <2>3. SessionOK(c)'
      BY <1>t, <2>1, <2>2 DEF SessionOK
    <2> QED BY <1>t, <2>1, <2>2, <2>3, SessionsKept
  <1>6. ASSUME NEW c \in Callers, NEW s \in Streams, NEW seq, Ack(c, s, seq)
        PROVE  SessionsOK'
    <2>1. /\ Begin(c, s) /\ P!Ack(c, s, seq) /\ UNCHANGED acked
          /\ seen' = [seen EXCEPT ![c] = PBCursor(s, streams[s].head)]
      BY <1>6, SameAck DEF Ack
    <2>2. call'[c].phase = "ack" /\ OthersStay(c)
      BY <2>1, AckSteps
    <2>3. PBCursor(s, streams[s].head) \in Cursor
      BY <1>t, StoreFacts
    <2>4. /\ seen' \in [Callers -> Optional(Cursor)] /\ seen'[c] \in Cursor
          /\ \A d \in Callers \ {c} : seen'[d] = seen[d]
      BY <1>t, <2>1, <2>3 DEF Optional
    <2>5. SessionOK(c)'
      BY <2>2, <2>4 DEF SessionOK
    <2> QED BY <1>t, <2>1, <2>2, <2>4, <2>5, Beginning, SessionsKept
  <1>7. ASSUME NEW c \in Callers, AckCursor(c) PROVE SessionsOK'
    <2>1. P!AckCursor(c)
      BY <1>7, SameAck DEF AckCursor
    <2>2. call'[c].phase = "idle" /\ OthersStay(c)
      BY <2>1, AckSteps
    <2>3. PICK u \in Subscribers, s \in Streams : u = SubscriberOf[c] /\ s = call[c].stream
      BY CallFacts
    <2>4. PICK stored \in Nat : AckStores(c, u, s, stored)
      BY <1>7, <2>3, StoredCursor
    <2>8. seen' = [seen EXCEPT ![c] = Absent] /\ UNCHANGED promised
      BY <1>7 DEF AckCursor
    <2>5. acked' \in [Subscribers \X Streams -> Nat]
      BY <1>t, <2>4 DEF AckStores, P!Larger
    <2>6. /\ seen' \in [Callers -> Optional(Cursor)]
          /\ \A d \in Callers \ {c} : seen'[d] = seen[d]
      BY <1>t, <2>8 DEF Optional
    <2>7. SessionOK(c)'
      BY <2>2 DEF SessionOK
    <2> QED BY <1>t, <2>2, <2>5, <2>6, <2>7, <2>8, SessionsKept
  <1>8. ASSUME NEW s \in Streams,
               \/ \E key : AppendFirst(s, key) \/ AppendAgain(s, key)
               \/ GetHead(s)
               \/ \E before : Truncate(s, before)
               \/ \E u, seq : Reset(u, s, seq)
               \/ Delete(s)
        PROVE  UNCHANGED <<call, seen, acked, promised>>
    BY <1>8 DEF AppendFirst, AppendAgain, GetHead, Truncate, Reset, Delete
  <1>9. ASSUME NEW c \in Callers, NEW s \in Streams, NEW seq, AckTooHigh(c, s, seq)
        PROVE  UNCHANGED <<call, seen, acked, promised>>
    BY <1>9 DEF AckTooHigh
  <1>10. CASE UNCHANGED vars
    BY <1>1, <1>10 DEF vars, engineVars
  <1>11. CASE ProducerNext \/ SessionNext
    BY <1>1, <1>2, <1>3, <1>4, <1>5, <1>6, <1>7, <1>8, <1>9, <1>11 DEF ProducerNext, SessionNext
  <1> QED BY <1>1, <1>8, <1>10, <1>11 DEF Next, SteadyNext, LogNext, OperatorNext

(* No session has read anything at the start.                              *)
LEMMA SessionsStart ==
    ASSUME ServiceAssumption, Init
    PROVE  SessionsOK
  <1>1. \A c \in Callers : call[c].phase = "idle"
    BY SameAck DEF Init, P!EngineInit
  <1> QED BY <1>1 DEF Init, SessionsOK, SessionOK, Optional

-----------------------------------------------------------------------------
(* What was acked is read.                                                 *)

(* No log goes back while no stream is deleted.                            *)
LEMMA HeadsGrow ==
    ASSUME ServiceAssumption, EngineOK, [Next]_vars, steady', NEW s \in Streams
    PROVE  streams[s].head \in Nat /\ streams[s].head <= streams'[s].head
  <1>t. /\ streams \in [Streams -> P!StreamSet] /\ \A r \in Streams : streams[r].head \in Nat
        /\ retention \in [Streams -> P!RetentionSet]
    BY StoreFacts
  <1>1. ASSUME UNCHANGED streams PROVE streams[s].head <= streams'[s].head
    BY <1>t, <1>1
  <1>2. ASSUME NEW r \in Streams, NEW st, streams' = [streams EXCEPT ![r] = st],
               st.head \in Nat, streams[r].head <= st.head
        PROVE  streams[s].head <= streams'[s].head
    BY <1>t, <1>2
  <1>3. ASSUME NEW r \in Streams, NEW key \in Keys \cup {NoKey}, AppendFirst(r, key)
        PROVE  streams[s].head <= streams'[s].head
    <2> DEFINE e == P!AppendEvent(streams[r], key, now)
               cut == P!ApplyRetention(e, retention[r], now)
    <2>1. P!StampedAppend(r, key)
      BY <1>3, SameAppend DEF AppendFirst
    <2>2. streams' = [streams EXCEPT ![r] = cut] /\ e \in P!StreamSet
      BY <2>1, AppendKeeps
    <2>3. e.head = streams[r].head + 1
      BY DEF P!AppendEvent
    <2> HIDE DEF e
    <2>4. cut.head = e.head
      BY <1>t, <2>2, CutKeeps
    <2> HIDE DEF cut
    <2> QED BY <1>t, <1>2, <2>2, <2>3, <2>4
  <1>4. ASSUME NEW r \in Streams, NEW before, Truncate(r, before)
        PROVE  streams[s].head <= streams'[s].head
    <2> DEFINE cut == P!TruncateBefore(streams[r], before)
    <2>1. streams' = [streams EXCEPT ![r] = cut]
      BY <1>4, SameAck DEF Truncate, P!TruncateStream
    <2>2. streams[r] \in P!StreamSet
      BY <1>t
    <2>3. cut.head = streams[r].head
      BY <2>2, CutKeeps
    <2> HIDE DEF cut
    <2> QED BY <1>t, <1>2, <2>1, <2>3
  <1>5. ASSUME NEW r \in Streams,
               \/ \E key \in Keys : AppendAgain(r, key)
               \/ GetHead(r)
        PROVE  UNCHANGED streams
    BY <1>5, SameAppend DEF AppendAgain, P!AppendRetry, GetHead, storeVars, P!storeVars
  <1>6. ASSUME NEW c \in Callers, GetCursorHead(c) \/ CatchUpStep(c) \/ AckCursor(c)
        PROVE  UNCHANGED streams
    BY <1>6, SameCatchUp, SameAck
    DEF GetCursorHead, CatchUpStep, AckCursor, P!CatchUpHead, P!CatchUpRead, P!AckCursor,
        P!StoreAck, storeVars, P!storeVars
  <1>7. ASSUME NEW r \in Streams, NEW c \in Callers,
               \/ GetCursor(c, r)
               \/ \E limit, totalLimit : CatchUp(c, r, limit, totalLimit)
               \/ \E seq : Ack(c, r, seq) \/ AckTooHigh(c, r, seq)
        PROVE  UNCHANGED streams
    BY <1>7, SameCatchUp, SameAck
    DEF GetCursor, CatchUp, Ack, AckTooHigh, P!CatchUp, P!Ack, storeVars, P!storeVars
  <1>8. CASE UNCHANGED vars
    BY <1>t, <1>1, <1>8 DEF vars, engineVars, storeVars
  <1>9. ASSUME NEW r \in Streams, NEW u, NEW seq, Reset(u, r, seq) \/ Delete(r)
        PROVE  FALSE
    BY <1>9 DEF Reset, Delete
  <1>10. ASSUME NEW r \in Streams, Delete(r) PROVE FALSE
    BY <1>10 DEF Delete
  <1> QED
    BY <1>t, <1>1, <1>3, <1>4, <1>5, <1>6, <1>7, <1>8, <1>9, <1>10
    DEF Next, SteadyNext, ProducerNext, SessionNext, LogNext, OperatorNext

(* ReadYourAcks: what a session was promised is never above the cursor its *)
(* call works with, as long as no cursor goes back.                        *)
Promised(c) ==
    /\ call[c].phase \in {"head", "read"} => promised[c] <= call[c].result.cursor
    /\ call[c].phase = "ack" => promised[c] <= P!CursorSeq(SubscriberOf[c], call[c].stream)
    /\ call[c].phase = "idle" /\ seen[c] # Absent =>
          promised[c] <= seen[c].seq /\ seen[c].seq <= streams[seen[c].streamId].head

AcksStored == \A u \in Subscribers, s \in Streams : acked[<<u, s>>] <= P!CursorSeq(u, s)

PromisesKept == steady => AcksStored /\ \A c \in Callers : Promised(c)

(* An answer that shows what was promised.                                 *)
LEMMA ReplyShows ==
    ASSUME NEW rpc, NEW input, NEW output, NEW floor, Reply(rpc, input, output, floor),
           rpc \in {"getCursor", "catchUp", "ack"} => output = Failed \/ output.cursor.seq >= floor,
           rpc = "getCursor" => output.cursor.seq <= output.head.seq
    PROVE  ReadYourAcks'
  <1>1. /\ reply'.rpc = rpc /\ reply'.output = output /\ reply'.promised = floor
    BY DEF Reply
  <1> QED BY <1>1 DEF ReadYourAcks, AckedIsShown, ShownWithinHead, Returned

(* What was promised to the other sessions stays kept: no cursor and no    *)
(* head goes back.                                                         *)
LEMMA OthersPromised ==
    ASSUME ServiceAssumption, EngineOK, SessionsOK, NEW d \in Callers, Promised(d),
           call'[d] = call[d], seen'[d] = seen[d], promised'[d] = promised[d],
           \A u \in Subscribers, s \in Streams :
              P!CursorSeq(u, s)' \in Nat /\ P!CursorSeq(u, s) <= P!CursorSeq(u, s)',
           \A s \in Streams : streams'[s].head \in Nat /\ streams[s].head <= streams'[s].head
    PROVE  Promised(d)'
  <1>1. /\ promised[d] \in Nat /\ seen[d] \in Optional(Cursor)
        /\ \A u \in Subscribers, s \in Streams : P!CursorSeq(u, s) \in Nat
        /\ \A s \in Streams : streams[s].head \in Nat
    BY CursorSeqs, StoreFacts DEF SessionsOK
  <1>2. PICK u \in Subscribers, s \in Streams : u = SubscriberOf[d] /\ s = call[d].stream
    BY CallFacts
  <1>3. P!CursorSeq(SubscriberOf[d], call[d].stream)' = P!CursorSeq(u, s)'
    BY <1>2 DEF P!CursorSeq
  <1>4. ASSUME seen[d] # Absent
        PROVE  /\ seen[d].streamId \in Streams /\ seen[d].seq \in Nat
    BY <1>1, <1>4 DEF Optional, Cursor
  <1>5. ASSUME call'[d].phase = "ack"
        PROVE  promised'[d] <= P!CursorSeq(SubscriberOf[d], call[d].stream)'
    <2>1. promised[d] <= P!CursorSeq(u, s)
      BY <1>2, <1>5 DEF Promised
    <2>2. P!CursorSeq(u, s) <= P!CursorSeq(u, s)' /\ P!CursorSeq(u, s)' \in Nat
      OBVIOUS
    <2>3. promised[d] <= P!CursorSeq(u, s)'
      BY <1>1, <2>1, <2>2
    <2> QED BY <1>3, <2>3
  <1>6. ASSUME call'[d].phase = "idle", seen'[d] # Absent
        PROVE  promised'[d] <= seen'[d].seq /\ seen'[d].seq <= streams'[seen'[d].streamId].head
    BY <1>1, <1>4, <1>6 DEF Promised
  <1>7. ASSUME call'[d].phase \in {"head", "read"}
        PROVE  promised'[d] <= call'[d].result.cursor
    BY <1>7 DEF Promised
  <1> QED BY <1>5, <1>6, <1>7 DEF Promised

(* Every phase keeps what was promised: a read takes the stored cursor, no *)
(* smaller than any answered ack, and an ack only raises it.               *)
LEMMA PromisesStay ==
    ASSUME ServiceAssumption, EngineOK, EngineOK', SessionsOK, PromisesKept, [Next]_vars
    PROVE  PromisesKept'
  <1> SUFFICES ASSUME steady' PROVE (AcksStored /\ \A c \in Callers : Promised(c))'
    BY DEF PromisesKept
  <1>s. steady
    BY DEF Next, SteadyNext, ProducerNext, SessionNext, LogNext, OperatorNext, Truncate, Reset,
           Delete, vars, engineVars
  <1>p. AcksStored /\ \A c \in Callers : Promised(c)
    BY <1>s DEF PromisesKept
  <1>h. \A s \in Streams : streams'[s].head \in Nat /\ streams[s].head <= streams'[s].head
    <2>1. \A s \in Streams : streams[s].head <= streams'[s].head
      BY HeadsGrow
    <2>2. \A s \in Streams : streams'[s].head \in Nat
      BY DEF EngineOK, P!EngineTyped, P!EngineTypeOK, P!TypeOK, P!StreamSet
    <2> QED BY <2>1, <2>2
  <1>w. \A u \in Subscribers, s \in Streams :
          P!CursorSeq(u, s) \in Nat /\ P!CursorSeq(u, s) <= streams[s].head
    BY <1>s, CursorSeqs DEF EngineOK, P!CursorWithinHead
  <1>t. /\ seen \in [Callers -> Optional(Cursor)] /\ promised \in [Callers -> Nat]
        /\ acked \in [Subscribers \X Streams -> Nat]
        /\ \A c \in Callers : SessionOK(c)
    BY DEF SessionsOK
  <1>c. ASSUME UNCHANGED cursors
        PROVE  \A u \in Subscribers, s \in Streams :
                  P!CursorSeq(u, s)' = P!CursorSeq(u, s) /\ P!CursorSeq(u, s)' \in Nat
                  /\ P!CursorSeq(u, s) <= P!CursorSeq(u, s)'
    <2>1. \A u \in Subscribers, s \in Streams : P!CursorSeq(u, s)' = P!CursorSeq(u, s)
      BY <1>c DEF P!CursorSeq
    <2>2. \A u \in Subscribers, s \in Streams :
            P!CursorSeq(u, s) \in Nat /\ P!CursorSeq(u, s) <= P!CursorSeq(u, s)
      BY <1>w
    <2> QED BY <2>1, <2>2
  <1>a. ASSUME UNCHANGED <<cursors, acked>> PROVE AcksStored'
    BY <1>a, <1>c, <1>p DEF AcksStored
  <1>0. ASSUME UNCHANGED <<cursors, call, seen, acked, promised>>
        PROVE  (AcksStored /\ \A c \in Callers : Promised(c))'
    BY <1>0, <1>a, <1>c, <1>h, <1>p, OthersPromised
  <1>1. ASSUME NEW c \in Callers, OthersStay(c), \A d \in Callers \ {c} :
                  seen'[d] = seen[d] /\ promised'[d] = promised[d],
               \A u \in Subscribers, s \in Streams :
                  P!CursorSeq(u, s)' \in Nat /\ P!CursorSeq(u, s) <= P!CursorSeq(u, s)',
               Promised(c)', AcksStored'
        PROVE  (AcksStored /\ \A d \in Callers : Promised(d))'
    BY <1>1, <1>h, <1>p, OthersPromised DEF OthersStay
  <1>2. ASSUME NEW c \in Callers, NEW s \in Streams, GetCursor(c, s)
        PROVE  (AcksStored /\ \A d \in Callers : Promised(d))'
    <2> DEFINE n == Engine!CursorSeq(SubscriberOf[c], s)
               cursor == PBCursor(s, n)
    <2>1. /\ Begin(c, s) /\ call[c].phase = "idle" /\ UNCHANGED <<call, acked, cursors, streams>>
          /\ seen' = [seen EXCEPT ![c] = cursor]
      BY <1>2 DEF GetCursor, storeVars
    <2>2. PICK u \in Subscribers : u = SubscriberOf[c]
      BY CallFacts
    <2>3. n = P!CursorSeq(u, s)
      BY <2>2, CursorSeqs
    <2>4. cursor.seq = n /\ cursor.streamId = s
      BY DEF PBCursor
    <2>5. promised'[c] = acked[<<u, s>>] /\ \A d \in Callers \ {c} : promised'[d] = promised[d]
      BY <2>1, <2>2, Beginning
    <2> HIDE DEF cursor, n
    <2>6. seen'[c] = cursor /\ \A d \in Callers \ {c} : seen'[d] = seen[d]
      BY <1>t, <2>1
    <2>7. promised'[c] <= cursor.seq /\ cursor.seq <= streams'[s].head
      BY <1>p, <1>w, <2>1, <2>3, <2>4, <2>5 DEF AcksStored
    <2>8. Promised(c)' /\ OthersStay(c)
      BY <2>1, <2>4, <2>6, <2>7 DEF Promised, OthersStay
    <2> QED BY <1>1, <1>a, <1>c, <2>1, <2>5, <2>6, <2>8
  <1>3. ASSUME NEW c \in Callers, GetCursorHead(c)
        PROVE  (AcksStored /\ \A d \in Callers : Promised(d))'
    <2>1. /\ call[c].phase = "idle" /\ UNCHANGED <<call, acked, cursors, promised>>
          /\ seen' = [seen EXCEPT ![c] = Absent]
      BY <1>3 DEF GetCursorHead, storeVars
    <2>2. seen'[c] = Absent /\ \A d \in Callers \ {c} : seen'[d] = seen[d]
      BY <1>t, <2>1
    <2>3. Promised(c)' /\ OthersStay(c)
      BY <2>1, <2>2 DEF Promised, OthersStay
    <2> QED BY <1>1, <1>a, <1>c, <2>1, <2>2, <2>3
  <1>4. ASSUME NEW c \in Callers, NEW s \in Streams, NEW limit, NEW totalLimit,
               CatchUp(c, s, limit, totalLimit)
        PROVE  (AcksStored /\ \A d \in Callers : Promised(d))'
    <2>1. Begin(c, s) /\ P!CatchUp(c, s, limit, totalLimit) /\ UNCHANGED <<seen, acked>>
      BY <1>4, SameCatchUp DEF CatchUp
    <2>2. PICK u \in Subscribers : u = SubscriberOf[c]
      BY CallFacts
    <2>3. /\ call'[c].phase = "head" /\ OthersStay(c) /\ UNCHANGED cursors
          /\ call'[c].result.cursor = P!CursorSeq(u, s)
      BY <2>1, <2>2, CatchUpBegins DEF storeVars
    <2>4. promised'[c] = acked[<<u, s>>] /\ \A d \in Callers \ {c} : promised'[d] = promised[d]
      BY <2>1, <2>2, Beginning
    <2>5. Promised(c)'
      BY <1>p, <2>3, <2>4 DEF Promised, AcksStored
    <2> QED BY <1>1, <1>a, <1>c, <2>1, <2>3, <2>4, <2>5
  <1>5. ASSUME NEW c \in Callers, CatchUpStep(c)
        PROVE  (AcksStored /\ \A d \in Callers : Promised(d))'
    <2>1. (P!CatchUpHead(c) \/ P!CatchUpRead(c)) /\ UNCHANGED <<seen, acked, promised>>
      BY <1>5, SameCatchUp DEF CatchUpStep
    <2>2. /\ call[c].phase \in {"head", "read"} /\ OthersStay(c) /\ UNCHANGED cursors
          /\ call'[c].phase \in {"idle", "read"}
          /\ call'[c].result.cursor = call[c].result.cursor
      BY <2>1, CatchUpSteps DEF storeVars
    <2>3. seen[c] = Absent
      BY <1>t, <2>2 DEF SessionOK
    <2>4. Promised(c)'
      BY <1>p, <2>1, <2>2, <2>3 DEF Promised
    <2> QED BY <1>1, <1>a, <1>c, <2>1, <2>2, <2>4
  <1>6. ASSUME NEW c \in Callers, NEW s \in Streams, NEW seq, Ack(c, s, seq)
        PROVE  (AcksStored /\ \A d \in Callers : Promised(d))'
    <2>1. /\ Begin(c, s) /\ P!Ack(c, s, seq) /\ UNCHANGED acked
          /\ seen' = [seen EXCEPT ![c] = PBCursor(s, streams[s].head)]
      BY <1>6, SameAck DEF Ack
    <2>2. PICK u \in Subscribers : u = SubscriberOf[c]
      BY CallFacts
    <2>3. /\ call'[c].phase = "ack" /\ OthersStay(c) /\ UNCHANGED cursors /\ call'[c].stream = s
      BY <2>1, AckSteps DEF storeVars
    <2>4. promised'[c] = acked[<<u, s>>] /\ \A d \in Callers \ {c} : promised'[d] = promised[d]
      BY <2>1, <2>2, Beginning
    <2>5. \A d \in Callers \ {c} : seen'[d] = seen[d]
      BY <1>t, <2>1
    <2>6. P!CursorSeq(SubscriberOf[c], call[c].stream)' = P!CursorSeq(u, s)'
      BY <2>2, <2>3 DEF P!CursorSeq
    <2>7. promised'[c] <= P!CursorSeq(u, s)'
      BY <1>c, <1>p, <2>3, <2>4 DEF AcksStored
    <2>8. Promised(c)'
      BY <2>3, <2>6, <2>7 DEF Promised
    <2> QED BY <1>1, <1>a, <1>c, <2>1, <2>3, <2>4, <2>5, <2>8
  <1>7. ASSUME NEW c \in Callers, AckCursor(c)
        PROVE  (AcksStored /\ \A d \in Callers : Promised(d))'
    <2>1. P!AckCursor(c)
      BY <1>7, SameAck DEF AckCursor
    <2>2. call'[c].phase = "idle" /\ OthersStay(c)
      BY <2>1, AckSteps
    <2>3. PICK u \in Subscribers, s \in Streams : u = SubscriberOf[c] /\ s = call[c].stream
      BY CallFacts
    <2>4. PICK stored \in Nat : AckStores(c, u, s, stored)
      BY <1>7, <2>3, StoredCursor
    <2>5. /\ P!CursorSeq(u, s)' = stored
          /\ acked' = [acked EXCEPT ![<<u, s>>] = P!Larger(@, stored)]
          /\ seen' = [seen EXCEPT ![c] = Absent] /\ UNCHANGED promised
          /\ \A v \in Subscribers, t \in Streams : P!CursorSeq(v, t) <= P!CursorSeq(v, t)'
      BY <2>4 DEF AckStores
    <2>6. P!CursorSeq(u, s) <= stored
      BY <2>4 DEF AckStores
    <2>7. \A v \in Subscribers, t \in Streams : P!CursorSeq(v, t)' \in Nat
      <3> SUFFICES ASSUME NEW v \in Subscribers, NEW t \in Streams
                   PROVE  P!CursorSeq(v, t)' \in Nat
        OBVIOUS
      <3>1. cursors' \in [Subscribers \X Streams -> Nat \cup {P!NoCursor}]
        BY DEF EngineOK, P!EngineTyped, P!EngineTypeOK, P!TypeOK
      <3>2. cursors'[<<v, t>>] \in Nat \cup {-1}
        BY <3>1 DEF P!NoCursor
      <3> QED BY <3>2 DEF P!CursorSeq, P!Larger
    <2>8. AcksStored'
      <3> SUFFICES ASSUME NEW v \in Subscribers, NEW t \in Streams
                   PROVE  acked'[<<v, t>>] <= P!CursorSeq(v, t)'
        BY DEF AcksStored
      <3>1. acked[<<v, t>>] \in Nat /\ acked[<<v, t>>] <= P!CursorSeq(v, t)
        BY <1>p, <1>t DEF AcksStored
      <3>2. CASE v = u /\ t = s
        <4>1. acked'[<<v, t>>] = P!Larger(acked[<<v, t>>], stored)
          BY <1>t, <2>5, <3>2
        <4>2. acked[<<v, t>>] <= stored
          BY <1>w, <2>6, <3>1, <3>2
        <4> QED BY <2>5, <3>1, <3>2, <4>1, <4>2 DEF P!Larger
      <3>3. CASE ~(v = u /\ t = s)
        <4>1. acked'[<<v, t>>] = acked[<<v, t>>]
          BY <1>t, <2>5, <3>3
        <4> QED BY <1>w, <2>5, <2>7, <3>1, <4>1
      <3> QED BY <3>2, <3>3
    <2>9. seen'[c] = Absent /\ \A d \in Callers \ {c} : seen'[d] = seen[d]
      BY <1>t, <2>5
    <2>10. Promised(c)'
      BY <2>2, <2>9 DEF Promised
    <2> QED BY <1>1, <2>2, <2>5, <2>7, <2>8, <2>9, <2>10
  <1>8. ASSUME NEW s \in Streams, NEW key \in Keys \cup {NoKey}, AppendFirst(s, key)
        PROVE  UNCHANGED <<cursors, call, seen, acked, promised>>
    BY <1>8, SameAppend, AppendKeeps DEF AppendFirst
  <1>9. ASSUME NEW s \in Streams,
               \/ \E key \in Keys : AppendAgain(s, key)
               \/ GetHead(s)
               \/ \E before : Truncate(s, before)
        PROVE  UNCHANGED <<cursors, call, seen, acked, promised>>
    BY <1>9, SameAppend, SameAck
    DEF AppendAgain, P!AppendRetry, GetHead, Truncate, P!TruncateStream, storeVars, P!storeVars
  <1>10. ASSUME NEW c \in Callers, NEW s \in Streams, NEW seq, AckTooHigh(c, s, seq)
         PROVE  UNCHANGED <<cursors, call, seen, acked, promised>>
    BY <1>10 DEF AckTooHigh, storeVars
  <1>11. CASE UNCHANGED vars
    BY <1>0, <1>11 DEF vars, engineVars, storeVars
  <1>12. CASE ProducerNext \/ SessionNext
    BY <1>0, <1>2, <1>3, <1>4, <1>5, <1>6, <1>7, <1>8, <1>9, <1>10, <1>12
    DEF ProducerNext, SessionNext
  <1>13. ASSUME NEW s \in Streams, \/ Delete(s) \/ \E u, seq : Reset(u, s, seq)
         PROVE  FALSE
    BY <1>13 DEF Delete, Reset
  <1> QED BY <1>0, <1>9, <1>11, <1>12, <1>13 DEF Next, SteadyNext, LogNext, OperatorNext

(* Nothing is promised at the start.                                       *)
LEMMA PromisesStart ==
    ASSUME ServiceAssumption, Init
    PROVE  PromisesKept /\ ReadYourAcks
  <1>1. EngineOK
    BY EngineStarts
  <1>2. \A u \in Subscribers, s \in Streams : P!CursorSeq(u, s) \in Nat
    BY <1>1, CursorSeqs
  <1>3. \A c \in Callers : call[c].phase = "idle"
    BY SameAck DEF Init, P!EngineInit
  <1>4. AcksStored
    BY <1>2 DEF Init, AcksStored
  <1>5. \A c \in Callers : seen[c] = Absent
    BY DEF Init
  <1>6. ReadYourAcks
    BY DEF Init, ReadYourAcks, AckedIsShown, ShownWithinHead, Returned
  <1> QED BY <1>3, <1>4, <1>5, <1>6 DEF PromisesKept, Promised

(* Every answer shows what was promised to it.                             *)
LEMMA ShownStays ==
    ASSUME ServiceAssumption, EngineOK, SessionsOK, PromisesKept, ReadYourAcks, [Next]_vars
    PROVE  ReadYourAcks'
  <1> SUFFICES ASSUME steady' PROVE ReadYourAcks'
    BY DEF ReadYourAcks, AckedIsShown, ShownWithinHead
  <1>s. steady
    BY DEF Next, SteadyNext, ProducerNext, SessionNext, LogNext, OperatorNext, Truncate, Reset,
           Delete, vars, engineVars
  <1>p. \A c \in Callers : Promised(c)
    BY <1>s DEF PromisesKept
  <1>0. ASSUME UNCHANGED reply PROVE ReadYourAcks'
    BY <1>0, <1>s DEF ReadYourAcks, AckedIsShown, ShownWithinHead, Returned
  <1>1. ASSUME NEW s \in Streams, NEW key, AppendFirst(s, key) \/ AppendAgain(s, key) \/ GetHead(s)
        PROVE  ReadYourAcks'
    <2>1. ASSUME NEW rpc \in {"append", "getHead"}, NEW input, NEW output, NEW floor,
                 Reply(rpc, input, output, floor)
          PROVE  ReadYourAcks'
      BY <2>1, ReplyShows
    <2>2. CASE AppendFirst(s, key)
      BY <2>1, <2>2 DEF AppendFirst
    <2>3. CASE AppendAgain(s, key)
      BY <2>1, <2>3 DEF AppendAgain
    <2>4. CASE GetHead(s)
      BY <2>1, <2>4 DEF GetHead
    <2> QED BY <1>1, <2>2, <2>3, <2>4
  <1>2. ASSUME NEW c \in Callers, GetCursorHead(c) PROVE ReadYourAcks'
    <2> DEFINE s == seen[c].streamId
               head == PBCursor(s, streams[s].head)
               output == [cursor |-> seen[c], head |-> head]
               input == [subscriberId |-> SubscriberOf[c], streamId |-> s]
    <2>1. /\ seen[c] # Absent /\ call[c].phase = "idle"
          /\ Reply("getCursor", input, output, promised[c])
      BY <1>2 DEF GetCursorHead
    <2>2. promised[c] <= seen[c].seq /\ seen[c].seq <= streams[seen[c].streamId].head
      BY <1>p, <2>1 DEF Promised
    <2>3. head.seq = streams[s].head
      BY DEF PBCursor
    <2>4. seen[c].seq \in Nat /\ promised[c] \in Nat
      BY <2>1 DEF SessionsOK, Optional, Cursor
    <2> HIDE DEF head
    <2>5. output.cursor = seen[c] /\ output.head = head
      OBVIOUS
    <2> HIDE DEF output, input
    <2>6. output.cursor.seq >= promised[c] /\ output.cursor.seq <= output.head.seq
      BY <2>2, <2>3, <2>4, <2>5
    <2> QED BY <2>1, <2>6, ReplyShows
  <1>3. ASSUME NEW c \in Callers, CatchUpStep(c) PROVE ReadYourAcks'
    <2> DEFINE k == call'[c]
               input == [subscriberId |-> SubscriberOf[c], streamId |-> k.stream,
                         limit |-> k.limit, totalLimit |-> k.totalLimit]
               output == CatchUpResponseOf(k.stream, k.result)
    <2>1. (P!CatchUpHead(c) \/ P!CatchUpRead(c)) /\ UNCHANGED promised
      BY <1>3, SameCatchUp DEF CatchUpStep
    <2>2. UNCHANGED reply \/ Reply("catchUp", input, output, promised[c])
      BY <1>3 DEF CatchUpStep
    <2>3. /\ call[c].phase \in {"head", "read"}
          /\ call'[c].result.cursor = call[c].result.cursor
      BY <2>1, CatchUpSteps
    <2>4. promised[c] <= call[c].result.cursor
      BY <1>p, <2>3 DEF Promised
    <2>5. promised[c] \in Nat /\ call[c].result.cursor \in Nat
      BY CallFacts DEF SessionsOK, P!ResultSet
    <2>6. output.cursor = PBCursor(k.stream, k.result.cursor)
      BY DEF CatchUpResponseOf
    <2>7. output.cursor.seq = k.result.cursor
      BY <2>6 DEF PBCursor
    <2> HIDE DEF output, input
    <2>8. output.cursor.seq >= promised[c]
      BY <2>3, <2>4, <2>5, <2>7
    <2>9. ASSUME Reply("catchUp", input, output, promised[c]) PROVE ReadYourAcks'
      BY <2>8, <2>9, ReplyShows
    <2> QED BY <1>0, <2>2, <2>9
  <1>4. ASSUME NEW c \in Callers, AckCursor(c) PROVE ReadYourAcks'
    <2>1. P!AckCursor(c)
      BY <1>4, SameAck DEF AckCursor
    <2>2. call[c].phase = "ack"
      BY <2>1, AckSteps
    <2>3. PICK u \in Subscribers, s \in Streams : u = SubscriberOf[c] /\ s = call[c].stream
      BY CallFacts
    <2>4. PICK stored \in Nat : AckStores(c, u, s, stored)
      BY <1>4, <2>3, StoredCursor
    <2> DEFINE output == [cursor |-> PBCursor(s, stored), head |-> seen[c]]
    <2>5. /\ P!CursorSeq(u, s) <= stored
          /\ Reply("ack", AckInput(c, s, call[c].seq), output, promised[c])
      BY <2>4 DEF AckStores
    <2>6. output.cursor.seq = stored
      BY DEF PBCursor
    <2>7. promised[c] <= P!CursorSeq(u, s) /\ P!CursorSeq(u, s) \in Nat /\ promised[c] \in Nat
      BY <1>p, <2>2, <2>3, CursorSeqs DEF Promised, SessionsOK
    <2> HIDE DEF output
    <2>8. output.cursor.seq >= promised[c]
      BY <2>5, <2>6, <2>7
    <2> QED BY <2>5, <2>8, ReplyShows
  <1>5. ASSUME NEW c \in Callers, NEW s \in Streams, NEW seq, AckTooHigh(c, s, seq)
        PROVE  ReadYourAcks'
    BY <1>5, ReplyShows DEF AckTooHigh
  <1>6. ASSUME NEW c \in Callers, NEW s \in Streams,
               \/ GetCursor(c, s)
               \/ \E limit, totalLimit : CatchUp(c, s, limit, totalLimit)
               \/ \E seq : Ack(c, s, seq)
        PROVE  UNCHANGED reply
    BY <1>6 DEF GetCursor, CatchUp, Ack
  <1>7. CASE ProducerNext \/ SessionNext
    BY <1>0, <1>1, <1>2, <1>3, <1>4, <1>5, <1>6, <1>7 DEF ProducerNext, SessionNext
  <1>8. ASSUME NEW s \in Streams, NEW before, Truncate(s, before) PROVE UNCHANGED reply
    BY <1>8 DEF Truncate
  <1>9. ASSUME NEW s \in Streams, \/ Delete(s) \/ \E u, seq : Reset(u, s, seq)
        PROVE  FALSE
    BY <1>9 DEF Delete, Reset
  <1>10. CASE UNCHANGED vars
    BY <1>0, <1>10 DEF vars
  <1> QED BY <1>0, <1>7, <1>8, <1>9, <1>10 DEF Next, SteadyNext, LogNext, OperatorNext

(* A session that reads its cursor, catches up or acks sees at least what  *)
(* had been acked for its subscriber when it began, whatever acks and      *)
(* reads of other sessions run between the phases of its call (the         *)
(* handlers of server.go hold no lock from one call of the engine to the   *)
(* next), as long as no stream is deleted and no cursor is reset; and it   *)
(* is never shown a cursor beyond the head it is shown with it, although   *)
(* GetCursor reads the cursor first and the head later.                    *)
THEOREM AcksAreRead ==
    ASSUME ServiceAssumption
    PROVE  Spec => []ReadYourAcks
  <1> DEFINE Inv == EngineOK /\ SessionsOK /\ PromisesKept /\ ReadYourAcks
  <1>1. Init => Inv
    BY EngineStarts, SessionsStart, PromisesStart
  <1>2. Inv /\ [Next]_vars => Inv'
    BY EngineStays, SessionsStay, PromisesStay, ShownStays
  <1>3. Inv => ReadYourAcks
    OBVIOUS
  <1> HIDE DEF Inv
  <1> QED BY <1>1, <1>2, <1>3, PTL DEF Spec

-----------------------------------------------------------------------------
(* What producers were told is what the log remembers.                     *)

Told(s, seq, key) == [streamId |-> s, seq |-> seq, key |-> key]

(* Every position a producer was told is one the head has passed, and the  *)
(* key it was told for still names it.                                     *)
AnswersNameWrites ==
    \A a \in answered :
        /\ 0 < a.seq /\ a.seq <= streams[a.streamId].head
        /\ a.key # NoKey => streams[a.streamId].idempotency[a.key] = a.seq

AnswersDiffer ==
    \A a, b \in answered : a.streamId = b.streamId /\ a.seq = b.seq => a = b

StreamTold(s, st) ==
    /\ \A k \in Keys : st.idempotency[k] > 0 => Told(s, st.idempotency[k], k) \in answered
    /\ \A i \in 1..Len(st.events) : Told(s, st.events[i].seq, st.events[i].key) \in answered

StreamsTold == \A s \in Streams : StreamTold(s, streams[s])

ReplyTold ==
    Returned("append") =>
        Told(reply.input.streamId, reply.output.seq, reply.input.idempotencyKey) \in answered

AnsweredType == answered \subseteq [streamId : Streams, seq : Nat, key : Keys \cup {NoKey}]

AnsweredOK == AnsweredType /\ AnswersNameWrites /\ AnswersDiffer /\ StreamsTold /\ ReplyTold

(* The invariant implies the property.                                     *)
LEMMA AnsweredOKSuffices == AnsweredOK => AppendsAnsweredOnce
  <1> SUFFICES ASSUME AnsweredOK PROVE AppendsAnsweredOnce
    OBVIOUS
  <1>1. ASSUME NEW a \in answered, NEW b \in answered, a.streamId = b.streamId,
               a.seq = b.seq \/ (a.key = b.key /\ a.key # NoKey)
        PROVE  a = b
    BY <1>1 DEF AnsweredOK, AnswersNameWrites, AnswersDiffer
  <1>2. \A s \in Streams : \A i \in 1..Len(streams[s].events) :
          [streamId |-> s, seq |-> streams[s].events[i].seq, key |-> streams[s].events[i].key]
             \in answered
    BY DEF AnsweredOK, StreamsTold, StreamTold, Told
  <1>3. Returned("append") =>
          [streamId |-> reply.input.streamId, seq |-> reply.output.seq,
           key |-> reply.input.idempotencyKey] \in answered
    BY DEF AnsweredOK, ReplyTold, Told
  <1> QED BY <1>1, <1>2, <1>3 DEF AppendsAnsweredOnce

(* A change of one stream that only cuts its log.                          *)
LEMMA CutKeepsAnswers ==
    ASSUME ServiceAssumption, EngineOK, AnsweredOK, NEW s \in Streams, NEW cut,
           streams' = [streams EXCEPT ![s] = cut], UNCHANGED <<answered, reply>>,
           cut.head = streams[s].head, cut.idempotency = streams[s].idempotency,
           \A i \in 1..Len(cut.events) :
              \E j \in 1..Len(streams[s].events) : cut.events[i] = streams[s].events[j]
    PROVE  AnsweredOK'
  <1>1. streams \in [Streams -> P!StreamSet]
    BY StoreFacts
  <1>2. streams'[s] = cut /\ \A r \in Streams \ {s} : streams'[r] = streams[r]
    BY <1>1
  <1>3. \A r \in Streams : /\ streams'[r].head = streams[r].head
                           /\ streams'[r].idempotency = streams[r].idempotency
    BY <1>2
  <1>4. AnswersNameWrites'
    BY <1>3 DEF AnsweredOK, AnsweredType, AnswersNameWrites
  <1>5. StreamTold(s, cut)'
    BY DEF AnsweredOK, StreamsTold, StreamTold
  <1>6. StreamsTold'
    BY <1>2, <1>5 DEF AnsweredOK, StreamsTold, StreamTold
  <1>7. AnsweredType' /\ AnswersDiffer' /\ ReplyTold'
    BY DEF AnsweredOK, AnsweredType, AnswersDiffer, ReplyTold, Returned
  <1> QED BY <1>4, <1>6, <1>7 DEF AnsweredOK

(* A step that leaves the log alone, and says nothing of an append that    *)
(* was not told before.                                                    *)
LEMMA QuietKeepsAnswers ==
    ASSUME AnsweredOK, UNCHANGED <<streams, answered>>, ReplyTold'
    PROVE  AnsweredOK'
  BY DEF AnsweredOK, AnsweredType, AnswersNameWrites, AnswersDiffer, StreamsTold, StreamTold

(* A first write takes a position above every one a producer was told of   *)
(* its stream, and under a key none was told.                              *)
LEMMA FirstWriteTold ==
    ASSUME ServiceAssumption, EngineOK, AnsweredOK, NEW s \in Streams,
           NEW key \in Keys \cup {NoKey}, AppendFirst(s, key)
    PROVE  AnsweredOK'
  <1> DEFINE st == streams[s]
             e == P!AppendEvent(st, key, now)
             cut == P!ApplyRetention(e, retention[s], now)
  <1>1. P!StampedAppend(s, key)
    BY SameAppend DEF AppendFirst
  <1>2. streams' = [streams EXCEPT ![s] = cut] /\ e \in P!StreamSet /\ ~P!KeyUsed(st, key)
    BY <1>1, AppendKeeps
  <1>t. /\ streams \in [Streams -> P!StreamSet] /\ st \in P!StreamSet /\ st.head \in Nat
        /\ st.idempotency \in [Keys -> Nat] /\ st.events \in Seq(P!EventSet)
        /\ retention[s] \in P!RetentionSet /\ (key \in Keys \/ key = NoKey) /\ NoKey \notin Keys
    BY StoreFacts DEF ServiceAssumption
  <1>3. /\ e.head = st.head + 1
        /\ e.idempotency = [k \in Keys |-> IF k = key THEN st.head + 1 ELSE st.idempotency[k]]
        /\ e.events = Append(st.events, [seq |-> st.head + 1, key |-> key, at |-> now])
    BY DEF P!AppendEvent
  <1> HIDE DEF e
  <1>4. /\ cut.head = e.head /\ cut.idempotency = e.idempotency
        /\ \A i \in 1..Len(cut.events) :
              \E j \in 1..Len(e.events) : cut.events[i] = e.events[j]
    <2>1. retention[s] \in P!RetentionSet
      BY StoreFacts
    <2> QED BY <1>2, <2>1, CutKeeps
  <1> HIDE DEF cut
  <1>5. streams'[s] = cut /\ \A r \in Streams \ {s} : streams'[r] = streams[r]
    BY <1>2, StoreFacts
  <1>6. answered' = answered \cup {Told(s, st.head + 1, key)}
    BY <1>3, <1>4, <1>5 DEF AppendFirst, Told
  <1>7. ReplyTold'
    <2>1. /\ reply'.input = AppendInput(s, key)
          /\ reply'.output = [seq |-> streams'[s].head, deduplicated |-> FALSE]
      BY DEF AppendFirst, Reply
    <2>2. /\ reply'.input.streamId = s /\ reply'.input.idempotencyKey = key
          /\ reply'.output.seq = st.head + 1
      BY <1>3, <1>4, <1>5, <2>1 DEF AppendInput
    <2> QED BY <1>6, <2>2 DEF ReplyTold
  <1>8. AnsweredType'
    <2>1. Told(s, st.head + 1, key) \in [streamId : Streams, seq : Nat, key : Keys \cup {NoKey}]
      BY <1>t DEF Told
    <2> QED BY <1>6, <2>1 DEF AnsweredOK, AnsweredType
  <1>9. ASSUME NEW a \in answered
        PROVE  /\ a.streamId \in Streams /\ a.seq \in Nat /\ a.key \in Keys \cup {NoKey}
               /\ 0 < a.seq /\ a.seq <= streams[a.streamId].head
               /\ a.key # NoKey => streams[a.streamId].idempotency[a.key] = a.seq
    BY DEF AnsweredOK, AnsweredType, AnswersNameWrites
  <1>10. /\ Told(s, st.head + 1, key).streamId = s /\ Told(s, st.head + 1, key).key = key
         /\ Told(s, st.head + 1, key).seq = st.head + 1
    BY DEF Told
  <1>11. key \in Keys => st.idempotency[key] = 0
    <2>1. key \in Keys => ~(st.idempotency[key] > 0) /\ st.idempotency[key] \in Nat
      BY <1>2, <1>t DEF P!KeyUsed
    <2> QED BY <2>1
  <1>i. cut.idempotency = [k \in Keys |-> IF k = key THEN st.head + 1 ELSE st.idempotency[k]]
    BY <1>3, <1>4
  <1>12. AnswersNameWrites'
    <2> SUFFICES ASSUME NEW a \in answered'
                 PROVE  /\ 0 < a.seq /\ a.seq <= streams'[a.streamId].head
                        /\ a.key # NoKey => streams'[a.streamId].idempotency[a.key] = a.seq
      BY DEF AnswersNameWrites
    <2>1. CASE a = Told(s, st.head + 1, key)
      <3>1. a.streamId = s /\ a.key = key /\ a.seq = st.head + 1
        BY <1>10, <2>1
      <3>2. streams'[a.streamId] = cut /\ cut.head = st.head + 1
        BY <1>3, <1>4, <1>5, <3>1
      <3>3. key # NoKey => cut.idempotency[key] = st.head + 1
        BY <1>i
      <3> HIDE DEF st
      <3> QED BY <1>t, <3>1, <3>2, <3>3
    <2>2. CASE a \in answered /\ a.streamId # s
      BY <1>5, <1>9, <2>2
    <2>3. CASE a \in answered /\ a.streamId = s
      <3>1. /\ a.seq \in Nat /\ 0 < a.seq /\ a.seq <= st.head
            /\ a.key # NoKey => a.key \in Keys /\ st.idempotency[a.key] = a.seq
        BY <1>9, <2>3
      <3>2. a.key # NoKey => a.key # key
        BY <1>11, <3>1
      <3>3. a.key # NoKey => cut.idempotency[a.key] = a.seq
        BY <1>i, <3>1, <3>2
      <3>4. streams'[a.streamId] = cut /\ cut.head = st.head + 1
        BY <1>3, <1>4, <1>5, <2>3
      <3> HIDE DEF st
      <3> QED BY <1>t, <3>1, <3>3, <3>4
    <2> QED BY <1>6, <2>1, <2>2, <2>3
  <1>13. AnswersDiffer'
    <2>1. ASSUME NEW a \in answered, a.streamId = s, a.seq = st.head + 1 PROVE FALSE
      <3>1. a.seq <= st.head
        BY <1>9, <2>1
      <3> HIDE DEF st
      <3> QED BY <1>t, <2>1, <3>1
    <2> SUFFICES ASSUME NEW a \in answered', NEW b \in answered', a.streamId = b.streamId,
                        a.seq = b.seq
                 PROVE  a = b
      BY DEF AnswersDiffer
    <2>2. CASE a \in answered /\ b \in answered
      BY <2>2 DEF AnsweredOK, AnswersDiffer
    <2>3. CASE a = Told(s, st.head + 1, key) \/ b = Told(s, st.head + 1, key)
      BY <1>6, <1>10, <2>1, <2>3
    <2> QED BY <1>6, <2>2, <2>3
  <1>14. StreamTold(s, streams[s])'
    <2>1. ASSUME NEW k \in Keys, cut.idempotency[k] > 0
          PROVE  Told(s, cut.idempotency[k], k) \in answered'
      <3>1. CASE k = key
        BY <1>6, <1>i, <3>1
      <3>2. CASE k # key
        BY <1>6, <1>i, <2>1, <3>2 DEF AnsweredOK, StreamsTold, StreamTold
      <3> QED BY <3>1, <3>2
    <2>2. ASSUME NEW i \in 1..Len(cut.events)
          PROVE  Told(s, cut.events[i].seq, cut.events[i].key) \in answered'
      <3> DEFINE x == [seq |-> st.head + 1, key |-> key, at |-> now]
      <3>1. PICK j \in 1..Len(e.events) : cut.events[i] = e.events[j]
        BY <1>4
      <3>2. now \in Nat
        BY StoreFacts
      <3>3. x \in P!EventSet /\ x.seq = st.head + 1 /\ x.key = key
        BY <1>t, <3>2 DEF P!EventSet
      <3> HIDE DEF x
      <3>4. /\ Len(e.events) = Len(st.events) + 1
            /\ e.events[Len(st.events) + 1] = x
            /\ \A n \in 1..Len(st.events) : e.events[n] = st.events[n]
        BY <1>3, <1>t, <3>3, AppendProperties DEF x
      <3>5. CASE j = Len(st.events) + 1
        BY <1>6, <3>1, <3>3, <3>4, <3>5
      <3>6. CASE j # Len(st.events) + 1
        <4>1. j \in 1..Len(st.events)
          BY <1>t, <3>4, <3>6, LenProperties
        <4>2. Told(s, st.events[j].seq, st.events[j].key) \in answered
          BY <4>1 DEF AnsweredOK, StreamsTold, StreamTold
        <4> QED BY <1>6, <3>1, <3>4, <4>1, <4>2
      <3> QED BY <3>5, <3>6
    <2> QED BY <1>5, <2>1, <2>2 DEF StreamTold
  <1>15. StreamsTold'
    <2> SUFFICES ASSUME NEW r \in Streams PROVE StreamTold(r, streams[r])'
      BY DEF StreamsTold
    <2>1. CASE r = s
      BY <1>14, <2>1
    <2>2. CASE r # s
      BY <1>5, <1>6, <2>2 DEF AnsweredOK, StreamsTold, StreamTold
    <2> QED BY <2>1, <2>2
  <1> QED BY <1>7, <1>8, <1>12, <1>13, <1>15 DEF AnsweredOK

(* A retry is told what was told before; a deleted stream takes its        *)
(* answers with it; nothing else answers a producer.                       *)
LEMMA AnswersStay ==
    ASSUME ServiceAssumption, EngineOK, AnsweredOK, [Next]_vars
    PROVE  AnsweredOK'
  <1>0. ASSUME UNCHANGED <<streams, answered, reply>> PROVE AnsweredOK'
    BY <1>0, QuietKeepsAnswers DEF AnsweredOK, ReplyTold, Returned
  <1>1. ASSUME UNCHANGED <<streams, answered>>, NEW rpc, rpc # "append",
               NEW input, NEW output, NEW floor, Reply(rpc, input, output, floor)
        PROVE  AnsweredOK'
    <2>1. reply'.rpc = rpc
      BY <1>1 DEF Reply
    <2>2. ReplyTold'
      BY <1>1, <2>1 DEF ReplyTold, Returned
    <2> QED BY <1>1, <2>2, QuietKeepsAnswers
  <1>2. ASSUME NEW s \in Streams, NEW key \in Keys, AppendAgain(s, key) PROVE AnsweredOK'
    <2> DEFINE output == IF \E i \in 1..Len(streams[s].events) :
                               streams[s].events[i].seq = streams[s].idempotency[key]
                         THEN [seq |-> streams[s].idempotency[key], deduplicated |-> TRUE]
                         ELSE Failed
    <2>1. /\ UNCHANGED <<streams, answered>> /\ P!KeyUsed(streams[s], key)
          /\ Reply("append", AppendInput(s, key), output, 0)
      BY <1>2, SameAppend DEF AppendAgain, P!AppendRetry, P!storeVars
    <2>2. streams[s].idempotency[key] > 0
      BY <2>1 DEF P!KeyUsed
    <2>3. Told(s, streams[s].idempotency[key], key) \in answered
      BY <2>2 DEF AnsweredOK, StreamsTold, StreamTold
    <2>4. /\ reply'.input = AppendInput(s, key) /\ reply'.output = output
      BY <2>1 DEF Reply
    <2>5. reply'.input.streamId = s /\ reply'.input.idempotencyKey = key
      BY <2>4 DEF AppendInput
    <2>6. output # Failed => output.seq = streams[s].idempotency[key]
      OBVIOUS
    <2> HIDE DEF output
    <2>7. ReplyTold'
      BY <2>1, <2>3, <2>4, <2>5, <2>6 DEF ReplyTold, Returned
    <2> QED BY <2>1, <2>7, QuietKeepsAnswers
  <1>3. ASSUME NEW s \in Streams, GetHead(s) PROVE AnsweredOK'
    BY <1>1, <1>3 DEF GetHead, storeVars
  <1>4. ASSUME NEW c \in Callers, NEW s \in Streams,
               \/ GetCursor(c, s)
               \/ \E limit, totalLimit : CatchUp(c, s, limit, totalLimit)
               \/ \E seq : Ack(c, s, seq)
        PROVE  UNCHANGED <<streams, answered, reply>>
    BY <1>4, SameCatchUp, SameAck
    DEF GetCursor, CatchUp, Ack, P!CatchUp, P!Ack, storeVars, P!storeVars
  <1>5. ASSUME NEW c \in Callers, GetCursorHead(c) PROVE AnsweredOK'
    BY <1>1, <1>5 DEF GetCursorHead, storeVars
  <1>6. ASSUME NEW c \in Callers, CatchUpStep(c) PROVE AnsweredOK'
    <2>1. UNCHANGED <<streams, answered>>
      BY <1>6, SameCatchUp DEF CatchUpStep, P!CatchUpHead, P!CatchUpRead, P!storeVars
    <2>2. UNCHANGED reply \/ \E input, output, floor : Reply("catchUp", input, output, floor)
      BY <1>6 DEF CatchUpStep
    <2> QED BY <1>0, <1>1, <2>1, <2>2
  <1>7. ASSUME NEW c \in Callers, AckCursor(c) PROVE AnsweredOK'
    <2>1. UNCHANGED <<streams, answered>>
      BY <1>7, SameAck DEF AckCursor, P!AckCursor, P!StoreAck
    <2>2. \E input, output, floor : Reply("ack", input, output, floor)
      BY <1>7 DEF AckCursor
    <2> QED BY <1>1, <2>1, <2>2
  <1>8. ASSUME NEW c \in Callers, NEW s \in Streams, NEW seq, AckTooHigh(c, s, seq)
        PROVE  AnsweredOK'
    BY <1>1, <1>8 DEF AckTooHigh, storeVars
  <1>9. ASSUME NEW s \in Streams, NEW before, Truncate(s, before) PROVE AnsweredOK'
    <2> DEFINE cut == P!TruncateBefore(streams[s], before)
    <2>1. streams' = [streams EXCEPT ![s] = cut] /\ UNCHANGED <<answered, reply>>
      BY <1>9, SameAck DEF Truncate, P!TruncateStream
    <2>2. streams[s] \in P!StreamSet
      BY StoreFacts
    <2>3. /\ cut.head = streams[s].head /\ cut.idempotency = streams[s].idempotency
          /\ \A i \in 1..Len(cut.events) :
                \E j \in 1..Len(streams[s].events) : cut.events[i] = streams[s].events[j]
      BY <2>2, CutKeeps
    <2> HIDE DEF cut
    <2> QED BY <2>1, <2>3, CutKeepsAnswers
  <1>10. ASSUME NEW s \in Streams, NEW u, NEW seq, Reset(u, s, seq)
         PROVE  UNCHANGED <<streams, answered, reply>>
    BY <1>10, SameAck DEF Reset, P!ResetCursor
  <1>11. ASSUME NEW s \in Streams, Delete(s) PROVE AnsweredOK'
    <2>1. /\ streams' = [streams EXCEPT ![s] = P!NoStream] /\ reply' = Absent
          /\ answered' = {a \in answered : a.streamId # s}
      BY <1>11, SameAck DEF Delete, P!DeleteStream
    <2>2. streams'[s] = P!NoStream /\ \A r \in Streams \ {s} : streams'[r] = streams[r]
      BY <2>1, StoreFacts
    <2>3. AnsweredType' /\ AnswersDiffer' /\ ReplyTold'
      BY <2>1 DEF AnsweredOK, AnsweredType, AnswersDiffer, ReplyTold, Returned
    <2>4. AnswersNameWrites'
      BY <2>1, <2>2 DEF AnsweredOK, AnsweredType, AnswersNameWrites
    <2>5. StreamTold(s, P!NoStream)'
      <3>1. Len(<<>>) = 0
        OBVIOUS
      <3> QED BY <3>1 DEF StreamTold, P!NoStream
    <2>6. ASSUME NEW r \in Streams, r # s PROVE StreamTold(r, streams[r])'
      <3>1. \A seq, key : Told(r, seq, key) \in answered => Told(r, seq, key) \in answered'
        BY <2>1, <2>6 DEF Told
      <3> QED BY <2>2, <2>6, <3>1 DEF AnsweredOK, StreamsTold, StreamTold
    <2>7. StreamsTold'
      <3> SUFFICES ASSUME NEW r \in Streams PROVE StreamTold(r, streams[r])'
        BY DEF StreamsTold
      <3>1. CASE r = s
        BY <2>2, <2>5, <3>1 DEF StreamTold
      <3> QED BY <2>6, <3>1
    <2> QED BY <2>3, <2>4, <2>7 DEF AnsweredOK
  <1>12. CASE UNCHANGED vars
    BY <1>0, <1>12 DEF vars, engineVars, storeVars
  <1>13. CASE ProducerNext \/ SessionNext
    BY <1>0, <1>2, <1>3, <1>4, <1>5, <1>6, <1>7, <1>8, <1>13, FirstWriteTold
    DEF ProducerNext, SessionNext
  <1> QED BY <1>0, <1>9, <1>10, <1>11, <1>12, <1>13 DEF Next, SteadyNext, LogNext, OperatorNext

(* No producer has been told anything at the start.                        *)
LEMMA AnswersStart ==
    ASSUME ServiceAssumption, Init
    PROVE  AnsweredOK
  <1>1. streams = [s \in Streams |-> P!NoStream]
    BY SameAck DEF Init, P!EngineInit, P!Init
  <1>2. \A s \in Streams : StreamTold(s, streams[s])
    <2>1. Len(<<>>) = 0
      OBVIOUS
    <2>2. ASSUME NEW s \in Streams PROVE StreamTold(s, P!NoStream)
      BY <2>1 DEF StreamTold, P!NoStream
    <2> QED BY <1>1, <2>2
  <1> QED
    BY <1>2 DEF Init, AnsweredOK, AnsweredType, AnswersDiffer, AnswersNameWrites, StreamsTold,
                ReplyTold, Returned

(* Every append is answered once and for all: two producers are never told *)
(* the same position of a stream, a key is never told two positions, a     *)
(* retry is told the position of the first write, and every event of the   *)
(* log is one some producer was told of; for any number of producers, keys *)
(* and retries, whatever retention, truncation and deletion do in between. *)
THEOREM AppendsAreAnsweredOnce ==
    ASSUME ServiceAssumption PROVE Spec => []AppendsAnsweredOnce
  <1> DEFINE Inv == EngineOK /\ AnsweredOK
  <1>1. Init => Inv
    BY EngineStarts, AnswersStart
  <1>2. Inv /\ [Next]_vars => Inv'
    BY EngineStays, AnswersStay
  <1>3. Inv => AppendsAnsweredOnce
    BY AnsweredOKSuffices
  <1> HIDE DEF Inv
  <1> QED BY <1>1, <1>2, <1>3, PTL DEF Spec

-----------------------------------------------------------------------------
(* Types.                                                                  *)

ReplyTyped ==
    reply # Absent => /\ reply.input \in SyncLogService[reply.rpc].input
                      /\ reply.output \in Optional(SyncLogService[reply.rpc].output)
                      /\ reply.promised \in Nat

(* The five methods.                                                       *)
LEMMA Services ==
    /\ SyncLogService["append"] = [input |-> AppendRequest, output |-> AppendResponse]
    /\ SyncLogService["getHead"] = [input |-> GetHeadRequest, output |-> GetHeadResponse]
    /\ SyncLogService["getCursor"] = [input |-> GetCursorRequest, output |-> GetCursorResponse]
    /\ SyncLogService["catchUp"] = [input |-> CatchUpRequest, output |-> CatchUpResponse]
    /\ SyncLogService["ack"] = [input |-> AckRequest, output |-> AckResponse]
  BY DEF SyncLogService

(* An answer of the type its method declares.                              *)
LEMMA ReplyOfType ==
    ASSUME NEW rpc, NEW requests, NEW responses, NEW input \in requests,
           NEW output \in Optional(responses), NEW floor \in Nat,
           SyncLogService[rpc] = [input |-> requests, output |-> responses],
           Reply(rpc, input, output, floor)
    PROVE  ReplyTyped'
  <1>1. /\ reply'.rpc = rpc /\ reply'.input = input
        /\ reply'.output = output /\ reply'.promised = floor
    BY DEF Reply
  <1>2. /\ SyncLogService[rpc].input = requests /\ SyncLogService[rpc].output = responses
    OBVIOUS
  <1> QED BY <1>1, <1>2 DEF ReplyTyped

(* Answers of Append.                                                      *)
LEMMA AppendTyped ==
    ASSUME ServiceAssumption, EngineOK, NEW s \in Streams, NEW key \in Keys \cup {NoKey},
           EngineOK', AppendFirst(s, key) \/ (key \in Keys /\ AppendAgain(s, key))
    PROVE  ReplyTyped'
  <1>1. AppendInput(s, key) \in AppendRequest
    BY DEF ServiceAssumption, AppendInput, AppendRequest
  <1>2. ASSUME NEW n \in Nat, NEW again \in BOOLEAN
        PROVE  [seq |-> n, deduplicated |-> again] \in AppendResponse
    BY DEF AppendResponse
  <1>3. streams'[s].head \in Nat
    BY DEF EngineOK, P!EngineTyped, P!EngineTypeOK, P!TypeOK, P!StreamSet
  <1>4. CASE AppendFirst(s, key)
    <2> DEFINE output == [seq |-> streams'[s].head, deduplicated |-> FALSE]
    <2>1. Reply("append", AppendInput(s, key), output, 0)
      BY <1>4 DEF AppendFirst
    <2>2. output \in Optional(AppendResponse)
      BY <1>2, <1>3 DEF Optional
    <2> HIDE DEF output
    <2> QED BY <1>1, <2>1, <2>2, Services, ReplyOfType
  <1>5. CASE key \in Keys /\ AppendAgain(s, key)
    <2>1. \E output \in Optional(AppendResponse) : Reply("append", AppendInput(s, key), output, 0)
      <3>1. streams[s].idempotency[key] \in Nat
        BY <1>5, StoreFacts
      <3> DEFINE first == [seq |-> streams[s].idempotency[key], deduplicated |-> TRUE]
      <3>2. first \in Optional(AppendResponse) /\ Failed \in Optional(AppendResponse)
        BY <1>2, <3>1 DEF Optional, Failed
      <3> HIDE DEF first
      <3>3. \/ Reply("append", AppendInput(s, key), first, 0)
            \/ Reply("append", AppendInput(s, key), Failed, 0)
        BY <1>5 DEF AppendAgain, first
      <3> QED BY <3>2, <3>3
    <2> QED BY <1>1, <2>1, Services, ReplyOfType
  <1> QED BY <1>4, <1>5

(* Every event of an answered batch is in the log it was read from.        *)
LEMMA BatchInLog ==
    ASSUME ServiceAssumption, NEW st \in P!StreamSet, NEW after \in Nat, NEW limit \in Nat,
           NEW i \in 1..Len(P!ReadBatch(st, after, limit).seqs)
    PROVE  \E j \in 1..Len(st.events) :
              P!ReadBatch(st, after, limit).seqs[i] = st.events[j].seq
  <1> DEFINE skip == P!PrefixBelow(st.events, after + 1)
             last == P!Smaller(skip + limit, Len(st.events))
             sent == SubSeq(st.events, skip + 1, last)
             batch == P!ReadBatch(st, after, limit)
  <1>1. skip \in 0..Len(st.events) /\ Len(st.events) \in Nat /\ st.events \in Seq(P!EventSet)
    <2>1. P!KeyAssumption /\ P!StoreAssumption /\ P!EngineAssumption
      BY Assumptions
    <2>2. Len(st.events) \in Nat /\ st.events \in Seq(P!EventSet)
      BY LenProperties DEF P!StreamSet
    <2> QED BY <2>1, <2>2, P!PrefixBelowBound
  <1>2. CASE skip = Len(st.events)
    <2>1. batch.seqs = <<>>
      BY <1>2 DEF P!ReadBatch
    <2>2. Len(<<>>) = 0
      OBVIOUS
    <2> QED BY <2>1, <2>2
  <1>3. CASE skip # Len(st.events)
    <2>1. batch.seqs = [n \in 1..Len(sent) |-> sent[n].seq]
      BY <1>3 DEF P!ReadBatch
    <2> HIDE DEF batch
    <2>2. last \in Int /\ last <= Len(st.events) /\ skip + 1 \in Int /\ 1 <= skip + 1
      <3> HIDE DEF skip
      <3> QED BY <1>1 DEF P!Smaller
    <2> HIDE DEF last
    <2>3. /\ Len(sent) = IF skip + 1 <= last THEN last - (skip + 1) + 1 ELSE 0
          /\ \A n \in 1..Len(sent) : sent[n] = st.events[(skip + 1) + n - 1]
      <3>1. \A n \in (skip + 1)..last : st.events[n] \in P!EventSet
        <4>1. \A n \in (skip + 1)..last : n \in 1..Len(st.events)
          <5> HIDE DEF skip
          <5> QED BY <1>1, <2>2
        <4> QED BY <1>1, <4>1, ElementOfSeq
      <3>2. skip + 1 \in Int /\ last \in Int
        BY <2>2
      <3> HIDE DEF skip
      <3> QED BY <3>1, <3>2, SubSeqProperties
    <2>4. Len(sent) \in Nat
      <3> HIDE DEF sent, skip
      <3> QED BY <1>1, <2>2, <2>3
    <2> HIDE DEF sent, skip
    <2>5. i \in 1..Len(sent) /\ batch.seqs[i] = sent[i].seq
      <3>1. Len(batch.seqs) = Len(sent)
        BY <2>1, <2>4
      <3> QED BY <2>1, <3>1 DEF batch
    <2>6. (skip + 1) + i - 1 \in 1..Len(st.events)
      <3>1. Len(sent) = IF skip + 1 <= last THEN last - (skip + 1) + 1 ELSE 0
        BY <2>3
      <3>2. i \in 1..Len(sent)
        BY <2>5
      <3> QED BY <1>1, <2>2, <3>1, <3>2
    <2>7. batch.seqs[i] = st.events[(skip + 1) + i - 1].seq
      BY <2>3, <2>5
    <2> QED BY <2>6, <2>7 DEF batch
  <1> QED BY <1>2, <1>3

(* The batch a catch-up answers with names events of the log it was read   *)
(* from, so that the handler finds a message for each.                     *)
LEMMA AnsweredBatch ==
    ASSUME ServiceAssumption, EngineOK, EngineOK', NEW c \in Callers,
           P!CatchUpHead(c) \/ P!CatchUpRead(c), call'[c].phase = "idle",
           call'[c].result.status = "ok",
           NEW i \in 1..Len(call'[c].result.seqs)
    PROVE  \E j \in 1..Len(streams[call'[c].stream].events) :
              streams[call'[c].stream].events[j].seq = call'[c].result.seqs[i]
  <1> DEFINE st == streams[call[c].stream]
             r == call[c].result
             batch == P!ReadBatch(st, r.cursor, call[c].limit)
             tooLong == [r EXCEPT !.status = "too_long"]
             ok == [status |-> "ok", cursor |-> r.cursor,
                    head |-> st.head, retained |-> st.retained,
                    seqs |-> batch.seqs, seq |-> batch.seq, final |-> batch.final]
  <1>t. /\ call \in [Callers -> P!CallSet] /\ call[c] \in P!CallSet /\ r \in P!ResultSet
        /\ call[c].stream \in Streams /\ call[c].limit \in Nat
    BY StoreFacts DEF P!CallSet
  <1>1. P!CatchUpRead(c) /\ call'[c].stream = call[c].stream
    BY CatchUpSteps DEF SameRequest
  <1>2. \/ call' = [call EXCEPT ![c] = [@ EXCEPT !.phase = "idle", !.result = tooLong]]
        \/ call' = [call EXCEPT ![c] = [@ EXCEPT !.phase = "idle", !.result = ok]]
    BY <1>1 DEF P!CatchUpRead
  <1>3. tooLong.status = "too_long" /\ ok.seqs = batch.seqs
    <2> HIDE DEF batch, st
    <2> QED BY <1>t DEF P!ResultSet
  <1>4. st \in P!StreamSet /\ r.cursor \in Nat
    BY <1>t, StoreFacts DEF P!ResultSet
  <1> HIDE DEF tooLong, ok
  <1>5. call'[c].result = tooLong \/ call'[c].result = ok
    BY <1>2, <1>t DEF P!CallSet
  <1>6. call'[c].result.seqs = batch.seqs
    BY <1>3, <1>5
  <1> HIDE DEF st, r
  <1>7. \E j \in 1..Len(st.events) : batch.seqs[i] = st.events[j].seq
    BY <1>t, <1>4, <1>6, BatchInLog
  <1> HIDE DEF batch
  <1> QED BY <1>1, <1>6, <1>7 DEF st

(* Answers of CatchUp.                                                     *)
LEMMA CatchUpTyped ==
    ASSUME ServiceAssumption, EngineOK, EngineOK', SessionsOK, NEW c \in Callers,
           CatchUpStep(c), ReplyTyped
    PROVE  ReplyTyped'
  <1> DEFINE k == call'[c]
             input == [subscriberId |-> SubscriberOf[c], streamId |-> k.stream,
                       limit |-> k.limit, totalLimit |-> k.totalLimit]
             output == CatchUpResponseOf(k.stream, k.result)
             log == streams[k.stream].events
             EventAt(seq) == log[CHOOSE i \in 1..Len(log) : log[i].seq = seq]
  <1>1. P!CatchUpHead(c) \/ P!CatchUpRead(c)
    BY SameCatchUp DEF CatchUpStep
  <1>2. \/ UNCHANGED reply
        \/ k.phase = "idle" /\ Reply("catchUp", input, output, promised[c])
    BY DEF CatchUpStep
  <1>3. k \in P!CallSet
    BY DEF EngineOK, P!EngineTyped, P!EngineTypeOK
  <1>4. /\ k.stream \in Streams /\ k.limit \in Nat /\ k.totalLimit \in Nat
        /\ k.result \in P!ResultSet
    BY <1>3 DEF P!CallSet
  <1>5. /\ k.result.cursor \in Nat /\ k.result.head \in Nat /\ k.result.retained \in Nat
        /\ k.result.seqs \in Seq(Nat) /\ k.result.seq \in Nat /\ k.result.final \in BOOLEAN
    BY <1>4 DEF P!ResultSet
  <1>6. SubscriberOf[c] \in Subscribers /\ promised[c] \in Nat
    BY CallFacts DEF SessionsOK
  <1>7. input \in CatchUpRequest
    BY <1>4, <1>6 DEF CatchUpRequest
  <1>8. log \in Seq(P!EventSet) /\ Len(log) \in Nat
    BY <1>4, StoreFacts, LenProperties
  <1>9. EmptyBatch \in EventBatch
    BY EmptySeq DEF EmptyBatch, EventBatch
  <1>10. ASSUME k.phase = "idle", k.result.status = "ok"
         PROVE  PBBatch(k.stream, k.result) \in EventBatch
    <2> DEFINE seqs == k.result.seqs
               events == [i \in 1..Len(seqs) |-> PBEvent(k.stream, EventAt(seqs[i]))]
               seqStart == IF seqs = <<>> THEN 0 ELSE seqs[1]
    <2>1. ASSUME NEW i \in 1..Len(seqs)
          PROVE  EventAt(seqs[i]) \in P!EventSet
      <3>1. \E j \in 1..Len(log) : log[j].seq = seqs[i]
        BY <1>1, <1>10, <2>1, AnsweredBatch
      <3>2. (CHOOSE j \in 1..Len(log) : log[j].seq = seqs[i]) \in 1..Len(log)
        BY <3>1
      <3> HIDE DEF log
      <3> QED BY <1>8, <3>2, ElementOfSeq
    <2>2. ASSUME NEW e \in P!EventSet PROVE PBEvent(k.stream, e) \in Event
      <3>1. e.seq \in Nat /\ e.key \in Keys \cup {NoKey}
        BY DEF P!EventSet
      <3>2. (CHOOSE type \in PayloadTypes : TRUE) \in PayloadTypes
        BY DEF ServiceAssumption
      <3> QED BY <1>4, <3>1, <3>2 DEF PBEvent, Event
    <2>3. Len(seqs) \in Nat
      BY <1>5, LenProperties
    <2>4. events \in Seq(Event)
      <3> HIDE DEF EventAt, seqs
      <3>1. \A i \in 1..Len(seqs) : PBEvent(k.stream, EventAt(seqs[i])) \in Event
        BY <2>1, <2>2
      <3>2. events \in [1..Len(seqs) -> Event]
        BY <3>1
      <3> HIDE DEF events
      <3> QED BY <2>3, <3>2, SeqDef
    <2>5. seqStart \in Nat
      <3>1. CASE seqs = <<>>
        BY <3>1
      <3>2. CASE seqs # <<>>
        <4>1. Len(seqs) # 0
          BY <1>5, <3>2, EmptySeq
        <4>2. seqs[1] \in Nat
          BY <1>5, <2>3, <4>1, ElementOfSeq
        <4> QED BY <3>2, <4>2
      <3> QED BY <3>1, <3>2
    <2>6. PBBatch(k.stream, k.result) =
            [events |-> events, seqStart |-> seqStart, seq |-> k.result.seq,
             final |-> k.result.final]
      BY DEF PBBatch
    <2> HIDE DEF events, seqStart
    <2> QED BY <1>5, <2>4, <2>5, <2>6 DEF EventBatch
  <1>11. k.phase = "idle" => output \in CatchUpResponse
    <2> SUFFICES ASSUME k.phase = "idle" PROVE output \in CatchUpResponse
      OBVIOUS
    <2> DEFINE status == IF k.result.status = "ok" THEN "OK" ELSE "TOO_LONG"
               batch == IF k.result.status = "ok" THEN PBBatch(k.stream, k.result) ELSE EmptyBatch
               cursor == PBCursor(k.stream, k.result.cursor)
               head == PBCursor(k.stream, k.result.head)
    <2>1. output = [status |-> status, batch |-> batch, cursor |-> cursor, head |-> head,
                    retainedSeqStart |-> k.result.retained]
      BY DEF CatchUpResponseOf
    <2>2. status \in CatchUpStatus /\ batch \in EventBatch
      BY <1>9, <1>10 DEF CatchUpStatus
    <2>3. cursor \in Cursor /\ head \in Cursor
      BY <1>4, <1>5 DEF PBCursor, Cursor
    <2> HIDE DEF status, batch, cursor, head, output
    <2> QED BY <1>5, <2>1, <2>2, <2>3 DEF CatchUpResponse
  <1>12. ASSUME UNCHANGED reply PROVE ReplyTyped'
    BY <1>12 DEF ReplyTyped
  <1> HIDE DEF output, input
  <1>13. ASSUME k.phase = "idle", Reply("catchUp", input, output, promised[c])
         PROVE  ReplyTyped'
    <2>1. output \in Optional(CatchUpResponse)
      BY <1>11, <1>13 DEF Optional
    <2> QED BY <1>6, <1>7, <1>13, <2>1, Services, ReplyOfType
  <1> QED BY <1>2, <1>12, <1>13

(* Answers of every method.                                                *)
LEMMA RepliesTyped ==
    ASSUME ServiceAssumption, EngineOK, EngineOK', SessionsOK, ReplyTyped, [Next]_vars
    PROVE  ReplyTyped'
  <1>0. ASSUME UNCHANGED reply PROVE ReplyTyped'
    BY <1>0 DEF ReplyTyped
  <1>t. /\ \A s \in Streams, n \in Nat : PBCursor(s, n) \in Cursor
        /\ \A s \in Streams : streams[s].head \in Nat /\ streams[s].retained \in Nat
        /\ \A c \in Callers : promised[c] \in Nat /\ SubscriberOf[c] \in Subscribers
    BY StoreFacts, CallFacts DEF SessionsOK, PBCursor, Cursor
  <1>1. ASSUME NEW s \in Streams, GetHead(s) PROVE ReplyTyped'
    <2> DEFINE output == [head |-> PBCursor(s, streams[s].head),
                          retainedSeqStart |-> streams[s].retained]
    <2>1. [streamId |-> s] \in GetHeadRequest
      BY DEF GetHeadRequest
    <2>2. output \in GetHeadResponse
      BY <1>t DEF GetHeadResponse
    <2>3. Reply("getHead", [streamId |-> s], output, 0)
      BY <1>1 DEF GetHead
    <2> HIDE DEF output
    <2>4. output \in Optional(GetHeadResponse)
      BY <2>2 DEF Optional
    <2> QED BY <2>1, <2>3, <2>4, Services, ReplyOfType
  <1>2. ASSUME NEW c \in Callers, GetCursorHead(c) PROVE ReplyTyped'
    <2> DEFINE s == seen[c].streamId
               input == [subscriberId |-> SubscriberOf[c], streamId |-> s]
               output == [cursor |-> seen[c], head |-> PBCursor(s, streams[s].head)]
    <2>1. seen[c] # Absent /\ Reply("getCursor", input, output, promised[c])
      BY <1>2 DEF GetCursorHead
    <2>2. seen[c] \in Cursor /\ s \in Streams
      BY <2>1 DEF SessionsOK, Optional, Cursor
    <2>3. input \in GetCursorRequest
      BY <1>t, <2>2 DEF GetCursorRequest
    <2>4. output \in GetCursorResponse
      BY <1>t, <2>2 DEF GetCursorResponse
    <2> HIDE DEF output, input
    <2>5. output \in Optional(GetCursorResponse)
      BY <2>4 DEF Optional
    <2> QED BY <1>t, <2>1, <2>3, <2>5, Services, ReplyOfType
  <1>3. ASSUME NEW c \in Callers, NEW s \in Streams, NEW seq \in 0..MaxSeq, AckTooHigh(c, s, seq)
        PROVE  ReplyTyped'
    <2>1. AckInput(c, s, seq) \in AckRequest
      BY <1>t DEF AckInput, AckRequest
    <2>2. Failed \in Optional(AckResponse)
      BY DEF Failed, Optional
    <2>3. Reply("ack", AckInput(c, s, seq), Failed, 0)
      BY <1>3 DEF AckTooHigh
    <2> QED BY <2>1, <2>2, <2>3, Services, ReplyOfType
  <1>4. ASSUME NEW c \in Callers, AckCursor(c) PROVE ReplyTyped'
    <2>1. P!AckCursor(c)
      BY <1>4, SameAck DEF AckCursor
    <2>2. call[c].phase = "ack"
      BY <2>1, AckSteps
    <2>3. PICK u \in Subscribers, s \in Streams : u = SubscriberOf[c] /\ s = call[c].stream
      BY CallFacts
    <2>4. PICK stored \in Nat : AckStores(c, u, s, stored)
      BY <1>4, <2>3, StoredCursor
    <2> DEFINE output == [cursor |-> PBCursor(s, stored), head |-> seen[c]]
    <2>5. Reply("ack", AckInput(c, s, call[c].seq), output, promised[c])
      BY <2>4 DEF AckStores
    <2>6. seen[c] \in Cursor
      BY <2>2 DEF SessionsOK, SessionOK
    <2>7. output \in AckResponse
      BY <1>t, <2>6 DEF AckResponse
    <2>8. AckInput(c, s, call[c].seq) \in AckRequest
      BY <1>t, CallFacts DEF AckInput, AckRequest
    <2> HIDE DEF output
    <2>9. output \in Optional(AckResponse)
      BY <2>7 DEF Optional
    <2> QED BY <1>t, <2>5, <2>8, <2>9, Services, ReplyOfType
  <1>5. ASSUME NEW c \in Callers, NEW s \in Streams,
               \/ GetCursor(c, s)
               \/ \E limit, totalLimit : CatchUp(c, s, limit, totalLimit)
               \/ \E seq : Ack(c, s, seq)
               \/ \E before : Truncate(s, before)
               \/ \E u, seq : Reset(u, s, seq)
        PROVE  UNCHANGED reply
    BY <1>5 DEF GetCursor, CatchUp, Ack, Truncate, Reset
  <1>6. ASSUME NEW s \in Streams, NEW before, Truncate(s, before) PROVE UNCHANGED reply
    BY <1>6 DEF Truncate
  <1>7. ASSUME NEW s \in Streams, NEW u, NEW seq, Reset(u, s, seq) PROVE UNCHANGED reply
    BY <1>7 DEF Reset
  <1>8. ASSUME NEW s \in Streams, Delete(s) PROVE ReplyTyped'
    BY <1>8 DEF Delete, ReplyTyped
  <1>9. CASE UNCHANGED vars
    BY <1>0, <1>9 DEF vars
  <1>10. CASE ProducerNext \/ SessionNext
    BY <1>0, <1>1, <1>2, <1>3, <1>4, <1>5, <1>10, AppendTyped, CatchUpTyped
    DEF ProducerNext, SessionNext
  <1> QED BY <1>0, <1>6, <1>7, <1>8, <1>9, <1>10 DEF Next, SteadyNext, LogNext, OperatorNext

(* Every answer has the type its method declares in service.proto, every   *)
(* request in it too, and what the sessions hold between two phases stays  *)
(* of its type.                                                            *)
THEOREM ServiceTypes == ASSUME ServiceAssumption PROVE Spec => []TypeOK
  <1> DEFINE Inv == EngineOK /\ SessionsOK /\ AnsweredOK /\ ReplyTyped
  <1>1. Init => Inv
    BY EngineStarts, SessionsStart, AnswersStart DEF Init, ReplyTyped
  <1>2. Inv /\ [Next]_vars => Inv'
    BY EngineStays, SessionsStay, AnswersStay, RepliesTyped
  <1>3. Inv => TypeOK
    BY DEF TypeOK, SessionsOK, AnsweredOK, AnsweredType, ReplyTyped
  <1> HIDE DEF Inv
  <1> QED BY <1>1, <1>2, <1>3, PTL DEF Spec
=============================================================================
