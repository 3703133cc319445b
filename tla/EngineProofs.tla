----------------------------- MODULE EngineProofs -----------------------------
(***************************************************************************)
(* The core engine for any number of concurrent sessions, streams and      *)
(* subscribers, on top of what is proved of the store: what its calls      *)
(* answer, and that it refines the sync service.                           *)
(***************************************************************************)
EXTENDS EngineService, MemoryStoreProofs

(* A batch that is read with a positive limit is well-typed.               *)
LEMMA ReadBatchType ==
    ASSUME NEW st \in StreamSet, NEW after \in Nat, NEW limit \in Nat \ {0}
    PROVE  /\ ReadBatch(st, after, limit).seqs \in Seq(Nat)
           /\ ReadBatch(st, after, limit).seq \in Nat
           /\ ReadBatch(st, after, limit).final \in BOOLEAN
<1> DEFINE skip == PrefixBelow(st.events, after + 1)
           last == Smaller(skip + limit, Len(st.events))
           sent == SubSeq(st.events, skip + 1, last)
<1>1. /\ st.events \in Seq(EventSet) /\ Len(st.events) \in Nat /\ st.head \in Nat
      /\ skip \in 0..Len(st.events)
  BY LenProperties, PrefixBelowBound DEF StreamSet
<1>2. CASE skip = Len(st.events)
  <2>1. ReadBatch(st, after, limit) = [seqs |-> <<>>, seq |-> st.head, final |-> TRUE]
    BY <1>2 DEF ReadBatch
  <2> QED
    BY <2>1, <1>1
<1>3. CASE skip # Len(st.events)
  <2>1. last \in (skip + 1)..Len(st.events)
    BY <1>1, <1>3 DEF Smaller
  <2>2. sent \in Seq(EventSet) /\ Len(sent) = last - skip
    <3> HIDE DEF last, skip
    <3> QED
      BY <2>1, <1>1, SubSeqProperties
  <2>3. \A i \in 1..Len(sent) : sent[i].seq \in Nat
    <3> HIDE DEF sent, last, skip
    <3>1. \A i \in 1..Len(sent) : sent[i] \in EventSet
      BY <2>2, ElementOfSeq
    <3> QED
      BY <3>1 DEF EventSet
  <2>4. Len(sent) \in Nat /\ Len(sent) \in 1..Len(sent)
    <3> HIDE DEF sent, last, skip
    <3> QED
      BY <2>1, <2>2, <1>1
  <2>5. ReadBatch(st, after, limit) =
          [seqs |-> [i \in 1..Len(sent) |-> sent[i].seq],
           seq |-> sent[Len(sent)].seq,
           final |-> sent[Len(sent)].seq = st.head]
    BY <1>3 DEF ReadBatch
  <2> HIDE DEF sent
  <2>6. [i \in 1..Len(sent) |-> sent[i].seq] \in Seq(Nat)
    BY <2>3, <2>4, IsASeq
  <2> QED
    BY <2>3, <2>4, <2>5, <2>6
<1> QED
  BY <1>2, <1>3

-----------------------------------------------------------------------------
(* Types.  A call that reads carries one of the given limits.              *)
ReadsWithLimit ==
    \A c \in Callers : call[c].phase \in {"head", "read"} => call[c].limit \in Limits

EngineTyped == EngineTypeOK /\ ReadsWithLimit

(* An answer and a call without one.                                       *)
LEMMA NoResultType == NoResult \in ResultSet
BY EmptySeq DEF NoResult, ResultSet

(* A new engine is well-typed.                                             *)
LEMMA EngineTypeInit == EngineInit => EngineTyped
<1> SUFFICES ASSUME EngineInit PROVE EngineTyped
  OBVIOUS
<1>1. TypeOK
  BY StoreTypeInit DEF EngineInit
<1>2. call \in [Callers -> CallSet]
  <2>1. [phase : {"idle"}, stream : Streams, limit : {0},
         totalLimit : {0}, seq : {0}, result : {NoResult}] \subseteq CallSet
    BY NoResultType DEF CallSet
  <2> QED
    BY <2>1 DEF EngineInit
<1>3. ReadsWithLimit
  BY DEF EngineInit, ReadsWithLimit
<1> QED
  BY <1>1, <1>2, <1>3 DEF EngineInit, EngineTyped, EngineTypeOK

(* What a cursor reads as.                                                 *)
LEMMA CursorSeqType ==
    ASSUME TypeOK, NEW u \in Subscribers, NEW s \in Streams
    PROVE  /\ CursorSeq(u, s) \in Nat
           /\ cursors[<<u, s>>] <= CursorSeq(u, s)
           /\ cursors[<<u, s>>] \in Nat => CursorSeq(u, s) = cursors[<<u, s>>]
BY DEF TypeOK, CursorSeq, Larger, NoCursor

(* The steps of the three reads and of the ack, each of one call.          *)
LEMMA CatchUpTyped ==
    ASSUME EngineTyped, NEW c \in Callers, NEW s \in Streams, NEW limit \in Limits,
           NEW totalLimit \in TotalLimits, CatchUp(c, s, limit, totalLimit)
    PROVE  call' \in [Callers -> CallSet] /\ ReadsWithLimit'
<1> DEFINE r == [NoResult EXCEPT !.cursor = CursorSeq(SubscriberOf[c], s)]
           new == [phase |-> "head", stream |-> s, limit |-> limit,
                   totalLimit |-> totalLimit, seq |-> 0, result |-> r]
<1>1. r \in ResultSet
  <2>1. CursorSeq(SubscriberOf[c], s) \in Nat
    BY CursorSeqType, EngineAssumption DEF EngineTyped, EngineTypeOK
  <2> QED
    BY <2>1, NoResultType DEF ResultSet
<1>2. call' = [call EXCEPT ![c] = new]
  BY DEF CatchUp
<1>3. new \in CallSet /\ new.limit \in Limits
  <2> HIDE DEF r
  <2> QED
    BY <1>1, EngineAssumption DEF CallSet
<1> HIDE DEF new
<1> QED
  BY <1>2, <1>3 DEF EngineTyped, EngineTypeOK, ReadsWithLimit

(* CatchUpHead ends the call or leaves it with a limit to read with.       *)
LEMMA CatchUpHeadTyped ==
    ASSUME EngineTyped, NEW c \in Callers, CatchUpHead(c)
    PROVE  call' \in [Callers -> CallSet] /\ ReadsWithLimit'
<1> DEFINE st == streams[call[c].stream]
           r == [call[c].result EXCEPT !.head = st.head, !.retained = st.retained]
           tooLong == [r EXCEPT !.status = "too_long"]
           ended == [call[c] EXCEPT !.phase = "idle", !.result = tooLong]
           read == [call[c] EXCEPT !.phase = "read", !.result = r]
<1>1. call[c] \in CallSet /\ call \in [Callers -> CallSet] /\ call[c].phase = "head"
  BY DEF CatchUpHead, EngineTyped, EngineTypeOK
<1>2. st \in StreamSet
  BY <1>1 DEF EngineTyped, EngineTypeOK, TypeOK, CallSet
<1>3. r \in ResultSet
  <2>1. call[c].result \in ResultSet /\ st.head \in Nat /\ st.retained \in Nat
    BY <1>1, <1>2 DEF CallSet, StreamSet
  <2> HIDE DEF st
  <2> QED
    BY <2>1 DEF ResultSet
<1>4. tooLong \in ResultSet
  <2> HIDE DEF r
  <2> QED
    BY <1>3 DEF ResultSet
<1>5. ended \in CallSet /\ ended.phase = "idle"
  <2> HIDE DEF tooLong
  <2> QED
    BY <1>1, <1>4 DEF CallSet
<1>6. read \in CallSet /\ read.limit \in Limits
  <2> HIDE DEF r
  <2> QED
    BY <1>1, <1>3 DEF CallSet, EngineTyped, ReadsWithLimit
<1>7. \E new \in {ended, read} : call' = [call EXCEPT ![c] = new]
  BY DEF CatchUpHead
<1> HIDE DEF ended, read
<1> QED
  BY <1>1, <1>5, <1>6, <1>7 DEF EngineTyped, ReadsWithLimit

(* CatchUpRead ends its call and touches no other.                         *)
LEMMA CatchUpReadTyped ==
    ASSUME EngineTyped, NEW c \in Callers, CatchUpRead(c)
    PROVE  /\ call' \in [Callers -> CallSet] /\ ReadsWithLimit'
           /\ call'[c].phase = "idle" /\ \A d \in Callers \ {c} : call'[d] = call[d]
<1> DEFINE st == streams[call[c].stream]
           r == call[c].result
           batch == ReadBatch(st, r.cursor, call[c].limit)
           tooLong == [r EXCEPT !.status = "too_long"]
           ok == [status |-> "ok", cursor |-> r.cursor,
                  head |-> st.head, retained |-> st.retained,
                  seqs |-> batch.seqs, seq |-> batch.seq, final |-> batch.final]
           result == IF ReadTooLong(st, r.cursor) THEN tooLong ELSE ok
           new == [call[c] EXCEPT !.phase = "idle", !.result = result]
<1>1. call[c] \in CallSet /\ call \in [Callers -> CallSet] /\ call[c].phase = "read"
  BY DEF CatchUpRead, EngineTyped, EngineTypeOK
<1>2. st \in StreamSet
  BY <1>1 DEF EngineTyped, EngineTypeOK, TypeOK, CallSet
<1>3. r \in ResultSet /\ r.cursor \in Nat
  BY <1>1 DEF CallSet, ResultSet
<1>4. call[c].limit \in Nat \ {0}
  BY <1>1, EngineAssumption DEF EngineTyped, ReadsWithLimit
<1>5. batch.seqs \in Seq(Nat) /\ batch.seq \in Nat /\ batch.final \in BOOLEAN
  <2> HIDE DEF st, r
  <2> QED
    BY <1>2, <1>3, <1>4, ReadBatchType
<1>6. tooLong \in ResultSet
  <2> HIDE DEF r
  <2> QED
    BY <1>3 DEF ResultSet
<1>7. ok \in ResultSet
  <2>1. st.head \in Nat /\ st.retained \in Nat
    BY <1>2 DEF StreamSet
  <2> HIDE DEF st, r, batch
  <2> QED
    BY <1>3, <1>5, <2>1 DEF ResultSet
<1>8. result \in ResultSet
  <2> HIDE DEF tooLong, ok
  <2> QED
    BY <1>6, <1>7
<1>9. new \in CallSet /\ new.phase = "idle"
  <2> HIDE DEF result
  <2> QED
    BY <1>1, <1>8 DEF CallSet
<1>10. call' = [call EXCEPT ![c] = new]
  BY DEF CatchUpRead
<1> HIDE DEF new
<1> QED
  BY <1>1, <1>9, <1>10 DEF EngineTyped, ReadsWithLimit

(* Whatever else runs between the calls of an engine, the store stays      *)
(* well-typed: the engine reaches it through its interface only.           *)
LEMMA EngineTypeStep == EngineTyped /\ [EngineSpecNext]_vars => EngineTyped'
<1> SUFFICES ASSUME EngineTyped, [EngineSpecNext]_vars PROVE EngineTyped'
  OBVIOUS
<1>t. /\ TypeOK /\ call \in [Callers -> CallSet] /\ ReadsWithLimit
      /\ steady \in BOOLEAN
  BY DEF EngineTyped, EngineTypeOK
<1>s. steady' \in BOOLEAN
  BY <1>t DEF EngineSpecNext, vars
<1>1. ASSUME TypeOK', call' \in [Callers -> CallSet], ReadsWithLimit' PROVE EngineTyped'
  BY <1>1, <1>s DEF EngineTyped, EngineTypeOK
<1>2. ASSUME UNCHANGED storeVars PROVE TypeOK'
  BY <1>2, <1>t DEF storeVars, TypeOK
<1>3. ASSUME UNCHANGED call PROVE call' \in [Callers -> CallSet] /\ ReadsWithLimit'
  BY <1>3, <1>t DEF ReadsWithLimit
<1>4. ASSUME NEW c \in Callers, NEW s \in Streams, NEW limit \in Limits,
             NEW totalLimit \in TotalLimits, CatchUp(c, s, limit, totalLimit)
      PROVE  EngineTyped'
  BY <1>1, <1>2, <1>4, CatchUpTyped DEF CatchUp
<1>5. ASSUME NEW c \in Callers, CatchUpHead(c) PROVE EngineTyped'
  BY <1>1, <1>2, <1>5, CatchUpHeadTyped DEF CatchUpHead
<1>6. ASSUME NEW c \in Callers, CatchUpRead(c) PROVE EngineTyped'
  BY <1>1, <1>2, <1>6, CatchUpReadTyped DEF CatchUpRead
<1>7. ASSUME NEW c \in Callers, NEW s \in Streams, NEW seq \in 0..MaxSeq, Ack(c, s, seq)
      PROVE  EngineTyped'
  <2>1. seq \in Nat
    BY StoreAssumption
  <2>2. [call[c] EXCEPT !.phase = "ack", !.stream = s, !.seq = seq, !.result = NoResult]
          \in CallSet
    BY <1>t, <2>1, NoResultType DEF CallSet
  <2>3. call' \in [Callers -> CallSet] /\ ReadsWithLimit'
    BY <1>7, <1>t, <2>2 DEF Ack, CallSet, ReadsWithLimit
  <2> QED
    BY <1>1, <1>2, <1>7, <2>3 DEF Ack
<1>8. ASSUME NEW c \in Callers, AckCursor(c) PROVE EngineTyped'
  <2>1. /\ SubscriberOf[c] \in Subscribers /\ call[c].stream \in Streams
        /\ call[c].seq \in Nat
    BY <1>t, EngineAssumption DEF CallSet
  <2>2. TypeOK'
    BY <1>8, <1>t, <2>1 DEF AckCursor, StoreAck, TypeOK
  <2>3. call' \in [Callers -> CallSet] /\ ReadsWithLimit'
    BY <1>8, <1>t DEF AckCursor, CallSet, ReadsWithLimit
  <2> QED
    BY <1>1, <2>2, <2>3
<1>9. ASSUME NEW s \in Streams, NEW key \in Keys \cup {NoKey}, StampedAppend(s, key)
      PROVE  TypeOK'
  <2>1. now \in Nat
    BY <1>t DEF TypeOK
  <2> QED
    BY <1>9, <1>t, <2>1, AppendNewType DEF StampedAppend
<1>10. ASSUME \/ \E s \in Streams, key \in Keys : AppendRetry(s, key)
              \/ RetentionNext \/ CompactNext \/ Tick \/ AdminNext
       PROVE  TypeOK'
  <2>1. Next
    BY <1>10 DEF RetentionNext, AdminNext, Next, LogNext
  <2> QED
    BY <1>t, <2>1, StoreTypeStep
<1>11. CASE EngineNext
  BY <1>11, <1>4, <1>5, <1>6, <1>7, <1>8 DEF EngineNext
<1>12. CASE (ProducerNext \/ RetentionNext \/ CompactNext \/ Tick \/ AdminNext) /\ UNCHANGED call
  <2>1. TypeOK'
    BY <1>12, <1>9, <1>10 DEF ProducerNext
  <2> QED
    BY <1>1, <1>3, <1>12, <2>1
<1>13. CASE UNCHANGED vars
  BY <1>13, <1>1, <1>2, <1>3 DEF vars
<1> QED
  BY <1>11, <1>12, <1>13 DEF EngineSpecNext, SteadyNext

(* Calls, answers and the store are well-typed in every reachable state.   *)
THEOREM EngineTypeCorrect == EngineSpec => []EngineTypeOK
<1>1. EngineTyped => EngineTypeOK
  BY DEF EngineTyped
<1> QED
  BY EngineTypeInit, EngineTypeStep, <1>1, PTL DEF EngineSpec

-----------------------------------------------------------------------------
(* Cursors.  What every step has in common that neither deletes a stream   *)
(* nor writes a cursor.                                                    *)
HeadsMoveForward == \A s \in Streams : streams'[s].head >= streams[s].head

(* Append, retention, truncation, compaction and the clock.                *)
LEMMA LogStepMovesForward ==
    ASSUME TypeOK, ProducerNext \/ RetentionNext \/ CompactNext \/ Tick
    PROVE  HeadsMoveForward /\ cursors' = cursors
<1>t. /\ streams \in [Streams -> StreamSet] /\ retention \in [Streams -> RetentionSet]
      /\ now \in Nat /\ \A s \in Streams : streams[s].head \in Nat
  BY DEF TypeOK, StreamSet
<1>0. ASSUME streams' = streams PROVE HeadsMoveForward
  BY <1>0, <1>t DEF HeadsMoveForward
<1>1. ASSUME NEW s \in Streams, NEW st, st.head >= streams[s].head,
             streams' = [streams EXCEPT ![s] = st]
      PROVE  HeadsMoveForward
  BY <1>1, <1>t DEF HeadsMoveForward
<1>2. ASSUME NEW s \in Streams, NEW key \in Keys \cup {NoKey}, StampedAppend(s, key)
      PROVE  HeadsMoveForward /\ cursors' = cursors
  <2> DEFINE st == ApplyRetention(AppendEvent(streams[s], key, now), retention[s], now)
  <2>1. st.head = streams[s].head + 1
    BY <1>t, AppendNewFacts
  <2>2. streams' = [streams EXCEPT ![s] = st] /\ cursors' = cursors
    BY <1>2 DEF StampedAppend, AppendNew
  <2> HIDE DEF st
  <2>3. st.head >= streams[s].head
    BY <2>1, <1>t
  <2> QED
    BY <2>2, <2>3, <1>1
<1>3. ASSUME NEW s \in Streams, NEW key \in Keys, AppendRetry(s, key)
      PROVE  HeadsMoveForward /\ cursors' = cursors
  BY <1>3, <1>0 DEF AppendRetry, storeVars
<1>4. ASSUME NEW s \in Streams, NEW before, TruncateStream(s, before)
      PROVE  HeadsMoveForward /\ cursors' = cursors
  <2>1. TruncateBefore(streams[s], before).head >= streams[s].head
    BY <1>t, TruncateBeforeContiguous
  <2> QED
    BY <1>4, <2>1, <1>1 DEF TruncateStream
<1>5. ASSUME NEW s \in Streams, NEW policy \in Retentions, SetStreamRetention(s, policy)
      PROVE  HeadsMoveForward /\ cursors' = cursors
  <2>1. ApplyRetention(streams[s], policy, now).head >= streams[s].head
    BY <1>t, ApplyRetentionContiguous, StoreAssumption
  <2> QED
    BY <1>5, <2>1, <1>1 DEF SetStreamRetention
<1>6. ASSUME NEW c \in Compactors, NEW s \in Streams, CompactMinimum(c, s)
      PROVE  HeadsMoveForward /\ cursors' = cursors
  BY <1>6, <1>0 DEF CompactMinimum
<1>7. ASSUME NEW c \in Compactors, CompactTruncate(c)
      PROVE  HeadsMoveForward /\ cursors' = cursors
  <2> DEFINE s == compacting[c].stream
  <2>1. s \in Streams
    BY DEF TypeOK, CompactSet
  <2>2. TruncateBefore(streams[s], compacting[c].min + 1).head >= streams[s].head
    BY <1>t, <2>1, TruncateBeforeContiguous
  <2>3. /\ streams' = [streams EXCEPT ![s] = TruncateBefore(streams[s], compacting[c].min + 1)]
        /\ cursors' = cursors
    BY <1>7 DEF CompactTruncate
  <2> HIDE DEF s
  <2> QED
    BY <2>1, <2>2, <2>3, <1>1
<1>8. CASE Tick
  BY <1>8, <1>0 DEF Tick
<1> QED
  BY <1>2, <1>3, <1>4, <1>5, <1>6, <1>7, <1>8 DEF ProducerNext, RetentionNext, CompactNext

(* The property as long as nothing was deleted or reset.                   *)
AcksWithinHead ==
    \A c \in Callers : call[c].phase = "ack" => call[c].seq <= streams[call[c].stream].head

CursorsWithin ==
    \A u \in Subscribers, s \in Streams : CursorSeq(u, s) <= streams[s].head

(* A cursor that nobody wrote stays within a log that did not go back.     *)
LEMMA ForwardKeepsWithin ==
    ASSUME EngineTyped, EngineTyped', HeadsMoveForward, CursorsWithin, cursors' = cursors
    PROVE  CursorsWithin'
<1> SUFFICES ASSUME NEW u \in Subscribers, NEW s \in Streams
             PROVE  CursorSeq(u, s)' <= streams'[s].head
  BY DEF CursorsWithin
<1>1. CursorSeq(u, s) \in Nat /\ CursorSeq(u, s)' = CursorSeq(u, s)
  BY CursorSeqType DEF EngineTyped, EngineTypeOK, CursorSeq
<1>2. streams[s].head \in Nat /\ streams'[s].head \in Nat
  BY DEF EngineTyped, EngineTypeOK, TypeOK, StreamSet
<1> QED
  BY <1>1, <1>2 DEF CursorsWithin, HeadsMoveForward

(* So does an ack under way, unless its call went on.                      *)
LEMMA ForwardKeepsAcks ==
    ASSUME EngineTyped, EngineTyped', HeadsMoveForward, AcksWithinHead,
           \A c \in Callers : call'[c].phase = "ack" => call'[c] = call[c]
    PROVE  AcksWithinHead'
<1> SUFFICES ASSUME NEW c \in Callers, call'[c].phase = "ack"
             PROVE  call'[c].seq <= streams'[call'[c].stream].head
  BY DEF AcksWithinHead
<1>1. call'[c] = call[c] /\ call[c].stream \in Streams /\ call[c].seq \in Nat
  BY DEF EngineTyped, EngineTypeOK, CallSet
<1>2. streams[call[c].stream].head \in Nat /\ streams'[call[c].stream].head \in Nat
  BY <1>1 DEF EngineTyped, EngineTypeOK, TypeOK, StreamSet
<1> QED
  BY <1>1, <1>2 DEF AcksWithinHead, HeadsMoveForward

(* Ack compares with a head that can only have grown when the cursor is    *)
(* written, so no step but a deletion or a reset breaks the property.      *)
LEMMA CursorWithinHeadStep ==
    EngineTyped /\ EngineTyped' /\ CursorWithinHead /\ [EngineSpecNext]_vars => CursorWithinHead'
<1> SUFFICES ASSUME EngineTyped, EngineTyped', CursorWithinHead, [EngineSpecNext]_vars, steady'
             PROVE  CursorsWithin' /\ AcksWithinHead'
  BY DEF CursorWithinHead, CursorsWithin, AcksWithinHead
<1>t. TypeOK /\ call \in [Callers -> CallSet] /\ call' \in [Callers -> CallSet]
  BY DEF EngineTyped, EngineTypeOK
<1>s. steady
  BY DEF EngineSpecNext, vars
<1>w. CursorsWithin /\ AcksWithinHead
  BY <1>s DEF CursorWithinHead, CursorsWithin, AcksWithinHead
<1>h. ASSUME streams' = streams PROVE HeadsMoveForward
  BY <1>h, <1>t DEF HeadsMoveForward, TypeOK, StreamSet
<1>1. ASSUME streams' = streams, cursors' = cursors,
             \A c \in Callers : call'[c].phase = "ack" => call'[c] = call[c]
      PROVE  CursorsWithin' /\ AcksWithinHead'
  BY <1>1, <1>h, <1>w, ForwardKeepsWithin, ForwardKeepsAcks
<1>2. ASSUME NEW c \in Callers, NEW s \in Streams, NEW limit \in Limits,
             NEW totalLimit \in TotalLimits, CatchUp(c, s, limit, totalLimit)
      PROVE  CursorsWithin' /\ AcksWithinHead'
  <2>1. call'[c].phase = "head" /\ \A d \in Callers \ {c} : call'[d] = call[d]
    BY <1>2, <1>t DEF CatchUp
  <2> QED
    BY <1>1, <1>2, <2>1 DEF CatchUp, storeVars
<1>3. ASSUME NEW c \in Callers, CatchUpHead(c)
      PROVE  CursorsWithin' /\ AcksWithinHead'
  <2>1. call'[c].phase # "ack" /\ \A d \in Callers \ {c} : call'[d] = call[d]
    BY <1>3, <1>t DEF CatchUpHead, CallSet
  <2> QED
    BY <1>1, <1>3, <2>1 DEF CatchUpHead, storeVars
<1>4. ASSUME NEW c \in Callers, CatchUpRead(c)
      PROVE  CursorsWithin' /\ AcksWithinHead'
  <2>1. call'[c].phase # "ack" /\ \A d \in Callers \ {c} : call'[d] = call[d]
    BY <1>4, CatchUpReadTyped
  <2> QED
    BY <1>1, <1>4, <2>1 DEF CatchUpRead, storeVars
<1>5. ASSUME NEW c \in Callers, NEW s \in Streams, NEW seq \in 0..MaxSeq, Ack(c, s, seq)
      PROVE  CursorsWithin' /\ AcksWithinHead'
  <2>1. /\ streams' = streams /\ cursors' = cursors /\ seq <= streams[s].head
        /\ call'[c].stream = s /\ call'[c].seq = seq
        /\ \A d \in Callers \ {c} : call'[d] = call[d]
    BY <1>5, <1>t DEF Ack, storeVars, CallSet
  <2>2. CursorsWithin'
    BY <2>1, <1>h, <1>w, ForwardKeepsWithin
  <2>3. AcksWithinHead'
    BY <2>1, <1>w DEF AcksWithinHead
  <2> QED
    BY <2>2, <2>3
<1>6. ASSUME NEW c \in Callers, AckCursor(c)
      PROVE  CursorsWithin' /\ AcksWithinHead'
  <2> DEFINE u == SubscriberOf[c]
             s == call[c].stream
             seq == call[c].seq
  <2>1. u \in Subscribers /\ s \in Streams /\ seq \in Nat
    BY <1>t, EngineAssumption DEF CallSet
  <2>2. /\ call[c].phase = "ack" /\ streams' = streams
        /\ cursors' = [cursors EXCEPT ![<<u, s>>] =
                         IF seq > CursorSeq(u, s) THEN seq ELSE cursors[<<u, s>>]]
        /\ call' = [call EXCEPT ![c].phase = "idle"]
    BY <1>6 DEF AckCursor, StoreAck
  <2>3. seq <= streams[s].head
    BY <2>2, <1>w DEF AcksWithinHead
  <2>4. AcksWithinHead'
    <3>1. call'[c].phase = "idle" /\ \A d \in Callers \ {c} : call'[d] = call[d]
      BY <2>2, <1>t DEF CallSet
    <3> QED
      BY <3>1, <2>2, <1>h, <1>w, ForwardKeepsAcks
  <2>5. CursorsWithin'
    <3> SUFFICES ASSUME NEW v \in Subscribers, NEW g \in Streams
                 PROVE  CursorSeq(v, g)' <= streams'[g].head
      BY DEF CursorsWithin
    <3>1. CursorSeq(v, g) <= streams[g].head /\ streams[g].head \in Nat
      BY <1>w, <1>t DEF CursorsWithin, TypeOK, StreamSet
    <3>2. CASE <<v, g>> = <<u, s>> /\ seq > CursorSeq(u, s)
      <4>1. cursors'[<<v, g>>] = seq
        BY <3>2, <2>1, <2>2, <1>t DEF TypeOK
      <4>2. CursorSeq(v, g)' = seq
        BY <4>1, <2>1 DEF CursorSeq, Larger
      <4> QED
        BY <4>2, <3>2, <2>2, <2>3
    <3>3. CASE ~(<<v, g>> = <<u, s>> /\ seq > CursorSeq(u, s))
      <4>1. cursors'[<<v, g>>] = cursors[<<v, g>>]
        BY <3>3, <2>1, <2>2, <1>t DEF TypeOK
      <4>2. CursorSeq(v, g)' = CursorSeq(v, g)
        BY <4>1 DEF CursorSeq
      <4> QED
        BY <4>2, <3>1, <2>2
    <3> QED
      BY <3>2, <3>3
  <2> QED
    BY <2>4, <2>5
<1>7. CASE (ProducerNext \/ RetentionNext \/ CompactNext \/ Tick) /\ UNCHANGED call
  BY <1>7, <1>t, <1>w, LogStepMovesForward, ForwardKeepsWithin, ForwardKeepsAcks
<1>8. CASE UNCHANGED vars
  BY <1>8, <1>1 DEF vars, storeVars
<1>9. CASE EngineNext
  BY <1>9, <1>2, <1>3, <1>4, <1>5, <1>6 DEF EngineNext
<1> QED
  BY <1>7, <1>8, <1>9 DEF EngineSpecNext, SteadyNext

(* The check of Ack against the head and its cursor update are two storage *)
(* calls; whatever runs between them, cursors stay within the log until a  *)
(* stream is deleted or a cursor reset.                                    *)
THEOREM CursorsStayWithinHead == EngineSpec => []CursorWithinHead
<1>1. EngineInit => CursorWithinHead
  <2> SUFFICES ASSUME EngineInit PROVE CursorWithinHead
    OBVIOUS
  <2>1. \A u \in Subscribers, s \in Streams : CursorSeq(u, s) = 0 /\ streams[s].head = 0
    BY NoStreamFacts DEF EngineInit, Init, CursorSeq, Larger, NoCursor
  <2>2. \A c \in Callers : call[c].phase = "idle"
    BY DEF EngineInit
  <2> QED
    BY <2>1, <2>2 DEF CursorWithinHead
<1>2. EngineSpec => []EngineTyped
  BY EngineTypeInit, EngineTypeStep, PTL DEF EngineSpec
<1> QED
  BY <1>1, <1>2, CursorWithinHeadStep, PTL DEF EngineSpec

-----------------------------------------------------------------------------
(* Answers.  In a contiguous log that is replayable from a position, the   *)
(* number of events at or below the position follows from the boundary.    *)
LEMMA SkipInContiguousLog ==
    ASSUME NEW st \in StreamSet, Contiguous(st), NEW after \in Nat, ~ReadTooLong(st, after)
    PROVE  PrefixBelow(st.events, after + 1) =
              IF st.head = 0 THEN 0 ELSE Smaller(Len(st.events), after + 1 - st.retained)
<1> DEFINE L == Len(st.events)
           k == after + 1 - st.retained
           below == {n \in 1..L : \A i \in 1..n : st.events[i].seq < after + 1}
<1>1. L \in Nat /\ st.head \in Nat /\ st.retained \in Nat
  BY LenProperties DEF StreamSet
<1>2. \A i \in 1..L : st.events[i].seq = st.retained + i - 1
  BY DEF Contiguous
<1>3. CASE st.head = 0
  <2>1. L = 0
    BY <1>3 DEF Contiguous
  <2>2. below = 1..0
    BY <2>1
  <2>3. Cardinality(1..0) = 0
    BY FS_Interval
  <2>4. PrefixBelow(st.events, after + 1) = Cardinality(below)
    BY DEF PrefixBelow
  <2> HIDE DEF below
  <2> QED
    BY <2>2, <2>3, <2>4, <1>3
<1>4. CASE st.head # 0
  <2>1. st.retained > 0 /\ after >= st.retained - 1
    BY <1>1, <1>4 DEF Contiguous, ReadTooLong, ReplayTooOld
  <2>2. k \in Nat
    BY <2>1, <1>1
  <2>3. below = 1..Smaller(L, k)
    <3>1. ASSUME NEW n \in 1..L
          PROVE  (\A i \in 1..n : st.events[i].seq < after + 1) <=> n <= k
      <4>1. \A i \in 1..n : st.events[i].seq = st.retained + i - 1
        BY <1>1, <1>2
      <4>2. n \in 1..n
        BY <1>1
      <4> QED
        BY <4>1, <4>2, <1>1, <2>1
    <3> HIDE DEF k
    <3> QED
      BY <3>1, <2>2, <1>1 DEF Smaller
  <2>4. Cardinality(below) = Smaller(L, k)
    <3>1. Smaller(L, k) \in Nat
      <4> HIDE DEF L, k
      <4> QED
        BY <1>1, <2>2 DEF Smaller
    <3>2. \A n \in Nat : Cardinality(1..n) = n
      BY FS_Interval
    <3> HIDE DEF below
    <3> QED
      BY <2>3, <3>1, <3>2
  <2>5. PrefixBelow(st.events, after + 1) = Cardinality(below)
    BY DEF PrefixBelow
  <2> HIDE DEF below
  <2> QED
    BY <2>4, <2>5, <1>4
<1> QED
  BY <1>3, <1>4

(* What a reader is promised of an answer.                                 *)
Follows(cursor, head, limit, seqs, seq, final) ==
    /\ \A i \in 1..Len(seqs) : seqs[i] = cursor + i
    /\ Len(seqs) <= limit
    /\ seqs # <<>> => seq = cursor + Len(seqs) /\ seq <= head
    /\ seqs = <<>> => seq = head /\ cursor >= head
    /\ final <=> seq = head

(* A batch read from a contiguous log keeps the promise.                   *)
LEMMA ReadBatchFollows ==
    ASSUME NEW st \in StreamSet, Contiguous(st), NEW after \in Nat, ~ReadTooLong(st, after),
           NEW limit \in Nat \ {0}
    PROVE  Follows(after, st.head, limit, ReadBatch(st, after, limit).seqs,
                   ReadBatch(st, after, limit).seq, ReadBatch(st, after, limit).final)
<1> DEFINE L == Len(st.events)
           skip == PrefixBelow(st.events, after + 1)
           last == Smaller(skip + limit, L)
           sent == SubSeq(st.events, skip + 1, last)
           seqs == [i \in 1..Len(sent) |-> sent[i].seq]
           batch == ReadBatch(st, after, limit)
<1> SUFFICES Follows(after, st.head, limit, batch.seqs, batch.seq, batch.final)
  OBVIOUS
<1>1. /\ st.events \in Seq(EventSet) /\ L \in Nat
      /\ st.head \in Nat /\ st.retained \in Nat /\ skip \in 0..L
  BY LenProperties, PrefixBelowBound DEF StreamSet
<1>2. /\ skip = L => after >= st.head
      /\ skip # L =>
            /\ last \in (skip + 1)..L /\ last - skip <= limit
            /\ skip = after + 1 - st.retained
            /\ after + (last - skip) <= st.head
  <2>1. skip = IF st.head = 0 THEN 0 ELSE Smaller(L, after + 1 - st.retained)
    BY SkipInContiguousLog
  <2>2. IF st.head = 0 THEN st.retained = 0 /\ L = 0
        ELSE st.retained > 0 /\ st.retained + L = st.head + 1
    <3>1. Len(<<>>) = 0
      OBVIOUS
    <3> QED
      BY <3>1 DEF Contiguous
  <2>3. last = Smaller(skip + limit, L)
    OBVIOUS
  <2> HIDE DEF L, skip, last
  <2>4. CASE st.head = 0
    BY <1>1, <2>1, <2>2, <2>4
  <2>5. CASE st.head # 0
    <3>1. st.retained > 0 /\ st.retained + L = st.head + 1
      BY <2>2, <2>5
    <3>2. skip = L \/ skip = after + 1 - st.retained
      BY <2>1, <2>5 DEF Smaller
    <3>3. skip = L => after >= st.head
      BY <1>1, <2>1, <2>5, <3>1 DEF Smaller
    <3>4. ASSUME skip # L
          PROVE  last \in (skip + 1)..L /\ last - skip <= limit /\ after + (last - skip) <= st.head
      BY <1>1, <2>3, <3>1, <3>2, <3>4 DEF Smaller
    <3> QED
      BY <3>2, <3>3, <3>4
  <2> QED
    BY <2>4, <2>5
<1>3. \A i \in 1..L : st.events[i].seq = st.retained + i - 1
  BY DEF Contiguous
<1>4. CASE skip = L
  <2>1. batch = [seqs |-> <<>>, seq |-> st.head, final |-> TRUE]
    BY <1>4 DEF ReadBatch
  <2>2. batch.seqs = <<>> /\ batch.seq = st.head /\ (batch.final <=> TRUE)
    <3> HIDE DEF batch
    <3> QED
      BY <2>1
  <2>3. Len(<<>>) = 0 /\ limit >= 0
    OBVIOUS
  <2>4. after >= st.head
    BY <1>2, <1>4
  <2> HIDE DEF batch, skip, L
  <2>5. batch.final <=> batch.seq = st.head
    BY <2>2
  <2> QED
    BY <2>2, <2>3, <2>4, <2>5 DEF Follows
<1>5. CASE skip # L
  <2>1. /\ last \in (skip + 1)..L /\ last - skip <= limit
        /\ skip = after + 1 - st.retained
        /\ after + (last - skip) <= st.head
    <3> HIDE DEF skip, last, L
    <3> QED
      BY <1>2, <1>5
  <2>i. skip \in Int /\ last \in Int /\ skip + 1 <= last
    <3> HIDE DEF skip, last, L
    <3> QED
      BY <1>1, <2>1
  <2>2. /\ Len(sent) = last - (skip + 1) + 1
        /\ \A i \in 1..(last - (skip + 1) + 1) : sent[i] = st.events[(skip + 1) + i - 1]
    <3>1. \A i \in (skip + 1)..last : st.events[i] \in EventSet
      <4>1. \A i \in (skip + 1)..last : i \in 1..L
        <5> HIDE DEF skip, last, L
        <5> QED
          BY <1>1, <2>1
      <4> QED
        BY <1>1, <4>1, ElementOfSeq
    <3> HIDE DEF skip, last
    <3> QED
      BY <2>i, <3>1, SubSeqProperties
  <2> DEFINE n == last - skip
  <2>3. n \in Nat \ {0} /\ n <= limit /\ after + n <= st.head /\ last - (skip + 1) + 1 = n
    <3> HIDE DEF skip, last, L
    <3> QED
      BY <2>1, <2>i
  <2>4. Len(sent) = n /\ \A i \in 1..n : sent[i].seq = after + i
    <3>1. ASSUME NEW i \in 1..n PROVE sent[i].seq = after + i
      <4>1. (skip + 1) + i - 1 \in 1..L /\ st.retained + ((skip + 1) + i - 1) - 1 = after + i
        <5> HIDE DEF skip, last, L
        <5>1. i \in Int /\ 1 <= i /\ i <= last - skip
          BY <2>i
        <5>2. last <= L /\ L \in Int /\ 0 <= skip
          BY <1>1, <2>1
        <5>3. skip \in Int /\ skip = after + 1 - st.retained /\ st.retained \in Nat
          BY <1>1, <2>1, <2>i
        <5>4. (skip + 1) + i - 1 \in 1..L
          BY <2>i, <5>1, <5>2
        <5>5. st.retained + ((skip + 1) + i - 1) - 1 = after + i
          BY <5>1, <5>3
        <5> QED
          BY <5>4, <5>5
      <4>2. sent[i] = st.events[(skip + 1) + i - 1]
        <5> HIDE DEF sent, skip, last, n
        <5> QED
          BY <2>2, <2>3
      <4>3. st.events[(skip + 1) + i - 1].seq = st.retained + ((skip + 1) + i - 1) - 1
        <5> HIDE DEF skip, last, L
        <5> QED
          BY <1>3, <4>1
      <4> HIDE DEF sent, skip, last, n
      <4> QED
        BY <4>1, <4>2, <4>3
    <3> HIDE DEF sent, skip, last, n
    <3> QED
      BY <2>2, <2>3, <3>1
  <2>5. batch = [seqs |-> seqs, seq |-> sent[Len(sent)].seq,
                 final |-> sent[Len(sent)].seq = st.head]
    BY <1>5 DEF ReadBatch
  <2> HIDE DEF n
  <2>6. Len(seqs) = n /\ \A i \in 1..n : seqs[i] = after + i
    <3> HIDE DEF sent
    <3> QED
      BY <2>3, <2>4
  <2>7. sent[Len(sent)].seq = after + n
    <3> HIDE DEF sent
    <3> QED
      BY <2>3, <2>4
  <2>8. seqs # <<>>
    <3> HIDE DEF seqs
    <3> QED
      BY <2>3, <2>6
  <2>9. batch.seqs = seqs /\ batch.seq = after + n /\ (batch.final <=> after + n = st.head)
    <3> HIDE DEF batch, seqs, sent
    <3> QED
      BY <2>5, <2>7
  <2> HIDE DEF batch, seqs
  <2>10. batch.final <=> batch.seq = st.head
    BY <2>9
  <2> QED
    BY <2>3, <2>6, <2>8, <2>9, <2>10 DEF Follows
<1> QED
  BY <1>4, <1>5

(* The engine's environment keeps the logs contiguous, as the store does.  *)
LEMMA EngineContiguousStep ==
    EngineTyped /\ LogContiguous /\ [EngineSpecNext]_vars => LogContiguous'
<1> SUFFICES ASSUME EngineTyped, LogContiguous, [EngineSpecNext]_vars PROVE LogContiguous'
  OBVIOUS
<1>t. TypeOK /\ now \in Nat
  BY DEF EngineTyped, EngineTypeOK, TypeOK
<1>1. ASSUME UNCHANGED streams PROVE LogContiguous'
  BY <1>1 DEF LogContiguous
<1>2. CASE EngineNext
  BY <1>2, <1>1 DEF EngineNext, CatchUp, CatchUpHead, CatchUpRead, Ack, AckCursor, StoreAck,
                    storeVars
<1>3. ASSUME NEW s \in Streams, NEW key \in Keys \cup {NoKey}, StampedAppend(s, key)
      PROVE  LogContiguous'
  BY <1>3, <1>t, AppendNewContiguous DEF StampedAppend
<1>4. ASSUME \/ \E s \in Streams, key \in Keys : AppendRetry(s, key)
             \/ RetentionNext \/ CompactNext \/ Tick \/ AdminNext
      PROVE  LogContiguous'
  <2>1. Next
    BY <1>4 DEF RetentionNext, AdminNext, Next, LogNext
  <2> QED
    BY <1>t, <2>1, StoreContiguousStep
<1>5. CASE UNCHANGED vars
  BY <1>5, <1>1 DEF vars, storeVars
<1> QED
  BY <1>2, <1>3, <1>4, <1>5 DEF EngineSpecNext, SteadyNext, ProducerNext

(* Every answer of a batch keeps the promise, and an ack carries none.     *)
AnswerFollows(c) ==
    call[c].result.status = "ok" =>
        Follows(call[c].result.cursor, call[c].result.head, call[c].limit,
                call[c].result.seqs, call[c].result.seq, call[c].result.final)

AnswersFollow ==
    \A c \in Callers :
        /\ call[c].phase = "idle" => AnswerFollows(c)
        /\ call[c].phase = "ack" => call[c].result.status = "none"

(* Only CatchUpRead answers with a batch, and it reads it, the head and    *)
(* the boundary at one instant; the cursor may be older.                   *)
LEMMA CatchUpReadFollows ==
    ASSUME EngineTyped, LogContiguous, NEW c \in Callers, CatchUpRead(c)
    PROVE  AnswerFollows(c)'
<1> DEFINE st == streams[call[c].stream]
           r == call[c].result
           batch == ReadBatch(st, r.cursor, call[c].limit)
           ok == [status |-> "ok", cursor |-> r.cursor,
                  head |-> st.head, retained |-> st.retained,
                  seqs |-> batch.seqs, seq |-> batch.seq, final |-> batch.final]
<1>1. /\ call[c] \in CallSet /\ call \in [Callers -> CallSet] /\ call[c].phase = "read"
      /\ call[c].stream \in Streams
  BY DEF CatchUpRead, EngineTyped, EngineTypeOK, CallSet
<1>2. st \in StreamSet /\ Contiguous(st)
  BY <1>1 DEF EngineTyped, EngineTypeOK, TypeOK, LogContiguous
<1>3. r.cursor \in Nat
  BY <1>1 DEF CallSet, ResultSet
<1>4. call[c].limit \in Nat \ {0}
  BY <1>1, EngineAssumption DEF EngineTyped, ReadsWithLimit
<1>5. CASE ReadTooLong(st, r.cursor)
  <2>1. call' = [call EXCEPT ![c] =
            [call[c] EXCEPT !.phase = "idle", !.result = [r EXCEPT !.status = "too_long"]]]
    BY <1>5 DEF CatchUpRead
  <2>2. call'[c].result = [r EXCEPT !.status = "too_long"] /\ r \in ResultSet
    BY <2>1, <1>1 DEF CallSet
  <2>3. call'[c].result.status = "too_long"
    <3> HIDE DEF r
    <3> QED
      BY <2>2 DEF ResultSet
  <2> QED
    BY <2>3 DEF AnswerFollows
<1>6. CASE ~ReadTooLong(st, r.cursor)
  <2>1. Follows(r.cursor, st.head, call[c].limit, batch.seqs, batch.seq, batch.final)
    <3> HIDE DEF st, r
    <3> QED
      BY <1>2, <1>3, <1>4, <1>6, ReadBatchFollows
  <2>2. call' = [call EXCEPT ![c] = [call[c] EXCEPT !.phase = "idle", !.result = ok]]
    BY <1>6 DEF CatchUpRead
  <2>3. call'[c].result = ok /\ call'[c].limit = call[c].limit
    <3> HIDE DEF ok
    <3> QED
      BY <2>2, <1>1 DEF CallSet
  <2>4. /\ ok.cursor = r.cursor /\ ok.head = st.head
        /\ ok.seqs = batch.seqs /\ ok.seq = batch.seq /\ ok.final = batch.final
    OBVIOUS
  <2> HIDE DEF ok, st, r, batch
  <2>5. Follows(ok.cursor, ok.head, call[c].limit, ok.seqs, ok.seq, ok.final)
    BY <2>1, <2>4
  <2> QED
    BY <2>3, <2>5 DEF AnswerFollows
<1> QED
  BY <1>5, <1>6

(* No other step writes an answer, and a later change of the log does not  *)
(* touch the one that was given.                                           *)
LEMMA AnswersFollowStep ==
    EngineTyped /\ LogContiguous /\ AnswersFollow /\ [EngineSpecNext]_vars => AnswersFollow'
<1> SUFFICES ASSUME EngineTyped, LogContiguous, AnswersFollow, [EngineSpecNext]_vars
             PROVE  AnswersFollow'
  OBVIOUS
<1>t. call \in [Callers -> CallSet]
  BY DEF EngineTyped, EngineTypeOK
<1>1. ASSUME UNCHANGED call PROVE AnswersFollow'
  BY <1>1 DEF AnswersFollow, AnswerFollows
<1>2. ASSUME NEW c \in Callers, \A d \in Callers \ {c} : call'[d] = call[d],
             call'[c].phase = "idle" => AnswerFollows(c)',
             call'[c].phase = "ack" => call'[c].result.status = "none"
      PROVE  AnswersFollow'
  BY <1>2 DEF AnswersFollow, AnswerFollows
<1>3. ASSUME NEW c \in Callers, NEW s \in Streams, NEW limit \in Limits,
             NEW totalLimit \in TotalLimits, CatchUp(c, s, limit, totalLimit)
      PROVE  AnswersFollow'
  <2>1. call'[c].phase = "head" /\ \A d \in Callers \ {c} : call'[d] = call[d]
    BY <1>3, <1>t DEF CatchUp
  <2> QED
    BY <2>1, <1>2
<1>4. ASSUME NEW c \in Callers, CatchUpHead(c) PROVE AnswersFollow'
  <2>1. call'[c].phase \in {"idle", "read"} /\ \A d \in Callers \ {c} : call'[d] = call[d]
    BY <1>4, <1>t DEF CatchUpHead, CallSet
  <2>2. call'[c].phase = "idle" => call'[c].result.status = "too_long"
    BY <1>4, <1>t DEF CatchUpHead, CallSet, ResultSet
  <2>3. call'[c].phase = "idle" => AnswerFollows(c)'
    BY <2>2 DEF AnswerFollows
  <2> QED
    BY <2>1, <2>3, <1>2
<1>5. ASSUME NEW c \in Callers, CatchUpRead(c) PROVE AnswersFollow'
  <2>1. call'[c].phase = "idle" /\ \A d \in Callers \ {c} : call'[d] = call[d]
    BY <1>5, CatchUpReadTyped
  <2>2. AnswerFollows(c)'
    BY <1>5, CatchUpReadFollows
  <2> QED
    BY <2>1, <2>2, <1>2
<1>6. ASSUME NEW c \in Callers, NEW s \in Streams, NEW seq \in 0..MaxSeq, Ack(c, s, seq)
      PROVE  AnswersFollow'
  <2>1. /\ call'[c].phase = "ack" /\ call'[c].result = NoResult
        /\ \A d \in Callers \ {c} : call'[d] = call[d]
    BY <1>6, <1>t DEF Ack, CallSet
  <2>2. call'[c].result.status = "none"
    BY <2>1 DEF NoResult
  <2> QED
    BY <2>1, <2>2, <1>2
<1>7. ASSUME NEW c \in Callers, AckCursor(c) PROVE AnswersFollow'
  <2>1. /\ call[c].phase = "ack" /\ call'[c].phase = "idle"
        /\ call'[c].result = call[c].result
        /\ \A d \in Callers \ {c} : call'[d] = call[d]
    BY <1>7, <1>t DEF AckCursor, CallSet
  <2>2. call'[c].result.status = "none"
    BY <2>1 DEF AnswersFollow
  <2>3. AnswerFollows(c)'
    BY <2>2 DEF AnswerFollows
  <2> QED
    BY <2>1, <2>3, <1>2
<1>8. CASE EngineNext
  BY <1>8, <1>3, <1>4, <1>5, <1>6, <1>7 DEF EngineNext
<1>9. CASE UNCHANGED vars
  BY <1>9, <1>1 DEF vars
<1> QED
  BY <1>1, <1>8, <1>9 DEF EngineSpecNext, SteadyNext

(* The induction that both theorems below rest on.                         *)
LEMMA AnswersAlwaysFollow == EngineSpec => [](EngineTyped /\ AnswersFollow)
<1>1. EngineInit => LogContiguous
  BY NoStreamFacts DEF EngineInit, Init, LogContiguous
<1>2. EngineInit => AnswersFollow
  BY DEF EngineInit, NoResult, AnswersFollow, AnswerFollows
<1> QED
  BY <1>1, <1>2, EngineTypeInit, EngineTypeStep, EngineContiguousStep, AnswersFollowStep, PTL
  DEF EngineSpec

(* The three reads of CatchUp are not one snapshot; whatever appends,      *)
(* truncates, deletes, resets or acks in between, a batch starts right     *)
(* after the cursor returned with it, has no gap and ends within the head  *)
(* returned with it.                                                       *)
THEOREM BatchesFollowCursors == EngineSpec => []BatchFollowsCursor
<1>1. EngineTyped /\ AnswersFollow => BatchFollowsCursor
  <2> SUFFICES ASSUME AnswersFollow, NEW c \in Callers, Answered(c), Result(c).status = "ok"
               PROVE  LET r == Result(c) IN
                      /\ \A i \in 1..Len(r.seqs) : r.seqs[i] = r.cursor + i
                      /\ Len(r.seqs) <= call[c].limit
                      /\ r.seqs # <<>> => r.seq = r.cursor + Len(r.seqs) /\ r.seq <= r.head
                      /\ r.seqs = <<>> => r.seq = r.head /\ r.cursor >= r.head
    BY DEF BatchFollowsCursor
  <2> QED
    BY DEF AnswersFollow, AnswerFollows, Follows, Answered, Result
<1> QED
  BY <1>1, AnswersAlwaysFollow, PTL

(* A batch says final exactly when it reaches the head returned with it.   *)
THEOREM FinalIsCaughtUp == EngineSpec => []FinalMeansCaughtUp
<1>1. EngineTyped /\ AnswersFollow => FinalMeansCaughtUp
  BY DEF FinalMeansCaughtUp, AnswersFollow, AnswerFollows, Follows, Answered, Result
<1> QED
  BY <1>1, AnswersAlwaysFollow, PTL

-----------------------------------------------------------------------------
(* The refinement, for any number of streams, subscribers and sessions.    *)

ServiceStep == Service!Next \/ UNCHANGED Service!vars

(* Where the boundary of a contiguous log can be.                          *)
LEMMA BoundaryOfContiguous ==
    ASSUME NEW st \in StreamSet, Contiguous(st)
    PROVE  /\ st.head \in Nat /\ st.retained \in Nat /\ Len(st.events) \in Nat
           /\ st.head = 0 => st.retained = 0 /\ Len(st.events) = 0
           /\ st.head > 0 => st.retained = st.head + 1 - Len(st.events) /\ st.retained > 0
<1>1. st.head \in Nat /\ st.retained \in Nat /\ Len(st.events) \in Nat
  BY LenProperties DEF StreamSet
<1>2. st.head = 0 => st.retained = 0 /\ Len(st.events) = 0
  <2>1. Len(<<>>) = 0
    OBVIOUS
  <2> QED
    BY <2>1 DEF Contiguous
<1>3. st.head # 0 => st.retained > 0 /\ st.retained + Len(st.events) = st.head + 1
  BY DEF Contiguous
<1> QED
  BY <1>1, <1>2, <1>3

(* Removing a prefix moves the boundary forward or leaves it.              *)
LEMMA DropPrefixForward ==
    ASSUME NEW st \in StreamSet, Contiguous(st), NEW n \in 0..Len(st.events)
    PROVE  DropPrefix(st, n).retained >= st.retained
<1> DEFINE d == DropPrefix(st, n)
<1> SUFFICES d.retained >= st.retained
  OBVIOUS
<1>1. /\ d \in StreamSet /\ Contiguous(d) /\ d.head = st.head
      /\ Len(d.events) = Len(st.events) - n
  BY DropPrefixParts, DropPrefixContiguous
<1> HIDE DEF d
<1>2. /\ st.head \in Nat /\ st.retained \in Nat /\ Len(st.events) \in Nat
      /\ st.head = 0 => st.retained = 0
      /\ st.head > 0 => st.retained = st.head + 1 - Len(st.events)
  BY BoundaryOfContiguous
<1>3. /\ d.retained \in Nat
      /\ d.head = 0 => d.retained = 0
      /\ d.head > 0 => d.retained = d.head + 1 - Len(d.events)
  BY <1>1, BoundaryOfContiguous
<1>4. CASE st.head = 0
  BY <1>1, <1>2, <1>3, <1>4
<1>5. CASE st.head > 0
  <2>1. d.retained = st.head + 1 - (Len(st.events) - n)
    BY <1>1, <1>3, <1>5
  <2>2. st.retained = st.head + 1 - Len(st.events) /\ n \in Nat
    BY <1>2, <1>5
  <2>3. \A h, l, k \in Nat : h + 1 - (l - k) >= h + 1 - l
    OBVIOUS
  <2> QED
    BY <2>1, <2>2, <2>3, <1>2
<1> QED
  BY <1>2, <1>4, <1>5

(* Truncation and retention remove prefixes.                               *)
LEMMA TruncateForward ==
    ASSUME NEW st \in StreamSet, Contiguous(st), NEW before
    PROVE  TruncateBefore(st, before).retained >= st.retained
<1>1. PrefixBelow(st.events, before) \in 0..Len(st.events)
  BY PrefixBelowBound DEF StreamSet
<1> QED
  BY <1>1, DropPrefixForward DEF TruncateBefore

LEMMA RetentionForward ==
    ASSUME NEW st \in StreamSet, Contiguous(st), NEW policy \in RetentionSet, NEW t
    PROVE  ApplyRetention(st, policy, t).retained >= st.retained
<1>1. Excess(st, policy, t) \in Int /\ Excess(st, policy, t) <= Len(st.events)
  BY ExcessBound
<1>2. CASE Excess(st, policy, t) > 0
  <2>1. Excess(st, policy, t) \in 0..Len(st.events)
    BY <1>1, <1>2, LenProperties DEF StreamSet
  <2> QED
    BY <2>1, <1>2, DropPrefixForward DEF ApplyRetention
<1>3. CASE ~(Excess(st, policy, t) > 0)
  BY <1>3, BoundaryOfContiguous DEF ApplyRetention
<1> QED
  BY <1>2, <1>3

-----------------------------------------------------------------------------
(* A step that leaves the logs, the cursors and the calls alone, or one    *)
(* that replaces one log by one that has moved forward.                    *)
LEMMA QuietIsService ==
    ASSUME UNCHANGED <<streams, cursors, call>>
    PROVE  ServiceStep
BY DEF ServiceStep, Service!vars, Request, CursorSeq

LEMMA LogMoveIsService ==
    ASSUME TypeOK, NEW s \in Streams, Contiguous(streams[s]),
           NEW st \in StreamSet, Contiguous(st),
           streams' = [streams EXCEPT ![s] = st], UNCHANGED <<cursors, call>>,
           st.head = streams[s].head \/ st.head = streams[s].head + 1,
           st.retained >= streams[s].retained
    PROVE  ServiceStep
<1> DEFINE H == [r \in Streams |-> streams[r].head]
           R == [r \in Streams |-> streams[r].retained]
<1>1. /\ streams \in [Streams -> StreamSet] /\ streams[s] \in StreamSet
      /\ streams[s].head \in Nat /\ streams[s].retained \in Nat
      /\ st.head \in Nat /\ st.retained \in Nat
      /\ H[s] = streams[s].head /\ R[s] = streams[s].retained
  BY BoundaryOfContiguous DEF TypeOK
<1>2. /\ H' = [H EXCEPT ![s] = st.head]
      /\ R' = [R EXCEPT ![s] = st.retained]
  BY <1>1
<1>3. /\ [p \in Subscribers \X Streams |-> CursorSeq(p[1], p[2])]'
            = [p \in Subscribers \X Streams |-> CursorSeq(p[1], p[2])]
      /\ [c \in Callers |-> Request(c)]' = [c \in Callers |-> Request(c)]
  BY DEF Request, CursorSeq
<1>4. /\ st.head = 0 => st.retained = 0
      /\ st.head > 0 => st.retained > 0
      /\ st.retained <= st.head + 1
      /\ streams[s].head = 0 => streams[s].retained = 0
  <2>1. /\ st.head = 0 => st.retained = 0 /\ Len(st.events) = 0
        /\ st.head > 0 => st.retained = st.head + 1 - Len(st.events) /\ st.retained > 0
        /\ Len(st.events) \in Nat
    BY BoundaryOfContiguous
  <2>2. streams[s].head = 0 => streams[s].retained = 0
    BY <1>1, BoundaryOfContiguous
  <2> QED
    BY <2>1, <2>2, <1>1
<1> HIDE DEF H, R
<1>5. CASE st.head = streams[s].head + 1
  <2>1. Service!Publish(s, st.retained)
    <3>1. st.retained >= Larger(R[s], 1) /\ st.retained <= H[s] + 2
      BY <1>1, <1>4, <1>5 DEF Larger
    <3>2. H' = [H EXCEPT ![s] = H[s] + 1]
      BY <1>1, <1>2, <1>5
    <3> QED
      BY <3>1, <3>2, <1>2, <1>3 DEF Service!Publish, Service!Larger, Larger, H, R
  <2>2. st.retained \in R[s]..(H[s] + 2)
    BY <1>1, <1>4, <1>5
  <2> QED
    BY <2>1, <2>2 DEF ServiceStep, Service!Next, H, R
<1>6. CASE st.head = streams[s].head /\ st.retained > streams[s].retained
  <2>1. st.retained > R[s] /\ st.retained <= H[s] + 1 /\ H[s] > 0
    BY <1>1, <1>4, <1>6
  <2>2. H' = H
    BY <1>1, <1>2, <1>6 DEF H
  <2>3. Service!Discard(s, st.retained)
    BY <2>1, <2>2, <1>2, <1>3 DEF Service!Discard, H, R
  <2>4. st.retained \in R[s]..(H[s] + 1)
    BY <1>1, <2>1
  <2> QED
    BY <2>3, <2>4 DEF ServiceStep, Service!Next, H, R
<1>7. CASE st.head = streams[s].head /\ st.retained = streams[s].retained
  <2>1. H' = H /\ R' = R
    BY <1>1, <1>2, <1>7 DEF H, R
  <2> QED
    BY <2>1, <1>3 DEF ServiceStep, Service!vars, H, R
<1> QED
  BY <1>1, <1>5, <1>6, <1>7

(* Producers, retention, truncation, compaction and the clock.             *)
LEMMA StoreStepIsService ==
    ASSUME TypeOK, LogContiguous, UNCHANGED call,
           ProducerNext \/ RetentionNext \/ CompactNext \/ Tick
    PROVE  ServiceStep
<1>t. /\ streams \in [Streams -> StreamSet] /\ retention \in [Streams -> RetentionSet]
      /\ compacting \in [Compactors -> CompactSet] /\ now \in Nat
      /\ \A s \in Streams : streams[s] \in StreamSet /\ Contiguous(streams[s])
  BY DEF TypeOK, LogContiguous
<1>1. ASSUME NEW s \in Streams, NEW key \in Keys \cup {NoKey}, StampedAppend(s, key)
      PROVE  ServiceStep
  <2> DEFINE st == AppendEvent(streams[s], key, now)
             new == ApplyRetention(st, retention[s], now)
  <2>1. st \in StreamSet /\ Contiguous(st) /\ st.head = streams[s].head + 1
    BY <1>t, AppendEventContiguous
  <2>2. st.retained >= streams[s].retained
    <3>1. streams[s].retained \in Nat /\ streams[s].head \in Nat
      BY <1>t, BoundaryOfContiguous
    <3>2. st.retained \in {streams[s].retained, streams[s].head + 1}
          /\ (streams[s].retained > streams[s].head + 1 => st.retained = streams[s].head + 1)
      BY <3>1 DEF AppendEvent
    <3>3. streams[s].retained <= streams[s].head + 1
      <4>1. Len(streams[s].events) \in Nat
        BY <1>t, BoundaryOfContiguous
      <4>2. \A h, l \in Nat : h + 1 - l <= h + 1
        OBVIOUS
      <4>3. streams[s].head = 0 => streams[s].retained = 0
        BY <1>t, BoundaryOfContiguous
      <4>4. streams[s].head > 0 =>
              streams[s].retained = streams[s].head + 1 - Len(streams[s].events)
        BY <1>t, BoundaryOfContiguous
      <4> QED
        BY <3>1, <4>1, <4>2, <4>3, <4>4
    <3> QED
      BY <3>1, <3>2, <3>3
  <2> HIDE DEF st
  <2>3. /\ new \in StreamSet /\ new.head = st.head /\ Contiguous(new)
        /\ new.retained >= st.retained
    BY <2>1, <1>t, ApplyRetentionContiguous, RetentionForward
  <2>4. streams' = [streams EXCEPT ![s] = new] /\ cursors' = cursors
    BY <1>1 DEF StampedAppend, AppendNew, st
  <2> HIDE DEF new
  <2>5. /\ new.head = streams[s].head + 1 /\ new.retained >= streams[s].retained
    <3>1. new.retained \in Nat /\ st.retained \in Nat /\ streams[s].retained \in Nat
      BY <1>t, <2>1, <2>3, BoundaryOfContiguous
    <3> QED
      BY <3>1, <2>1, <2>2, <2>3
  <2> QED
    BY <1>t, <2>3, <2>4, <2>5, LogMoveIsService
<1>2. ASSUME NEW s \in Streams, NEW key \in Keys, AppendRetry(s, key) PROVE ServiceStep
  BY <1>2, QuietIsService DEF AppendRetry, storeVars
<1>3. ASSUME NEW s \in Streams, NEW before, TruncateStream(s, before) PROVE ServiceStep
  <2> DEFINE new == TruncateBefore(streams[s], before)
  <2>1. /\ new \in StreamSet /\ new.head = streams[s].head /\ Contiguous(new)
        /\ new.retained >= streams[s].retained
    BY <1>t, TruncateBeforeContiguous, TruncateForward
  <2>2. streams' = [streams EXCEPT ![s] = new] /\ cursors' = cursors
    BY <1>3 DEF TruncateStream
  <2> HIDE DEF new
  <2> QED
    BY <1>t, <2>1, <2>2, LogMoveIsService
<1>4. ASSUME NEW s \in Streams, NEW policy \in Retentions, SetStreamRetention(s, policy)
      PROVE  ServiceStep
  <2> DEFINE new == ApplyRetention(streams[s], policy, now)
  <2>1. policy \in RetentionSet
    BY StoreAssumption
  <2>2. /\ new \in StreamSet /\ new.head = streams[s].head /\ Contiguous(new)
        /\ new.retained >= streams[s].retained
    BY <1>t, <2>1, ApplyRetentionContiguous, RetentionForward
  <2>3. streams' = [streams EXCEPT ![s] = new] /\ cursors' = cursors
    BY <1>4 DEF SetStreamRetention
  <2> HIDE DEF new
  <2> QED
    BY <1>t, <2>2, <2>3, LogMoveIsService
<1>5. ASSUME NEW c \in Compactors, NEW s \in Streams, CompactMinimum(c, s) PROVE ServiceStep
  BY <1>5, QuietIsService DEF CompactMinimum
<1>6. ASSUME NEW c \in Compactors, CompactTruncate(c) PROVE ServiceStep
  <2> DEFINE s == compacting[c].stream
             new == TruncateBefore(streams[s], compacting[c].min + 1)
  <2>1. s \in Streams
    BY <1>t DEF CompactSet
  <2>2. /\ new \in StreamSet /\ new.head = streams[s].head /\ Contiguous(new)
        /\ new.retained >= streams[s].retained
    <3> HIDE DEF s
    <3> QED
      BY <1>t, <2>1, TruncateBeforeContiguous, TruncateForward
  <2>3. streams' = [streams EXCEPT ![s] = new] /\ cursors' = cursors
    BY <1>6 DEF CompactTruncate
  <2> HIDE DEF new, s
  <2> QED
    BY <1>t, <2>1, <2>2, <2>3, LogMoveIsService
<1>7. CASE Tick
  BY <1>7, QuietIsService DEF Tick
<1> QED
  BY <1>1, <1>2, <1>3, <1>4, <1>5, <1>6, <1>7 DEF ProducerNext, RetentionNext, CompactNext

-----------------------------------------------------------------------------
(* A step of one call, seen from outside.                                  *)
Requests == [c \in Callers |-> Request(c)]

LEMMA OneCallMoves ==
    ASSUME NEW c \in Callers, NEW d, UNCHANGED streams,
           call' = [call EXCEPT ![c] = d], call \in [Callers -> CallSet]
    PROVE  /\ [s \in Streams |-> streams[s].head]' = [s \in Streams |-> streams[s].head]
           /\ [s \in Streams |-> streams[s].retained]' = [s \in Streams |-> streams[s].retained]
           /\ Requests' = [Requests EXCEPT ![c] = Request(c)']
           /\ call'[c] = d
<1>1. call'[c] = d /\ \A b \in Callers \ {c} : call'[b] = call[b]
  OBVIOUS
<1>2. \A b \in Callers \ {c} : Request(b)' = Request(b)
  BY <1>1 DEF Request
<1> QED
  BY <1>1, <1>2 DEF Requests

Cursors == [p \in Subscribers \X Streams |-> CursorSeq(p[1], p[2])]

(* CatchUp asks.                                                           *)
LEMMA CatchUpAsks ==
    ASSUME EngineTyped, NEW c \in Callers, NEW s \in Streams, NEW limit \in Limits,
           NEW totalLimit \in TotalLimits, CatchUp(c, s, limit, totalLimit)
    PROVE  ServiceStep
<1> DEFINE from == CursorSeq(SubscriberOf[c], s)
           r == [NoResult EXCEPT !.cursor = from]
           d == [phase |-> "head", stream |-> s, limit |-> limit,
                 totalLimit |-> totalLimit, seq |-> 0, result |-> r]
<1>1. /\ call' = [call EXCEPT ![c] = d] /\ streams' = streams /\ cursors' = cursors
      /\ call \in [Callers -> CallSet] /\ call[c].phase = "idle"
  BY DEF CatchUp, storeVars, EngineTyped, EngineTypeOK
<1>2. r.cursor = from
  BY DEF NoResult
<1>3. Requests' = [Requests EXCEPT ![c] = Request(c)'] /\ call'[c] = d
  <2> HIDE DEF d
  <2> QED
    BY <1>1, OneCallMoves
<1>4. Request(c)' = [phase |-> "asked", stream |-> s, limit |-> limit,
                     totalLimit |-> totalLimit, from |-> from]
  <2> HIDE DEF r
  <2> QED
    BY <1>2, <1>3 DEF Request
<1>5. Requests[c].phase # "asked"
  BY <1>1 DEF Requests, Request
<1>6. Cursors[<<SubscriberOf[c], s>>] = from /\ Cursors' = Cursors
  BY <1>1, EngineAssumption DEF Cursors, CursorSeq
<1> HIDE DEF from, d
<1>7. Service!Ask(c, s, limit, totalLimit)
  BY <1>1, <1>3, <1>4, <1>5, <1>6 DEF Service!Ask, Service!Asked, Requests, Cursors
<1> QED
  BY <1>7 DEF ServiceStep, Service!Next

(* CatchUpHead answers TOO_LONG, or nothing can be seen.                   *)
LEMMA CatchUpHeadAnswers ==
    ASSUME EngineTyped, NEW c \in Callers, CatchUpHead(c)
    PROVE  ServiceStep
<1> DEFINE st == streams[call[c].stream]
           r == [call[c].result EXCEPT !.head = st.head, !.retained = st.retained]
           tooLong == [r EXCEPT !.status = "too_long"]
           q == Request(c)
<1>1. /\ call \in [Callers -> CallSet] /\ call[c] \in CallSet /\ call[c].phase = "head"
      /\ streams' = streams /\ cursors' = cursors /\ call[c].stream \in Streams
      /\ call[c].result \in ResultSet
  BY DEF CatchUpHead, storeVars, EngineTyped, EngineTypeOK, CallSet
<1>2. /\ r.cursor = call[c].result.cursor /\ tooLong.cursor = r.cursor
      /\ tooLong.status = "too_long"
  <2> HIDE DEF st
  <2> QED
    BY <1>1 DEF ResultSet
<1>3. q = [phase |-> "asked", stream |-> call[c].stream, limit |-> call[c].limit,
           totalLimit |-> call[c].totalLimit, from |-> call[c].result.cursor]
  BY <1>1 DEF Request
<1>4. CASE \/ ReplayTooOld(r.cursor, st.retained)
           \/ ReplayOverBudget(r.cursor, st.head, call[c].totalLimit)
  <2> DEFINE d == [call[c] EXCEPT !.phase = "idle", !.result = tooLong]
  <2>1. call' = [call EXCEPT ![c] = d]
    BY <1>4 DEF CatchUpHead
  <2>2. d.phase = "idle" /\ d.result = tooLong /\ d.stream = call[c].stream
    <3> HIDE DEF tooLong
    <3> QED
      BY <1>1 DEF CallSet
  <2> HIDE DEF d
  <2>3. Requests' = [Requests EXCEPT ![c] = Request(c)'] /\ call'[c] = d
    BY <1>1, <2>1, OneCallMoves
  <2>4. Request(c)' = [phase |-> "answered", stream |-> q.stream, from |-> q.from,
                       answer |-> [status |-> "too_long"]]
    <3> HIDE DEF tooLong, r
    <3> QED
      BY <1>2, <1>3, <2>2, <2>3 DEF Request
  <2>5. ReplayTooOld(q.from, streams[q.stream].retained)
        \/ ReplayOverBudget(q.from, streams[q.stream].head, q.totalLimit)
    <3> HIDE DEF r
    <3> QED
      BY <1>2, <1>3, <1>4
  <2>6. Requests[c] = q /\ q.phase = "asked" /\ q.stream \in Streams
    BY <1>1, <1>3 DEF Requests
  <2>7. Cursors' = Cursors
    BY <1>1 DEF Cursors, CursorSeq
  <2> HIDE DEF q, r, tooLong
  <2>8. Service!AnswerTooLong(c)
    BY <1>1, <2>3, <2>4, <2>5, <2>6, <2>7
    DEF Service!AnswerTooLong, Service!Answered, Service!TooLong, Requests, Cursors,
        Service!ReplayTooOld, ReplayTooOld, Service!ReplayOverBudget, ReplayOverBudget
  <2> QED
    BY <2>8 DEF ServiceStep, Service!Next
<1>5. CASE ~(\/ ReplayTooOld(r.cursor, st.retained)
             \/ ReplayOverBudget(r.cursor, st.head, call[c].totalLimit))
  <2> DEFINE d == [call[c] EXCEPT !.phase = "read", !.result = r]
  <2>1. call' = [call EXCEPT ![c] = d]
    BY <1>5 DEF CatchUpHead
  <2>2. /\ d.phase = "read" /\ d.result = r /\ d.stream = call[c].stream
        /\ d.limit = call[c].limit /\ d.totalLimit = call[c].totalLimit
    <3> HIDE DEF r
    <3> QED
      BY <1>1 DEF CallSet
  <2> HIDE DEF d
  <2>3. Requests' = [Requests EXCEPT ![c] = Request(c)'] /\ call'[c] = d
    BY <1>1, <2>1, OneCallMoves
  <2>4. Request(c)' = q
    <3> HIDE DEF r
    <3> QED
      BY <1>2, <1>3, <2>2, <2>3 DEF Request
  <2>5. Requests' = Requests
    BY <2>3, <2>4 DEF Requests
  <2> QED
    BY <1>1, <2>5 DEF ServiceStep, Service!vars, Requests, CursorSeq
<1> QED
  BY <1>4, <1>5

-----------------------------------------------------------------------------
(* A batch read from a contiguous log is as long as the limit and the head *)
(* allow.                                                                  *)
LEMMA ReadBatchLength ==
    ASSUME NEW st \in StreamSet, Contiguous(st), NEW after \in Nat, ~ReadTooLong(st, after),
           NEW limit \in Nat \ {0}, ReadBatch(st, after, limit).seqs # <<>>
    PROVE  after + Len(ReadBatch(st, after, limit).seqs) = Smaller(after + limit, st.head)
<1> DEFINE L == Len(st.events)
           skip == PrefixBelow(st.events, after + 1)
           last == Smaller(skip + limit, L)
           sent == SubSeq(st.events, skip + 1, last)
           n == Len(ReadBatch(st, after, limit).seqs)
<1>1. /\ st.events \in Seq(EventSet) /\ L \in Nat /\ skip \in 0..L
      /\ st.head \in Nat /\ st.retained \in Nat
  BY LenProperties, PrefixBelowBound DEF StreamSet
<1>2. skip # L
  BY DEF ReadBatch
<1>3. skip = after + 1 - st.retained /\ st.retained + L = st.head + 1
  <2>1. skip = IF st.head = 0 THEN 0 ELSE Smaller(L, after + 1 - st.retained)
    BY SkipInContiguousLog
  <2>2. IF st.head = 0 THEN L = 0 ELSE st.retained + L = st.head + 1
    <3>1. Len(<<>>) = 0
      OBVIOUS
    <3> QED
      BY <3>1 DEF Contiguous
  <2> HIDE DEF skip, L
  <2> QED
    BY <1>1, <1>2, <2>1, <2>2 DEF Smaller
<1>4. last \in (skip + 1)..L
  <2> HIDE DEF skip, L
  <2> QED
    BY <1>1, <1>2 DEF Smaller
<1>5. Len(sent) = last - skip
  <2> HIDE DEF skip, last
  <2> QED
    BY <1>1, <1>4, SubSeqProperties
<1>6. n = Len(sent)
  <2>1. ReadBatch(st, after, limit).seqs = [i \in 1..Len(sent) |-> sent[i].seq]
    BY <1>2 DEF ReadBatch
  <2>2. Len(sent) \in Nat
    <3> HIDE DEF sent, skip, L, last
    <3> QED
      BY <1>1, <1>4, <1>5
  <2> HIDE DEF sent
  <2> QED
    BY <2>1, <2>2
<1>7. last = IF skip + limit <= L THEN skip + limit ELSE L
  BY DEF Smaller
<1> SUFFICES after + n = Smaller(after + limit, st.head)
  OBVIOUS
<1> HIDE DEF L, skip, last, sent, n
<1>8. n = last - skip /\ last \in Nat /\ skip \in Nat
  BY <1>1, <1>4, <1>5, <1>6
<1>9. \A a, k, r, l, h : a \in Nat /\ k \in Nat /\ r \in Nat /\ l \in Nat /\ h \in Nat /\ r + l = h + 1 =>
        /\ (a + 1 - r) + k <= l <=> a + k <= h
        /\ a + (((a + 1 - r) + k) - (a + 1 - r)) = a + k
        /\ a + (l - (a + 1 - r)) = h
  OBVIOUS
<1>10. /\ (after + 1 - st.retained) + limit <= L <=> after + limit <= st.head
       /\ after + (((after + 1 - st.retained) + limit) - (after + 1 - st.retained)) = after + limit
       /\ after + (L - (after + 1 - st.retained)) = st.head
  <2>1. st.retained \in Nat /\ L \in Nat /\ st.head \in Nat /\ limit \in Nat
        /\ st.retained + L = st.head + 1
    BY <1>1, <1>3
  <2> QED
    BY <2>1, <1>9
<1> QED
  BY <1>3, <1>7, <1>8, <1>10 DEF Smaller

(* So it is the batch the service promises.                                *)
LEMMA ReadBatchIsPromised ==
    ASSUME NEW st \in StreamSet, Contiguous(st), NEW after \in Nat, ~ReadTooLong(st, after),
           NEW limit \in Nat \ {0}
    PROVE  [status |-> "ok", head |-> st.head, seqs |-> ReadBatch(st, after, limit).seqs,
            final |-> ReadBatch(st, after, limit).final]
              = Service!Batch(after, limit, st.head)
<1> DEFINE batch == ReadBatch(st, after, limit)
           seq == Smaller(after + limit, st.head)
<1>1. /\ batch.seqs \in Seq(Nat) /\ batch.seq \in Nat /\ batch.final \in BOOLEAN
      /\ st.head \in Nat
  BY ReadBatchType DEF StreamSet
<1>2. Follows(after, st.head, limit, batch.seqs, batch.seq, batch.final)
  BY ReadBatchFollows
<1>3. batch.seqs # <<>> => after + Len(batch.seqs) = seq
  BY ReadBatchLength
<1> HIDE DEF batch
<1>4. batch.seqs = [i \in 1..(seq - after) |-> after + i] /\ (batch.final <=> seq = st.head)
  <2>1. CASE batch.seqs = <<>>
    <3>1. seq = st.head /\ seq - after <= 0 /\ batch.final
      BY <1>1, <1>2, <2>1 DEF Follows, Smaller
    <3>2. [i \in 1..(seq - after) |-> after + i] = <<>>
      <4> HIDE DEF seq
      <4>1. 1..(seq - after) = {}
        BY <3>1, <1>1
      <4> QED
        BY <4>1
    <3> QED
      BY <2>1, <3>1, <3>2
  <2>2. CASE batch.seqs # <<>>
    <3>1. seq \in Nat /\ Len(batch.seqs) \in Nat /\ Len(batch.seqs) = seq - after
      BY <1>1, <1>3, <2>2, LenProperties DEF Smaller
    <3>2. batch.seq = seq /\ \A i \in 1..Len(batch.seqs) : batch.seqs[i] = after + i
      <4> HIDE DEF seq
      <4> QED
        BY <1>2, <1>3, <2>2 DEF Follows
    <3>3. batch.seqs = [i \in 1..Len(batch.seqs) |-> batch.seqs[i]]
      BY <1>1, LenProperties
    <3>4. batch.final <=> seq = st.head
      BY <1>2, <3>2 DEF Follows
    <3> HIDE DEF seq
    <3> QED
      BY <3>1, <3>2, <3>3, <3>4
  <2> QED
    BY <2>1, <2>2
<1>5. batch.final = (seq = st.head)
  BY <1>1, <1>4
<1> QED
  BY <1>4, <1>5 DEF batch, Service!Batch, Service!Smaller, Smaller

(* CatchUpRead answers.                                                    *)
LEMMA CatchUpReadAnswers ==
    ASSUME EngineTyped, LogContiguous, NEW c \in Callers, CatchUpRead(c)
    PROVE  ServiceStep
<1> DEFINE st == streams[call[c].stream]
           r == call[c].result
           batch == ReadBatch(st, r.cursor, call[c].limit)
           tooLong == [r EXCEPT !.status = "too_long"]
           ok == [status |-> "ok", cursor |-> r.cursor, head |-> st.head,
                  retained |-> st.retained, seqs |-> batch.seqs, seq |-> batch.seq,
                  final |-> batch.final]
           answer == IF ReadTooLong(st, r.cursor) THEN tooLong ELSE ok
           d == [call[c] EXCEPT !.phase = "idle", !.result = answer]
           q == Request(c)
<1>1. /\ call \in [Callers -> CallSet] /\ call[c] \in CallSet /\ call[c].phase = "read"
      /\ streams' = streams /\ cursors' = cursors /\ call[c].stream \in Streams
      /\ r \in ResultSet /\ r.cursor \in Nat /\ st \in StreamSet /\ Contiguous(st)
      /\ call[c].limit \in Nat \ {0}
  <2>1. /\ call \in [Callers -> CallSet] /\ streams \in [Streams -> StreamSet]
        /\ call[c].phase = "read" /\ streams' = streams /\ cursors' = cursors
    BY DEF CatchUpRead, storeVars, EngineTyped, EngineTypeOK, TypeOK
  <2>2. call[c] \in CallSet /\ call[c].stream \in Streams /\ r \in ResultSet
    BY <2>1 DEF CallSet
  <2>3. r.cursor \in Nat
    <3> HIDE DEF r
    <3> QED
      BY <2>2 DEF ResultSet
  <2>4. call[c].limit \in Nat \ {0}
    BY <2>1, EngineAssumption DEF EngineTyped, ReadsWithLimit
  <2>5. st \in StreamSet /\ Contiguous(st)
    BY <2>1, <2>2 DEF LogContiguous
  <2> QED
    BY <2>1, <2>2, <2>3, <2>4, <2>5
<1>2. q = [phase |-> "asked", stream |-> call[c].stream, limit |-> call[c].limit,
           totalLimit |-> call[c].totalLimit, from |-> r.cursor]
  BY <1>1 DEF Request
<1>3. Requests[c] = q /\ q.phase = "asked" /\ q.stream = call[c].stream
      /\ q.limit = call[c].limit /\ q.from = r.cursor
  BY <1>1, <1>2 DEF Requests
<1>4. call' = [call EXCEPT ![c] = d]
  BY DEF CatchUpRead
<1>5. d.phase = "idle" /\ d.result = answer /\ d.stream = call[c].stream
  <2> HIDE DEF answer
  <2> QED
    BY <1>1 DEF CallSet
<1>6. Requests' = [Requests EXCEPT ![c] = Request(c)'] /\ call'[c] = d
  <2> HIDE DEF d
  <2> QED
    BY <1>1, <1>4, OneCallMoves
<1>7. Cursors' = Cursors
  BY <1>1 DEF Cursors, CursorSeq
<1>8. CASE ReadTooLong(st, r.cursor)
  <2>1. answer = tooLong /\ tooLong.status = "too_long" /\ tooLong.cursor = r.cursor
    BY <1>1, <1>8 DEF ResultSet
  <2> HIDE DEF d, answer, tooLong
  <2>2. Request(c)' = [phase |-> "answered", stream |-> q.stream, from |-> q.from,
                       answer |-> [status |-> "too_long"]]
    <3> HIDE DEF q, r
    <3> QED
      BY <1>3, <1>5, <1>6, <2>1 DEF Request
  <2>3. ReplayTooOld(q.from, streams[q.stream].retained)
    BY <1>3, <1>8 DEF ReadTooLong
  <2> HIDE DEF q, r, st
  <2>4. Service!AnswerTooLong(c)
    BY <1>1, <1>3, <1>6, <1>7, <2>2, <2>3
    DEF Service!AnswerTooLong, Service!Answered, Service!TooLong, Requests, Cursors,
        Service!ReplayTooOld, ReplayTooOld
  <2> QED
    BY <2>4 DEF ServiceStep, Service!Next
<1>9. CASE ~ReadTooLong(st, r.cursor)
  <2> DEFINE promised == [status |-> "ok", head |-> st.head, seqs |-> batch.seqs,
                          final |-> batch.final]
  <2>1. promised = Service!Batch(r.cursor, call[c].limit, st.head)
    <3> HIDE DEF r, st
    <3> QED
      BY <1>1, <1>9, ReadBatchIsPromised
  <2>2. /\ answer.status = "ok" /\ answer.cursor = r.cursor
        /\ answer.head = st.head /\ answer.seqs = batch.seqs /\ answer.final = batch.final
    <3> HIDE DEF batch, r, st
    <3> QED
      BY <1>9
  <2> HIDE DEF d, answer, batch
  <2>3. Request(c)' = [phase |-> "answered", stream |-> q.stream, from |-> q.from,
                       answer |-> promised]
    <3> HIDE DEF q, r, st
    <3> QED
      BY <1>3, <1>5, <1>6, <2>2 DEF Request
  <2>4. ~ReplayTooOld(q.from, streams[q.stream].retained)
    BY <1>3, <1>9 DEF ReadTooLong
  <2>5. promised = Service!Batch(q.from, q.limit, streams[q.stream].head)
    <3> HIDE DEF q, r, promised
    <3> QED
      BY <1>3, <2>1
  <2> HIDE DEF q, r, st, promised
  <2>6. Service!AnswerBatch(c)
    BY <1>1, <1>3, <1>6, <1>7, <2>3, <2>4, <2>5
    DEF Service!AnswerBatch, Service!Answered, Requests, Cursors,
        Service!ReplayTooOld, ReplayTooOld
  <2> QED
    BY <2>6 DEF ServiceStep, Service!Next
<1> QED
  BY <1>8, <1>9

(* An ack forgets the answer before it, if there was one.                  *)
LEMMA AckForgets ==
    ASSUME EngineTyped, NEW c \in Callers, NEW s \in Streams, NEW seq, Ack(c, s, seq)
    PROVE  ServiceStep
<1> DEFINE d == [call[c] EXCEPT !.phase = "ack", !.stream = s, !.seq = seq, !.result = NoResult]
<1>1. /\ call \in [Callers -> CallSet] /\ call[c] \in CallSet /\ call[c].phase = "idle"
      /\ streams' = streams /\ cursors' = cursors
  BY DEF Ack, storeVars, EngineTyped, EngineTypeOK
<1>2. call' = [call EXCEPT ![c] = d]
  BY DEF Ack
<1>3. d.phase = "ack" /\ d.result.status = "none"
  BY <1>1 DEF CallSet, NoResult
<1>4. Requests' = [Requests EXCEPT ![c] = Request(c)'] /\ call'[c] = d
  <2> HIDE DEF d
  <2> QED
    BY <1>1, <1>2, OneCallMoves
<1>5. Request(c)' = [phase |-> "none"]
  <2> HIDE DEF d
  <2> QED
    BY <1>3, <1>4 DEF Request
<1>6. Cursors' = Cursors
  BY <1>1 DEF Cursors, CursorSeq
<1>7. CASE call[c].result.status = "none"
  <2>1. Request(c) = [phase |-> "none"]
    BY <1>1, <1>7 DEF Request
  <2>2. Requests' = Requests
    BY <1>4, <1>5, <2>1 DEF Requests
  <2> QED
    BY <1>1, <1>6, <2>2 DEF ServiceStep, Service!vars, Requests, Cursors
<1>8. CASE call[c].result.status # "none"
  <2>1. Requests[c].phase = "answered"
    BY <1>1, <1>8 DEF Requests, Request
  <2> HIDE DEF d
  <2>2. Service!Forget(c)
    BY <1>1, <1>4, <1>5, <1>6, <2>1 DEF Service!Forget, Service!NoRequest, Requests, Cursors
  <2> QED
    BY <2>2 DEF ServiceStep, Service!Next
<1> QED
  BY <1>7, <1>8

(* The cursor update commits, or keeps the cursor that is further.         *)
LEMMA AckCursorCommits ==
    ASSUME EngineTyped, AnswersFollow, AcksWithinHead, NEW c \in Callers, AckCursor(c)
    PROVE  ServiceStep
<1> DEFINE u == SubscriberOf[c]
           s == call[c].stream
           seq == call[c].seq
           d == [call[c] EXCEPT !.phase = "idle"]
<1>1. /\ call \in [Callers -> CallSet] /\ call[c] \in CallSet /\ call[c].phase = "ack"
      /\ streams' = streams /\ s \in Streams /\ u \in Subscribers /\ seq \in Nat
      /\ seq <= streams[s].head /\ call[c].result.status = "none"
      /\ streams[s].head \in Nat
      /\ cursors \in [Subscribers \X Streams -> Int]
  <2>1. /\ call \in [Callers -> CallSet] /\ streams \in [Streams -> StreamSet]
        /\ cursors \in [Subscribers \X Streams -> Nat \cup {NoCursor}]
    BY DEF EngineTyped, EngineTypeOK, TypeOK
  <2>2. call[c].phase = "ack" /\ streams' = streams
    BY DEF AckCursor, StoreAck
  <2>3. call[c] \in CallSet /\ s \in Streams /\ seq \in Nat /\ u \in Subscribers
    BY <2>1, EngineAssumption DEF CallSet
  <2>4. streams[s] \in StreamSet
    <3> HIDE DEF s
    <3> QED
      BY <2>1, <2>3
  <2>5. streams[s].head \in Nat
    <3> HIDE DEF s
    <3> QED
      BY <2>4 DEF StreamSet
  <2>6. seq <= streams[s].head /\ call[c].result.status = "none"
    BY <2>2 DEF AcksWithinHead, AnswersFollow
  <2>7. cursors \in [Subscribers \X Streams -> Int]
    BY <2>1 DEF NoCursor
  <2> QED
    BY <2>1, <2>2, <2>3, <2>5, <2>6, <2>7
<1>2. /\ call' = [call EXCEPT ![c] = d]
      /\ cursors' = [cursors EXCEPT ![<<u, s>>] =
                       IF seq > CursorSeq(u, s) THEN seq ELSE cursors[<<u, s>>]]
  BY DEF AckCursor, StoreAck
<1>3. d.phase = "idle" /\ d.result.status = "none"
  BY <1>1 DEF CallSet
<1>4. Requests' = [Requests EXCEPT ![c] = Request(c)'] /\ call'[c] = d
  <2> HIDE DEF d
  <2> QED
    BY <1>1, <1>2, OneCallMoves
<1>5. Requests' = Requests
  <2> HIDE DEF d
  <2>1. Request(c)' = [phase |-> "none"] /\ Request(c) = [phase |-> "none"]
    BY <1>1, <1>3, <1>4 DEF Request
  <2> QED
    BY <1>4, <2>1 DEF Requests
<1> HIDE DEF d
<1>6. CursorSeq(u, s) \in Nat /\ Cursors[<<u, s>>] = CursorSeq(u, s)
  BY <1>1 DEF Cursors, CursorSeq, Larger
<1>7. CASE seq > CursorSeq(u, s)
  <2>1. cursors' = [cursors EXCEPT ![<<u, s>>] = seq]
    BY <1>2, <1>7
  <2>2. Cursors' = [Cursors EXCEPT ![<<u, s>>] = seq]
    <3>1. \A p \in Subscribers \X Streams :
             CursorSeq(p[1], p[2])' = IF p = <<u, s>> THEN seq ELSE CursorSeq(p[1], p[2])
      <4> SUFFICES ASSUME NEW p \in Subscribers \X Streams
                   PROVE  CursorSeq(p[1], p[2])' =
                             IF p = <<u, s>> THEN seq ELSE CursorSeq(p[1], p[2])
        OBVIOUS
      <4>1. p = <<p[1], p[2]>>
        OBVIOUS
      <4> HIDE DEF u, s, seq
      <4>2. cursors'[p] = IF p = <<u, s>> THEN seq ELSE cursors[p]
        BY <1>1, <2>1
      <4> QED
        BY <1>1, <4>1, <4>2 DEF CursorSeq, Larger
    <3> HIDE DEF u, s, seq
    <3> QED
      BY <3>1 DEF Cursors
  <2>3. seq \in 1..streams[s].head
    BY <1>1, <1>6, <1>7
  <2> HIDE DEF u, s, seq
  <2>4. Service!Commit(u, s, seq)
    BY <1>1, <1>5, <1>6, <1>7, <2>2 DEF Service!Commit, Requests, Cursors
  <2> QED
    BY <1>1, <2>3, <2>4 DEF ServiceStep, Service!Next
<1>8. CASE ~(seq > CursorSeq(u, s))
  <2>1. cursors' = cursors
    <3> HIDE DEF u, s, seq
    <3> QED
      BY <1>1, <1>2, <1>8
  <2> QED
    BY <1>1, <1>5, <2>1 DEF ServiceStep, Service!vars, Requests, Cursors, CursorSeq
<1> QED
  BY <1>7, <1>8

-----------------------------------------------------------------------------
LEMMA ServiceInit == EngineInit => Service!Init
<1> SUFFICES ASSUME EngineInit PROVE Service!Init
  OBVIOUS
<1>1. \A s \in Streams : streams[s].head = 0 /\ streams[s].retained = 0
  BY DEF EngineInit, Init, NoStream
<1>2. \A p \in Subscribers \X Streams : CursorSeq(p[1], p[2]) = 0
  <2> SUFFICES ASSUME NEW p \in Subscribers \X Streams PROVE CursorSeq(p[1], p[2]) = 0
    OBVIOUS
  <2>1. p = <<p[1], p[2]>>
    OBVIOUS
  <2> QED
    BY <2>1 DEF EngineInit, Init, CursorSeq, Larger, NoCursor
<1>3. \A c \in Callers : Request(c) = [phase |-> "none"]
  <2> SUFFICES ASSUME NEW c \in Callers PROVE Request(c) = [phase |-> "none"]
    OBVIOUS
  <2>1. call[c].phase = "idle" /\ call[c].result.status = "none"
    BY DEF EngineInit, NoResult
  <2> QED
    BY <2>1 DEF Request
<1> QED
  BY <1>1, <1>2, <1>3 DEF Service!Init, Service!NoRequest

LEMMA CursorWithinInit == EngineInit => CursorWithinHead
<1> SUFFICES ASSUME EngineInit PROVE CursorWithinHead
  OBVIOUS
<1>1. \A u \in Subscribers, s \in Streams : CursorSeq(u, s) = 0 /\ streams[s].head = 0
  BY NoStreamFacts DEF EngineInit, Init, CursorSeq, Larger, NoCursor
<1>2. \A c \in Callers : call[c].phase = "idle"
  BY DEF EngineInit
<1> QED
  BY <1>1, <1>2 DEF CursorWithinHead

LEMMA SteadyStepIsService ==
    EngineTyped /\ LogContiguous /\ AnswersFollow /\ AcksWithinHead
      /\ [SteadyNext /\ UNCHANGED steady]_vars => ServiceStep
<1> SUFFICES ASSUME EngineTyped, LogContiguous, AnswersFollow, AcksWithinHead,
                    [SteadyNext /\ UNCHANGED steady]_vars
             PROVE  ServiceStep
  OBVIOUS
<1>1. CASE EngineNext
  BY <1>1, CatchUpAsks, CatchUpHeadAnswers, CatchUpReadAnswers, AckForgets, AckCursorCommits
  DEF EngineNext
<1>2. CASE (ProducerNext \/ RetentionNext \/ CompactNext \/ Tick) /\ UNCHANGED call
  BY <1>2, StoreStepIsService DEF EngineTyped, EngineTypeOK
<1>3. CASE UNCHANGED vars
  BY <1>3, QuietIsService DEF vars, storeVars
<1> QED
  BY <1>1, <1>2, <1>3 DEF SteadyNext

(* Before a stream is deleted or a cursor reset, the engine's separate     *)
(* storage calls implement the one-instant answers and commits of the sync *)
(* service, for any number of streams, subscribers and sessions.           *)
THEOREM EngineImplementsService == SteadySpec => ImplementsService
<1> DEFINE Inv == EngineTyped /\ LogContiguous /\ AnswersFollow /\ CursorWithinHead /\ steady = TRUE
<1>1. EngineInit => Inv
  <2>1. EngineInit => LogContiguous
    BY NoStreamFacts DEF EngineInit, Init, LogContiguous
  <2>2. EngineInit => AnswersFollow
    BY DEF EngineInit, NoResult, AnswersFollow, AnswerFollows
  <2> QED
    BY <2>1, <2>2, CursorWithinInit, EngineTypeInit DEF EngineInit
<1>2. Inv /\ [SteadyNext /\ UNCHANGED steady]_vars => Inv'
  <2> SUFFICES ASSUME Inv, [SteadyNext /\ UNCHANGED steady]_vars PROVE Inv'
    OBVIOUS
  <2>1. [EngineSpecNext]_vars /\ steady' = steady
    BY DEF EngineSpecNext, vars
  <2> QED
    BY <2>1, EngineTypeStep, EngineContiguousStep, AnswersFollowStep, CursorWithinHeadStep
<1>3. Inv /\ [SteadyNext /\ UNCHANGED steady]_vars => [Service!Next]_(Service!vars)
  BY SteadyStepIsService DEF CursorWithinHead, AcksWithinHead, ServiceStep
<1> HIDE DEF Inv
<1> QED
  BY <1>1, <1>2, <1>3, ServiceInit, PTL DEF SteadySpec, ImplementsService, Service!Spec
-----------------------------------------------------------------------------
(* What the service does to its logs: a boundary never moves back.         *)
BoundariesMoveForward ==
    \A s \in Streams : /\ streams[s].retained \in Nat /\ streams'[s].retained \in Nat
                       /\ streams'[s].retained >= streams[s].retained

LEMMA SteadyBoundaries ==
    ASSUME EngineTyped, EngineTyped', LogContiguous, AnswersFollow, AcksWithinHead,
           [SteadyNext /\ UNCHANGED steady]_vars
    PROVE  BoundariesMoveForward
<1> DEFINE R == [s \in Streams |-> streams[s].retained]
           H == [s \in Streams |-> streams[s].head]
<1>1. R \in [Streams -> Nat] /\ R' \in [Streams -> Nat] /\ H \in [Streams -> Nat]
  BY DEF EngineTyped, EngineTypeOK, TypeOK, StreamSet
<1>2. ServiceStep
  BY SteadyStepIsService
<1> HIDE DEF R, H
<1>3. CASE R' = R
  BY <1>1, <1>3 DEF BoundariesMoveForward, R
<1>4. ASSUME NEW s \in Streams, NEW b \in R[s]..(H[s] + 2), R' = [R EXCEPT ![s] = b]
      PROVE  BoundariesMoveForward
  <2>1. \A r \in Streams : R'[r] >= R[r]
    BY <1>1, <1>4
  <2> QED
    BY <1>1, <2>1 DEF BoundariesMoveForward, R
<1>5. ASSUME NEW s \in Streams, NEW b \in R[s]..(H[s] + 2), Service!Publish(s, b)
      PROVE  BoundariesMoveForward
  BY <1>4, <1>5 DEF Service!Publish, R
<1>6. ASSUME NEW s \in Streams, NEW b \in R[s]..(H[s] + 1), Service!Discard(s, b)
      PROVE  BoundariesMoveForward
  <2>1. b \in R[s]..(H[s] + 2)
    BY <1>1, <1>6
  <2> QED
    BY <1>4, <1>6, <2>1 DEF Service!Discard, R
<1>7. ASSUME NEW s \in Streams, NEW u \in Subscribers, NEW seq, Service!Commit(u, s, seq)
      PROVE  BoundariesMoveForward
  BY <1>3, <1>7 DEF Service!Commit, R
<1>8. ASSUME NEW c \in Callers,
             \/ \E s \in Streams, limit \in Limits, totalLimit \in TotalLimits :
                   Service!Ask(c, s, limit, totalLimit)
             \/ Service!AnswerTooLong(c) \/ Service!AnswerBatch(c) \/ Service!Forget(c)
      PROVE  BoundariesMoveForward
  BY <1>3, <1>8
  DEF Service!Ask, Service!AnswerTooLong, Service!AnswerBatch, Service!Forget, R
<1>9. CASE UNCHANGED Service!vars
  BY <1>3, <1>9 DEF Service!vars, R
<1> QED
  BY <1>2, <1>5, <1>6, <1>7, <1>8, <1>9 DEF ServiceStep, Service!Next, R, H

(* An answer that is justified stays so.                                   *)
JustifiedNow(c) ==
    Answered(c) /\ Result(c).status = "too_long" =>
        \/ ReplayOverBudget(Result(c).cursor, Result(c).head, call[c].totalLimit)
        \/ ReplayTooOld(Result(c).cursor, streams[call[c].stream].retained)

LEMMA JustifiedStays ==
    ASSUME EngineTyped, BoundariesMoveForward, NEW c \in Callers, JustifiedNow(c),
           call'[c] = call[c]
    PROVE  JustifiedNow(c)'
<1>1. /\ call[c].stream \in Streams
      /\ call[c].result.cursor \in Nat
  BY DEF EngineTyped, EngineTypeOK, CallSet, ResultSet
<1>2. /\ streams[call[c].stream].retained \in Nat /\ streams'[call[c].stream].retained \in Nat
      /\ streams'[call[c].stream].retained >= streams[call[c].stream].retained
  BY <1>1 DEF BoundariesMoveForward
<1>3. ReplayTooOld(call[c].result.cursor, streams[call[c].stream].retained)
        => ReplayTooOld(call[c].result.cursor, streams'[call[c].stream].retained)
  BY <1>1, <1>2 DEF ReplayTooOld
<1> QED
  BY <1>3 DEF JustifiedNow, Answered, Result

(* Each step of an engine call justifies what it answers.                  *)
LEMMA EngineJustifies ==
    ASSUME EngineTyped, EngineTyped', AnswersFollow, NEW c \in Callers,
           \/ \E s \in Streams, limit \in Limits, totalLimit \in TotalLimits :
                 CatchUp(c, s, limit, totalLimit)
           \/ CatchUpHead(c)
           \/ CatchUpRead(c)
           \/ \E s \in Streams, seq \in 0..MaxSeq : Ack(c, s, seq)
           \/ AckCursor(c)
    PROVE  /\ JustifiedNow(c)'
           /\ \A b \in Callers \ {c} : call'[b] = call[b]
<1>1. call \in [Callers -> CallSet] /\ call[c] \in CallSet
  BY DEF EngineTyped, EngineTypeOK
<1>2. ASSUME NEW s \in Streams, NEW limit, NEW totalLimit, CatchUp(c, s, limit, totalLimit)
      PROVE  call'[c].phase = "head" /\ \A b \in Callers \ {c} : call'[b] = call[b]
  BY <1>1, <1>2 DEF CatchUp
<1>3. ASSUME CatchUpHead(c)
      PROVE  JustifiedNow(c)' /\ \A b \in Callers \ {c} : call'[b] = call[b]
  <2> DEFINE st == streams[call[c].stream]
             r == [call[c].result EXCEPT !.head = st.head, !.retained = st.retained]
             tooLong == [r EXCEPT !.status = "too_long"]
             d == [call[c] EXCEPT !.phase = "idle", !.result = tooLong]
             e == [call[c] EXCEPT !.phase = "read", !.result = r]
  <2>1. /\ streams' = streams /\ call[c].result \in ResultSet
    BY <1>1, <1>3 DEF CatchUpHead, storeVars, CallSet
  <2>2. /\ r.cursor = call[c].result.cursor /\ r.head = st.head
        /\ tooLong.cursor = r.cursor /\ tooLong.head = r.head
    <3> HIDE DEF st
    <3> QED
      BY <2>1 DEF ResultSet
  <2>3. CASE \/ ReplayTooOld(r.cursor, st.retained)
             \/ ReplayOverBudget(r.cursor, st.head, call[c].totalLimit)
    <3>1. call' = [call EXCEPT ![c] = d]
      BY <1>3, <2>3 DEF CatchUpHead
    <3>2. d.result = tooLong /\ d.stream = call[c].stream /\ d.totalLimit = call[c].totalLimit
      <4> HIDE DEF tooLong
      <4> QED
        BY <1>1 DEF CallSet
    <3> HIDE DEF d, tooLong, r
    <3>3. call'[c] = d /\ \A b \in Callers \ {c} : call'[b] = call[b]
      BY <1>1, <3>1
    <3> QED
      BY <2>1, <2>2, <2>3, <3>2, <3>3 DEF JustifiedNow, Result
  <2>4. CASE ~(\/ ReplayTooOld(r.cursor, st.retained)
               \/ ReplayOverBudget(r.cursor, st.head, call[c].totalLimit))
    <3>1. call' = [call EXCEPT ![c] = e]
      BY <1>3, <2>4 DEF CatchUpHead
    <3>2. e.phase = "read"
      <4> HIDE DEF r
      <4> QED
        BY <1>1 DEF CallSet
    <3> HIDE DEF e
    <3>3. call'[c] = e /\ \A b \in Callers \ {c} : call'[b] = call[b]
      BY <1>1, <3>1
    <3> QED
      BY <3>2, <3>3 DEF JustifiedNow, Answered
  <2> QED
    BY <2>3, <2>4
<1>4. ASSUME CatchUpRead(c)
      PROVE  JustifiedNow(c)' /\ \A b \in Callers \ {c} : call'[b] = call[b]
  <2> DEFINE st == streams[call[c].stream]
             r == call[c].result
             batch == ReadBatch(st, r.cursor, call[c].limit)
             tooLong == [r EXCEPT !.status = "too_long"]
             ok == [status |-> "ok", cursor |-> r.cursor, head |-> st.head,
                    retained |-> st.retained, seqs |-> batch.seqs, seq |-> batch.seq,
                    final |-> batch.final]
             answer == IF ReadTooLong(st, r.cursor) THEN tooLong ELSE ok
             d == [call[c] EXCEPT !.phase = "idle", !.result = answer]
  <2>1. streams' = streams /\ r \in ResultSet
    BY <1>1, <1>4 DEF CatchUpRead, storeVars, CallSet
  <2>2. call' = [call EXCEPT ![c] = d]
    BY <1>4 DEF CatchUpRead
  <2>3. d.result = answer /\ d.stream = call[c].stream
    <3> HIDE DEF answer
    <3> QED
      BY <1>1 DEF CallSet
  <2>4. answer.status = "too_long" =>
           ReadTooLong(st, r.cursor) /\ answer.cursor = r.cursor
    <3>1. CASE ReadTooLong(st, r.cursor)
      BY <2>1, <3>1 DEF ResultSet
    <3>2. CASE ~ReadTooLong(st, r.cursor)
      <4> HIDE DEF batch, st, r
      <4> QED
        BY <3>2
    <3> QED
      BY <3>1, <3>2
  <2> HIDE DEF d, answer
  <2>5. call'[c] = d /\ \A b \in Callers \ {c} : call'[b] = call[b]
    BY <1>1, <2>2
  <2> QED
    BY <2>1, <2>3, <2>4, <2>5 DEF JustifiedNow, Result, ReadTooLong
<1>5. ASSUME NEW s \in Streams, NEW seq, Ack(c, s, seq)
      PROVE  call'[c].phase = "ack" /\ \A b \in Callers \ {c} : call'[b] = call[b]
  BY <1>1, <1>5 DEF Ack, CallSet
<1>6. ASSUME AckCursor(c)
      PROVE  call'[c].result.status = "none" /\ \A b \in Callers \ {c} : call'[b] = call[b]
  BY <1>1, <1>6 DEF AckCursor, AnswersFollow, CallSet
<1> QED
  BY <1>2, <1>3, <1>4, <1>5, <1>6 DEF JustifiedNow, Answered, Result

(* TOO_LONG is never a false alarm while no stream is deleted, however     *)
(* many storage calls lie between the decision and the answer: a boundary  *)
(* that has passed a cursor never comes back behind it.                    *)
THEOREM TooLongStaysJustified == EngineSpec => []TooLongIsJustified
<1> DEFINE Inv == EngineTyped /\ LogContiguous /\ AnswersFollow /\ CursorWithinHead
<1>1. EngineInit => Inv /\ TooLongIsJustified
  <2>1. EngineInit => LogContiguous
    BY NoStreamFacts DEF EngineInit, Init, LogContiguous
  <2>2. EngineInit => AnswersFollow
    BY DEF EngineInit, NoResult, AnswersFollow, AnswerFollows
  <2>3. EngineInit => TooLongIsJustified
    BY DEF EngineInit, NoResult, TooLongIsJustified, Answered, Result
  <2> QED
    BY <2>1, <2>2, <2>3, EngineTypeInit, CursorWithinInit
<1>2. Inv /\ [EngineSpecNext]_vars => Inv'
  BY EngineTypeStep, EngineContiguousStep, AnswersFollowStep, CursorWithinHeadStep
<1>3. Inv /\ Inv' /\ TooLongIsJustified /\ [EngineSpecNext]_vars => TooLongIsJustified'
  <2> SUFFICES ASSUME Inv, Inv', TooLongIsJustified, [EngineSpecNext]_vars, steady'
               PROVE  \A c \in Callers : JustifiedNow(c)'
    BY DEF TooLongIsJustified, JustifiedNow
  <2>1. [SteadyNext /\ UNCHANGED steady]_vars /\ steady
    BY DEF EngineSpecNext, vars
  <2>2. BoundariesMoveForward
    BY <2>1, SteadyBoundaries DEF CursorWithinHead, AcksWithinHead
  <2>3. \A c \in Callers : JustifiedNow(c)
    BY <2>1 DEF TooLongIsJustified, JustifiedNow
  <2>4. CASE UNCHANGED call
    BY <2>2, <2>3, <2>4, JustifiedStays
  <2>5. ASSUME NEW c \in Callers, JustifiedNow(c)', \A b \in Callers \ {c} : call'[b] = call[b]
        PROVE  \A b \in Callers : JustifiedNow(b)'
    BY <2>2, <2>3, <2>5, JustifiedStays
  <2>6. CASE EngineNext
    BY <2>5, <2>6, EngineJustifies DEF EngineNext
  <2> QED
    BY <2>1, <2>4, <2>6 DEF SteadyNext, vars
<1> HIDE DEF Inv
<1> QED
  BY <1>1, <1>2, <1>3, PTL DEF EngineSpec
-----------------------------------------------------------------------------
(* A truncation at or before the position after a reader's cursor leaves   *)
(* that reader able to replay.                                             *)
LEMMA TruncationSparesReader ==
    ASSUME NEW st \in StreamSet, Contiguous(st), NEW after \in Nat, ~ReadTooLong(st, after),
           NEW before \in Nat, before <= after + 1
    PROVE  ~ReplayTooOld(after, TruncateBefore(st, before).retained)
<1> DEFINE n == PrefixBelow(st.events, before)
           m == PrefixBelow(st.events, after + 1)
           L == Len(st.events)
           d == DropPrefix(st, n)
           Below(b) == {k \in 1..L : \A i \in 1..k : st.events[i].seq < b}
<1>1. /\ st.head \in Nat /\ st.retained \in Nat /\ L \in Nat
      /\ st.head > 0 => st.retained = st.head + 1 - L /\ st.retained > 0
  BY BoundaryOfContiguous
<1>2. n \in 0..L /\ m \in 0..L
  BY PrefixBelowBound DEF StreamSet
<1>3. n <= m
  <2>1. \A i \in 1..L : st.events[i].seq \in Int
    <3>1. st.events \in Seq(EventSet)
      BY DEF StreamSet
    <3>2. \A i \in 1..L : st.events[i] \in EventSet
      BY <3>1, ElementOfSeq
    <3> QED
      BY <3>2 DEF EventSet
  <2>2. Below(before) \subseteq Below(after + 1)
    BY <1>1, <2>1
  <2>3. IsFiniteSet(1..L)
    BY <1>1, FS_Interval
  <2>4. IsFiniteSet(Below(after + 1))
    BY <2>3, FS_Subset
  <2>5. Cardinality(Below(before)) <= Cardinality(Below(after + 1))
    BY <2>2, <2>4, FS_Subset
  <2> QED
    BY <2>5 DEF PrefixBelow
<1>4. /\ d.head = st.head /\ Len(d.events) = L - n /\ d.retained \in Nat
      /\ d.head = 0 => d.retained = 0
      /\ d.head > 0 => d.retained = d.head + 1 - Len(d.events)
  <2>1. d \in StreamSet /\ d.head = st.head /\ Len(d.events) = L - n
    BY <1>2, DropPrefixParts
  <2>2. Contiguous(d)
    BY <1>2, DropPrefixContiguous
  <2> HIDE DEF d
  <2> QED
    BY <2>1, <2>2, BoundaryOfContiguous
<1>5. TruncateBefore(st, before) = d
  BY DEF TruncateBefore
<1>6. st.head > 0 => m <= after + 1 - st.retained
  <2>1. st.head > 0 => m = Smaller(L, after + 1 - st.retained)
    BY <1>1, SkipInContiguousLog
  <2> HIDE DEF m
  <2> QED
    BY <1>1, <2>1 DEF Smaller
<1> HIDE DEF n, m, L, d
<1>7. CASE st.head = 0
  BY <1>4, <1>5, <1>7 DEF ReplayTooOld
<1>8. CASE st.head > 0
  <2>1. d.retained = st.retained + n
    BY <1>1, <1>2, <1>4, <1>8
  <2>2. d.retained <= after + 1
    BY <1>1, <1>2, <1>3, <1>6, <1>8, <2>1
  <2> QED
    BY <1>4, <1>5, <2>2 DEF ReplayTooOld
<1> QED
  BY <1>1, <1>7, <1>8

(* A compaction that let the mutex go remembers a minimum that every       *)
(* cursor it counted is still at or above.                                 *)
CountedFrom(c) ==
    \A u \in compacting[c].counted :
        /\ cursors[<<u, compacting[c].stream>>] # NoCursor
        /\ compacting[c].min <= cursors[<<u, compacting[c].stream>>]

MinimumIsRemembered == \A c \in Compactors : compacting[c].phase = "truncate" => CountedFrom(c)

LEMMA CommitsKeepMinimum ==
    ASSUME TypeOK, MinimumIsRemembered, NEW u \in Subscribers, NEW s \in Streams, NEW seq \in Nat,
           StoreAck(u, s, seq)
    PROVE  MinimumIsRemembered'
<1>1. /\ cursors \in [Subscribers \X Streams -> Nat \cup {NoCursor}]
      /\ compacting \in [Compactors -> CompactSet] /\ compacting' = compacting
  BY DEF TypeOK, StoreAck
<1>2. \A p \in Subscribers \X Streams :
         /\ cursors[p] # NoCursor => cursors'[p] # NoCursor /\ cursors'[p] \in Nat
         /\ cursors[p] # NoCursor => cursors[p] <= cursors'[p]
  <2>1. cursors' = [cursors EXCEPT ![<<u, s>>] =
                      IF seq > Larger(cursors[<<u, s>>], 0) THEN seq ELSE cursors[<<u, s>>]]
    BY DEF StoreAck, CursorSeq
  <2> QED
    BY <1>1, <2>1 DEF Larger, NoCursor
<1>3. \A c \in Compactors :
         /\ compacting[c].stream \in Streams /\ compacting[c].counted \subseteq Subscribers
         /\ compacting[c].min \in Nat
  BY <1>1 DEF CompactSet
<1> SUFFICES ASSUME NEW c \in Compactors, compacting[c].phase = "truncate",
                    NEW v \in compacting[c].counted
             PROVE  /\ cursors'[<<v, compacting[c].stream>>] # NoCursor
                    /\ compacting[c].min <= cursors'[<<v, compacting[c].stream>>]
  BY <1>1 DEF MinimumIsRemembered, CountedFrom
<1> DEFINE p == <<v, compacting[c].stream>>
<1>4. p \in Subscribers \X Streams
  BY <1>3
<1>5. cursors[p] # NoCursor /\ compacting[c].min <= cursors[p]
  BY DEF MinimumIsRemembered, CountedFrom
<1>6. cursors[p] \in Nat
  BY <1>1, <1>4, <1>5
<1> QED
  BY <1>2, <1>3, <1>4, <1>5, <1>6

LEMMA MinimumIsRememberedStep ==
    EngineTyped /\ MinimumIsRemembered /\ [SteadyNext /\ UNCHANGED steady]_vars
      => MinimumIsRemembered'
<1> SUFFICES ASSUME EngineTyped, MinimumIsRemembered, [SteadyNext /\ UNCHANGED steady]_vars
             PROVE  MinimumIsRemembered'
  OBVIOUS
<1>t. TypeOK /\ compacting \in [Compactors -> CompactSet]
  BY DEF EngineTyped, EngineTypeOK, TypeOK
<1>1. ASSUME UNCHANGED <<cursors, compacting>> PROVE MinimumIsRemembered'
  BY <1>1 DEF MinimumIsRemembered, CountedFrom
<1>2. ASSUME NEW c \in Callers, AckCursor(c) PROVE MinimumIsRemembered'
  <2>1. SubscriberOf[c] \in Subscribers /\ call[c].stream \in Streams /\ call[c].seq \in Nat
    BY EngineAssumption DEF EngineTyped, EngineTypeOK, CallSet
  <2>2. StoreAck(SubscriberOf[c], call[c].stream, call[c].seq)
    BY <1>2 DEF AckCursor
  <2> QED
    BY <1>t, <2>1, <2>2, CommitsKeepMinimum
<1>3. ASSUME NEW c \in Compactors, NEW s \in Streams, CompactMinimum(c, s)
      PROVE  MinimumIsRemembered'
  <2>1. PICK min \in {cursors[<<u, s>>] : u \in CursorsOn(s)} :
           /\ IsMinimumCursor(s, min)
           /\ compacting' = [compacting EXCEPT ![c] =
                               [phase |-> "truncate", stream |-> s, min |-> min,
                                counted |-> CursorsOn(s)]]
    BY <1>3 DEF CompactMinimum
  <2>2. cursors' = cursors
    BY <1>3 DEF CompactMinimum
  <2>3. \A u \in CursorsOn(s) : cursors[<<u, s>>] # NoCursor /\ min <= cursors[<<u, s>>]
    BY <2>1 DEF IsMinimumCursor, CursorsOn
  <2>4. CountedFrom(c)'
    BY <1>t, <2>1, <2>2, <2>3 DEF CountedFrom
  <2>5. \A b \in Compactors \ {c} : compacting'[b] = compacting[b]
    BY <1>t, <2>1
  <2> QED
    BY <2>2, <2>4, <2>5 DEF MinimumIsRemembered, CountedFrom
<1>4. ASSUME NEW c \in Compactors, CompactTruncate(c) PROVE MinimumIsRemembered'
  <2>1. /\ cursors' = cursors /\ compacting'[c].phase = "idle"
        /\ \A b \in Compactors \ {c} : compacting'[b] = compacting[b]
    BY <1>t, <1>4 DEF CompactTruncate, CompactSet
  <2> QED
    BY <2>1 DEF MinimumIsRemembered, CountedFrom
<1>5. CASE EngineNext
  BY <1>1, <1>2, <1>5
  DEF EngineNext, CatchUp, CatchUpHead, CatchUpRead, Ack, storeVars
<1>6. CASE ProducerNext \/ RetentionNext \/ Tick
  BY <1>1, <1>6 DEF ProducerNext, RetentionNext, Tick, StampedAppend, AppendNew, AppendRetry,
                    TruncateStream, SetStreamRetention, storeVars
<1>7. CASE CompactNext
  BY <1>3, <1>4, <1>7 DEF CompactNext
<1>8. CASE UNCHANGED vars
  BY <1>1, <1>8 DEF vars, storeVars
<1> QED
  BY <1>5, <1>6, <1>7, <1>8 DEF SteadyNext

(* Compaction works with a minimum that is old by the time it truncates,   *)
(* and takes nothing from a subscriber it counted: commits only go         *)
(* forward, so every counted cursor is at or above that minimum.           *)
THEOREM CompactionSparesCounted == SteadySpec => CompactionKeepsCounted
<1> DEFINE Inv == EngineTyped /\ LogContiguous /\ MinimumIsRemembered
<1>1. EngineInit => Inv
  <2>1. EngineInit => LogContiguous
    BY NoStreamFacts DEF EngineInit, Init, LogContiguous
  <2>2. EngineInit => MinimumIsRemembered
    BY DEF EngineInit, Init, MinimumIsRemembered
  <2> QED
    BY <2>1, <2>2, EngineTypeInit
<1>2. Inv /\ [SteadyNext /\ UNCHANGED steady]_vars => Inv'
  <2> SUFFICES ASSUME Inv, [SteadyNext /\ UNCHANGED steady]_vars PROVE Inv'
    OBVIOUS
  <2>1. [EngineSpecNext]_vars
    BY DEF EngineSpecNext
  <2> QED
    BY <2>1, EngineTypeStep, EngineContiguousStep, MinimumIsRememberedStep
<1>3. ASSUME Inv, NEW c \in Compactors, CompactTruncate(c), NEW u \in compacting[c].counted
      PROVE  KeepsUnreadOf(c, u)
  <2> DEFINE s == compacting[c].stream
             after == cursors[<<u, s>>]
             before == compacting[c].min + 1
  <2>1. /\ compacting[c] \in CompactSet /\ streams \in [Streams -> StreamSet]
        /\ cursors \in [Subscribers \X Streams -> Nat \cup {NoCursor}]
    BY <1>3 DEF EngineTyped, EngineTypeOK, TypeOK
  <2>2. s \in Streams /\ u \in Subscribers /\ compacting[c].min \in Nat
    BY <1>3, <2>1 DEF CompactSet
  <2>3. streams' = [streams EXCEPT ![s] = TruncateBefore(streams[s], before)]
    BY <1>3 DEF CompactTruncate
  <2>4. after # NoCursor /\ compacting[c].min <= after
    BY <1>3 DEF CompactTruncate, MinimumIsRemembered, CountedFrom
  <2>5. after \in Nat
    BY <2>1, <2>2, <2>4
  <2>6. streams[s] \in StreamSet /\ Contiguous(streams[s])
    BY <1>3, <2>1, <2>2 DEF LogContiguous
  <2>7. before \in Nat /\ before <= after + 1
    BY <2>2, <2>4, <2>5
  <2>8. streams'[s] = TruncateBefore(streams[s], before)
    BY <2>1, <2>2, <2>3
  <2> HIDE DEF s, after, before
  <2>9. ~ReplayTooOld(after, streams[s].retained) => ~ReplayTooOld(after, streams'[s].retained)
    BY <2>5, <2>6, <2>7, <2>8, TruncationSparesReader DEF ReadTooLong
  <2> QED
    BY <2>9 DEF KeepsUnreadOf, s, after
<1>4. Inv => [\A c \in Compactors : CompactTruncate(c) =>
                 \A u \in compacting[c].counted : KeepsUnreadOf(c, u)]_storeVars
  BY <1>3
<1> HIDE DEF Inv
<1> QED
  BY <1>1, <1>2, <1>4, PTL DEF SteadySpec, CompactionKeepsCounted
=============================================================================
