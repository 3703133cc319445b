---------------------------- MODULE ServicesProofs ----------------------------
(***************************************************************************)
(* Proofs about the services (Services) for every value of the constants:  *)
(* first the admin service (Admin), then the raw Subscribe loop (Loop),    *)
(* then the snapshots (Snapshots), and at the end what follows for all of  *)
(* them side by side, with the raw service of RawServiceProofs.            *)
(*                                                                         *)
(* The admin service runs on the memory store, whose proofs are used as    *)
(* they stand (M); the loop runs on SyncService, what the sync log         *)
(* promises, as GatewayDelivery does; the snapshots stand for themselves.  *)
(***************************************************************************)
EXTENDS Services, RawServiceProofs, Integers, FiniteSets, FiniteSetTheorems, SequenceTheorems,
    WellFoundedInduction, TLAPS

M == INSTANCE MemoryStoreProofs WITH
    streams <- adminStreams, cursors <- adminCursors, retention <- adminRetention,
    watchers <- adminWatchers, waiting <- adminWaiting, compacting <- adminCompacting,
    now <- adminNow, MaxSeq <- AdminMaxSeq, Waiters <- {}, Compactors <- Operators

-----------------------------------------------------------------------------
(* The proofs about the store, read for the admin service.                 *)

(* What is assumed of the admin service is what the proofs about the store *)
(* assume of its constants.                                                *)
LEMMA StoreAssumptions ==
    Admin!AdminAssumption => M!KeyAssumption /\ M!StoreAssumption
  BY DEF Admin!AdminAssumption, M!KeyAssumption, M!StoreAssumption, M!RetentionSet

(* The admin service names its store by an instance of MemoryStore, the    *)
(* proofs about it by one of MemoryStoreProofs: the operators of the two   *)
(* are the same, first those on a log.                                     *)
LEMMA SameLog ==
    /\ Admin!Store!NoStream = M!NoStream
    /\ Admin!Store!NoRetention = M!NoRetention
    /\ Admin!Store!NoCursor = M!NoCursor
    /\ \A a, b : Admin!Store!Smaller(a, b) = M!Smaller(a, b)
    /\ \A e, n : Admin!Store!PrefixBelow(e, n) = M!PrefixBelow(e, n)
    /\ \A st, n : Admin!Store!TruncateBefore(st, n) = M!TruncateBefore(st, n)
    /\ \A st : Admin!Store!EnsureStream(st) = M!EnsureStream(st)
    /\ \A st, policy, t :
          Admin!Store!ApplyRetention(st, policy, t) = M!ApplyRetention(st, policy, t)
    /\ \A s : Admin!Store!CursorsOn(s) = M!CursorsOn(s)
    /\ \A u, s : Admin!Store!CursorSeq(u, s) = M!CursorSeq(u, s)
  <1>1. Admin!Store!NoStream = M!NoStream
    BY DEF Admin!Store!NoStream, M!NoStream
  <1>2. Admin!Store!NoRetention = M!NoRetention
    BY DEF Admin!Store!NoRetention, M!NoRetention
  <1>3. Admin!Store!NoCursor = M!NoCursor
    BY DEF Admin!Store!NoCursor, M!NoCursor
  <1>4. /\ \A a, b : Admin!Store!Smaller(a, b) = M!Smaller(a, b)
        /\ \A a, b : Admin!Store!Larger(a, b) = M!Larger(a, b)
    BY DEF Admin!Store!Smaller, M!Smaller, Admin!Store!Larger, M!Larger
  <1>5. \A S : Admin!Store!Cardinality(S) = M!Cardinality(S)
    BY DEF Admin!Store!Cardinality, M!Cardinality
  <1>6. /\ \A e, n : Admin!Store!PrefixBelow(e, n) = M!PrefixBelow(e, n)
        /\ \A e, n : Admin!Store!PrefixExpired(e, n) = M!PrefixExpired(e, n)
    BY <1>5 DEF Admin!Store!PrefixBelow, M!PrefixBelow, Admin!Store!PrefixExpired, M!PrefixExpired
  <1>7. \A st, n : Admin!Store!DropPrefix(st, n) = M!DropPrefix(st, n)
    BY DEF Admin!Store!DropPrefix, M!DropPrefix
  <1>8. \A st, n : Admin!Store!TruncateBefore(st, n) = M!TruncateBefore(st, n)
    BY <1>6, <1>7 DEF Admin!Store!TruncateBefore, M!TruncateBefore
  <1>9. \A st, policy, t : Admin!Store!Excess(st, policy, t) = M!Excess(st, policy, t)
    BY <1>4, <1>6 DEF Admin!Store!Excess, M!Excess
  <1>10. \A st, policy, t :
           Admin!Store!ApplyRetention(st, policy, t) = M!ApplyRetention(st, policy, t)
    BY <1>7, <1>9 DEF Admin!Store!ApplyRetention, M!ApplyRetention
  <1>11. \A st : Admin!Store!EnsureStream(st) = M!EnsureStream(st)
    BY DEF Admin!Store!EnsureStream, M!EnsureStream
  <1>12. \A s : Admin!Store!CursorsOn(s) = M!CursorsOn(s)
    BY <1>3 DEF Admin!Store!CursorsOn, M!CursorsOn
  <1>13. \A u, s : Admin!Store!CursorSeq(u, s) = M!CursorSeq(u, s)
    BY <1>4 DEF Admin!Store!CursorSeq, M!CursorSeq
  <1> QED BY <1>1, <1>2, <1>3, <1>4, <1>6, <1>8, <1>10, <1>11, <1>12, <1>13

(* The same for the calls of the store.                                    *)
LEMMA SameCalls ==
    /\ Admin!Store!Init <=> M!Init
    /\ \A s, key, at : Admin!Store!AppendNew(s, key, at) <=> M!AppendNew(s, key, at)
    /\ \A s : Admin!Store!CreateStream(s) <=> M!CreateStream(s)
    /\ \A s : Admin!Store!DeleteStream(s) <=> M!DeleteStream(s)
    /\ \A s, before : Admin!Store!TruncateStream(s, before) <=> M!TruncateStream(s, before)
    /\ \A s, policy :
          Admin!Store!SetStreamRetention(s, policy) <=> M!SetStreamRetention(s, policy)
    /\ \A o, s : Admin!Store!CompactMinimum(o, s) <=> M!CompactMinimum(o, s)
    /\ \A o : Admin!Store!CompactTruncate(o) <=> M!CompactTruncate(o)
    /\ \A u, s, seq : Admin!Store!ResetCursor(u, s, seq) <=> M!ResetCursor(u, s, seq)
    /\ Admin!Store!AckNext <=> M!AckNext
    /\ Admin!Store!Tick <=> M!Tick
  <1>1. Admin!Store!Init <=> M!Init
    BY SameLog, Zenon DEF Admin!Store!Init, M!Init
  <1>2. \A s, key, at : Admin!Store!AppendNew(s, key, at) <=> M!AppendNew(s, key, at)
    <2>1. ASSUME NEW s, NEW key, NEW at
          PROVE  Admin!Store!AppendNew(s, key, at) <=> M!AppendNew(s, key, at)
      <3> DEFINE st == M!AppendEvent(adminStreams[s], key, at)
      <3>1. Admin!Store!AppendEvent(adminStreams[s], key, at) = st
        BY DEF Admin!Store!AppendEvent, M!AppendEvent
      <3>2. Admin!Store!KeyUsed(adminStreams[s], key) = M!KeyUsed(adminStreams[s], key)
        BY DEF Admin!Store!KeyUsed, M!KeyUsed
      <3>3. Admin!Store!ApplyRetention(st, adminRetention[s], adminNow)
              = M!ApplyRetention(st, adminRetention[s], adminNow)
        BY SameLog
      <3>4. Admin!Store!NotifyStream(s, adminStreams[s].head + 1)
              <=> M!NotifyStream(s, adminStreams[s].head + 1)
        BY DEF Admin!Store!NotifyStream, M!NotifyStream
      <3> HIDE DEF st
      <3> QED BY <3>1, <3>2, <3>3, <3>4, Zenon DEF Admin!Store!AppendNew, M!AppendNew, st
    <2> QED BY <2>1
  <1>3. \A s : Admin!Store!CreateStream(s) <=> M!CreateStream(s)
    BY SameLog, Zenon DEF Admin!Store!CreateStream, M!CreateStream
  <1>4. \A s : Admin!Store!DeleteStream(s) <=> M!DeleteStream(s)
    BY SameLog, Zenon DEF Admin!Store!DeleteStream, M!DeleteStream
  <1>5. \A s, before : Admin!Store!TruncateStream(s, before) <=> M!TruncateStream(s, before)
    BY SameLog, Zenon DEF Admin!Store!TruncateStream, M!TruncateStream
  <1>6. \A s, policy :
          Admin!Store!SetStreamRetention(s, policy) <=> M!SetStreamRetention(s, policy)
    BY SameLog, Zenon DEF Admin!Store!SetStreamRetention, M!SetStreamRetention
  <1>7. \A s, min : Admin!Store!IsMinimumCursor(s, min) <=> M!IsMinimumCursor(s, min)
    BY SameLog, Zenon DEF Admin!Store!IsMinimumCursor, M!IsMinimumCursor
  <1>8. \A o, s : Admin!Store!CompactMinimum(o, s) <=> M!CompactMinimum(o, s)
    BY SameLog, <1>7, Zenon DEF Admin!Store!CompactMinimum, M!CompactMinimum
  <1>9. \A o : Admin!Store!CompactTruncate(o) <=> M!CompactTruncate(o)
    BY SameLog, Zenon DEF Admin!Store!CompactTruncate, M!CompactTruncate
  <1>10. \A u, s, seq : Admin!Store!ResetCursor(u, s, seq) <=> M!ResetCursor(u, s, seq)
    BY Zenon DEF Admin!Store!ResetCursor, M!ResetCursor
  <1>11. \A u, s, seq : Admin!Store!StoreAck(u, s, seq) <=> M!StoreAck(u, s, seq)
    BY SameLog, Zenon DEF Admin!Store!StoreAck, M!StoreAck
  <1>12. Admin!Store!AckNext <=> M!AckNext
    BY <1>11, Zenon DEF Admin!Store!AckNext, M!AckNext
  <1>13. Admin!Store!Tick <=> M!Tick
    BY Zenon DEF Admin!Store!Tick, M!Tick
  <1> QED
    BY <1>1, <1>2, <1>3, <1>4, <1>5, <1>6, <1>8, <1>9, <1>10, <1>12, <1>13

(* Every step of the admin service is one of the store, or none.           *)
LEMMA AdminStoreStep ==
    ASSUME [Admin!Next]_Admin!vars
    PROVE  \/ [M!Next]_M!storeVars
           \/ \E s \in Streams, key \in Keys \cup {NoKey} : M!AppendNew(s, key, adminNow)
  <1> USE DEF M!storeVars, Admin!storeVars
  <1>1. CASE UNCHANGED Admin!vars
    BY <1>1 DEF Admin!vars
  <1>2. CASE Admin!StreamNext
    <2>1. ASSUME NEW s \in Streams, Admin!CreateStream(s) \/ Admin!DeleteStream(s)
          PROVE  M!Next
      BY <2>1, SameCalls DEF Admin!CreateStream, Admin!DeleteStream, M!Next, M!RegistryNext
    <2>2. ASSUME NEW prefix \in Prefixes, NEW limit \in ListLimits,
                 Admin!ListStreams(prefix, limit)
          PROVE  UNCHANGED M!storeVars
      BY <2>2 DEF Admin!ListStreams
    <2> QED BY <1>2, <2>1, <2>2 DEF Admin!StreamNext
  <1>3. CASE Admin!RetentionNext
    <2>1. ASSUME NEW s \in Streams, NEW before \in 0..(AdminMaxSeq + 1),
                 Admin!TruncateStream(s, before)
          PROVE  M!Next
      BY <2>1, SameCalls DEF Admin!TruncateStream, M!Next, M!LogNext
    <2>2. ASSUME NEW s \in Streams, NEW policy \in Retentions,
                 Admin!SetStreamRetention(s, policy)
          PROVE  M!Next
      BY <2>2, SameCalls DEF Admin!SetStreamRetention, M!Next, M!LogNext
    <2>3. ASSUME NEW s \in Streams, NEW o \in Operators, Admin!CompactStream(o, s)
          PROVE  M!Next
      BY <2>3, SameCalls DEF Admin!CompactStream, M!Next, M!CompactNext
    <2>4. ASSUME NEW s \in Streams, NEW o \in Operators, Admin!CompactNothing(o, s)
          PROVE  UNCHANGED M!storeVars
      BY <2>4 DEF Admin!CompactNothing
    <2> QED BY <1>3, <2>1, <2>2, <2>3, <2>4 DEF Admin!RetentionNext
  <1>4. ASSUME NEW o \in Operators, Admin!CompactTruncate(o) PROVE M!Next
    BY <1>4, SameCalls DEF Admin!CompactTruncate, M!Next, M!CompactNext
  <1>5. CASE Admin!CursorNext
    <2>1. ASSUME NEW s \in Streams, NEW u \in Subscribers, NEW seq \in 0..AdminMaxSeq,
                 Admin!ResetCursor(u, s, seq)
          PROVE  M!Next
      BY <2>1, SameCalls DEF Admin!ResetCursor, M!Next, M!ResetNext
    <2>2. ASSUME NEW s \in Streams, Admin!ListCursors(s) \/ Admin!GetStreamStats(s)
          PROVE  UNCHANGED M!storeVars
      BY <2>2 DEF Admin!ListCursors, Admin!GetStreamStats
    <2> QED BY <1>5, <2>1, <2>2 DEF Admin!CursorNext
  <1>6. CASE Admin!UsersNext
    BY <1>6, SameCalls DEF Admin!UsersNext, M!Next
  <1> QED BY <1>1, <1>2, <1>3, <1>4, <1>5, <1>6 DEF Admin!Next

(* So the store below the admin service stays of its type.                 *)
LEMMA AdminTypeStep ==
    ASSUME Admin!AdminAssumption, M!TypeOK, [Admin!Next]_Admin!vars
    PROVE  M!TypeOK'
  <1>1. M!KeyAssumption /\ M!StoreAssumption
    BY StoreAssumptions
  <1>2. ASSUME NEW s \in Streams, NEW key \in Keys \cup {NoKey}, M!AppendNew(s, key, adminNow)
        PROVE  M!TypeOK'
    <2>1. adminNow \in Nat
      BY DEF M!TypeOK
    <2> QED BY <1>1, <1>2, <2>1, M!AppendNewType
  <1>3. ASSUME [M!Next]_M!storeVars PROVE M!TypeOK'
    BY <1>1, <1>3, M!StoreTypeStep
  <1> QED BY <1>2, <1>3, AdminStoreStep

(* How much of a log is left after a cut.                                  *)
LEMMA CutLengths ==
    ASSUME Admin!AdminAssumption, NEW st \in M!StreamSet
    PROVE  /\ \A before :
                 /\ M!TruncateBefore(st, before).head = st.head
                 /\ M!PrefixBelow(st.events, before) \in Nat
                 /\ Len(M!TruncateBefore(st, before).events) \in Nat
                 /\ Len(M!TruncateBefore(st, before).events)
                      + M!PrefixBelow(st.events, before) = Len(st.events)
           /\ \A policy \in M!RetentionSet : \A t :
                 LET cut == M!ApplyRetention(st, policy, t)
                 IN  /\ cut.head = st.head /\ Len(cut.events) \in Nat
                     /\ Len(cut.events) <= Len(st.events)
                     /\ policy = M!NoRetention => cut = st
  <1>a. M!KeyAssumption /\ M!StoreAssumption
    BY StoreAssumptions
  <1>t. Len(st.events) \in Nat /\ st.events \in Seq(M!EventSet)
    BY LenProperties DEF M!StreamSet
  <1>1. ASSUME NEW n \in 0..Len(st.events)
        PROVE  /\ M!DropPrefix(st, n).head = st.head
               /\ Len(M!DropPrefix(st, n).events) \in Nat
               /\ Len(M!DropPrefix(st, n).events) + n = Len(st.events)
    <2>1. /\ M!DropPrefix(st, n).head = st.head
          /\ Len(M!DropPrefix(st, n).events) = Len(st.events) - n
      BY <1>a, M!DropPrefixParts
    <2> QED BY <1>t, <2>1
  <1>2. ASSUME NEW before
        PROVE  /\ M!TruncateBefore(st, before).head = st.head
               /\ M!PrefixBelow(st.events, before) \in Nat
               /\ Len(M!TruncateBefore(st, before).events) \in Nat
               /\ Len(M!TruncateBefore(st, before).events)
                    + M!PrefixBelow(st.events, before) = Len(st.events)
    <2>1. M!PrefixBelow(st.events, before) \in 0..Len(st.events)
      BY <1>a, <1>t, M!PrefixBelowBound
    <2> QED BY <1>1, <1>t, <2>1 DEF M!TruncateBefore
  <1>3. ASSUME NEW policy \in M!RetentionSet, NEW t
        PROVE  LET cut == M!ApplyRetention(st, policy, t)
               IN  /\ cut.head = st.head /\ Len(cut.events) \in Nat
                   /\ Len(cut.events) <= Len(st.events)
                   /\ policy = M!NoRetention => cut = st
    <2> DEFINE n == M!Excess(st, policy, t)
    <2>1. n \in Int /\ n <= Len(st.events)
      BY <1>a, M!ExcessBound
    <2>2. policy = M!NoRetention => n = 0
      BY DEF M!Excess, M!NoRetention, M!Larger
    <2>3. M!ApplyRetention(st, policy, t) = IF n > 0 THEN M!DropPrefix(st, n) ELSE st
      BY DEF M!ApplyRetention
    <2> HIDE DEF n
    <2>4. CASE n > 0
      <3>1. n \in 0..Len(st.events) /\ policy # M!NoRetention
        BY <2>1, <2>2, <2>4
      <3>2. M!ApplyRetention(st, policy, t) = M!DropPrefix(st, n)
        BY <2>3, <2>4
      <3>3. /\ M!DropPrefix(st, n).head = st.head
            /\ Len(M!DropPrefix(st, n).events) \in Nat
            /\ Len(M!DropPrefix(st, n).events) + n = Len(st.events)
        BY <1>1, <3>1
      <3>4. Len(M!DropPrefix(st, n).events) <= Len(st.events)
        BY <1>t, <2>1, <2>4, <3>3
      <3> QED BY <3>1, <3>2, <3>3, <3>4
    <2>5. CASE ~(n > 0)
      BY <1>t, <2>3, <2>5
    <2> QED BY <2>4, <2>5
  <1> QED BY <1>2, <1>3

-----------------------------------------------------------------------------
(* The account of a stream: what is left of it and what was reported as    *)
(* removed.                                                                *)

(* What is left of a log and what truncations reported never exceed it,    *)
(* and make it up unless something was cut without a report.               *)
AccountOK(s) ==
    /\ Len(adminStreams[s].events) + removed[s] <= adminStreams[s].head
    /\ s \notin unreported \cup policed =>
          Len(adminStreams[s].events) + removed[s] = adminStreams[s].head
    /\ s \notin policed => adminRetention[s] = M!NoRetention

(* So for every stream, with the types the account needs.                  *)
Accounted ==
    /\ removed \in [Streams -> Nat]
    /\ unreported \subseteq Streams /\ policed \subseteq Streams
    /\ \A s \in Streams : AccountOK(s)

(* What the type of the store says of one stream.                          *)
LEMMA StreamFacts ==
    ASSUME M!TypeOK, NEW s \in Streams
    PROVE  /\ adminStreams[s] \in M!StreamSet /\ adminStreams[s].head \in Nat
           /\ Len(adminStreams[s].events) \in Nat /\ adminStreams[s].exists \in BOOLEAN
           /\ adminRetention[s] \in M!RetentionSet /\ adminNow \in Nat
           /\ adminCursors \in [Subscribers \X Streams -> Nat \cup {M!NoCursor}]
  <1>1. /\ adminStreams[s] \in M!StreamSet /\ adminRetention[s] \in M!RetentionSet
        /\ adminNow \in Nat
        /\ adminCursors \in [Subscribers \X Streams -> Nat \cup {M!NoCursor}]
    BY DEF M!TypeOK
  <1> QED BY <1>1, LenProperties DEF M!StreamSet

(* The streams a step does not touch.                                      *)
LEMMA AccountsKept ==
    ASSUME M!TypeOK, Accounted, NEW s \in Streams,
           removed' \in [Streams -> Nat], unreported' \subseteq Streams, policed' \subseteq Streams,
           \A r \in Streams \ {s} :
              /\ adminStreams'[r] = adminStreams[r] /\ adminRetention'[r] = adminRetention[r]
              /\ removed'[r] = removed[r]
              /\ r \in unreported' <=> r \in unreported
              /\ r \in policed' <=> r \in policed,
           AccountOK(s)'
    PROVE  Accounted'
  BY DEF Accounted, AccountOK

(* Every call keeps the account: a truncation moves to what was reported   *)
(* what it takes from the log, a policy or a compaction takes without a    *)
(* report and marks the stream, a deletion starts over.                    *)
LEMMA AccountedStep ==
    ASSUME Admin!AdminAssumption, M!TypeOK, Accounted, [Admin!Next]_Admin!vars
    PROVE  Accounted'
  <1> USE DEF M!storeVars, Admin!storeVars, Admin!histories
  <1>t. /\ removed \in [Streams -> Nat] /\ unreported \subseteq Streams /\ policed \subseteq Streams
        /\ adminStreams \in [Streams -> M!StreamSet]
        /\ adminRetention \in [Streams -> M!RetentionSet]
        /\ \A s \in Streams : AccountOK(s)
    BY DEF Accounted, M!TypeOK
  <1>0. ASSUME UNCHANGED <<adminStreams, adminRetention, removed, unreported, policed>>
        PROVE  Accounted'
    BY <1>0 DEF Accounted, AccountOK
  <1>1. ASSUME NEW s \in Streams, Admin!CreateStream(s) PROVE Accounted'
    <2> DEFINE st == M!EnsureStream(adminStreams[s])
    <2>1. /\ adminStreams' = [adminStreams EXCEPT ![s] = st]
          /\ UNCHANGED <<adminRetention, removed, unreported, policed>>
      BY <1>1, SameCalls DEF Admin!CreateStream, M!CreateStream
    <2>2. st.head = adminStreams[s].head /\ st.events = adminStreams[s].events
      BY StreamFacts DEF M!EnsureStream, M!StreamSet
    <2> HIDE DEF st
    <2>3. adminStreams'[s] = st /\ \A r \in Streams \ {s} : adminStreams'[r] = adminStreams[r]
      BY <1>t, <2>1
    <2>4. AccountOK(s)'
      BY <1>t, <2>1, <2>2, <2>3 DEF AccountOK
    <2> QED BY <1>t, <2>1, <2>3, <2>4, AccountsKept
  <1>2. ASSUME NEW s \in Streams, Admin!DeleteStream(s) PROVE Accounted'
    <2>1. /\ adminStreams' = [adminStreams EXCEPT ![s] = M!NoStream]
          /\ adminRetention' = [adminRetention EXCEPT ![s] = M!NoRetention]
          /\ removed' = [removed EXCEPT ![s] = 0]
          /\ unreported' = unreported \ {s} /\ policed' = policed \ {s}
      BY <1>2, SameCalls DEF Admin!DeleteStream, M!DeleteStream
    <2>2. Len(M!NoStream.events) = 0 /\ M!NoStream.head = 0
      <3>1. Len(<<>>) = 0
        OBVIOUS
      <3> QED BY <3>1 DEF M!NoStream
    <2>3. /\ adminStreams'[s] = M!NoStream /\ adminRetention'[s] = M!NoRetention /\ removed'[s] = 0
          /\ \A r \in Streams \ {s} :
                /\ adminStreams'[r] = adminStreams[r] /\ adminRetention'[r] = adminRetention[r]
                /\ removed'[r] = removed[r]
          /\ removed' \in [Streams -> Nat]
      BY <1>t, <2>1
    <2>4. AccountOK(s)'
      BY <2>2, <2>3 DEF AccountOK
    <2> QED BY <1>t, <2>1, <2>3, <2>4, AccountsKept
  <1>3. ASSUME NEW s \in Streams, NEW before, Admin!TruncateStream(s, before)
        PROVE  Accounted'
    <2> DEFINE cut == M!TruncateBefore(adminStreams[s], before)
               n == M!PrefixBelow(adminStreams[s].events, before)
    <2>1. Admin!Removed(s, before) = n
      BY SameLog DEF Admin!Removed
    <2>2. /\ adminStreams' = [adminStreams EXCEPT ![s] = cut]
          /\ removed' = [removed EXCEPT ![s] = @ + n]
          /\ UNCHANGED <<adminRetention, unreported, policed>>
      BY <1>3, <2>1, SameCalls DEF Admin!TruncateStream, M!TruncateStream
    <2>3. /\ cut.head = adminStreams[s].head /\ n \in Nat /\ Len(cut.events) \in Nat
          /\ Len(cut.events) + n = Len(adminStreams[s].events)
      BY StreamFacts, CutLengths
    <2> HIDE DEF cut, n
    <2>4. /\ adminStreams'[s] = cut /\ removed'[s] = removed[s] + n
          /\ removed' \in [Streams -> Nat]
          /\ \A r \in Streams \ {s} : adminStreams'[r] = adminStreams[r] /\ removed'[r] = removed[r]
      BY <1>t, <2>2, <2>3
    <2>5. Len(cut.events) + (removed[s] + n) = Len(adminStreams[s].events) + removed[s]
      BY <1>t, <2>3, StreamFacts
    <2>6. AccountOK(s)'
      BY <1>t, <2>2, <2>3, <2>4, <2>5 DEF AccountOK
    <2> QED BY <1>t, <2>2, <2>4, <2>6, AccountsKept
  <1>4. ASSUME NEW s \in Streams, NEW policy \in Retentions, Admin!SetStreamRetention(s, policy)
        PROVE  Accounted'
    <2> DEFINE cut == M!ApplyRetention(adminStreams[s], policy, adminNow)
    <2>1. /\ adminStreams' = [adminStreams EXCEPT ![s] = cut]
          /\ adminRetention' = [adminRetention EXCEPT ![s] = policy]
          /\ policed' = IF policy = M!NoRetention THEN policed ELSE policed \cup {s}
          /\ UNCHANGED <<removed, unreported>>
      BY <1>4, SameCalls, SameLog DEF Admin!SetStreamRetention, M!SetStreamRetention
    <2>2. policy \in M!RetentionSet
      BY DEF Admin!AdminAssumption, M!RetentionSet
    <2>3. /\ cut.head = adminStreams[s].head /\ Len(cut.events) \in Nat
          /\ Len(cut.events) <= Len(adminStreams[s].events)
          /\ policy = M!NoRetention => cut = adminStreams[s]
      BY <2>2, StreamFacts, CutLengths
    <2> HIDE DEF cut
    <2>4. /\ adminStreams'[s] = cut /\ adminRetention'[s] = policy
          /\ \A r \in Streams \ {s} :
                adminStreams'[r] = adminStreams[r] /\ adminRetention'[r] = adminRetention[r]
      BY <1>t, <2>1
    <2>5. Len(cut.events) + removed[s] <= Len(adminStreams[s].events) + removed[s]
      BY <1>t, <2>3, StreamFacts
    <2>6. Len(cut.events) + removed[s] <= adminStreams[s].head
      <3>1. Len(adminStreams[s].events) + removed[s] <= adminStreams[s].head
        BY <1>t DEF AccountOK
      <3> QED BY <1>t, <2>3, <2>5, <3>1, StreamFacts
    <2>7. AccountOK(s)'
      <3>1. CASE policy = M!NoRetention
        BY <1>t, <2>1, <2>3, <2>4, <3>1 DEF AccountOK
      <3>2. CASE policy # M!NoRetention
        BY <2>1, <2>3, <2>4, <2>6, <3>2 DEF AccountOK
      <3> QED BY <3>1, <3>2
    <2>8. /\ policed' \subseteq Streams
          /\ \A r \in Streams \ {s} : r \in policed' <=> r \in policed
      BY <1>t, <2>1
    <2> QED BY <1>t, <2>1, <2>4, <2>7, <2>8, AccountsKept
  <1>5. ASSUME NEW o \in Operators, Admin!CompactTruncate(o) PROVE Accounted'
    <2> DEFINE s == adminCompacting[o].stream
               cut == M!TruncateBefore(adminStreams[s], adminCompacting[o].min + 1)
               n == M!PrefixBelow(adminStreams[s].events, adminCompacting[o].min + 1)
    <2>1. /\ adminStreams' = [adminStreams EXCEPT ![s] = cut] /\ unreported' = unreported \cup {s}
          /\ UNCHANGED <<adminRetention, removed, policed>>
      BY <1>5, SameCalls DEF Admin!CompactTruncate, M!CompactTruncate
    <2>2. s \in Streams
      BY DEF M!TypeOK, M!CompactSet
    <2>3. /\ cut.head = adminStreams[s].head /\ n \in Nat /\ Len(cut.events) \in Nat
          /\ Len(cut.events) + n = Len(adminStreams[s].events)
      BY <2>2, StreamFacts, CutLengths
    <2> HIDE DEF cut, n
    <2>4. adminStreams'[s] = cut /\ \A r \in Streams \ {s} : adminStreams'[r] = adminStreams[r]
      BY <1>t, <2>1, <2>2
    <2>5. Len(cut.events) + removed[s] <= adminStreams[s].head
      <3>1. Len(adminStreams[s].events) + removed[s] <= adminStreams[s].head
        BY <1>t, <2>2 DEF AccountOK
      <3> HIDE DEF s
      <3> QED BY <1>t, <2>2, <2>3, <3>1, StreamFacts
    <2>6. adminRetention'[s] = adminRetention[s] /\ s \in unreported'
          /\ (s \notin policed' => adminRetention'[s] = M!NoRetention)
      BY <1>t, <2>1, <2>2 DEF AccountOK
    <2> HIDE DEF s
    <2>7. PICK r \in Streams : r = s
      BY <2>2
    <2>8. AccountOK(r)'
      BY <2>1, <2>3, <2>4, <2>5, <2>6, <2>7 DEF AccountOK
    <2>9. \A x \in Streams \ {r} : x \in unreported' <=> x \in unreported
      BY <2>1, <2>7
    <2> QED BY <1>t, <2>1, <2>2, <2>4, <2>7, <2>8, <2>9, AccountsKept
  <1>6. ASSUME NEW s \in Streams, NEW key \in Keys \cup {NoKey}, M!AppendNew(s, key, adminNow),
               UNCHANGED <<removed, unreported, policed>>
        PROVE  Accounted'
    <2> DEFINE e == M!AppendEvent(adminStreams[s], key, adminNow)
               cut == M!ApplyRetention(e, adminRetention[s], adminNow)
    <2>1. adminStreams' = [adminStreams EXCEPT ![s] = cut] /\ UNCHANGED adminRetention
      BY <1>6 DEF M!AppendNew
    <2>2. e \in M!StreamSet /\ e.head = adminStreams[s].head + 1
      BY StoreAssumptions, StreamFacts, M!AppendEventContiguous
    <2>3. Len(e.events) = Len(adminStreams[s].events) + 1
      <3>1. adminStreams[s].events \in Seq(M!EventSet)
        BY StreamFacts DEF M!StreamSet
      <3>2. [seq |-> adminStreams[s].head + 1, key |-> key, at |-> adminNow] \in M!EventSet
        BY StreamFacts DEF M!EventSet
      <3> QED BY <3>1, <3>2, AppendProperties DEF M!AppendEvent
    <2> HIDE DEF e
    <2>4. /\ cut.head = e.head /\ Len(cut.events) \in Nat /\ Len(cut.events) <= Len(e.events)
          /\ adminRetention[s] = M!NoRetention => cut = e
      BY <2>2, StreamFacts, CutLengths
    <2> HIDE DEF cut
    <2>5. adminStreams'[s] = cut /\ \A r \in Streams \ {s} : adminStreams'[r] = adminStreams[r]
      BY <1>t, <2>1
    <2>6. /\ Len(adminStreams[s].events) + removed[s] <= adminStreams[s].head
          /\ s \notin unreported \cup policed =>
                Len(adminStreams[s].events) + removed[s] = adminStreams[s].head
          /\ s \notin policed => adminRetention[s] = M!NoRetention
      BY <1>t DEF AccountOK
    <2>7. /\ Len(cut.events) + removed[s] <= cut.head
          /\ s \notin unreported \cup policed => Len(cut.events) + removed[s] = cut.head
      BY <1>t, <2>2, <2>3, <2>4, <2>6, StreamFacts
    <2>8. AccountOK(s)'
      BY <1>6, <2>1, <2>5, <2>6, <2>7 DEF AccountOK
    <2> QED BY <1>t, <1>6, <2>1, <2>5, <2>8, AccountsKept
  <1>7. CASE Admin!UsersNext
    <2>1. UNCHANGED <<removed, unreported, policed>>
      BY <1>7 DEF Admin!UsersNext
    <2>2. CASE Admin!Store!AckNext \/ Admin!Store!Tick
      <3>1. UNCHANGED <<adminStreams, adminRetention>>
        BY <2>2, SameCalls DEF M!AckNext, M!StoreAck, M!Tick
      <3> QED BY <1>0, <2>1, <3>1
    <2> QED BY <1>6, <1>7, <2>1, <2>2, SameCalls DEF Admin!UsersNext
  <1>8. ASSUME NEW s \in Streams, NEW o \in Operators,
               Admin!CompactStream(o, s) \/ Admin!CompactNothing(o, s)
        PROVE  UNCHANGED <<adminStreams, adminRetention, removed, unreported, policed>>
    BY <1>8, SameCalls DEF Admin!CompactStream, Admin!CompactNothing, M!CompactMinimum
  <1>9. ASSUME NEW s \in Streams,
               \/ \E u \in Subscribers, seq \in 0..AdminMaxSeq : Admin!ResetCursor(u, s, seq)
               \/ Admin!ListCursors(s) \/ Admin!GetStreamStats(s)
        PROVE  UNCHANGED <<adminStreams, adminRetention, removed, unreported, policed>>
    BY <1>9, SameCalls
    DEF Admin!ResetCursor, Admin!ListCursors, Admin!GetStreamStats, M!ResetCursor
  <1>10. ASSUME NEW prefix \in Prefixes, NEW limit \in ListLimits,
                Admin!ListStreams(prefix, limit)
         PROVE  UNCHANGED <<adminStreams, adminRetention, removed, unreported, policed>>
    BY <1>10 DEF Admin!ListStreams
  <1>11. CASE UNCHANGED Admin!vars
    BY <1>0, <1>11 DEF Admin!vars
  <1>12. CASE Admin!StreamNext
    BY <1>0, <1>1, <1>2, <1>10, <1>12 DEF Admin!StreamNext
  <1>13. CASE Admin!RetentionNext
    BY <1>0, <1>3, <1>4, <1>8, <1>13 DEF Admin!RetentionNext
  <1>14. CASE Admin!CursorNext
    BY <1>0, <1>9, <1>14 DEF Admin!CursorNext
  <1> QED BY <1>5, <1>7, <1>11, <1>12, <1>13, <1>14 DEF Admin!Next

(* Nothing is logged or removed at the start.                              *)
LEMMA AdminStarts ==
    ASSUME Admin!AdminAssumption, Admin!Init
    PROVE  M!TypeOK /\ Accounted /\ adminReply = Absent
  <1>1. M!Init
    BY SameCalls DEF Admin!Init
  <1>2. M!TypeOK
    BY <1>1, StoreAssumptions, M!StoreTypeInit
  <1>3. /\ adminStreams = [s \in Streams |-> M!NoStream]
        /\ adminRetention = [s \in Streams |-> M!NoRetention]
    BY <1>1 DEF M!Init
  <1>4. Len(M!NoStream.events) = 0 /\ M!NoStream.head = 0
    <2>1. Len(<<>>) = 0
      OBVIOUS
    <2> QED BY <2>1 DEF M!NoStream
  <1> QED BY <1>2, <1>3, <1>4 DEF Admin!Init, Accounted, AccountOK

(* A step that answers leaves the histories it is compared with alone, and *)
(* the statistics are answered from the log as it is.                      *)
LEMMA StatsStep ==
    ASSUME Admin!AdminAssumption, M!TypeOK, Accounted, Admin!EventsAccountedFor,
           [Admin!Next]_Admin!vars
    PROVE  Admin!EventsAccountedFor'
  <1> USE DEF Admin!EventsAccountedFor, Admin!LastWas
  <1>0. ASSUME UNCHANGED <<adminReply, removed, unreported, policed>>
        PROVE  Admin!EventsAccountedFor'
    BY <1>0
  <1>1. ASSUME NEW rpc, rpc # "getStreamStats", NEW input, NEW output,
               Admin!Reply(rpc, input, output)
        PROVE  Admin!EventsAccountedFor'
    <2>1. adminReply'.rpc = rpc
      BY <1>1 DEF Admin!Reply
    <2> QED BY <1>1, <2>1
  <1>2. ASSUME NEW s \in Streams, Admin!GetStreamStats(s)
        PROVE  Admin!EventsAccountedFor'
    <2> DEFINE stats == [streamId |-> s, eventCount |-> Len(adminStreams[s].events),
                         headSeq |-> adminStreams[s].head,
                         subscriberCount |-> Admin!Cardinality(Admin!Store!CursorsOn(s))]
    <2>1. /\ adminReply' = [rpc |-> "getStreamStats", input |-> [streamId |-> s],
                       output |-> [stats |-> stats]]
          /\ UNCHANGED <<removed, unreported, policed>>
      BY <1>2 DEF Admin!GetStreamStats, Admin!Reply, Admin!histories
    <2>2. adminReply'.output.stats = stats
      BY <2>1
    <2>3. /\ stats.streamId = s /\ stats.eventCount = Len(adminStreams[s].events)
          /\ stats.headSeq = adminStreams[s].head
      OBVIOUS
    <2>4. AccountOK(s)
      BY DEF Accounted
    <2> HIDE DEF stats
    <2> QED BY <2>1, <2>2, <2>3, <2>4 DEF AccountOK
  <1>3. ASSUME NEW s \in Streams, Admin!CreateStream(s) \/ Admin!DeleteStream(s)
        PROVE  Admin!EventsAccountedFor'
    BY <1>1, <1>3 DEF Admin!CreateStream, Admin!DeleteStream
  <1>4. ASSUME NEW prefix \in Prefixes, NEW limit \in ListLimits,
               Admin!ListStreams(prefix, limit)
        PROVE  Admin!EventsAccountedFor'
    BY <1>1, <1>4 DEF Admin!ListStreams
  <1>5. ASSUME NEW s \in Streams,
               \/ \E before : Admin!TruncateStream(s, before)
               \/ \E policy \in Retentions : Admin!SetStreamRetention(s, policy)
               \/ \E o \in Operators : Admin!CompactNothing(o, s)
        PROVE  Admin!EventsAccountedFor'
    BY <1>1, <1>5
    DEF Admin!TruncateStream, Admin!SetStreamRetention, Admin!CompactNothing, Admin!Compacted
  <1>6. ASSUME NEW s \in Streams, NEW o \in Operators, Admin!CompactStream(o, s)
        PROVE  Admin!EventsAccountedFor'
    BY <1>0, <1>6 DEF Admin!CompactStream, Admin!histories
  <1>7. ASSUME NEW o \in Operators, Admin!CompactTruncate(o)
        PROVE  Admin!EventsAccountedFor'
    BY <1>1, <1>7 DEF Admin!CompactTruncate, Admin!Compacted
  <1>8. ASSUME NEW s \in Streams,
               \/ \E u \in Subscribers, seq \in 0..AdminMaxSeq : Admin!ResetCursor(u, s, seq)
               \/ Admin!ListCursors(s)
        PROVE  Admin!EventsAccountedFor'
    BY <1>1, <1>8 DEF Admin!ResetCursor, Admin!ListCursors
  <1>9. CASE Admin!UsersNext
    BY <1>0, <1>9 DEF Admin!UsersNext, Admin!histories
  <1>10. CASE UNCHANGED Admin!vars
    BY <1>0, <1>10 DEF Admin!vars, Admin!histories
  <1>11. CASE Admin!StreamNext
    BY <1>3, <1>4, <1>11 DEF Admin!StreamNext
  <1>12. CASE Admin!RetentionNext
    BY <1>5, <1>6, <1>12 DEF Admin!RetentionNext
  <1>13. CASE Admin!CursorNext
    BY <1>2, <1>8, <1>13 DEF Admin!CursorNext
  <1> QED BY <1>7, <1>9, <1>10, <1>11, <1>12, <1>13 DEF Admin!Next

(* So the accounts and the statistics of the admin service hold.           *)
LEMMA AdminAccounts ==
    ASSUME Admin!AdminAssumption
    PROVE  Admin!Spec => [](Admin!EventsAccountedFor /\ Admin!UntouchedIsComplete)
  <1> DEFINE Inv == M!TypeOK /\ Accounted /\ Admin!EventsAccountedFor
  <1>1. Admin!Init => Inv
    BY AdminStarts DEF Admin!EventsAccountedFor, Admin!LastWas
  <1>2. Inv /\ [Admin!Next]_Admin!vars => Inv'
    BY AdminTypeStep, AccountedStep, StatsStep
  <1>3. Inv => Admin!EventsAccountedFor /\ Admin!UntouchedIsComplete
    BY StreamFacts DEF Accounted, AccountOK, Admin!UntouchedIsComplete
  <1> HIDE DEF Inv
  <1> QED BY <1>1, <1>2, <1>3, PTL DEF Admin!Spec

-----------------------------------------------------------------------------
(* Types of the admin service.                                             *)

(* The last answer is one of its method.                                   *)
AdminReplyTyped ==
    adminReply # Absent => /\ adminReply.input \in Admin!SyncLogAdminService[adminReply.rpc].input
                      /\ adminReply.output \in Admin!SyncLogAdminService[adminReply.rpc].output

(* An answer of the type its method declares.                              *)
LEMMA AdminReplyOfType ==
    ASSUME NEW rpc, NEW requests, NEW responses, NEW input \in requests,
           NEW output \in responses,
           Admin!SyncLogAdminService[rpc] = [input |-> requests, output |-> responses],
           Admin!Reply(rpc, input, output)
    PROVE  AdminReplyTyped'
  <1>1. /\ adminReply'.rpc = rpc /\ adminReply'.input = input /\ adminReply'.output = output
    BY DEF Admin!Reply
  <1>2. /\ Admin!SyncLogAdminService[rpc].input = requests
        /\ Admin!SyncLogAdminService[rpc].output = responses
    OBVIOUS
  <1> QED BY <1>1, <1>2 DEF AdminReplyTyped

(* Answers of CreateStream and DeleteStream.                               *)
LEMMA StreamRepliesTyped ==
    ASSUME Admin!AdminAssumption, M!TypeOK, NEW s \in Streams,
           Admin!CreateStream(s) \/ Admin!DeleteStream(s)
    PROVE  AdminReplyTyped'
  <1>1. CASE Admin!CreateStream(s)
    <2>1. Admin!Reply("createStream", [streamId |-> s], [stream |-> [id |-> s]])
      BY <1>1 DEF Admin!CreateStream
    <2>2. [streamId |-> s] \in Admin!CreateStreamRequest
      BY DEF Admin!CreateStreamRequest
    <2>3. [stream |-> [id |-> s]] \in Admin!CreateStreamResponse
      BY DEF Admin!CreateStreamResponse, Admin!Stream
    <2>4. Admin!SyncLogAdminService["createStream"]
            = [input |-> Admin!CreateStreamRequest, output |-> Admin!CreateStreamResponse]
      BY DEF Admin!SyncLogAdminService
    <2> QED BY <2>1, <2>2, <2>3, <2>4, AdminReplyOfType
  <1>2. CASE Admin!DeleteStream(s)
    <2>1. Admin!Reply("deleteStream", [streamId |-> s], [deleted |-> adminStreams[s].exists])
      BY <1>2 DEF Admin!DeleteStream
    <2>2. [streamId |-> s] \in Admin!DeleteStreamRequest
      BY DEF Admin!DeleteStreamRequest
    <2>3. [deleted |-> adminStreams[s].exists] \in Admin!DeleteStreamResponse
      BY StreamFacts DEF Admin!DeleteStreamResponse
    <2>4. Admin!SyncLogAdminService["deleteStream"]
            = [input |-> Admin!DeleteStreamRequest, output |-> Admin!DeleteStreamResponse]
      BY DEF Admin!SyncLogAdminService
    <2> QED BY <2>1, <2>2, <2>3, <2>4, AdminReplyOfType
  <1> QED BY <1>1, <1>2

(* Answers of ListStreams.                                                 *)
LEMMA ListingTyped ==
    ASSUME Admin!AdminAssumption, M!TypeOK, NEW prefix \in Prefixes, NEW limit \in ListLimits,
           Admin!ListStreams(prefix, limit)
    PROVE  AdminReplyTyped'
  <1> DEFINE found == {s \in prefix : adminStreams[s].exists}
             size == Admin!Store!Smaller(Admin!Cardinality(found), Admin!EffectiveLimit(limit))
  <1>1. PICK shown \in Admin!kSubset(size, found) :
          Admin!Reply("listStreams", [prefix |-> prefix, limit |-> limit],
                      [streams |-> [id : shown]])
    BY DEF Admin!ListStreams
  <1>2. shown \subseteq found /\ found \subseteq Streams
    BY DEF Admin!kSubset, Admin!AdminAssumption
  <1>3. [streams |-> [id : shown]] \in Admin!ListStreamsResponse
    BY <1>2 DEF Admin!ListStreamsResponse, Admin!Stream
  <1>4. [prefix |-> prefix, limit |-> limit] \in Admin!ListStreamsRequest
    BY DEF Admin!ListStreamsRequest, Admin!AdminAssumption
  <1>5. Admin!SyncLogAdminService["listStreams"]
          = [input |-> Admin!ListStreamsRequest, output |-> Admin!ListStreamsResponse]
    BY DEF Admin!SyncLogAdminService
  <1> HIDE DEF found, size
  <1> QED BY <1>1, <1>3, <1>4, <1>5, AdminReplyOfType

(* Answers of TruncateStream, SetStreamRetention and CompactStream.        *)
LEMMA RetentionRepliesTyped ==
    ASSUME Admin!AdminAssumption, M!TypeOK, NEW s \in Streams
    PROVE  /\ \A before \in 0..(AdminMaxSeq + 1) :
                 Admin!TruncateStream(s, before) => AdminReplyTyped'
           /\ \A policy \in Retentions : Admin!SetStreamRetention(s, policy) => AdminReplyTyped'
           /\ Admin!Compacted(s) => AdminReplyTyped'
  <1>1. ASSUME NEW before \in 0..(AdminMaxSeq + 1), Admin!TruncateStream(s, before)
        PROVE  AdminReplyTyped'
    <2>1. Admin!Reply("truncateStream", [streamId |-> s, beforeSeq |-> before],
                      [removed |-> Admin!Removed(s, before)])
      BY <1>1 DEF Admin!TruncateStream
    <2>2. before \in Nat
      BY DEF Admin!AdminAssumption
    <2>3. Admin!Removed(s, before) \in Nat
      BY StreamFacts, SameLog, CutLengths DEF Admin!Removed
    <2>4. [streamId |-> s, beforeSeq |-> before] \in Admin!TruncateStreamRequest
      BY <2>2 DEF Admin!TruncateStreamRequest
    <2>5. [removed |-> Admin!Removed(s, before)] \in Admin!TruncateStreamResponse
      BY <2>3 DEF Admin!TruncateStreamResponse
    <2>6. Admin!SyncLogAdminService["truncateStream"]
            = [input |-> Admin!TruncateStreamRequest, output |-> Admin!TruncateStreamResponse]
      BY DEF Admin!SyncLogAdminService
    <2> QED BY <2>1, <2>4, <2>5, <2>6, AdminReplyOfType
  <1>2. ASSUME NEW policy \in Retentions, Admin!SetStreamRetention(s, policy)
        PROVE  AdminReplyTyped'
    <2> DEFINE message == [retention |-> Admin!PolicyOf(s, policy)]
    <2>1. Admin!Reply("setStreamRetention", message, message)
      BY <1>2 DEF Admin!SetStreamRetention
    <2>2. policy.ttl \in Nat /\ policy.max \in Nat
      BY DEF Admin!AdminAssumption
    <2>3. Admin!PolicyOf(s, policy) \in Admin!StreamRetention
      BY <2>2 DEF Admin!PolicyOf, Admin!StreamRetention
    <2>4. /\ message \in Admin!SetStreamRetentionRequest
          /\ message \in Admin!SetStreamRetentionResponse
      BY <2>3 DEF Admin!SetStreamRetentionRequest, Admin!SetStreamRetentionResponse
    <2>5. Admin!SyncLogAdminService["setStreamRetention"]
            = [input |-> Admin!SetStreamRetentionRequest,
               output |-> Admin!SetStreamRetentionResponse]
      BY DEF Admin!SyncLogAdminService
    <2> HIDE DEF message
    <2> QED BY <2>1, <2>4, <2>5, AdminReplyOfType
  <1>3. ASSUME Admin!Compacted(s) PROVE AdminReplyTyped'
    <2>1. Admin!Reply("compactStream", [streamId |-> s],
                      [job |-> [jobId |-> s, state |-> "DONE"]])
      BY <1>3 DEF Admin!Compacted
    <2>2. [streamId |-> s] \in Admin!CompactStreamRequest
      BY DEF Admin!CompactStreamRequest
    <2>3. [job |-> [jobId |-> s, state |-> "DONE"]] \in Admin!CompactStreamResponse
      BY DEF Admin!CompactStreamResponse, Admin!Job, Admin!JobState
    <2>4. Admin!SyncLogAdminService["compactStream"]
            = [input |-> Admin!CompactStreamRequest, output |-> Admin!CompactStreamResponse]
      BY DEF Admin!SyncLogAdminService
    <2> QED BY <2>1, <2>2, <2>3, <2>4, AdminReplyOfType
  <1> QED BY <1>1, <1>2, <1>3

(* Answers of ResetCursor, ListCursors and GetStreamStats.                 *)
LEMMA CursorRepliesTyped ==
    ASSUME Admin!AdminAssumption, M!TypeOK, NEW s \in Streams
    PROVE  /\ \A u \in Subscribers, seq \in 0..AdminMaxSeq :
                 Admin!ResetCursor(u, s, seq) => AdminReplyTyped'
           /\ Admin!ListCursors(s) => AdminReplyTyped'
           /\ Admin!GetStreamStats(s) => AdminReplyTyped'
  <1>1. ASSUME NEW u \in Subscribers, NEW seq \in Nat
        PROVE  Admin!CursorShown(u, s, seq) \in Admin!SubscriberCursor
    BY DEF Admin!CursorShown, Admin!SubscriberCursor, Admin!Cursor
  <1>2. ASSUME NEW u \in Subscribers, NEW seq \in 0..AdminMaxSeq, Admin!ResetCursor(u, s, seq)
        PROVE  AdminReplyTyped'
    <2>1. Admin!Reply("resetCursor", [subscriberId |-> u, streamId |-> s, seq |-> seq],
                      Admin!ResetOutput(u, s, seq))
      BY <1>2 DEF Admin!ResetCursor
    <2>2. seq \in Nat
      BY DEF Admin!AdminAssumption
    <2>3. [subscriberId |-> u, streamId |-> s, seq |-> seq] \in Admin!ResetCursorRequest
      BY <2>2 DEF Admin!ResetCursorRequest
    <2>4. Admin!ResetOutput(u, s, seq) \in Admin!ResetCursorResponse
      BY <1>1, <2>2 DEF Admin!ResetOutput, Admin!ResetCursorResponse
    <2>5. Admin!SyncLogAdminService["resetCursor"]
            = [input |-> Admin!ResetCursorRequest, output |-> Admin!ResetCursorResponse]
      BY DEF Admin!SyncLogAdminService
    <2> QED BY <2>1, <2>3, <2>4, <2>5, AdminReplyOfType
  <1>3. ASSUME Admin!ListCursors(s) PROVE AdminReplyTyped'
    <2> DEFINE shown == {Admin!CursorShown(u, s, adminCursors[<<u, s>>]) :
                           u \in Admin!Store!CursorsOn(s)}
    <2>1. Admin!Reply("listCursors", [streamId |-> s], [cursors |-> shown])
      BY <1>3 DEF Admin!ListCursors
    <2>2. ASSUME NEW u \in Admin!Store!CursorsOn(s)
          PROVE  u \in Subscribers /\ adminCursors[<<u, s>>] \in Nat
      BY StreamFacts, SameLog DEF M!CursorsOn
    <2>3. shown \subseteq Admin!SubscriberCursor
      BY <1>1, <2>2
    <2> HIDE DEF shown
    <2>4. [cursors |-> shown] \in Admin!ListCursorsResponse
      BY <2>3 DEF Admin!ListCursorsResponse
    <2>5. [streamId |-> s] \in Admin!ListCursorsRequest
      BY DEF Admin!ListCursorsRequest
    <2>6. Admin!SyncLogAdminService["listCursors"]
            = [input |-> Admin!ListCursorsRequest, output |-> Admin!ListCursorsResponse]
      BY DEF Admin!SyncLogAdminService
    <2> QED BY <2>1, <2>4, <2>5, <2>6, AdminReplyOfType
  <1>4. ASSUME Admin!GetStreamStats(s) PROVE AdminReplyTyped'
    <2> DEFINE on == Admin!Store!CursorsOn(s)
               stats == [streamId |-> s, eventCount |-> Len(adminStreams[s].events),
                         headSeq |-> adminStreams[s].head,
                         subscriberCount |-> Admin!Cardinality(on)]
    <2>1. Admin!Reply("getStreamStats", [streamId |-> s], [stats |-> stats])
      BY <1>4 DEF Admin!GetStreamStats
    <2>2. on \subseteq Subscribers
      BY SameLog DEF M!CursorsOn
    <2>3. Admin!Cardinality(on) \in Nat
      <3>1. IsFiniteSet(Subscribers)
        BY DEF Admin!AdminAssumption, Admin!IsFiniteSet, IsFiniteSet
      <3>2. Cardinality(on) \in Nat
        BY <2>2, <3>1, FS_Subset, FS_CardinalityType
      <3>3. \A S : Admin!Cardinality(S) = Cardinality(S)
        BY DEF Admin!Cardinality, Cardinality
      <3> QED BY <3>2, <3>3
    <2> HIDE DEF on
    <2>4. stats \in Admin!StreamStats
      BY <2>3, StreamFacts DEF Admin!StreamStats
    <2> HIDE DEF stats
    <2>5. [stats |-> stats] \in Admin!GetStreamStatsResponse
      BY <2>4 DEF Admin!GetStreamStatsResponse
    <2>6. [streamId |-> s] \in Admin!GetStreamStatsRequest
      BY DEF Admin!GetStreamStatsRequest
    <2>7. Admin!SyncLogAdminService["getStreamStats"]
            = [input |-> Admin!GetStreamStatsRequest, output |-> Admin!GetStreamStatsResponse]
      BY DEF Admin!SyncLogAdminService
    <2> QED BY <2>1, <2>5, <2>6, <2>7, AdminReplyOfType
  <1> QED BY <1>2, <1>3, <1>4

(* Answers of every method.                                                *)
LEMMA AdminRepliesTyped ==
    ASSUME Admin!AdminAssumption, M!TypeOK, AdminReplyTyped, [Admin!Next]_Admin!vars
    PROVE  AdminReplyTyped'
  <1>0. ASSUME UNCHANGED adminReply PROVE AdminReplyTyped'
    BY <1>0 DEF AdminReplyTyped
  <1>1. CASE Admin!StreamNext
    BY <1>1, StreamRepliesTyped, ListingTyped DEF Admin!StreamNext
  <1>2. CASE Admin!RetentionNext
    <2>1. ASSUME NEW s \in Streams, NEW o \in Operators, Admin!CompactStream(o, s)
          PROVE  UNCHANGED adminReply
      BY <2>1 DEF Admin!CompactStream
    <2>2. ASSUME NEW s \in Streams, NEW o \in Operators, Admin!CompactNothing(o, s)
          PROVE  AdminReplyTyped'
      BY <2>2, RetentionRepliesTyped DEF Admin!CompactNothing
    <2> QED BY <1>0, <1>2, <2>1, <2>2, RetentionRepliesTyped DEF Admin!RetentionNext
  <1>3. ASSUME NEW o \in Operators, Admin!CompactTruncate(o) PROVE AdminReplyTyped'
    <2>1. adminCompacting[o].stream \in Streams
      BY DEF M!TypeOK, M!CompactSet
    <2> QED BY <1>3, <2>1, RetentionRepliesTyped DEF Admin!CompactTruncate
  <1>4. CASE Admin!CursorNext
    BY <1>4, CursorRepliesTyped DEF Admin!CursorNext
  <1>5. CASE Admin!UsersNext
    BY <1>0, <1>5 DEF Admin!UsersNext
  <1>6. CASE UNCHANGED Admin!vars
    BY <1>0, <1>6 DEF Admin!vars
  <1> QED BY <1>1, <1>2, <1>3, <1>4, <1>5, <1>6 DEF Admin!Next

(* So every answer has the type its method declares in admin.proto.        *)
LEMMA AdminTypes == ASSUME Admin!AdminAssumption PROVE Admin!Spec => []Admin!TypeOK
  <1> DEFINE Inv == M!TypeOK /\ Accounted /\ AdminReplyTyped
  <1>1. Admin!Init => Inv
    BY AdminStarts DEF AdminReplyTyped
  <1>2. Inv /\ [Admin!Next]_Admin!vars => Inv'
    BY AdminTypeStep, AccountedStep, AdminRepliesTyped
  <1>3. Inv => Admin!TypeOK
    BY DEF Accounted, AdminReplyTyped, Admin!TypeOK
  <1> HIDE DEF Inv
  <1> QED BY <1>1, <1>2, <1>3, PTL DEF Admin!Spec

-----------------------------------------------------------------------------
(* What a frame of the raw Subscribe loop tells, and what holds around it. *)

(* What a frame with events may tell a consumer that has applied the log   *)
(* up to seq, when the log ends at last: events that continue what it has, *)
(* within the head sent with them.                                         *)
FitsAt(f, last, seq) ==
    f.status = "OK" => /\ f.batch \in Loop!EventBatch /\ f.head \in Loop!Cursor
                       /\ f.head.seq <= last
                       /\ f.batch.seqStart <= seq + 1
                       /\ f.batch.seq <= f.head.seq
                       /\ f.batch.final <=> f.batch.seq = f.head.seq

(* The same as of now.                                                     *)
FrameFits(f) == FitsAt(f, head[Tailed], applied)

(* What the variables of the loop, its log and its consumer hold.          *)
LoopTyped ==
    /\ head \in [Streams -> Nat] /\ retained \in [Streams -> Nat]
    /\ cursor \in [Subscribers \X Streams -> Nat]
    /\ \E q : request = [s \in {Tailed} |-> q]
    /\ applied \in Nat /\ delivered \in Nat
    /\ Loop!TypeOK

(* The consumer acks what it applied, and nothing is sent or applied       *)
(* beyond the log.                                                         *)
WithinLog ==
    /\ cursor[<<Subscriber, Tailed>>] <= applied /\ applied <= head[Tailed]
    /\ delivered <= head[Tailed] /\ head[Tailed] <= LoopMaxSeq

(* A catch-up starts from a cursor the consumer has reached.               *)
RequestFits ==
    phase = "answer" =>
        \E from \in Nat : /\ from <= applied
                          /\ request[Tailed] = Loop!Log!Asked(Tailed, BatchLimit, 0, from)

(* So its answer continues what the consumer has.                          *)
ResultFits ==
    phase \in {"handle", "wait", "blocked"} =>
        /\ result \in Loop!CatchUpResponse
        /\ result.cursor.seq <= applied
        /\ FrameFits(result)

(* And so does every frame under way.                                      *)
WireFits == \A i \in 1..Len(wire) : FrameFits(wire[i])

(* The inductive invariant.                                                *)
LoopOK == LoopTyped /\ WithinLog /\ RequestFits /\ ResultFits /\ WireFits

(* The largest of two numbers, as the consumer moves its position.         *)
LEMMA LargestOfTwo ==
    ASSUME NEW a \in Int, NEW b \in Int
    PROVE  /\ Loop!Max({a, b}) \in Int /\ Loop!Max({a, b}) \in {a, b}
           /\ a <= Loop!Max({a, b}) /\ b <= Loop!Max({a, b})
  <1>1. \E x \in {a, b} : \A y \in {a, b} : x >= y
    BY DEF Loop!Max
  <1>2. /\ Loop!Max({a, b}) \in {a, b}
        /\ \A y \in {a, b} : Loop!Max({a, b}) >= y
    BY <1>1 DEF Loop!Max
  <1> QED BY <1>2

(* What a catch-up answers with continues the cursor it started from.      *)
LEMMA AnsweredBatchFits ==
    ASSUME Loop!SubscribeAssumption, NEW from \in Nat, NEW last \in Nat, from <= last
    PROVE  LET batch == Loop!PBBatch(from, Loop!Log!Batch(from, BatchLimit, last))
           IN  /\ batch \in Loop!EventBatch
               /\ batch.seqStart <= from + 1 /\ batch.seq <= last
               /\ batch.final <=> batch.seq = last
  <1> DEFINE seq == Loop!Log!Smaller(from + BatchLimit, last)
             seqs == [i \in 1..(seq - from) |-> from + i]
             answer == Loop!Log!Batch(from, BatchLimit, last)
             type == CHOOSE t \in PayloadTypes : TRUE
             events == [i \in 1..Len(seqs) |->
                          [streamId |-> Tailed, seq |-> seqs[i], payloadType |-> type,
                           payloadVersion |-> 1, idempotencyKey |-> NoKey]]
             start == IF seqs = <<>> THEN 0 ELSE seqs[1]
             next == IF seqs = <<>> THEN last ELSE from + Len(seqs)
             final == seq = last
  <1>1. seq \in Nat /\ from <= seq /\ seq <= last /\ (seq = from => last = from)
    BY DEF Loop!Log!Smaller, Loop!SubscribeAssumption
  <1>2. /\ answer.seqs = seqs /\ answer.head = last /\ answer.final = final
    BY DEF Loop!Log!Batch
  <1>3. Loop!PBBatch(from, answer) =
          [events |-> events, seqStart |-> start, seq |-> next, final |-> final]
    <2> HIDE DEF answer, seqs, final
    <2> QED BY <1>2 DEF Loop!PBBatch
  <1> HIDE DEF seq, answer
  <1>4. seqs \in Seq(Nat) /\ Len(seqs) = seq - from /\ \A i \in 1..(seq - from) : seqs[i] = from + i
    <2>1. seq - from \in Nat
      BY <1>1
    <2>2. \A i \in 1..(seq - from) : from + i \in Nat
      OBVIOUS
    <2> QED BY <2>1, <2>2
  <1> HIDE DEF seqs
  <1>5. events \in Seq(Loop!Event)
    <2>1. Len(seqs) \in Nat /\ type \in PayloadTypes
      BY <1>1, <1>4 DEF Loop!SubscribeAssumption
    <2> HIDE DEF type
    <2>2. \A i \in 1..Len(seqs) :
            [streamId |-> Tailed, seq |-> seqs[i], payloadType |-> type,
             payloadVersion |-> 1, idempotencyKey |-> NoKey] \in Loop!Event
      BY <1>4, <2>1 DEF Loop!Event, Loop!SubscribeAssumption
    <2>3. events \in [1..Len(seqs) -> Loop!Event]
      BY <2>2
    <2> HIDE DEF events
    <2> QED BY <2>1, <2>3, SeqDef
  <1>6. seqs = <<>> <=> seq = from
    <2>1. seqs = <<>> => Len(seqs) = 0
      OBVIOUS
    <2>2. Len(seqs) = 0 => seqs = <<>>
      BY <1>4, EmptySeq
    <2> QED BY <1>1, <1>4, <2>1, <2>2
  <1>7. start \in Nat /\ start <= from + 1
    <2>1. CASE seqs = <<>>
      BY <2>1
    <2>2. CASE seqs # <<>>
      <3>1. 1 \in 1..(seq - from)
        BY <1>1, <1>6, <2>2
      <3> QED BY <1>4, <2>2, <3>1
    <2> QED BY <2>1, <2>2
  <1>8. next = seq
    BY <1>1, <1>4, <1>6
  <1> HIDE DEF events, start, next
  <1>9. Loop!PBBatch(from, answer) \in Loop!EventBatch
    BY <1>1, <1>3, <1>5, <1>7, <1>8 DEF Loop!EventBatch
  <1> DEFINE batch == Loop!PBBatch(from, answer)
  <1>10. batch.seqStart = start /\ batch.seq = next /\ batch.final = final
    <2> HIDE DEF final
    <2> QED BY <1>3
  <1>11. batch.final <=> batch.seq = last
    BY <1>8, <1>10
  <1>12. batch.seqStart <= from + 1 /\ batch.seq <= last
    BY <1>1, <1>7, <1>8, <1>10
  <1>13. batch \in Loop!EventBatch
    BY <1>9
  <1> HIDE DEF batch, final
  <1>14. /\ batch \in Loop!EventBatch
         /\ batch.seqStart <= from + 1 /\ batch.seq <= last
         /\ batch.final <=> batch.seq = last
    BY <1>11, <1>12, <1>13
  <1> QED BY <1>14, Zenon DEF answer, batch

(* A frame that fits still fits when the log has grown and the consumer    *)
(* has moved on.                                                           *)
LEMMA FitsLater ==
    ASSUME NEW f, NEW last \in Int, NEW later \in Int, NEW seq \in Int, NEW next \in Int,
           FitsAt(f, last, seq), last <= later, seq <= next
    PROVE  FitsAt(f, later, next)
  BY DEF FitsAt, Loop!EventBatch, Loop!Cursor

(* The part of the invariant about what was read and sent, kept by a step  *)
(* that sends and reads nothing.                                           *)
LEMMA LogGrows ==
    ASSUME LoopOK,
           /\ head' \in [Streams -> Nat] /\ applied' \in Nat
           /\ head[Tailed] <= head'[Tailed] /\ applied <= applied'
           /\ Tailed \in Streams
    PROVE  /\ \A i \in 1..Len(wire) : FitsAt(wire[i], head'[Tailed], applied')
           /\ phase \in {"handle", "wait", "blocked"} => FitsAt(result, head'[Tailed], applied')
  <1>1. /\ head[Tailed] \in Int /\ head'[Tailed] \in Int /\ applied \in Int /\ applied' \in Int
    BY DEF LoopOK, LoopTyped
  <1>2. ASSUME NEW i \in 1..Len(wire)
        PROVE  FitsAt(wire[i], head'[Tailed], applied')
    <2>1. FitsAt(wire[i], head[Tailed], applied)
      BY DEF LoopOK, WireFits, FrameFits
    <2> QED BY <1>1, <2>1, FitsLater
  <1>3. ASSUME phase \in {"handle", "wait", "blocked"}
        PROVE  FitsAt(result, head'[Tailed], applied')
    <2>1. FitsAt(result, head[Tailed], applied)
      BY <1>3 DEF LoopOK, ResultFits, FrameFits
    <2> QED BY <1>1, <2>1, FitsLater
  <1> QED BY <1>2, <1>3

(* The loop starts in the invariant.                                       *)
LEMMA LoopStarts ==
    ASSUME Loop!SubscribeAssumption, Loop!Init
    PROVE  LoopOK
  <1> USE DEF Loop!Init, Loop!Log!Init
  <1>1. LoopTyped
    <2>1. result \in Loop!Optional(Loop!SyncLogService.catchUp.output)
      BY DEF Loop!Optional
    <2>2. wire \in Seq(Loop!SyncLogService.subscribe.output) /\ Len(wire) = 0
      OBVIOUS
    <2>3. Loop!TypeOK
      <3>1. 0 \in 0..LoopMaxSeq /\ 0 <= MaxWire
        BY DEF Loop!SubscribeAssumption
      <3>2. /\ phase = "catchUp" /\ delivered = 0 /\ applied = 0
            /\ tooLongSent = FALSE /\ overdue = FALSE
        OBVIOUS
      <3>3. Len(wire) <= MaxWire
        BY <2>2, <3>1
      <3> QED BY <2>1, <2>2, <3>1, <3>2, <3>3, Zenon DEF Loop!TypeOK
    <2>4. request = [s \in {Tailed} |-> Loop!Log!NoRequest]
      BY DEF Loop!Init, Loop!Log!Init
    <2> QED BY <2>3, <2>4 DEF LoopTyped
  <1>2. WithinLog
    BY DEF WithinLog, Loop!SubscribeAssumption
  <1>3. RequestFits /\ ResultFits /\ WireFits
    BY DEF RequestFits, ResultFits, WireFits
  <1> QED BY <1>1, <1>2, <1>3 DEF LoopOK

(* A catch-up asks from the committed cursor.                              *)
LEMMA CatchUpOK ==
    ASSUME Loop!SubscribeAssumption, LoopOK, Loop!CatchUp
    PROVE  LoopOK'
  <1> USE DEF Loop!CatchUp, Loop!Log!Ask, Loop!SubscribeAssumption
  <1> DEFINE from == cursor[<<Subscriber, Tailed>>]
             asked == Loop!Log!Asked(Tailed, BatchLimit, 0, from)
  <1>1. from \in Nat /\ from <= applied
    BY DEF LoopOK, LoopTyped, WithinLog
  <1>2. request' = [s \in {Tailed} |-> asked]
    <2>1. PICK q : request = [s \in {Tailed} |-> q]
      BY DEF LoopOK, LoopTyped
    <2>2. request' = [request EXCEPT ![Tailed] = asked]
      BY DEF asked, from
    <2> HIDE DEF asked
    <2> QED BY <2>1, <2>2
  <1>3. LoopTyped'
    <2>1. Loop!TypeOK'
      BY DEF LoopOK, LoopTyped, Loop!TypeOK
    <2> HIDE DEF asked
    <2> QED BY <1>2, <2>1 DEF LoopOK, LoopTyped
  <1>4. WithinLog'
    BY DEF LoopOK, WithinLog
  <1>5. RequestFits'
    <2>1. request'[Tailed] = Loop!Log!Asked(Tailed, BatchLimit, 0, from)
      BY <1>2
    <2>2. from \in Nat /\ from <= applied'
      BY <1>1
    <2> HIDE DEF from
    <2> QED BY <2>1, <2>2 DEF RequestFits
  <1>6. ResultFits' /\ WireFits'
    BY DEF LoopOK, ResultFits, WireFits, FrameFits
  <1> QED BY <1>3, <1>4, <1>5, <1>6 DEF LoopOK

(* It is answered as of the head at that time: TOO_LONG, or a batch that   *)
(* continues the cursor it started from.                                   *)
LEMMA CatchUpReturnsOK ==
    ASSUME Loop!SubscribeAssumption, LoopOK, Loop!CatchUpReturns
    PROVE  LoopOK'
  <1> USE DEF Loop!SubscribeAssumption
  <1>1. PICK from \in Nat : /\ from <= applied
                            /\ request[Tailed] = Loop!Log!Asked(Tailed, BatchLimit, 0, from)
    BY DEF Loop!CatchUpReturns, LoopOK, RequestFits
  <1>2. /\ phase' = "handle"
        /\ UNCHANGED <<head, retained, cursor, delivered, tooLongSent, overdue, wire, applied>>
    BY DEF Loop!CatchUpReturns, Loop!Log!AnswerTooLong, Loop!Log!AnswerBatch
  <1> DEFINE last == head[Tailed]
  <1>3. /\ last \in Nat /\ from <= last /\ retained[Tailed] \in Nat
        /\ applied \in Nat /\ applied <= last
    BY <1>1 DEF LoopOK, LoopTyped, WithinLog
  <1>4. PICK answer : /\ \/ answer = Loop!Log!TooLong
                         \/ answer = Loop!Log!Batch(from, BatchLimit, last)
                      /\ request' = [request EXCEPT ![Tailed] =
                                        Loop!Log!Answered(request[Tailed], answer)]
    BY <1>1 DEF Loop!CatchUpReturns, Loop!Log!AnswerTooLong, Loop!Log!AnswerBatch, Loop!Log!Asked
  <1>5. PICK q : request = [s \in {Tailed} |-> q]
    BY DEF LoopOK, LoopTyped
  <1>6. request' = [s \in {Tailed} |-> Loop!Log!Answered(request[Tailed], answer)]
    BY <1>4, <1>5
  <1>7. request'[Tailed].answer = answer /\ request[Tailed].from = from
    BY <1>1, <1>6 DEF Loop!Log!Answered, Loop!Log!Asked
  <1>8. result' = Loop!CatchUpResponseOf(from, answer)
    BY <1>7 DEF Loop!CatchUpReturns
  <1>9. /\ result' \in Loop!CatchUpResponse /\ result'.cursor.seq <= applied
        /\ FitsAt(result', last, applied)
    <2>1. /\ Loop!PBCursor(from) \in Loop!Cursor /\ Loop!PBCursor(last) \in Loop!Cursor
          /\ Loop!PBCursor(from).seq = from /\ Loop!PBCursor(last).seq = last
      BY <1>3 DEF Loop!PBCursor, Loop!Cursor
    <2>2. CASE answer = Loop!Log!TooLong
      <3>1. result' = [status |-> "TOO_LONG", batch |-> Loop!EmptyBatch,
                       cursor |-> Loop!PBCursor(from), head |-> Loop!PBCursor(last),
                       retainedSeqStart |-> retained[Tailed]]
        BY <1>8, <2>2 DEF Loop!CatchUpResponseOf, Loop!Log!TooLong
      <3>2. Loop!EmptyBatch \in Loop!EventBatch
        BY DEF Loop!EmptyBatch, Loop!EventBatch
      <3> HIDE DEF last
      <3>3. result' \in Loop!CatchUpResponse
        BY <1>3, <2>1, <3>1, <3>2 DEF Loop!CatchUpResponse, Loop!CatchUpStatus
      <3>4. result'.cursor.seq <= applied /\ result'.status # "OK"
        BY <1>1, <2>1, <3>1
      <3> QED BY <3>3, <3>4 DEF FitsAt
    <2>3. CASE answer = Loop!Log!Batch(from, BatchLimit, last)
      <3> DEFINE batch == Loop!PBBatch(from, answer)
      <3>1. result' = [status |-> "OK", batch |-> batch,
                       cursor |-> Loop!PBCursor(from), head |-> Loop!PBCursor(last),
                       retainedSeqStart |-> retained[Tailed]]
        <4>1. answer.status = "ok"
          BY <2>3 DEF Loop!Log!Batch
        <4> QED BY <1>8, <4>1 DEF Loop!CatchUpResponseOf
      <3>2. /\ batch \in Loop!EventBatch
            /\ batch.seqStart <= from + 1 /\ batch.seq <= last
            /\ batch.final <=> batch.seq = last
        <4> HIDE DEF last
        <4> QED BY <1>3, <2>3, AnsweredBatchFits
      <3> HIDE DEF batch, last
      <3>3. result' \in Loop!CatchUpResponse
        BY <1>3, <2>1, <3>1, <3>2 DEF Loop!CatchUpResponse, Loop!CatchUpStatus
      <3>4. result'.cursor.seq <= applied
        BY <1>1, <2>1, <3>1
      <3>5. result'.batch = batch /\ result'.head = Loop!PBCursor(last)
        BY <3>1
      <3>6. batch.seqStart <= applied + 1
        BY <1>1, <1>3, <3>2 DEF Loop!EventBatch
      <3>7. FitsAt(result', last, applied)
        <4>1. last <= last
          BY <1>3
        <4> QED BY <2>1, <3>2, <3>5, <3>6, <4>1 DEF FitsAt
      <3> QED BY <3>3, <3>4, <3>7
    <2> QED BY <1>4, <2>2, <2>3
  <1>10. LoopTyped'
    <2>1. Loop!TypeOK'
      <3>1. result' \in Loop!Optional(Loop!CatchUpResponse)
        BY <1>9 DEF Loop!Optional
      <3>2. result' \in Loop!Optional(Loop!SyncLogService.catchUp.output)
        BY <3>1 DEF Loop!SyncLogService
      <3> QED BY <1>2, <3>2 DEF LoopOK, LoopTyped, Loop!TypeOK
    <2>2. \E a : request' = [s \in {Tailed} |-> a]
      BY <1>6
    <2> QED BY <1>2, <2>1, <2>2 DEF LoopOK, LoopTyped
  <1>11. WithinLog'
    BY <1>2 DEF LoopOK, WithinLog
  <1>12. RequestFits'
    BY <1>2 DEF RequestFits
  <1>13. ResultFits'
    BY <1>2, <1>9 DEF ResultFits, FrameFits
  <1>14. WireFits'
    BY <1>2 DEF LoopOK, WireFits, FrameFits
  <1> QED BY <1>10, <1>11, <1>12, <1>13, <1>14 DEF LoopOK

-----------------------------------------------------------------------------
(* The loop handles an answer.                                             *)

(* What the loop compares the answer with.                                 *)
LEMMA DeliveredFacts ==
    ASSUME Loop!SubscribeAssumption, LoopOK, phase = "handle"
    PROVE  /\ Loop!Delivered \in Nat /\ Loop!Delivered <= head[Tailed]
           /\ Loop!TooLongSent \in BOOLEAN
           /\ head[Tailed] \in Nat /\ head[Tailed] <= LoopMaxSeq
           /\ applied \in Nat
  <1>1. result \in Loop!CatchUpResponse /\ result.cursor.seq <= applied
    BY DEF LoopOK, ResultFits
  <1>2. result.cursor.seq \in Nat
    BY <1>1 DEF Loop!CatchUpResponse, Loop!Cursor
  <1>3. /\ delivered \in Nat /\ delivered <= head[Tailed] /\ applied <= head[Tailed]
        /\ applied \in Nat /\ head[Tailed] <= LoopMaxSeq /\ tooLongSent \in BOOLEAN
    BY DEF LoopOK, LoopTyped, WithinLog, Loop!TypeOK
  <1>4. head[Tailed] \in Nat
    BY DEF LoopOK, LoopTyped, Loop!SubscribeAssumption
  <1> QED BY <1>1, <1>2, <1>3, <1>4 DEF Loop!Delivered, Loop!CaughtUp, Loop!TooLongSent

(* A frame that fits may be sent.                                          *)
LEMMA SendFits ==
    ASSUME LoopOK, NEW frame, frame \in Loop!SubscribeResponse, FrameFits(frame),
           Loop!SubscribeAssumption, Loop!Send(frame)
    PROVE  /\ wire' \in Seq(Loop!SubscribeResponse) /\ Len(wire') <= MaxWire
           /\ \A i \in 1..Len(wire') : FitsAt(wire'[i], head[Tailed], applied)
  <1>1. wire \in Seq(Loop!SubscribeResponse)
    BY DEF LoopOK, LoopTyped, Loop!TypeOK, Loop!SyncLogService
  <1>2. wire' = Append(wire, frame) /\ Len(wire) < MaxWire /\ MaxWire \in Nat
    BY DEF Loop!Send, Loop!SubscribeAssumption
  <1>3. /\ wire' \in Seq(Loop!SubscribeResponse) /\ Len(wire') = Len(wire) + 1
        /\ \A i \in 1..Len(wire) : wire'[i] = wire[i]
        /\ wire'[Len(wire) + 1] = frame
    BY <1>1, <1>2
  <1>4. ASSUME NEW i \in 1..Len(wire')
        PROVE  FitsAt(wire'[i], head[Tailed], applied)
    <2>1. CASE i \in 1..Len(wire)
      BY <1>3, <2>1 DEF LoopOK, WireFits, FrameFits
    <2>2. CASE i = Len(wire) + 1
      BY <1>3, <2>2 DEF FrameFits
    <2> QED BY <1>1, <1>3, <2>1, <2>2
  <1> QED BY <1>1, <1>2, <1>3, <1>4

(* What Handle must establish of what it changes.                          *)
LEMMA HandledOK ==
    ASSUME Loop!SubscribeAssumption, LoopOK, phase = "handle",
           UNCHANGED <<head, retained, cursor, request, result, applied>>,
           phase' \in {"wait", "catchUp"},
           delivered' \in Nat, delivered' <= head[Tailed],
           tooLongSent' \in BOOLEAN, overdue' \in BOOLEAN,
           wire' \in Seq(Loop!SubscribeResponse), Len(wire') <= MaxWire,
           \A i \in 1..Len(wire') : FitsAt(wire'[i], head[Tailed], applied)
    PROVE  LoopOK'
  <1>1. LoopTyped'
    <2>1. Loop!TypeOK'
      <3>1. delivered' \in 0..LoopMaxSeq
        <4>1. head[Tailed] \in Nat /\ head[Tailed] <= LoopMaxSeq /\ LoopMaxSeq \in Nat
          BY DeliveredFacts DEF Loop!SubscribeAssumption
        <4> QED BY <4>1
      <3>2. result' \in Loop!Optional(Loop!SyncLogService.catchUp.output) /\ applied' \in 0..LoopMaxSeq
        BY DEF LoopOK, LoopTyped, Loop!TypeOK
      <3>3. wire' \in Seq(Loop!SyncLogService.subscribe.output)
        BY DEF Loop!SyncLogService
      <3> QED BY <3>1, <3>2, <3>3, Zenon DEF Loop!TypeOK
    <2> QED BY <2>1 DEF LoopOK, LoopTyped
  <1>2. WithinLog'
    BY DEF LoopOK, WithinLog
  <1>3. RequestFits'
    BY DEF RequestFits
  <1>4. ResultFits'
    BY DEF LoopOK, ResultFits, FrameFits
  <1>5. WireFits'
    BY DEF WireFits, FrameFits
  <1> QED BY <1>1, <1>2, <1>3, <1>4, <1>5 DEF LoopOK

(* The frame of an answer says of its events what the answer says.         *)
LEMMA AnswerAsFrame ==
    ASSUME NEW r \in Loop!CatchUpResponse, FrameFits(r)
    PROVE  /\ Loop!SubscribeResponseOf(r) \in Loop!SubscribeResponse
           /\ FrameFits(Loop!SubscribeResponseOf(r))
  <1> DEFINE f == Loop!SubscribeResponseOf(r)
  <1>1. /\ f.status = r.status /\ f.batch = r.batch /\ f.head = r.head
    BY DEF Loop!SubscribeResponseOf
  <1>2. f \in Loop!SubscribeResponse
    <2>1. /\ r.status \in Loop!CatchUpStatus /\ r.batch \in Loop!EventBatch
          /\ r.cursor \in Loop!Cursor /\ r.head \in Loop!Cursor /\ r.retainedSeqStart \in Nat
      BY DEF Loop!CatchUpResponse
    <2>2. /\ r.batch \in Loop!Optional(Loop!EventBatch)
          /\ r.cursor \in Loop!Optional(Loop!Cursor) /\ r.head \in Loop!Optional(Loop!Cursor)
      BY <2>1 DEF Loop!Optional
    <2> QED BY <2>1, <2>2 DEF Loop!SubscribeResponseOf, Loop!SubscribeResponse
  <1> HIDE DEF f
  <1>3. FrameFits(f)
    BY <1>1 DEF FrameFits, FitsAt
  <1> QED BY <1>2, <1>3 DEF f

(* A heartbeat is a frame without events.                                  *)
LEMMA HeartbeatAsFrame ==
    Loop!HeartbeatFrame \in Loop!SubscribeResponse /\ FrameFits(Loop!HeartbeatFrame)
  <1>1. Loop!HeartbeatFrame \in Loop!SubscribeResponse
    BY DEF Loop!HeartbeatFrame, Loop!SubscribeResponse, Loop!Optional, Loop!CatchUpStatus
  <1>2. Loop!HeartbeatFrame.status # "OK"
    BY DEF Loop!HeartbeatFrame
  <1> QED BY <1>1, <1>2 DEF FrameFits, FitsAt

(* Handling the answer sends a frame that fits, or none.                   *)
LEMMA HandleOK ==
    ASSUME Loop!SubscribeAssumption, LoopOK, Loop!Handle
    PROVE  LoopOK'
  <1>1. /\ phase = "handle"
        /\ UNCHANGED <<head, retained, cursor, request, result, applied>>
    BY DEF Loop!Handle, Loop!logVars
  <1>2. /\ Loop!Delivered \in Nat /\ Loop!Delivered <= head[Tailed]
        /\ Loop!TooLongSent \in BOOLEAN
        /\ head[Tailed] \in Nat /\ head[Tailed] <= LoopMaxSeq
    BY <1>1, DeliveredFacts
  <1>3. result \in Loop!CatchUpResponse /\ FrameFits(result)
    BY <1>1 DEF LoopOK, ResultFits
  <1>4. overdue \in BOOLEAN
    BY DEF LoopOK, LoopTyped, Loop!TypeOK
  <1>5. /\ wire \in Seq(Loop!SubscribeResponse) /\ Len(wire) <= MaxWire
        /\ \A i \in 1..Len(wire) : FitsAt(wire[i], head[Tailed], applied)
    BY DEF LoopOK, LoopTyped, Loop!TypeOK, WireFits, FrameFits, Loop!SyncLogService
  <1>6. /\ Loop!SubscribeResponseOf(result) \in Loop!SubscribeResponse
        /\ FrameFits(Loop!SubscribeResponseOf(result))
    BY <1>3, AnswerAsFrame
  <1> DEFINE Fits == /\ wire' \in Seq(Loop!SubscribeResponse) /\ Len(wire') <= MaxWire
                     /\ \A i \in 1..Len(wire') : FitsAt(wire'[i], head[Tailed], applied)
  <1>7. UNCHANGED wire => Fits
    BY <1>5
  <1>8. Loop!Send(Loop!SubscribeResponseOf(result)) => Fits
    BY <1>6, SendFits
  <1>9. Loop!Send(Loop!HeartbeatFrame) => Fits
    BY HeartbeatAsFrame, SendFits
  <1>10. CASE Loop!HandleThrottled
    <2>1. Fits
      BY <1>7, <1>10 DEF Loop!HandleThrottled
    <2> QED BY <1>1, <1>2, <1>4, <1>10, <2>1, HandledOK DEF Loop!HandleThrottled
  <1>11. CASE Loop!HandleTooLong
    <2>1. Fits
      BY <1>7, <1>8, <1>11 DEF Loop!HandleTooLong
    <2> HIDE DEF Fits
    <2>2. /\ phase' = "wait" /\ delivered' = Loop!Delivered /\ tooLongSent' = TRUE
          /\ overdue' = overdue
      BY <1>11 DEF Loop!HandleTooLong
    <2> USE DEF Fits
    <2> QED BY <1>1, <1>2, <1>4, <2>1, <2>2, HandledOK
  <1>12. CASE Loop!HandleBatch
    <2>1. Fits
      BY <1>8, <1>12 DEF Loop!HandleBatch
    <2> HIDE DEF Fits
    <2>2. /\ phase' \in {"wait", "catchUp"} /\ delivered' = result.batch.seq
          /\ tooLongSent' = Loop!TooLongSent /\ overdue' = overdue
      BY <1>12 DEF Loop!HandleBatch
    <2>3. /\ result.batch \in Loop!EventBatch /\ result.head \in Loop!Cursor
          /\ result.batch.seq <= result.head.seq /\ result.head.seq <= head[Tailed]
      BY <1>3, <1>12 DEF Loop!HandleBatch, Loop!HasNews, FrameFits, FitsAt
    <2>4. delivered' \in Nat /\ delivered' <= head[Tailed]
      BY <1>2, <2>2, <2>3 DEF Loop!EventBatch, Loop!Cursor
    <2> USE DEF Fits
    <2> QED BY <1>1, <1>2, <1>4, <2>1, <2>2, <2>4, HandledOK
  <1>13. CASE Loop!HandleIdle
    <2>1. Fits
      BY <1>7, <1>9, <1>13 DEF Loop!HandleIdle
    <2> HIDE DEF Fits
    <2>2. /\ phase' = "wait" /\ delivered' = Loop!Delivered
          /\ tooLongSent' = Loop!TooLongSent /\ overdue' = FALSE
      BY <1>13 DEF Loop!HandleIdle
    <2> USE DEF Fits
    <2> QED BY <1>1, <1>2, <2>1, <2>2, HandledOK
  <1> QED BY <1>10, <1>11, <1>12, <1>13 DEF Loop!Handle

-----------------------------------------------------------------------------
(* The other steps of the loop, and of those around it.                    *)

(* Waiting changes nothing but the phase.                                  *)
LEMMA WaitOK ==
    ASSUME LoopOK, Loop!EnterWait \/ Loop!WaitReturns
    PROVE  LoopOK'
  <1>1. /\ UNCHANGED <<head, retained, cursor, request, result, delivered, tooLongSent, overdue,
                       wire, applied>>
        /\ phase \in {"wait", "blocked"} /\ phase' \in {"catchUp", "blocked"}
    BY DEF Loop!EnterWait, Loop!WaitReturns, Loop!logVars
  <1>2. LoopTyped'
    <2>1. Loop!TypeOK'
      BY <1>1 DEF LoopOK, LoopTyped, Loop!TypeOK
    <2> QED BY <1>1, <2>1 DEF LoopOK, LoopTyped
  <1>3. WithinLog'
    BY <1>1 DEF LoopOK, WithinLog
  <1>4. RequestFits' /\ ResultFits' /\ WireFits'
    BY <1>1 DEF LoopOK, RequestFits, ResultFits, WireFits, FrameFits
  <1> QED BY <1>2, <1>3, <1>4 DEF LoopOK

(* Around the loop the log grows and the consumer moves on; what was read  *)
(* and sent goes on to fit.                                                *)
LEMMA AroundOK ==
    ASSUME Loop!SubscribeAssumption, LoopOK,
           UNCHANGED <<request, phase, result, delivered, tooLongSent>>,
           head' \in [Streams -> Nat], retained' \in [Streams -> Nat],
           cursor' \in [Subscribers \X Streams -> Nat],
           head[Tailed] <= head'[Tailed], head'[Tailed] <= LoopMaxSeq,
           applied' \in Nat, applied <= applied', applied' <= head'[Tailed],
           cursor'[<<Subscriber, Tailed>>] <= applied',
           overdue' \in BOOLEAN,
           wire' \in Seq(Loop!SubscribeResponse), Len(wire') <= MaxWire,
           \A i \in 1..Len(wire') : \E j \in 1..Len(wire) : wire'[i] = wire[j]
    PROVE  LoopOK'
  <1>1. /\ \A i \in 1..Len(wire) : FitsAt(wire[i], head'[Tailed], applied')
        /\ phase \in {"handle", "wait", "blocked"} => FitsAt(result, head'[Tailed], applied')
    BY LogGrows DEF Loop!SubscribeAssumption
  <1>2. /\ head[Tailed] \in Nat /\ head'[Tailed] \in Nat /\ applied \in Nat /\ LoopMaxSeq \in Nat
        /\ delivered \in Nat
    BY DEF LoopOK, LoopTyped, Loop!SubscribeAssumption
  <1>3. LoopTyped'
    <2>1. Loop!TypeOK'
      <3>1. applied' \in 0..LoopMaxSeq
        BY <1>2
      <3>2. wire' \in Seq(Loop!SyncLogService.subscribe.output)
        BY DEF Loop!SyncLogService
      <3>3. /\ phase' \in {"catchUp", "answer", "handle", "wait", "blocked"}
            /\ result' \in Loop!Optional(Loop!SyncLogService.catchUp.output)
            /\ delivered' \in 0..LoopMaxSeq /\ tooLongSent' \in BOOLEAN
        BY DEF LoopOK, LoopTyped, Loop!TypeOK
      <3> QED BY <3>1, <3>2, <3>3, Zenon DEF Loop!TypeOK
    <2>2. (\E q : request = [s \in {Tailed} |-> q])' /\ delivered' \in Nat
      BY DEF LoopOK, LoopTyped
    <2> QED BY <2>1, <2>2 DEF LoopTyped
  <1>4. WithinLog'
    BY <1>2 DEF LoopOK, WithinLog
  <1>5. RequestFits'
    BY <1>2 DEF LoopOK, RequestFits
  <1>6. ResultFits'
    <2>1. CASE phase \in {"handle", "wait", "blocked"}
      <3>1. result \in Loop!CatchUpResponse /\ result.cursor.seq <= applied
        BY <2>1 DEF LoopOK, ResultFits
      <3>2. result.cursor.seq <= applied'
        BY <1>2, <3>1 DEF Loop!CatchUpResponse, Loop!Cursor
      <3> QED BY <1>1, <2>1, <3>1, <3>2 DEF ResultFits, FrameFits
    <2> QED BY <2>1 DEF ResultFits
  <1>7. WireFits'
    BY <1>1 DEF WireFits, FrameFits
  <1> QED BY <1>3, <1>4, <1>5, <1>6, <1>7 DEF LoopOK

(* What the invariant says, conjunct by conjunct.                          *)
LEMMA LoopFacts ==
    ASSUME Loop!SubscribeAssumption, LoopOK
    PROVE  /\ head \in [Streams -> Nat] /\ retained \in [Streams -> Nat]
           /\ cursor \in [Subscribers \X Streams -> Nat]
           /\ head[Tailed] \in Nat /\ head[Tailed] <= LoopMaxSeq
           /\ applied \in Nat /\ applied <= head[Tailed]
           /\ cursor[<<Subscriber, Tailed>>] <= applied
           /\ overdue \in BOOLEAN
           /\ wire \in Seq(Loop!SubscribeResponse) /\ Len(wire) <= MaxWire
           /\ Tailed \in Streams /\ Subscriber \in Subscribers /\ LoopMaxSeq \in Nat
  <1>1. /\ head \in [Streams -> Nat] /\ retained \in [Streams -> Nat]
        /\ cursor \in [Subscribers \X Streams -> Nat] /\ applied \in Nat
    BY DEF LoopOK, LoopTyped
  <1>2. Tailed \in Streams /\ Subscriber \in Subscribers /\ LoopMaxSeq \in Nat
    BY DEF Loop!SubscribeAssumption
  <1>3. /\ head[Tailed] <= LoopMaxSeq /\ applied <= head[Tailed]
        /\ cursor[<<Subscriber, Tailed>>] <= applied
    BY DEF LoopOK, WithinLog
  <1>4. /\ overdue \in BOOLEAN /\ wire \in Seq(Loop!SubscribeResponse) /\ Len(wire) <= MaxWire
    BY DEF LoopOK, LoopTyped, Loop!TypeOK, Loop!SyncLogService
  <1> QED BY <1>1, <1>2, <1>3, <1>4

(* An append moves the head up.                                            *)
LEMMA AppendOK ==
    ASSUME Loop!SubscribeAssumption, LoopOK, NEW boundary \in Nat, Loop!AppendEvents(boundary)
    PROVE  LoopOK'
  <1> USE LoopFacts
  <1>1. UNCHANGED <<cursor, request, phase, result, delivered, tooLongSent, overdue, wire, applied>>
    BY DEF Loop!AppendEvents, Loop!Log!Publish, Loop!loopVars
  <1>2. /\ head[Tailed] < LoopMaxSeq
        /\ head' = [head EXCEPT ![Tailed] = head[Tailed] + 1]
        /\ retained' = [retained EXCEPT ![Tailed] = boundary]
    BY DEF Loop!AppendEvents, Loop!Log!Publish
  <1>3. /\ head' \in [Streams -> Nat] /\ retained' \in [Streams -> Nat]
        /\ head'[Tailed] = head[Tailed] + 1
    BY <1>2
  <1>4. \A i \in 1..Len(wire') : \E j \in 1..Len(wire) : wire'[i] = wire[j]
    BY <1>1
  <1>5. head[Tailed] <= head'[Tailed] /\ head'[Tailed] <= LoopMaxSeq /\ applied' <= head'[Tailed]
    BY <1>1, <1>2, <1>3
  <1> QED BY <1>1, <1>3, <1>4, <1>5, AroundOK

(* A truncation leaves the head alone.                                     *)
LEMMA DiscardOK ==
    ASSUME Loop!SubscribeAssumption, LoopOK, NEW boundary \in Nat, Loop!DiscardEvents(boundary)
    PROVE  LoopOK'
  <1> USE LoopFacts
  <1>1. UNCHANGED <<head, cursor, request, phase, result, delivered, tooLongSent, overdue, wire,
                    applied>>
    BY DEF Loop!DiscardEvents, Loop!Log!Discard, Loop!loopVars
  <1>2. retained' \in [Streams -> Nat]
    BY DEF Loop!DiscardEvents, Loop!Log!Discard
  <1>3. \A i \in 1..Len(wire') : \E j \in 1..Len(wire) : wire'[i] = wire[j]
    BY <1>1
  <1> QED BY <1>1, <1>2, <1>3, AroundOK

(* A heartbeat falls due.                                                  *)
LEMMA HeartbeatOK ==
    ASSUME Loop!SubscribeAssumption, LoopOK, Loop!HeartbeatDue
    PROVE  LoopOK'
  <1> USE LoopFacts
  <1>1. /\ UNCHANGED <<head, retained, cursor, request, phase, result, delivered, tooLongSent, wire,
                       applied>>
        /\ overdue' = TRUE
    BY DEF Loop!HeartbeatDue, Loop!logVars, Loop!loopVars
  <1>2. \A i \in 1..Len(wire') : \E j \in 1..Len(wire) : wire'[i] = wire[j]
    BY <1>1
  <1> QED BY <1>1, <1>2, AroundOK

(* The consumer acks what it applied.                                      *)
LEMMA AckOK ==
    ASSUME Loop!SubscribeAssumption, LoopOK, Loop!AckApplied
    PROVE  LoopOK'
  <1> USE LoopFacts
  <1>1. UNCHANGED <<head, retained, request, phase, result, delivered, tooLongSent, overdue, wire,
                    applied>>
    BY DEF Loop!AckApplied, Loop!Log!Commit, Loop!loopVars
  <1>2. cursor' = [cursor EXCEPT ![<<Subscriber, Tailed>>] = applied]
    BY DEF Loop!AckApplied, Loop!Log!Commit
  <1>3. <<Subscriber, Tailed>> \in Subscribers \X Streams
    OBVIOUS
  <1>4. /\ cursor' \in [Subscribers \X Streams -> Nat]
        /\ cursor'[<<Subscriber, Tailed>>] <= applied'
    BY <1>1, <1>2, <1>3
  <1>5. \A i \in 1..Len(wire') : \E j \in 1..Len(wire) : wire'[i] = wire[j]
    BY <1>1
  <1> QED BY <1>1, <1>4, <1>5, AroundOK

(* The consumer takes a frame that fits, or refreshes within the log.      *)
LEMMA TakeOK ==
    ASSUME Loop!SubscribeAssumption, LoopOK, Loop!TakeFrame
    PROVE  LoopOK'
  <1> USE LoopFacts
  <1>1. /\ UNCHANGED <<head, retained, cursor, request, phase, result, delivered, tooLongSent,
                       overdue>>
        /\ wire # <<>> /\ wire' = Tail(wire)
    BY DEF Loop!TakeFrame, Loop!logVars, Loop!loopVars
  <1>2. /\ wire' \in Seq(Loop!SubscribeResponse) /\ Len(wire') = Len(wire) - 1 /\ Len(wire) \in Nat
        /\ \A i \in 1..(Len(wire) - 1) : wire'[i] = wire[i + 1]
    BY <1>1
  <1>3. \A i \in 1..Len(wire') : \E j \in 1..Len(wire) : wire'[i] = wire[j]
    <2>1. \A i \in 1..(Len(wire) - 1) : i + 1 \in 1..Len(wire)
      BY <1>2
    <2> QED BY <1>2, <2>1
  <1>4. PICK seq \in Int : /\ applied' = applied \/ applied' = Loop!Max({applied, seq})
                           /\ seq <= head[Tailed]
    <2>1. CASE wire[1].heartbeat /\ UNCHANGED applied
      <3>1. head[Tailed] \in Int /\ head[Tailed] <= head[Tailed]
        OBVIOUS
      <3> QED BY <2>1, <3>1
    <2>2. CASE wire[1].status = "OK" /\ applied' = Loop!Max({applied, wire[1].batch.seq})
      <3>1. 1 \in 1..Len(wire)
        BY <1>1, <1>2, EmptySeq
      <3>2. FrameFits(wire[1])
        BY <3>1 DEF LoopOK, WireFits
      <3>3. wire[1].batch.seq \in Int /\ wire[1].batch.seq <= head[Tailed]
        <4>1. wire[1].status = "OK"
          BY <2>2
        <4>2. /\ wire[1].batch \in Loop!EventBatch /\ wire[1].head \in Loop!Cursor
              /\ wire[1].head.seq <= head[Tailed] /\ wire[1].batch.seq <= wire[1].head.seq
          BY <3>2, <4>1, Zenon DEF FrameFits, FitsAt
        <4>3. wire[1].batch.seq \in Nat
          BY <4>2 DEF Loop!EventBatch
        <4>4. wire[1].head.seq \in Nat
          BY <4>2 DEF Loop!Cursor
        <4> QED BY <4>2, <4>3, <4>4
      <3> QED BY <2>2, <3>3
    <2>3. CASE \E seq \in Loop!Max({retained[Tailed] - 1, 0})..head[Tailed] :
                  applied' = Loop!Max({applied, seq})
      <3>1. PICK seq \in Loop!Max({retained[Tailed] - 1, 0})..head[Tailed] :
                    applied' = Loop!Max({applied, seq})
        BY <2>3
      <3>2. Loop!Max({retained[Tailed] - 1, 0}) \in Int
        <4>1. retained[Tailed] - 1 \in Int
          OBVIOUS
        <4>2. 0 \in Int
          OBVIOUS
        <4> QED BY <4>1, <4>2, LargestOfTwo, Zenon
      <3>3. seq \in Int /\ seq <= head[Tailed]
        BY <3>2
      <3> QED BY <3>1, <3>3
    <2> QED BY <2>1, <2>2, <2>3 DEF Loop!TakeFrame
  <1>5. applied' \in Nat /\ applied <= applied' /\ applied' <= head[Tailed]
    <2>1. CASE applied' = applied
      BY <2>1
    <2>2. CASE applied' = Loop!Max({applied, seq})
      <3>1. /\ Loop!Max({applied, seq}) \in {applied, seq} /\ applied <= Loop!Max({applied, seq})
            /\ Loop!Max({applied, seq}) \in Int
        <4>1. applied \in Int
          OBVIOUS
        <4> QED BY <4>1, LargestOfTwo, Zenon
      <3> QED BY <1>4, <2>2, <3>1
    <2> QED BY <1>4, <2>1, <2>2
  <1>6. Len(wire') <= MaxWire
    BY <1>2 DEF Loop!SubscribeAssumption
  <1>7. cursor'[<<Subscriber, Tailed>>] <= applied'
    <2>1. cursor[<<Subscriber, Tailed>>] \in Nat
      OBVIOUS
    <2> QED BY <1>1, <1>5, <2>1
  <1> QED BY <1>1, <1>2, <1>3, <1>5, <1>6, <1>7, AroundOK

(* Every step keeps the invariant.                                         *)
LEMMA LoopInvariant ==
    ASSUME Loop!SubscribeAssumption PROVE Loop!Spec => []LoopOK
  <1>1. Loop!Init => LoopOK
    BY LoopStarts
  <1>2. LoopOK /\ [Loop!Next]_Loop!vars => LoopOK'
    <2> SUFFICES ASSUME LoopOK, [Loop!Next]_Loop!vars
                 PROVE  LoopOK'
      OBVIOUS
    <2>1. CASE Loop!LoopNext
      BY <2>1, CatchUpOK, CatchUpReturnsOK, HandleOK, WaitOK DEF Loop!LoopNext
    <2>2. CASE Loop!TakeFrame \/ Loop!AckApplied \/ Loop!HeartbeatDue
      BY <2>2, TakeOK, AckOK, HeartbeatOK
    <2>3. CASE \E boundary \in 1..(LoopMaxSeq + 1) :
                  Loop!AppendEvents(boundary) \/ Loop!DiscardEvents(boundary)
      <3>1. PICK boundary \in 1..(LoopMaxSeq + 1) :
                   Loop!AppendEvents(boundary) \/ Loop!DiscardEvents(boundary)
        BY <2>3
      <3>2. boundary \in Nat
        BY DEF Loop!SubscribeAssumption
      <3> QED BY <3>1, <3>2, AppendOK, DiscardOK
    <2>4. CASE UNCHANGED Loop!vars
      <3>1. /\ UNCHANGED <<head, retained, cursor, request, phase, result, delivered, tooLongSent,
                           overdue, wire, applied>>
        BY <2>4 DEF Loop!vars, Loop!logVars, Loop!loopVars
      <3>2. Loop!TypeOK'
        BY <3>1 DEF LoopOK, LoopTyped, Loop!TypeOK
      <3> QED BY <3>1, <3>2
        DEF LoopOK, LoopTyped, WithinLog, RequestFits, ResultFits, WireFits, FrameFits
    <2> QED BY <2>1, <2>2, <2>3, <2>4 DEF Loop!Next
  <1> HIDE DEF LoopOK
  <1> QED BY <1>1, <1>2, PTL DEF Loop!Spec

(* So the first frame on the wire fits.                                    *)
LEMMA LoopFrames ==
    ASSUME Loop!SubscribeAssumption PROVE Loop!Spec => []Loop!NextFrameFits
  <1>1. LoopOK => Loop!NextFrameFits
    <2> SUFFICES ASSUME LoopOK, wire # <<>>, wire[1].status = "OK"
                 PROVE  /\ wire[1].batch.seqStart <= applied + 1
                        /\ wire[1].batch.seq <= wire[1].head.seq
                        /\ wire[1].batch.final <=> wire[1].batch.seq = wire[1].head.seq
      BY DEF Loop!NextFrameFits
    <2>1. 1 \in 1..Len(wire)
      BY LoopFacts, EmptySeq
    <2> QED BY <2>1 DEF LoopOK, WireFits, FrameFits, FitsAt
  <1> HIDE DEF LoopOK
  <1> QED BY <1>1, LoopInvariant, PTL

(* Every frame has the type service.proto gives it.                        *)
LEMMA LoopTypes ==
    ASSUME Loop!SubscribeAssumption PROVE Loop!Spec => []Loop!TypeOK
  <1>1. LoopOK => Loop!TypeOK
    BY DEF LoopOK, LoopTyped
  <1> HIDE DEF LoopOK
  <1> QED BY <1>1, LoopInvariant, PTL

-----------------------------------------------------------------------------
(* Going through a map in any order, by induction over how far the scan    *)
(* has come.                                                               *)

(* Induction over the natural numbers, for a set of them.                  *)
LEMMA SetInduction ==
    ASSUME NEW T \in SUBSET Nat, 0 \in T, \A n \in T : n + 1 \in T
    PROVE  T = Nat
  <1> DEFINE R == {p \in Nat \X Nat : p[1] < p[2]}
             U == Nat \ T
  <1>1. SUFFICES ASSUME U # {} PROVE FALSE
    OBVIOUS
  <1>2. IsWellFoundedOn(R, Nat)
    BY NatLessThanWellFounded, SMT DEF OpToRel
  <1>3. \A x, y \in Nat : <<x, y>> \in R <=> x < y
    OBVIOUS
  <1>4. U \subseteq Nat
    OBVIOUS
  <1> HIDE DEF R, U
  <1>5. PICK x \in U : \A y \in U : <<y, x>> \notin R
    BY <1>1, <1>2, <1>4, WFMin
  <1> USE DEF U
  <1>6. x \in Nat /\ x # 0
    BY <1>5
  <1>7. x - 1 \in Nat /\ x - 1 < x /\ (x - 1) + 1 = x
    BY <1>6
  <1>8. x - 1 \notin U
    BY <1>3, <1>5, <1>6, <1>7
  <1> QED BY <1>5, <1>6, <1>7, <1>8

(* An entry is filed under what its own reference says.                    *)
Filed ==
    /\ IsFiniteSet(DOMAIN snapshots)
    /\ DOMAIN snapshots \subseteq Snapshots!SnapshotKey
    /\ \A k \in DOMAIN snapshots :
          snapshots[k] \in Snapshots!Snapshot /\ Snapshots!KeyOf(snapshots[k].ref) = k

(* What a scan has found in the first n keys of an order: one that none of *)
(* them is newer than, or nothing when none of them is compatible.         *)
Found(order, n, req, latest) ==
    IF latest = Absent
    THEN \A i \in 1..n : order[i] \notin Snapshots!Compatible(req)
    ELSE /\ latest \in Snapshots!Compatible(req)
         /\ \A i \in 1..n : order[i] \in Snapshots!Compatible(req) =>
                               ~Snapshots!Newer(order[i], latest)

(* What is known of the key of an entry.                                   *)
LEMMA KeyFacts ==
    ASSUME Snapshots!SnapshotAssumption, Filed, NEW k \in DOMAIN snapshots
    PROVE  /\ k \in Snapshots!SnapshotKey /\ k # Absent
           /\ k.seq \in Nat /\ k.payloadVersion \in Nat
  BY DEF Filed, Snapshots!SnapshotAssumption, Snapshots!SnapshotKey

(* One more key is looked at.                                              *)
LEMMA ScanStep ==
    ASSUME Snapshots!SnapshotAssumption, Filed, NEW req, NEW n \in Nat, NEW order, NEW latest,
           order[n + 1] \in DOMAIN snapshots, Found(order, n, req, latest)
    PROVE  Found(order, n + 1, req, Snapshots!Scanned(order[n + 1], latest, req))
  <1> DEFINE k == order[n + 1]
             C == Snapshots!Compatible(req)
  <1>1. \A x \in C :
          x \in DOMAIN snapshots /\ x # Absent /\ x.seq \in Nat /\ x.payloadVersion \in Nat
    <2>1. C \subseteq DOMAIN snapshots
      BY DEF Snapshots!Compatible
    <2> HIDE DEF C
    <2> QED BY <2>1, KeyFacts
  <1>2. \A i \in 1..(n + 1) : i \in 1..n \/ order[i] = k
    OBVIOUS
  <1> HIDE DEF k, C
  <1>3. CASE k \in C /\ (latest = Absent \/ Snapshots!Newer(k, latest))
    <2>1. Snapshots!Scanned(k, latest, req) = k
      BY <1>3 DEF Snapshots!Scanned, C
    <2>2. ~Snapshots!Newer(k, k)
      BY <1>1, <1>3 DEF Snapshots!Newer
    <2>3. ASSUME NEW i \in 1..n, order[i] \in C
          PROVE  ~Snapshots!Newer(order[i], k)
      <3>1. latest \in C /\ ~Snapshots!Newer(order[i], latest) /\ Snapshots!Newer(k, latest)
        BY <1>3, <2>3 DEF Found, C
      <3> QED BY <1>1, <1>3, <2>3, <3>1 DEF Snapshots!Newer
    <2>4. k # Absent
      BY <1>1, <1>3
    <2>5. \A i \in 1..(n + 1) : order[i] \in C => ~Snapshots!Newer(order[i], k)
      BY <1>2, <2>2, <2>3
    <2> QED BY <1>3, <2>1, <2>4, <2>5 DEF Found, C, k
  <1>4. CASE ~(k \in C /\ (latest = Absent \/ Snapshots!Newer(k, latest)))
    <2>1. Snapshots!Scanned(k, latest, req) = latest
      BY <1>4 DEF Snapshots!Scanned, C
    <2>2. CASE latest = Absent
      BY <1>2, <1>4, <2>1, <2>2 DEF Found, C, k
    <2>3. CASE latest # Absent
      BY <1>2, <1>4, <2>1, <2>3 DEF Found, C, k
    <2> QED BY <2>2, <2>3
  <1> QED BY <1>3, <1>4

(* The scan goes through an order from its first key to its last.          *)
ScanUpTo(order, req, n, f) ==
    f = [i \in 0..n |-> IF i = 0 THEN Absent ELSE Snapshots!Scanned(order[i], f[i - 1], req)]

(* For every length there is a function that scans so far, so that the     *)
(* definition of ScanLatest means one.                                     *)
LEMMA ScanDefined ==
    ASSUME NEW order, NEW req, NEW n \in Nat
    PROVE  \E f : ScanUpTo(order, req, n, f)
  <1> DEFINE T == {m \in Nat : \E f : ScanUpTo(order, req, m, f)}
  <1>1. 0 \in T
    <2> DEFINE f == [i \in 0..0 |-> Absent]
    <2>1. \A i \in 0..0 : i = 0
      OBVIOUS
    <2>2. ScanUpTo(order, req, 0, f)
      BY <2>1 DEF ScanUpTo
    <2> HIDE DEF f
    <2> QED BY <2>2
  <1>2. ASSUME NEW m \in T PROVE m + 1 \in T
    <2>1. PICK f : ScanUpTo(order, req, m, f)
      OBVIOUS
    <2> DEFINE g == [i \in 0..(m + 1) |->
                       IF i <= m THEN f[i] ELSE Snapshots!Scanned(order[i], f[i - 1], req)]
    <2>2. \A i \in 0..m :
            f[i] = IF i = 0 THEN Absent ELSE Snapshots!Scanned(order[i], f[i - 1], req)
      BY <2>1 DEF ScanUpTo
    <2>3. \A i \in 0..(m + 1) :
            g[i] = IF i = 0 THEN Absent ELSE Snapshots!Scanned(order[i], g[i - 1], req)
      <3> TAKE i \in 0..(m + 1)
      <3>1. CASE i = 0
        BY <2>2, <3>1
      <3>2. CASE i # 0 /\ i <= m
        <4>1. i \in 0..m /\ i - 1 \in 0..m /\ i - 1 <= m /\ i - 1 \in 0..(m + 1)
          BY <3>2
        <4>2. g[i] = f[i] /\ g[i - 1] = f[i - 1]
          BY <4>1
        <4> HIDE DEF g
        <4> QED BY <2>2, <3>2, <4>1, <4>2
      <3>3. CASE i = m + 1
        <4>1. i - 1 \in 0..m /\ i - 1 <= m /\ i - 1 \in 0..(m + 1) /\ ~(i <= m) /\ i # 0
          BY <3>3
        <4>2. g[i] = Snapshots!Scanned(order[i], f[i - 1], req) /\ g[i - 1] = f[i - 1]
          BY <4>1
        <4> HIDE DEF g
        <4> QED BY <4>1, <4>2
      <3> QED BY <3>1, <3>2, <3>3
    <2>4. ScanUpTo(order, req, m + 1, g)
      BY <2>3, Zenon DEF ScanUpTo
    <2> QED BY <2>4
  <1>3. T = Nat
    <2>1. T \in SUBSET Nat
      OBVIOUS
    <2> HIDE DEF T
    <2> QED BY <1>1, <1>2, <2>1, SetInduction
  <1> QED BY <1>3

(* Whatever the order, the scan finds the newest compatible key.           *)
LEMMA ScanFinds ==
    ASSUME Snapshots!SnapshotAssumption, Filed, NEW req, NEW order \in Seq(DOMAIN snapshots)
    PROVE  Found(order, Len(order), req, Snapshots!ScanLatest(order, req))
  <1>1. Len(order) \in Nat /\ \A i \in 1..Len(order) : order[i] \in DOMAIN snapshots
    BY LenProperties, ElementOfSeq
  <1>2. \E f : ScanUpTo(order, req, Len(order), f)
    BY <1>1, ScanDefined
  <1>3. PICK f : /\ ScanUpTo(order, req, Len(order), f)
                 /\ Snapshots!ScanLatest(order, req) = f[Len(order)]
    BY <1>2 DEF Snapshots!ScanLatest, ScanUpTo
  <1>4. \A i \in 0..Len(order) :
          f[i] = IF i = 0 THEN Absent ELSE Snapshots!Scanned(order[i], f[i - 1], req)
    BY <1>3 DEF ScanUpTo
  <1> DEFINE T == {m \in Nat : m <= Len(order) => Found(order, m, req, f[m])}
  <1>5. 0 \in T
    <2>1. f[0] = Absent
      BY <1>1, <1>4
    <2> QED BY <2>1 DEF Found
  <1>6. ASSUME NEW m \in T PROVE m + 1 \in T
    <2>1. SUFFICES ASSUME m + 1 <= Len(order) PROVE Found(order, m + 1, req, f[m + 1])
      OBVIOUS
    <2>2. /\ m \in Nat /\ m + 1 \in 1..Len(order) /\ m + 1 \in 0..Len(order) /\ m + 1 # 0
          /\ (m + 1) - 1 = m /\ Found(order, m, req, f[m])
      BY <1>1, <2>1
    <2>3. f[m + 1] = Snapshots!Scanned(order[m + 1], f[m], req)
      BY <1>4, <2>2
    <2>4. order[m + 1] \in DOMAIN snapshots
      BY <1>1, <2>2
    <2> HIDE DEF T
    <2> QED BY <2>2, <2>3, <2>4, ScanStep
  <1>7. T = Nat
    <2>1. T \in SUBSET Nat
      OBVIOUS
    <2> HIDE DEF T
    <2> QED BY <1>5, <1>6, <2>1, SetInduction
  <1>8. Len(order) \in T
    BY <1>1, <1>7
  <1> QED BY <1>1, <1>3, <1>8

-----------------------------------------------------------------------------
(* The calls of the snapshot store.                                        *)

(* The types the methods declare.                                          *)
Requests(rpc) == Snapshots!SyncLogSnapshotService[rpc].input
Responses(rpc) == Snapshots!SyncLogSnapshotService[rpc].output

(* The last answer is one of its method.                                   *)
SnapshotReplyTyped ==
    snapshotReply # Absent => /\ snapshotReply.input \in Requests(snapshotReply.rpc)
                      /\ snapshotReply.output \in Snapshots!Optional(Responses(snapshotReply.rpc))

(* The inductive invariant.                                                *)
SnapOK == Filed /\ SnapshotReplyTyped /\ Snapshots!SnapshotsExact

(* What the methods declare.                                               *)
LEMMA Declared ==
    /\ Requests("putSnapshot") = Snapshots!PutSnapshotRequest
    /\ Responses("putSnapshot") = Snapshots!PutSnapshotResponse
    /\ Requests("getLatestSnapshot") = Snapshots!GetLatestSnapshotRequest
    /\ Responses("getLatestSnapshot") = Snapshots!GetLatestSnapshotResponse
    /\ Requests("getSnapshot") = Snapshots!GetSnapshotRequest
    /\ Responses("getSnapshot") = Snapshots!GetSnapshotResponse
    /\ Requests("listSnapshots") = Snapshots!ListSnapshotsRequest
    /\ Responses("listSnapshots") = Snapshots!ListSnapshotsResponse
    /\ Requests("deleteSnapshot") = Snapshots!DeleteSnapshotRequest
    /\ Responses("deleteSnapshot") = Snapshots!DeleteSnapshotResponse
  BY DEF Requests, Responses, Snapshots!SyncLogSnapshotService

(* An answer of the type its method declares.                              *)
LEMMA SnapshotReplyOfType ==
    ASSUME NEW rpc, NEW input, NEW output, Snapshots!Reply(rpc, input, output),
           input \in Requests(rpc), output = Absent \/ output \in Responses(rpc)
    PROVE  /\ SnapshotReplyTyped'
           /\ snapshotReply'.rpc = rpc /\ snapshotReply'.input = input
           /\ snapshotReply'.output = output
  <1>1. snapshotReply'.rpc = rpc /\ snapshotReply'.input = input /\ snapshotReply'.output = output
    BY DEF Snapshots!Reply
  <1> QED BY <1>1 DEF SnapshotReplyTyped, Snapshots!Optional

(* A request for the place of an entry, and the entry.                     *)
LEMMA RefFacts ==
    ASSUME Snapshots!SnapshotAssumption, Filed, NEW k \in DOMAIN snapshots
    PROVE  /\ snapshots[k] \in Snapshots!Snapshot
           /\ snapshots[k].ref \in Snapshots!SnapshotRef
           /\ Snapshots!KeyOf(snapshots[k].ref) = k
  BY DEF Filed, Snapshots!Snapshot

(* A put has a place, and what it stores is filed there.                   *)
LEMMA PutFacts ==
    ASSUME Snapshots!SnapshotAssumption, NEW req \in Snapshots!PutRequests
    PROVE  /\ req \in Snapshots!PutSnapshotRequest
           /\ Snapshots!KeyOf(req) \in Snapshots!SnapshotKey
           /\ Snapshots!RefOf(req) \in Snapshots!SnapshotRef
           /\ Snapshots!KeyOf(Snapshots!RefOf(req)) = Snapshots!KeyOf(req)
           /\ Snapshots!RefOf(req).checksum = req.checksum
           /\ [ref |-> Snapshots!RefOf(req), payload |-> req.payload] \in Snapshots!Snapshot
  <1>1. /\ req = [streamId |-> req.streamId, seq |-> req.seq, payload |-> req.payload,
                  payloadType |-> req.payloadType, payloadVersion |-> req.payloadVersion,
                  compression |-> req.compression, checksum |-> req.checksum]
        /\ req.streamId \in Streams /\ req.seq \in Seqs /\ req.payload \in Payloads
        /\ req.payloadType \in PayloadTypes /\ req.payloadVersion \in Versions
        /\ req.compression = "NONE" /\ req.checksum \in Checksums
    BY DEF Snapshots!PutRequests
  <1>2. req.seq \in Nat /\ req.payloadVersion \in Nat
    BY <1>1 DEF Snapshots!SnapshotAssumption
  <1>3. req.compression \in Snapshots!SnapshotCompression
    BY <1>1 DEF Snapshots!SnapshotCompression
  <1>4. req \in Snapshots!PutSnapshotRequest
    BY <1>1, <1>2, <1>3 DEF Snapshots!PutSnapshotRequest
  <1>5. Snapshots!KeyOf(req) \in Snapshots!SnapshotKey
    BY <1>1 DEF Snapshots!KeyOf, Snapshots!SnapshotKey
  <1>6. Snapshots!RefOf(req) \in Snapshots!SnapshotRef
    BY <1>1, <1>2, <1>3 DEF Snapshots!RefOf, Snapshots!SnapshotRef
  <1>7. /\ Snapshots!KeyOf(Snapshots!RefOf(req)) = Snapshots!KeyOf(req)
        /\ Snapshots!RefOf(req).checksum = req.checksum
    BY DEF Snapshots!RefOf, Snapshots!KeyOf
  <1>8. [ref |-> Snapshots!RefOf(req), payload |-> req.payload] \in Snapshots!Snapshot
    BY <1>1, <1>6 DEF Snapshots!Snapshot
  <1> QED BY <1>4, <1>5, <1>6, <1>7, <1>8

(* A put answers with what its place holds afterwards.                     *)
LEMMA PutSnapshotOK ==
    ASSUME Snapshots!SnapshotAssumption, Filed, NEW req \in Snapshots!PutRequests,
           Snapshots!PutSnapshot(req)
    PROVE  SnapOK'
  <1> DEFINE key == Snapshots!KeyOf(req)
             new == [ref |-> Snapshots!RefOf(req), payload |-> req.payload]
             output(ref, again) == [snapshot |-> ref, deduplicated |-> again]
  <1>1. /\ req \in Snapshots!PutSnapshotRequest /\ key \in Snapshots!SnapshotKey
        /\ new.ref \in Snapshots!SnapshotRef /\ Snapshots!KeyOf(new.ref) = key
        /\ new.ref.checksum = req.checksum /\ new \in Snapshots!Snapshot
    BY PutFacts
  <1> HIDE DEF new, key
  <1>2. ASSUME NEW ref \in Snapshots!SnapshotRef, NEW again \in BOOLEAN,
               Snapshots!Reply("putSnapshot", req, output(ref, again)),
               ref.checksum = req.checksum, Filed',
               key \in DOMAIN snapshots', snapshots'[key].ref = ref
        PROVE  SnapOK'
    <2>1. output(ref, again) \in Snapshots!PutSnapshotResponse
      BY DEF Snapshots!PutSnapshotResponse
    <2>2. output(ref, again).snapshot = ref
      OBVIOUS
    <2> HIDE DEF output
    <2>3. /\ SnapshotReplyTyped' /\ snapshotReply'.rpc = "putSnapshot" /\ snapshotReply'.input = req
          /\ snapshotReply'.output = output(ref, again)
      BY <1>1, <1>2, <2>1, Declared, SnapshotReplyOfType
    <2>4. Snapshots!LatestIsNewest' /\ Snapshots!ListIsComplete'
      BY <2>3 DEF Snapshots!LatestIsNewest, Snapshots!ListIsComplete, Snapshots!Returned
    <2>5. Snapshots!PutIsKept'
      BY <1>2, <2>2, <2>3 DEF Snapshots!PutIsKept, key
    <2> QED BY <1>2, <2>3, <2>4, <2>5 DEF SnapOK, Snapshots!SnapshotsExact
  <1>3. CASE Snapshots!Known(req)
    <2>1. key \in DOMAIN snapshots /\ snapshots[key].ref.checksum = req.checksum
      BY <1>3 DEF Snapshots!Known, key
    <2>2. snapshots' = snapshots
      BY <1>3 DEF Snapshots!PutSnapshot
    <2>3. Snapshots!Reply("putSnapshot", req, output(snapshots[key].ref, TRUE))
      BY <1>3 DEF Snapshots!PutSnapshot, key
    <2>4. Filed'
      BY <2>2 DEF Filed
    <2>5. PICK ref : ref = snapshots[key].ref
      OBVIOUS
    <2>6. ref \in Snapshots!SnapshotRef
      BY <2>1, <2>5, RefFacts
    <2> QED BY <1>2, <2>1, <2>2, <2>3, <2>4, <2>5, <2>6
  <1>4. CASE ~Snapshots!Known(req)
    <2>1. /\ snapshots' = [k \in DOMAIN snapshots \cup {key} |->
                            IF k = key THEN new ELSE snapshots[k]]
          /\ Snapshots!Reply("putSnapshot", req, output(new.ref, FALSE))
      BY <1>4 DEF Snapshots!PutSnapshot, Snapshots!Store, key, new
    <2>2. /\ DOMAIN snapshots' = DOMAIN snapshots \cup {key} /\ snapshots'[key] = new
          /\ \A k \in DOMAIN snapshots \ {key} : snapshots'[k] = snapshots[k]
      BY <2>1
    <2>3. Filed'
      <3>1. IsFiniteSet(DOMAIN snapshots \cup {key})
        BY FS_AddElement DEF Filed
      <3>2. DOMAIN snapshots' \subseteq Snapshots!SnapshotKey
        BY <1>1, <2>2 DEF Filed
      <3>3. ASSUME NEW k \in DOMAIN snapshots'
            PROVE  snapshots'[k] \in Snapshots!Snapshot /\ Snapshots!KeyOf(snapshots'[k].ref) = k
        <4>1. CASE k = key
          BY <1>1, <2>2, <4>1
        <4>2. CASE k # key
          BY <2>2, <4>2 DEF Filed
        <4> QED BY <4>1, <4>2
      <3> QED BY <2>2, <3>1, <3>2, <3>3 DEF Filed
    <2>4. PICK ref : ref = new.ref
      OBVIOUS
    <2> QED BY <1>1, <1>2, <2>1, <2>2, <2>3, <2>4
  <1> QED BY <1>3, <1>4

(* Any order of a finite set has each of its members once.                 *)
LEMMA OrderFacts ==
    ASSUME NEW S, IsFiniteSet(S), NEW order \in Snapshots!SetToSeqs(S)
    PROVE  /\ order \in Seq(S) /\ Len(order) \in Nat
           /\ \A i, j \in 1..Len(order) : order[i] = order[j] => i = j
           /\ {order[i] : i \in 1..Len(order)} = S
  <1>1. Snapshots!Cardinality(S) = Cardinality(S)
    BY DEF Snapshots!Cardinality, Cardinality
  <1> DEFINE n == Cardinality(S)
  <1>2. n \in Nat
    BY FS_CardinalityType
  <1>3. order \in [1..n -> S] /\ \A i, j \in 1..n : i # j => order[i] # order[j]
    BY <1>1 DEF Snapshots!SetToSeqs
  <1>4. IsFiniteSet(1..n) /\ Cardinality(1..n) = n
    BY <1>2, FS_Interval
  <1>5. order \in Injection(1..n, S)
    BY <1>3 DEF Injection, IsInjective
  <1>6. order \in Surjection(1..n, S)
    BY <1>4, <1>5, FS_Injection
  <1>7. \A x \in S : \E i \in 1..n : order[i] = x
    BY <1>6 DEF Surjection
  <1> HIDE DEF n
  <1>8. order \in Seq(S) /\ Len(order) = n
    BY <1>2, <1>3, SeqDef
  <1>9. {order[i] : i \in 1..n} = S
    BY <1>3, <1>7
  <1> QED BY <1>2, <1>3, <1>8, <1>9

(* The answer is the last key the scan has found, in whatever order the    *)
(* map was walked.                                                         *)
LEMMA GetLatestOK ==
    ASSUME Snapshots!SnapshotAssumption, Filed,
           NEW req \in [streamId : Streams, payloadType : PayloadTypes,
                        maxPayloadVersion : MaxVersions],
           Snapshots!GetLatestSnapshot(req)
    PROVE  SnapOK'
  <1>1. snapshots' = snapshots
    BY DEF Snapshots!GetLatestSnapshot
  <1>2. PICK order \in Snapshots!SetToSeqs(DOMAIN snapshots) :
          Snapshots!Reply("getLatestSnapshot", req,
                          IF Snapshots!ScanLatest(order, req) = Absent THEN Absent
                          ELSE [snapshot |-> snapshots[Snapshots!ScanLatest(order, req)]])
    BY DEF Snapshots!GetLatestSnapshot
  <1>3. PICK latest : latest = Snapshots!ScanLatest(order, req)
    OBVIOUS
  <1>4. /\ order \in Seq(DOMAIN snapshots) /\ Len(order) \in Nat
        /\ {order[i] : i \in 1..Len(order)} = DOMAIN snapshots
    BY OrderFacts DEF Filed
  <1>5. Found(order, Len(order), req, latest)
    BY <1>3, <1>4, ScanFinds
  <1> DEFINE C == Snapshots!Compatible(req)
             output == IF latest = Absent THEN Absent ELSE [snapshot |-> snapshots[latest]]
  <1>6. C \subseteq DOMAIN snapshots
    BY DEF Snapshots!Compatible
  <1>7. \A k \in C : \E i \in 1..Len(order) : order[i] = k
    BY <1>4, <1>6
  <1>8. req \in Snapshots!GetLatestSnapshotRequest
    BY DEF Snapshots!GetLatestSnapshotRequest, Snapshots!SnapshotAssumption
  <1> HIDE DEF C
  <1>9. latest # Absent => /\ latest \in C /\ latest \in DOMAIN snapshots
                           /\ \A k \in C : ~Snapshots!Newer(k, latest)
    BY <1>5, <1>6, <1>7 DEF Found, C
  <1>10. latest = Absent => C = {}
    BY <1>5, <1>7 DEF Found, C
  <1>11. latest # Absent => /\ output.snapshot = snapshots[latest]
                            /\ output \in Snapshots!GetLatestSnapshotResponse /\ output # Absent
    <2>1. SUFFICES ASSUME latest # Absent
                   PROVE  /\ output.snapshot = snapshots[latest]
                          /\ output \in Snapshots!GetLatestSnapshotResponse /\ output # Absent
      OBVIOUS
    <2>2. snapshots[latest] \in Snapshots!Snapshot
      BY <1>9, <2>1, RefFacts
    <2>3. output = [snapshot |-> snapshots[latest]]
      BY <2>1
    <2> HIDE DEF output
    <2>4. output \in Snapshots!GetLatestSnapshotResponse
      BY <2>2, <2>3 DEF Snapshots!GetLatestSnapshotResponse
    <2> QED BY <2>3, <2>4 DEF Snapshots!SnapshotAssumption
  <1>12. latest = Absent => output = Absent
    OBVIOUS
  <1>13. Snapshots!Reply("getLatestSnapshot", req, output)
    BY <1>2, <1>3
  <1> HIDE DEF output
  <1>14. /\ SnapshotReplyTyped' /\ snapshotReply'.rpc = "getLatestSnapshot"
         /\ snapshotReply'.input = req
         /\ snapshotReply'.output = output
    BY <1>8, <1>11, <1>12, <1>13, Declared, SnapshotReplyOfType
  <1>15. Snapshots!ListIsComplete' /\ Snapshots!PutIsKept'
    BY <1>14 DEF Snapshots!ListIsComplete, Snapshots!PutIsKept, Snapshots!Returned
  <1>16. Snapshots!LatestIsNewest'
    <2>1. Snapshots!Compatible(req)' = C
      BY <1>1 DEF Snapshots!Compatible, C
    <2>2. CASE latest = Absent
      BY <1>10, <1>12, <1>14, <2>1, <2>2 DEF Snapshots!LatestIsNewest
    <2>3. CASE latest # Absent
      <3>1. Snapshots!KeyOf(output.snapshot.ref) = latest
        BY <1>9, <1>11, <2>3, RefFacts
      <3>2. ASSUME NEW k \in C
            PROVE  \/ k.seq < latest.seq
                   \/ k.seq = latest.seq /\ k.payloadVersion <= latest.payloadVersion
        <4>1. /\ k.seq \in Nat /\ k.payloadVersion \in Nat
              /\ latest.seq \in Nat /\ latest.payloadVersion \in Nat
          BY <1>6, <1>9, <2>3, KeyFacts
        <4> QED BY <1>9, <2>3, <4>1 DEF Snapshots!Newer
      <3>3. /\ snapshotReply'.output # Absent /\ snapshotReply'.output.snapshot = output.snapshot
            /\ Snapshots!KeyOf(snapshotReply'.output.snapshot.ref) = latest
        BY <1>11, <1>14, <2>3, <3>1
      <3> QED BY <1>9, <1>14, <2>1, <2>3, <3>2, <3>3 DEF Snapshots!LatestIsNewest
    <2> QED BY <2>2, <2>3
  <1>17. Filed'
    BY <1>1 DEF Filed
  <1> QED BY <1>14, <1>15, <1>16, <1>17 DEF SnapOK, Snapshots!SnapshotsExact

(* A listing is the first entries of any order, up to the limit.           *)
LEMMA ListSnapshotsOK ==
    ASSUME Snapshots!SnapshotAssumption, Filed,
           NEW req \in [streamId : Streams, payloadType : PayloadTypes \cup {AnyType},
                        limit : SnapshotLimits],
           Snapshots!ListSnapshots(req)
    PROVE  SnapOK'
  <1> DEFINE S == Snapshots!Listed(req)
             limit == Snapshots!EffectiveLimit(req.limit)
  <1>1. snapshots' = snapshots /\ S \subseteq DOMAIN snapshots
    BY DEF Snapshots!ListSnapshots, Snapshots!Listed
  <1>2. PICK order \in Snapshots!SetToSeqs(S) :
          LET n == IF Len(order) > limit THEN limit ELSE Len(order)
          IN  Snapshots!Reply("listSnapshots", req,
                              [snapshots |-> [i \in 1..n |-> snapshots[order[i]].ref]])
    BY DEF Snapshots!ListSnapshots
  <1>3. IsFiniteSet(S)
    BY <1>1, FS_Subset DEF Filed
  <1> HIDE DEF S
  <1>4. /\ order \in Seq(S) /\ Len(order) \in Nat
        /\ \A i, j \in 1..Len(order) : order[i] = order[j] => i = j
        /\ {order[i] : i \in 1..Len(order)} = S
    BY <1>3, OrderFacts
  <1>5. /\ req \in Snapshots!ListSnapshotsRequest /\ req.limit \in Nat /\ SnapshotMaxLimit \in Nat
        /\ limit \in Nat
    BY DEF Snapshots!ListSnapshotsRequest, Snapshots!SnapshotAssumption, Snapshots!EffectiveLimit
  <1> DEFINE n == IF Len(order) > limit THEN limit ELSE Len(order)
             refs == [i \in 1..n |-> snapshots[order[i]].ref]
             output == [snapshots |-> refs]
  <1>6. n \in Nat /\ n <= Len(order) /\ (n < limit => n = Len(order))
    BY <1>4, <1>5
  <1>7. Snapshots!Reply("listSnapshots", req, output)
    BY <1>2
  <1> HIDE DEF n, limit
  <1>8. ASSUME NEW i \in 1..n
        PROVE  /\ i \in 1..Len(order) /\ order[i] \in DOMAIN snapshots
               /\ refs[i] = snapshots[order[i]].ref
               /\ refs[i] \in Snapshots!SnapshotRef
               /\ Snapshots!KeyOf(refs[i]) = order[i]
    <2>1. i \in 1..Len(order)
      BY <1>4, <1>6
    <2>2. order[i] \in DOMAIN snapshots
      BY <1>1, <1>4, <2>1, ElementOfSeq
    <2>3. refs[i] = snapshots[order[i]].ref
      OBVIOUS
    <2> HIDE DEF refs
    <2> QED BY <2>1, <2>2, <2>3, RefFacts
  <1>9. DOMAIN refs = 1..n /\ refs \in [1..n -> Snapshots!SnapshotRef]
    BY <1>8
  <1> HIDE DEF refs
  <1>10. refs \in Seq(Snapshots!SnapshotRef) /\ Len(refs) = n
    BY <1>6, <1>9, SeqDef
  <1>11. output \in Snapshots!ListSnapshotsResponse /\ output.snapshots = refs
    BY <1>10 DEF Snapshots!ListSnapshotsResponse
  <1> HIDE DEF output
  <1>12. /\ SnapshotReplyTyped' /\ snapshotReply'.rpc = "listSnapshots"
         /\ snapshotReply'.input = req
         /\ snapshotReply'.output = output
    BY <1>5, <1>7, <1>11, Declared, SnapshotReplyOfType
  <1>13. Snapshots!LatestIsNewest' /\ Snapshots!PutIsKept'
    BY <1>12 DEF Snapshots!LatestIsNewest, Snapshots!PutIsKept, Snapshots!Returned
  <1>14. Snapshots!IsInjective(refs)
    <2>1. ASSUME NEW i \in 1..n, NEW j \in 1..n, refs[i] = refs[j]
          PROVE  i = j
      <3>1. order[i] = order[j] /\ i \in 1..Len(order) /\ j \in 1..Len(order)
        BY <1>8, <2>1
      <3> QED BY <1>4, <3>1
    <2> QED BY <1>9, <2>1 DEF Snapshots!IsInjective
  <1> DEFINE asked == IF req.limit = 0 THEN SnapshotMaxLimit ELSE req.limit
  <1>15. ASSUME n < asked, asked <= SnapshotMaxLimit
         PROVE  {Snapshots!KeyOf(refs[i]) : i \in 1..n} = S
    <2>1. limit = asked
      BY <1>5, <1>15 DEF limit, Snapshots!EffectiveLimit
    <2>2. n = Len(order)
      BY <1>6, <1>15, <2>1
    <2>3. {Snapshots!KeyOf(refs[i]) : i \in 1..n} = {order[i] : i \in 1..n}
      BY <1>8
    <2> QED BY <1>4, <2>2, <2>3
  <1>16. Snapshots!ListIsComplete'
    <2>1. Snapshots!Listed(req)' = S
      BY <1>1 DEF Snapshots!Listed, S
    <2>2. /\ snapshotReply'.output.snapshots = refs /\ snapshotReply'.input = req
          /\ Snapshots!IsInjective(refs) /\ Len(refs) = n
      BY <1>10, <1>11, <1>12, <1>14
    <2> HIDE DEF asked
    <2>3. n < asked /\ asked <= SnapshotMaxLimit => {Snapshots!KeyOf(refs[i]) : i \in 1..n} = S
      BY <1>15
    <2> QED BY <2>1, <2>2, <2>3 DEF Snapshots!ListIsComplete, asked
  <1>17. Filed'
    BY <1>1 DEF Filed
  <1> QED BY <1>12, <1>13, <1>16, <1>17 DEF SnapOK, Snapshots!SnapshotsExact

(* Lookups, deletions and the end of a stream.                             *)
LEMMA OtherSnapshotsOK ==
    ASSUME Snapshots!SnapshotAssumption, Filed
    PROVE  /\ \A req \in Snapshots!SnapshotKey :
                 /\ Snapshots!GetSnapshot(req) => SnapOK'
                 /\ Snapshots!DeleteSnapshot(req) => SnapOK'
           /\ \A s \in Streams : Snapshots!DeleteStream(s) => SnapOK'
  <1>1. ASSUME NEW D \in SUBSET DOMAIN snapshots, snapshots' = [k \in D |-> snapshots[k]]
        PROVE  Filed'
    <2>1. DOMAIN snapshots' = D /\ IsFiniteSet(D)
      BY <1>1, FS_Subset DEF Filed
    <2>2. \A k \in D : snapshots'[k] = snapshots[k]
      BY <1>1
    <2> QED BY <2>1, <2>2 DEF Filed
  <1>2. ASSUME SnapshotReplyTyped', snapshotReply'.rpc \in {"getSnapshot", "deleteSnapshot"}
        PROVE  SnapshotReplyTyped' /\ Snapshots!SnapshotsExact'
    BY <1>2
    DEF Snapshots!SnapshotsExact, Snapshots!LatestIsNewest, Snapshots!ListIsComplete,
        Snapshots!PutIsKept,
        Snapshots!Returned
  <1>3. ASSUME NEW req \in Snapshots!SnapshotKey
        PROVE  req \in Snapshots!GetSnapshotRequest /\ req \in Snapshots!DeleteSnapshotRequest
    BY DEF Snapshots!SnapshotKey, Snapshots!GetSnapshotRequest, Snapshots!DeleteSnapshotRequest,
           Snapshots!SnapshotAssumption
  <1>4. ASSUME NEW req \in Snapshots!SnapshotKey, Snapshots!GetSnapshot(req)
        PROVE  SnapOK'
    <2> DEFINE key == Snapshots!KeyOf(req)
               output == IF key \in DOMAIN snapshots THEN [snapshot |-> snapshots[key]] ELSE Absent
    <2>1. Snapshots!Reply("getSnapshot", req, output) /\ snapshots' = snapshots
      BY <1>4 DEF Snapshots!GetSnapshot
    <2>2. output = Absent \/ output \in Snapshots!GetSnapshotResponse
      BY RefFacts DEF Snapshots!GetSnapshotResponse
    <2> HIDE DEF output
    <2>3. SnapshotReplyTyped' /\ snapshotReply'.rpc = "getSnapshot"
      BY <1>3, <2>1, <2>2, Declared, SnapshotReplyOfType
    <2>4. Filed'
      BY <2>1 DEF Filed
    <2> QED BY <1>2, <2>3, <2>4 DEF SnapOK
  <1>5. ASSUME NEW req \in Snapshots!SnapshotKey, Snapshots!DeleteSnapshot(req)
        PROVE  SnapOK'
    <2> DEFINE output == [deleted |-> Snapshots!KeyOf(req) \in DOMAIN snapshots]
    <2>1. /\ Snapshots!Reply("deleteSnapshot", req, output)
          /\ snapshots' = [k \in DOMAIN snapshots \ {Snapshots!KeyOf(req)} |-> snapshots[k]]
      BY <1>5 DEF Snapshots!DeleteSnapshot
    <2>2. output \in Snapshots!DeleteSnapshotResponse
      BY DEF Snapshots!DeleteSnapshotResponse
    <2> HIDE DEF output
    <2>3. SnapshotReplyTyped' /\ snapshotReply'.rpc = "deleteSnapshot"
      BY <1>3, <2>1, <2>2, Declared, SnapshotReplyOfType
    <2>4. DOMAIN snapshots \ {Snapshots!KeyOf(req)} \in SUBSET DOMAIN snapshots
      OBVIOUS
    <2>5. Filed'
      BY <1>1, <2>1, <2>4
    <2> QED BY <1>2, <2>3, <2>5 DEF SnapOK
  <1>6. ASSUME NEW s \in Streams, Snapshots!DeleteStream(s)
        PROVE  SnapOK'
    <2> DEFINE D == {k \in DOMAIN snapshots : k.streamId # s}
    <2>1. snapshots' = [k \in D |-> snapshots[k]] /\ snapshotReply' = Absent
      BY <1>6 DEF Snapshots!DeleteStream
    <2>2. D \in SUBSET DOMAIN snapshots
      OBVIOUS
    <2> HIDE DEF D
    <2>3. Filed'
      BY <1>1, <2>1, <2>2
    <2>4. SnapshotReplyTyped' /\ Snapshots!SnapshotsExact'
      BY <2>1
      DEF SnapshotReplyTyped, Snapshots!SnapshotsExact, Snapshots!LatestIsNewest,
          Snapshots!ListIsComplete, Snapshots!PutIsKept, Snapshots!Returned
    <2> QED BY <2>3, <2>4 DEF SnapOK
  <1> QED BY <1>4, <1>5, <1>6

(* Every call keeps the invariant.                                         *)
LEMMA SnapshotsInvariant ==
    ASSUME Snapshots!SnapshotAssumption PROVE Snapshots!Spec => []SnapOK
  <1>1. Snapshots!Init => SnapOK
    <2> SUFFICES ASSUME Snapshots!Init PROVE SnapOK
      OBVIOUS
    <2>1. DOMAIN snapshots = {} /\ snapshotReply = Absent
      BY DEF Snapshots!Init
    <2>2. Filed
      BY <2>1, FS_EmptySet DEF Filed
    <2>3. SnapshotReplyTyped /\ Snapshots!SnapshotsExact
      BY <2>1
      DEF SnapshotReplyTyped, Snapshots!SnapshotsExact, Snapshots!LatestIsNewest,
          Snapshots!ListIsComplete, Snapshots!PutIsKept, Snapshots!Returned
    <2> QED BY <2>2, <2>3 DEF SnapOK
  <1>2. SnapOK /\ [Snapshots!Next]_Snapshots!vars => SnapOK'
    <2> SUFFICES ASSUME SnapOK, [Snapshots!Next]_Snapshots!vars PROVE SnapOK'
      OBVIOUS
    <2>1. Filed
      BY DEF SnapOK
    <2>2. CASE UNCHANGED Snapshots!vars
      <3>1. snapshotReply' = snapshotReply /\ snapshots' = snapshots
        BY <2>2 DEF Snapshots!vars
      <3>2. Snapshots!SnapshotsExact'
        BY <3>1
        DEF SnapOK, Snapshots!SnapshotsExact, Snapshots!LatestIsNewest, Snapshots!ListIsComplete,
            Snapshots!PutIsKept, Snapshots!Returned, Snapshots!Compatible, Snapshots!Listed
      <3> QED BY <3>1, <3>2 DEF SnapOK, Filed, SnapshotReplyTyped
    <2>3. CASE Snapshots!Next
      BY <2>1, <2>3, PutSnapshotOK, GetLatestOK, ListSnapshotsOK, OtherSnapshotsOK
      DEF Snapshots!Next
    <2> QED BY <2>2, <2>3
  <1> HIDE DEF SnapOK
  <1> QED BY <1>1, <1>2, PTL DEF Snapshots!Spec

(* So every look-up, listing and put is exact.                             *)
LEMMA SnapshotAnswers ==
    ASSUME Snapshots!SnapshotAssumption PROVE Snapshots!Spec => []Snapshots!SnapshotsExact
  <1>1. SnapOK => Snapshots!SnapshotsExact
    BY DEF SnapOK
  <1> HIDE DEF SnapOK
  <1> QED BY <1>1, SnapshotsInvariant, PTL

(* And every answer has the type its method declares in snapshot.proto.    *)
LEMMA SnapshotTypes ==
    ASSUME Snapshots!SnapshotAssumption PROVE Snapshots!Spec => []Snapshots!TypeOK
  <1>1. SnapOK => Snapshots!TypeOK
    BY DEF SnapOK, Filed, SnapshotReplyTyped, Requests, Responses, Snapshots!TypeOK
  <1> HIDE DEF SnapOK
  <1> QED BY <1>1, SnapshotsInvariant, PTL

-----------------------------------------------------------------------------
(* All of them side by side.                                               *)

(* What is assumed of the services is assumed of each.                     *)
LEMMA PartAssumptions ==
    ServicesAssumption => /\ ServiceAssumption /\ Admin!AdminAssumption
                          /\ Snapshots!SnapshotAssumption /\ Loop!SubscribeAssumption
  BY DEF ServicesAssumption

(* No step of one service changes what another one keeps, so each of them  *)
(* behaves as its own specification says.                                  *)
LEMMA PartsBehave ==
    ServicesSpec => Spec /\ Admin!Spec /\ Snapshots!Spec /\ Loop!Spec
  <1>1. ServicesInit => Init /\ Admin!Init /\ Snapshots!Init /\ Loop!Init
    BY DEF ServicesInit
  <1>2. [ServicesNext]_servicesVars => [Next]_vars
    BY DEF ServicesNext, servicesVars, AdminUnchanged, SnapshotsUnchanged, LoopUnchanged,
           ClientUnchanged
  <1>3. [ServicesNext]_servicesVars => [Admin!Next]_Admin!vars
    <2>1. UNCHANGED adminVars => UNCHANGED Admin!vars
      BY DEF adminVars, Admin!vars, Admin!storeVars, Admin!histories
    <2> QED BY <2>1
        DEF ServicesNext, servicesVars, RawUnchanged, SnapshotsUnchanged, LoopUnchanged,
            ClientUnchanged
  <1>4. [ServicesNext]_servicesVars => [Snapshots!Next]_Snapshots!vars
    <2>1. UNCHANGED snapshotVars => UNCHANGED Snapshots!vars
      BY DEF snapshotVars, Snapshots!vars
    <2> QED BY <2>1
        DEF ServicesNext, servicesVars, RawUnchanged, AdminUnchanged, LoopUnchanged,
            ClientUnchanged
  <1>5. [ServicesNext]_servicesVars => [Loop!Next]_Loop!vars
    <2>1. UNCHANGED loopVars => UNCHANGED Loop!vars
      BY DEF loopVars, Loop!vars, Loop!logVars, Loop!loopVars
    <2> QED BY <2>1
        DEF ServicesNext, servicesVars, RawUnchanged, AdminUnchanged, SnapshotsUnchanged,
            ClientUnchanged
  <1> QED BY <1>1, <1>2, <1>3, <1>4, <1>5, PTL
      DEF ServicesSpec, Spec, Admin!Spec, Snapshots!Spec, Loop!Spec

(* Every request, answer and frame of the raw service, the admin service,  *)
(* the snapshots and the Subscribe loop has the type its method declares   *)
(* in the proto files, every snapshot is filed under what its own          *)
(* reference says, and no frame and no position of the loop is beyond its  *)
(* log.                                                                    *)
THEOREM ServicesTypes == ASSUME ServicesAssumption PROVE ServicesSpec => []ServicesTypeOK
  <1>1. /\ ServiceAssumption /\ Admin!AdminAssumption
        /\ Snapshots!SnapshotAssumption /\ Loop!SubscribeAssumption
    BY PartAssumptions
  <1>2. /\ Spec => []TypeOK
        /\ Admin!Spec => []Admin!TypeOK
        /\ Snapshots!Spec => []Snapshots!TypeOK
        /\ Loop!Spec => []Loop!TypeOK
    BY <1>1, ServiceTypes, AdminTypes, SnapshotTypes, LoopTypes
  <1>3. TypeOK /\ Admin!TypeOK /\ Snapshots!TypeOK /\ Loop!TypeOK => ServicesTypeOK
    BY DEF ServicesTypeOK
  <1> QED BY <1>2, <1>3, PartsBehave, PTL

(* The statistics of a stream and what TruncateStream reported as removed  *)
(* never exceed the head, and make it up exactly for a stream that no      *)
(* retention policy and no compaction has cut; a stream on which nobody    *)
(* set a policy, compacted or truncated is complete, whatever was set for  *)
(* a deleted stream of the same name.  This holds for every number of      *)
(* streams, operators and policies, with appends, acks and the two halves  *)
(* of CompactStream in between.                                            *)
THEOREM EveryEventAccountedFor ==
    ASSUME ServicesAssumption PROVE ServicesSpec => []EventsAccountedFor
  <1>1. Admin!Spec => [](Admin!EventsAccountedFor /\ Admin!UntouchedIsComplete)
    BY PartAssumptions, AdminAccounts
  <1>2. Admin!EventsAccountedFor /\ Admin!UntouchedIsComplete => EventsAccountedFor
    BY DEF EventsAccountedFor
  <1> QED BY <1>1, <1>2, PartsBehave, PTL

(* Whatever order the map of snapshots is walked in, GetLatestSnapshot     *)
(* answers with a compatible snapshot that no compatible one is newer than *)
(* (a higher seq, or the same seq and a higher payload version) and        *)
(* answers that there is none only when there is none; a listing shorter   *)
(* than its limit leaves nothing out and names nothing twice; after a put, *)
(* repeated or not, its place holds the snapshot the put answered with.    *)
(* This holds for any number of snapshots, versions and limits.            *)
THEOREM SnapshotsFound ==
    ASSUME ServicesAssumption PROVE ServicesSpec => []SnapshotsExact
  <1>1. Snapshots!Spec => []Snapshots!SnapshotsExact
    BY PartAssumptions, SnapshotAnswers
  <1>2. Snapshots!SnapshotsExact => SnapshotsExact
    BY DEF SnapshotsExact
  <1> QED BY <1>1, <1>2, PartsBehave, PTL

(* A frame of the raw Subscribe loop continues what the consumer has       *)
(* applied, is never ahead of the head that is sent with it, and is marked *)
(* final exactly when it reaches that head: for every batch limit and      *)
(* window, with appends, truncations, acks and overdue heartbeats between  *)
(* any two steps of the loop, which reads the cursor and the log with no   *)
(* lock in between, and for a consumer that has refreshed after a TOO_LONG *)
(* while older frames were under way.                                      *)
THEOREM FramesFit ==
    ASSUME ServicesAssumption PROVE ServicesSpec => []NextFrameFits
  <1>1. Loop!Spec => []Loop!NextFrameFits
    BY PartAssumptions, LoopFrames
  <1>2. Loop!NextFrameFits => NextFrameFits
    BY DEF NextFrameFits
  <1> QED BY <1>1, <1>2, PartsBehave, PTL
===============================================================================
