------------------------ MODULE GatewayDeliveryProofs ------------------------
(***************************************************************************)
(* What the delivery loop keeps for any subscription, however many targets *)
(* and bindings it has and whatever the client and the product do: the     *)
(* windows it sends within, and no batch from a cursor that was lost.      *)
(***************************************************************************)
EXTENDS GatewayDelivery, FiniteSetTheorems, SequenceTheorems, WellFoundedInduction, TLAPS

Numbers ==
    /\ subscription \in Subscriptions
    /\ head \in [Streams -> Nat] /\ retained \in [Streams -> Nat]
    /\ cursor \in [Subscribers \X Streams -> Nat]
    /\ applied \in [DeliveryKeys -> Nat] /\ delivered \in [DeliveryKeys -> Nat]
    /\ lostAt \in [DeliveryKeys -> Nat \cup {Never}]

(* A request of this loop is for the binding's stream, from a cursor that  *)
(* was committed, and the answer keeps within the limit.                   *)
RequestOf(k, q) ==
    q.phase # "none" => q.stream = StreamOf(k) /\ q.from \in Nat /\ q.from <= CursorOf(k)

AskedOf(k, q) ==
    q.phase = "asked" => q.limit = BatchLimit /\ q.totalLimit = 0 /\ lostAt[k] <= q.from

BatchOf(k, q) ==
    (q.phase = "answered" /\ q.answer.status = "ok") =>
        /\ q.answer.seqs \in Seq(Nat) /\ Len(q.answer.seqs) <= BatchLimit
        /\ q.answer.seqs # <<>> => q.answer.seqs[1] = q.from + 1
        /\ q.answer.head \in Nat
        /\ lostAt[k] < q.from

TooLongOf(k, q) ==
    (q.phase = "answered" /\ q.answer.status # "ok") =>
        Log!ReplayTooOld(q.from, retained[StreamOf(k)])

RequestsOK ==
    /\ DOMAIN request = DeliveryKeys
    /\ \A k \in DeliveryKeys :
          /\ request[k].phase \in {"none", "asked", "answered"}
          /\ RequestOf(k, request[k]) /\ AskedOf(k, request[k])
          /\ BatchOf(k, request[k]) /\ TooLongOf(k, request[k])

(* One binding is polled at a time, and the answers of a pass are complete *)
(* when they are handled.                                                  *)
Read(k) == k \in todo \/ (states[k[1]] # Absent /\ request[k].phase # "none")

PassOK ==
    /\ targets \subseteq Targets /\ pass \subseteq Targets /\ todo \subseteq DeliveryKeys
    /\ phase \in {"poll", "handle"} => \A k \in DeliveryKeys : k[1] \in pass => Read(k)
    /\ phase = "handle" => todo = {}
    /\ \A k \in DeliveryKeys : request[k].phase = "asked" => phase = "poll"
    /\ \A j, k \in DeliveryKeys :
          request[j].phase = "asked" /\ request[k].phase = "asked" => j = k

(* A state that was read has a cursor that has not gone back since.        *)
StatesOK ==
    /\ DOMAIN states = Targets
    /\ \A k \in DeliveryKeys : states[k[1]] # Absent =>
          states[k[1]].target = k[1] /\ StateCursor(k) \in Nat /\ StateCursor(k) <= CursorOf(k)

(* What TOO_LONG was sent for stays lost.                                  *)
LossOK ==
    \A k \in DeliveryKeys : lostAt[k] # Never =>
        lostAt[k] <= CursorOf(k) /\ Log!ReplayTooOld(lostAt[k], retained[StreamOf(k)])

WireOK ==
    /\ wire \in Seq(Range(wire))
    /\ \A f \in Range(wire) : f.status = "OK" => f.batch.seq \in Nat

Inv == Numbers /\ RequestsOK /\ PassOK /\ StatesOK /\ LossOK /\ WireOK /\ OneBatchAhead

-----------------------------------------------------------------------------
LEMMA KeyFacts ==
    /\ \A t \in Targets : KeysOf(t) \subseteq DeliveryKeys /\ \A k \in KeysOf(t) : k[1] = t
    /\ \A k \in DeliveryKeys : /\ k[1] \in Targets /\ k \in KeysOf(k[1]) /\ k = <<k[1], k[2]>>
                               /\ StreamOf(k) \in Streams
  <1>1. ASSUME NEW t \in Targets, NEW k \in KeysOf(t)
        PROVE  k[1] = t /\ k = <<k[1], k[2]>>
    BY DEF KeysOf
  <1>2. ASSUME NEW t \in Targets, NEW k \in KeysOf(t) PROVE StreamOf(k) \in Streams
    <2>1. BindingsOf[t] \in Seq([key : BindingKeys, stream : Streams])
      BY DeliveryAssumption
    <2>2. PICK i \in 1..Len(BindingsOf[t]) : k = <<t, BindingsOf[t][i].key>>
      BY DEF KeysOf
    <2>3. DOMAIN BindingsOf[t] = 1..Len(BindingsOf[t])
      BY <2>1
    <2>4. BindingsOf[t][i] \in Range(BindingsOf[t]) /\ BindingsOf[t][i].key = k[2] /\ k[1] = t
      BY <2>2, <2>3 DEF Range
    <2>5. \A j \in 1..Len(BindingsOf[t]) : BindingsOf[t][j].stream \in Streams
      <3>1. BindingsOf[t] \in [1..Len(BindingsOf[t]) -> [key : BindingKeys, stream : Streams]]
        BY <2>1, LenProperties
      <3> QED BY <3>1
    <2>6. \A b \in Range(BindingsOf[t]) : b.stream \in Streams
      BY <2>5, <2>3 DEF Range
    <2> QED BY <2>4, <2>6 DEF StreamOf
  <1> QED BY <1>1, <1>2 DEF DeliveryKeys

LEMMA LimitFacts ==
    ASSUME subscription \in Subscriptions
    PROVE  BatchLimit \in Nat \ {0} /\ MaxInFlight \in Nat
  BY DeliveryAssumption DEF SubscriptionSet, BatchLimit, MaxInFlight

LEMMA CursorFacts ==
    ASSUME Numbers
    PROVE  \A k \in DeliveryKeys : /\ CursorOf(k) \in Nat
                                   /\ <<Subscriber, StreamOf(k)>> \in Subscribers \X Streams
  BY KeyFacts, DeliveryAssumption DEF Numbers, CursorOf

LEMMA MaxOfTwo ==
    ASSUME NEW a \in Int, NEW b \in Int
    PROVE  Max({a, b}) \in {a, b} /\ Max({a, b}) >= a /\ Max({a, b}) >= b
  <1>1. \E x \in {a, b} : \A y \in {a, b} : x >= y
    OBVIOUS
  <1> QED BY <1>1 DEF Max

LEMMA MaxOfNats ==
    ASSUME NEW a \in Nat, NEW b \in Nat
    PROVE  Max({a, b}) \in Nat
  <1>1. Max({a, b}) \in {a, b}
    BY MaxOfTwo
  <1> QED BY <1>1

LEMMA MaxWithZero ==
    ASSUME NEW a \in Int
    PROVE  Max({a, 0}) >= 0 /\ Max({a, 0}) \in {a, 0}
  <1>1. \E x \in {a, 0} : \A y \in {a, 0} : x >= y
    OBVIOUS
  <1> QED BY <1>1 DEF Max

LEMMA WireShape ==
    ASSUME NEW S, NEW w \in Seq(S), \A f \in S : f.status = "OK" => f.batch.seq \in Nat
    PROVE  w \in Seq(Range(w)) /\ \A f \in Range(w) : f.status = "OK" => f.batch.seq \in Nat
  <1>1. DOMAIN w = 1..Len(w) /\ Len(w) \in Nat /\ w \in [1..Len(w) -> S]
    BY LenProperties
  <1>2. Range(w) \subseteq S /\ w \in [1..Len(w) -> Range(w)]
    BY <1>1 DEF Range
  <1>3. w \in Seq(Range(w))
    BY <1>1, <1>2
  <1> QED BY <1>2, <1>3

LEMMA DeliveryInit == Init => Inv
  <1> SUFFICES ASSUME Init PROVE Inv
    OBVIOUS
  <1>1. Numbers
    BY DeliveryAssumption DEF Init, Log!Init, Numbers, Never
  <1>2. RequestsOK
    BY DEF Init, Log!Init, Log!NoRequest, RequestsOK, RequestOf, AskedOf, BatchOf, TooLongOf
  <1>3. PassOK
    BY DeliveryAssumption DEF Init, Log!Init, Log!NoRequest, PassOK, SubscriptionSet
  <1>4. StatesOK
    BY KeyFacts DEF Init, StatesOK
  <1>5. LossOK
    BY DEF Init, LossOK
  <1>6. WireOK
    <2>1. wire \in Seq({})
      BY DEF Init
    <2> QED BY <2>1, WireShape DEF WireOK
  <1>7. OneBatchAhead
    <2>1. \A k \in DeliveryKeys : delivered[k] = 0
      BY DEF Init
    <2>2. BatchLimit \in Nat
      BY <1>1, LimitFacts DEF Numbers
    <2>3. \A k \in DeliveryKeys : CursorOf(k) \in Nat
      BY <1>1, CursorFacts
    <2>4. \A c, n \in Nat : 0 <= c + n
      OBVIOUS
    <2> QED BY <2>1, <2>2, <2>3, <2>4 DEF OneBatchAhead
  <1> QED BY <1>1, <1>2, <1>3, <1>4, <1>5, <1>6, <1>7 DEF Inv

-----------------------------------------------------------------------------
(* The logs and the committed cursors only move forward.                   *)
Forward ==
    /\ head' \in [Streams -> Nat] /\ retained' \in [Streams -> Nat]
    /\ cursor' \in [Subscribers \X Streams -> Nat]
    /\ \A s \in Streams : retained'[s] >= retained[s]
    /\ \A c \in Subscribers \X Streams : cursor'[c] >= cursor[c]

LEMMA LogStays ==
    ASSUME Numbers, UNCHANGED <<head, retained, cursor>>
    PROVE  Forward
  <1>1. \A s \in Streams : retained[s] \in Nat
    BY DEF Numbers
  <1>2. \A c \in Subscribers \X Streams : cursor[c] \in Nat
    BY DEF Numbers
  <1> QED BY <1>1, <1>2 DEF Numbers, Forward

LEMMA CursorForward ==
    ASSUME Numbers, Forward
    PROVE  \A k \in DeliveryKeys :
             /\ CursorOf(k) \in Nat /\ CursorOf(k)' \in Nat /\ CursorOf(k) <= CursorOf(k)'
             /\ \A n \in Int : Log!ReplayTooOld(n, retained[StreamOf(k)])
                                => Log!ReplayTooOld(n, retained'[StreamOf(k)])
  <1> TAKE k \in DeliveryKeys
  <1>1. /\ <<Subscriber, StreamOf(k)>> \in Subscribers \X Streams /\ StreamOf(k) \in Streams
        /\ CursorOf(k) \in Nat
    BY CursorFacts, KeyFacts
  <1>2. CursorOf(k)' \in Nat /\ CursorOf(k) <= CursorOf(k)'
    BY <1>1 DEF Forward, CursorOf
  <1>3. /\ retained[StreamOf(k)] \in Nat /\ retained'[StreamOf(k)] \in Nat
        /\ retained[StreamOf(k)] <= retained'[StreamOf(k)]
    BY <1>1 DEF Forward, Numbers
  <1>4. \A n \in Int : Log!ReplayTooOld(n, retained[StreamOf(k)])
                        => Log!ReplayTooOld(n, retained'[StreamOf(k)])
    BY <1>3 DEF Log!ReplayTooOld
  <1> QED BY <1>1, <1>2, <1>4

(* What a step that lets the logs move forward leaves alone stays true.    *)
LEMMA Undisturbed ==
    ASSUME Inv, Forward
    PROVE  /\ UNCHANGED <<subscription, delivered, applied, lostAt>> => Numbers'
           /\ UNCHANGED <<subscription, request, lostAt>> => RequestsOK'
           /\ UNCHANGED <<request, phase, targets, pass, todo, states>> => PassOK'
           /\ UNCHANGED states => StatesOK'
           /\ UNCHANGED lostAt => LossOK'
           /\ UNCHANGED wire => WireOK'
           /\ UNCHANGED <<subscription, delivered>> => OneBatchAhead'
  <1>n. Numbers
    BY DEF Inv
  <1>c. \A k \in DeliveryKeys :
             /\ CursorOf(k) \in Nat /\ CursorOf(k)' \in Nat /\ CursorOf(k) <= CursorOf(k)'
             /\ \A n \in Int : Log!ReplayTooOld(n, retained[StreamOf(k)])
                                => Log!ReplayTooOld(n, retained'[StreamOf(k)])
    BY <1>n, CursorForward
  <1>1. UNCHANGED <<subscription, delivered, applied, lostAt>> => Numbers'
    BY <1>n DEF Numbers, Forward
  <1>2. ASSUME UNCHANGED <<subscription, request, lostAt>> PROVE RequestsOK'
    <2>1. ASSUME NEW k \in DeliveryKeys
          PROVE  /\ (request[k].phase \in {"none", "asked", "answered"})'
                 /\ RequestOf(k, request[k])' /\ AskedOf(k, request[k])'
                 /\ BatchOf(k, request[k])' /\ TooLongOf(k, request[k])'
      <3>1. /\ request[k].phase \in {"none", "asked", "answered"}
            /\ RequestOf(k, request[k]) /\ AskedOf(k, request[k])
            /\ BatchOf(k, request[k]) /\ TooLongOf(k, request[k])
        BY DEF Inv, RequestsOK
      <3>2. RequestOf(k, request[k])'
        BY <3>1, <1>2, <1>c DEF RequestOf
      <3>3. AskedOf(k, request[k])' /\ BatchOf(k, request[k])'
        BY <3>1, <1>2 DEF AskedOf, BatchOf, BatchLimit
      <3>4. TooLongOf(k, request[k])'
        BY <3>1, <1>2, <1>c DEF TooLongOf, RequestOf
      <3> QED BY <3>1, <3>2, <3>3, <3>4, <1>2
    <2> QED BY <2>1, <1>2 DEF RequestsOK, Inv
  <1>3. UNCHANGED <<request, phase, targets, pass, todo, states>> => PassOK'
    BY DEF Inv, PassOK, Read
  <1>4. ASSUME UNCHANGED states PROVE StatesOK'
    <2>1. \A k : StateCursor(k)' = StateCursor(k)
      BY <1>4 DEF StateCursor
    <2> QED BY <2>1, <1>4, <1>c DEF Inv, StatesOK
  <1>5. ASSUME UNCHANGED lostAt PROVE LossOK'
    <2>1. \A k \in DeliveryKeys : lostAt[k] # Never => lostAt[k] \in Nat
      BY <1>n DEF Numbers
    <2> QED BY <2>1, <1>5, <1>c DEF Inv, LossOK
  <1>6. UNCHANGED wire => WireOK'
    BY DEF Inv, WireOK, Range
  <1>7. ASSUME UNCHANGED <<subscription, delivered>> PROVE OneBatchAhead'
    <2>1. BatchLimit \in Nat /\ BatchLimit' = BatchLimit
      BY <1>7, <1>n, LimitFacts DEF Numbers, BatchLimit
    <2>2. \A k \in DeliveryKeys : delivered[k] \in Nat /\ delivered'[k] = delivered[k]
      BY <1>n, <1>7 DEF Numbers
    <2> QED BY <2>1, <2>2, <1>c DEF Inv, OneBatchAhead
  <1> QED BY <1>1, <1>2, <1>3, <1>4, <1>5, <1>6, <1>7

-----------------------------------------------------------------------------
(* Appends, retention and acks move the logs forward.                      *)
LEMMA LogSteps ==
    ASSUME Inv,
           \/ \E st \in Streams, boundary \in 1..(MaxSeq + 1) :
                 AppendEvents(st, boundary) \/ DiscardEvents(st, boundary)
           \/ \E key \in DeliveryKeys : AckApplied(key),
           UNCHANGED subscription
    PROVE  Inv'
  <1>n. Numbers
    BY DEF Inv
  <1>1. ASSUME NEW st \in Streams, NEW boundary \in 1..(MaxSeq + 1),
               AppendEvents(st, boundary) \/ DiscardEvents(st, boundary)
        PROVE  Forward /\ UNCHANGED <<request, OtherVars, targets, applied>>
    <2>1. boundary \in Int /\ retained[st] \in Nat /\ head[st] \in Nat
      BY <1>n DEF Numbers
    <2>2. \A c \in Subscribers \X Streams : cursor[c] \in Nat
      BY <1>n DEF Numbers
    <2>3. \A s \in Streams : retained[s] \in Nat
      BY <1>n DEF Numbers
    <2>4. /\ head' \in [Streams -> Nat]
          /\ retained' = [retained EXCEPT ![st] = boundary] /\ boundary >= retained[st]
          /\ UNCHANGED <<cursor, request, OtherVars, targets, applied>>
      BY <1>1, <1>n, <2>1
         DEF Numbers, AppendEvents, DiscardEvents, Log!Publish, Log!Discard, Log!Larger
    <2>5. retained' \in [Streams -> Nat]
      BY <2>1, <2>4, <1>n DEF Numbers
    <2>6. \A s \in Streams : retained'[s] >= retained[s]
      BY <2>1, <2>3, <2>4, <1>n DEF Numbers
    <2> QED BY <2>2, <2>4, <2>5, <2>6, <1>n DEF Forward, Numbers
  <1>2. ASSUME NEW key \in DeliveryKeys, AckApplied(key)
        PROVE  Forward /\ UNCHANGED <<request, OtherVars, targets, applied>>
    <2>1. applied[key] \in Nat
      BY <1>n DEF Numbers
    <2>2. \A c \in Subscribers \X Streams : cursor[c] \in Nat
      BY <1>n DEF Numbers
    <2>3. \A s \in Streams : retained[s] \in Nat
      BY <1>n DEF Numbers
    <2>4. /\ UNCHANGED <<head, retained, request, OtherVars, targets, applied>>
          /\ applied[key] > cursor[<<Subscriber, StreamOf(key)>>]
          /\ cursor' = [cursor EXCEPT ![<<Subscriber, StreamOf(key)>>] = applied[key]]
      BY <1>2 DEF AckApplied, Log!Commit
    <2>5. cursor' \in [Subscribers \X Streams -> Nat]
      BY <2>1, <2>4, <1>n DEF Numbers
    <2>6. \A c \in Subscribers \X Streams : cursor'[c] >= cursor[c]
      BY <2>1, <2>2, <2>4, <1>n DEF Numbers
    <2> QED BY <2>3, <2>4, <2>5, <2>6, <1>n DEF Forward, Numbers
  <1>3. Forward /\ UNCHANGED <<request, OtherVars, targets, applied>>
    BY <1>1, <1>2
  <1> QED BY <1>3, Undisturbed DEF Inv, OtherVars, loopVars

(* The targets, the hooks, the timers and the waits leave the rest alone.  *)
LEMMA WorldSteps ==
    ASSUME Inv,
           \/ \E t \in Targets : RemoveTarget(t) \/ AddTarget(t) \/ ChangeAccess(t)
           \/ HeartbeatDue \/ UNCHANGED vars,
           UNCHANGED subscription
    PROVE  Inv'
  <1>n. Numbers
    BY DEF Inv
  <1>1. UNCHANGED <<logVars, OtherVars, applied>> /\ targets' \subseteq Targets
    BY DEF RemoveTarget, AddTarget, ChangeAccess, HeartbeatDue, vars, OtherVars, Inv, PassOK
  <1>2. Forward
    BY <1>n, <1>1, LogStays DEF logVars
  <1>3. PassOK'
    BY <1>1 DEF Inv, PassOK, Read, OtherVars, loopVars, logVars
  <1> QED BY <1>1, <1>2, <1>3, Undisturbed DEF Inv, OtherVars, loopVars, logVars

LEMMA WaitSteps ==
    ASSUME Inv, EnterWait \/ WatcherFires \/ WaitTimeout \/ WakeUp, UNCHANGED subscription
    PROVE  Inv'
  <1>n. Numbers
    BY DEF Inv
  <1>1. /\ UNCHANGED WaitVars
        /\ phase \notin {"poll", "handle"} /\ phase' \notin {"poll", "handle"}
    BY DEF EnterWait, WatcherFires, WaitTimeout, WakeUp, Sleeping
  <1>2. Forward
    BY <1>n, <1>1, LogStays DEF WaitVars, logVars
  <1>3. PassOK'
    BY <1>1 DEF Inv, PassOK, WaitVars, logVars
  <1> QED BY <1>1, <1>2, <1>3, Undisturbed DEF Inv, WaitVars, logVars

LEMMA WireInLarger ==
    ASSUME NEW S, NEW T, NEW w \in Seq(S), S \subseteq T
    PROVE  w \in Seq(T)
  <1>1. w \in [1..Len(w) -> S] /\ Len(w) \in Nat
    BY LenProperties
  <1>2. w \in [1..Len(w) -> T]
    BY <1>1
  <1> QED BY <1>1, <1>2

LEMMA HeartbeatWire ==
    ASSUME WireOK
    PROVE  /\ Append(wire, HeartbeatFrame) \in Seq(Range(Append(wire, HeartbeatFrame)))
           /\ \A f \in Range(Append(wire, HeartbeatFrame)) :
                 f.status = "OK" => f.batch.seq \in Nat
  <1> DEFINE S == Range(wire) \cup {HeartbeatFrame}
  <1>1. \A f \in S : f.status = "OK" => f.batch.seq \in Nat
    BY DEF WireOK, HeartbeatFrame
  <1>2. wire \in Seq(S)
    BY WireInLarger DEF WireOK
  <1>3. Append(wire, HeartbeatFrame) \in Seq(S)
    BY <1>2
  <1> HIDE DEF S
  <1> QED BY <1>1, <1>3, WireShape

LEMMA StartPassStep ==
    ASSUME Inv, StartPass, UNCHANGED subscription
    PROVE  Inv'
  <1>n. Numbers
    BY DEF Inv
  <1>1. Forward
    BY <1>n, LogStays DEF StartPass, logVars
  <1>2. Numbers'
    BY <1>n, <1>1 DEF StartPass, Numbers, Forward
  <1>3. PassOK'
    <2>1. \A k \in DeliveryKeys : request'[k].phase # "asked"
      BY DEF Inv, PassOK, StartPass, logVars
    <2>2. pass' = targets /\ targets' = targets /\ targets \subseteq Targets
      BY DEF Inv, PassOK, StartPass
    <2>3. todo' \subseteq DeliveryKeys
      BY <2>2, KeyFacts DEF StartPass
    <2>4. \A k \in DeliveryKeys : k[1] \in pass' => k \in todo'
      BY <2>2, KeyFacts DEF StartPass
    <2>5. phase' \in {"idle", "poll"}
      BY DEF StartPass
    <2> QED BY <2>1, <2>2, <2>3, <2>4, <2>5 DEF PassOK, Read
  <1>4. StatesOK'
    BY KeyFacts DEF StartPass, StatesOK
  <1>5. WireOK'
    BY HeartbeatWire DEF StartPass, Inv, WireOK
  <1>6. OneBatchAhead'
    <2>1. BatchLimit \in Nat /\ BatchLimit' = BatchLimit
      BY <1>n, LimitFacts DEF Numbers, BatchLimit
    <2>2. \A k \in DeliveryKeys : /\ CursorOf(k) \in Nat /\ CursorOf(k)' = CursorOf(k)
                                   /\ delivered[k] <= CursorOf(k) + BatchLimit
      BY <1>n, CursorFacts DEF Inv, OneBatchAhead, StartPass, logVars, CursorOf
    <2>3. \A k \in DeliveryKeys : delivered'[k] \in {delivered[k], 0}
      BY DEF StartPass
    <2>4. \A c, n \in Nat : 0 <= c + n
      OBVIOUS
    <2> QED BY <2>1, <2>2, <2>3, <2>4 DEF OneBatchAhead
  <1> QED BY <1>1, <1>2, <1>3, <1>4, <1>5, <1>6, Undisturbed DEF Inv, StartPass, logVars

(* The state of a target is read with the cursors of this moment.          *)
LEMMA StateOfTarget ==
    ASSUME Numbers, NEW k \in DeliveryKeys
    PROVE  /\ StateOf(k[1]).target = k[1]
           /\ LET bindings == Range(StateOf(k[1]).bindings)
              IN  (CHOOSE b \in bindings : b.bindingKey = k[2]).cursorSeq = CursorOf(k)
  <1> DEFINE B == BindingsOf[k[1]]
             bindings == [i \in 1..Len(B) |-> BindingState(<<k[1], B[i].key>>)]
  <1>1. StateOf(k[1]).target = k[1] /\ StateOf(k[1]).bindings = bindings
    BY DEF StateOf
  <1>2. PICK i \in 1..Len(B) : k = <<k[1], B[i].key>>
    BY KeyFacts DEF KeysOf
  <1>3. DOMAIN bindings = 1..Len(B)
    OBVIOUS
  <1>4. bindings[i] \in Range(bindings) /\ bindings[i].bindingKey = k[2]
    BY <1>2, <1>3 DEF Range, BindingState
  <1>5. \A b \in Range(bindings) : b.bindingKey = k[2] => b.cursorSeq = CursorOf(k)
    <2>1. ASSUME NEW j \in 1..Len(B), bindings[j].bindingKey = k[2]
          PROVE  bindings[j].cursorSeq = CursorOf(k)
      <3>1. B[j].key = k[2] /\ k = <<k[1], k[2]>>
        BY <2>1, KeyFacts DEF BindingState
      <3> QED BY <3>1 DEF BindingState
    <2> QED BY <2>1, <1>3 DEF Range
  <1> HIDE DEF bindings
  <1> QED BY <1>1, <1>4, <1>5

LEMMA ReadStateStep ==
    ASSUME Inv, NEW t \in Targets, ReadState(t), UNCHANGED subscription
    PROVE  Inv'
  <1>n. Numbers
    BY DEF Inv
  <1>1. Forward
    BY <1>n, LogStays DEF ReadState, logVars
  <1>2. DOMAIN states = Targets
    BY DEF Inv, StatesOK
  <1>3. CASE t \in allowed
    <2>1. states' = [states EXCEPT ![t] = StateOf(t)] /\ phase' = phase
      BY <1>3 DEF ReadState
    <2>2. PassOK'
      <3>1. ASSUME NEW k \in DeliveryKeys, Read(k) PROVE Read(k)'
        <4>1. k[1] \in Targets
          BY KeyFacts
        <4>2. k \in todo => Read(k)'
          BY DEF ReadState, Read
        <4>3. states[k[1]] # Absent /\ t # k[1] => states'[k[1]] # Absent
          BY <2>1, <1>2, <4>1
        <4>4. t = k[1] => states[k[1]] = Absent
          BY DEF ReadState
        <4> QED BY <3>1, <4>2, <4>3, <4>4 DEF Read, ReadState, logVars
      <3> QED BY <3>1, <2>1 DEF Inv, PassOK, ReadState, logVars
    <2>3. StatesOK'
      <3>1. ASSUME NEW k \in DeliveryKeys, states'[k[1]] # Absent
            PROVE  /\ states'[k[1]].target = k[1] /\ StateCursor(k)' \in Nat
                   /\ StateCursor(k)' <= CursorOf(k)'
        <4>1. k[1] \in Targets /\ CursorOf(k) \in Nat /\ CursorOf(k)' = CursorOf(k)
          BY KeyFacts, CursorFacts, <1>n DEF ReadState, logVars, CursorOf
        <4>2. CASE k[1] = t
          <5>1. states'[k[1]] = StateOf(k[1])
            BY <2>1, <1>2, <4>1, <4>2
          <5>2. StateCursor(k)' = CursorOf(k)
            BY <5>1, <1>n, StateOfTarget DEF StateCursor
          <5> QED BY <5>1, <5>2, <4>1, <1>n, StateOfTarget
        <4>3. CASE k[1] # t
          <5>1. states'[k[1]] = states[k[1]]
            BY <2>1, <1>2, <4>1, <4>3
          <5>2. StateCursor(k)' = StateCursor(k)
            BY <5>1 DEF StateCursor
          <5> QED BY <5>1, <5>2, <4>1, <3>1 DEF Inv, StatesOK
        <4> QED BY <4>2, <4>3
      <3> QED BY <3>1, <2>1, <1>2 DEF StatesOK
    <2> QED BY <1>1, <2>2, <2>3, Undisturbed DEF Inv, ReadState, logVars
  <1>4. CASE t \notin allowed
    <2>1. UNCHANGED states /\ phase' = "ended"
      BY <1>4 DEF ReadState
    <2>2. PassOK'
      BY <2>1 DEF Inv, PassOK, ReadState, logVars, BusyPolling
    <2> QED BY <1>1, <2>1, <2>2, Undisturbed DEF Inv, ReadState, logVars
  <1> QED BY <1>3, <1>4

LEMMA AskBindingStep ==
    ASSUME Inv, NEW k \in DeliveryKeys, AskBinding(k), UNCHANGED subscription
    PROVE  Inv'
  <1>n. Numbers
    BY DEF Inv
  <1>1. Forward
    BY <1>n, LogStays DEF AskBinding, Log!Ask
  <1> DEFINE q == Log!Asked(StreamOf(k), BatchLimit, 0, CursorOf(k))
  <1>2. request' = [request EXCEPT ![k] = q] /\ DOMAIN request = DeliveryKeys
    BY DEF AskBinding, Log!Ask, CursorOf, Inv, RequestsOK
  <1>3. \A j \in DeliveryKeys : request'[j] = IF j = k THEN q ELSE request[j]
    BY <1>2
  <1>4. RequestsOK'
    <2>1. /\ q.phase = "asked" /\ q.stream = StreamOf(k) /\ q.limit = BatchLimit
          /\ q.totalLimit = 0 /\ q.from = CursorOf(k)
      BY DEF Log!Asked
    <2>2. CursorOf(k) \in Nat /\ CursorOf(k)' = CursorOf(k) /\ BatchLimit' = BatchLimit
      BY <1>n, CursorFacts DEF AskBinding, Log!Ask, CursorOf, BatchLimit
    <2>3. lostAt[k] <= CursorOf(k)
      BY <1>n, <2>2 DEF Inv, LossOK, Never
    <2>4. /\ (request[k].phase \in {"none", "asked", "answered"})'
          /\ RequestOf(k, request[k])' /\ AskedOf(k, request[k])'
          /\ BatchOf(k, request[k])' /\ TooLongOf(k, request[k])'
      <3>1. request'[k] = q
        BY <1>3
      <3>2. lostAt' = lostAt
        BY DEF AskBinding
      <3> HIDE DEF q
      <3> QED BY <3>1, <3>2, <2>1, <2>2, <2>3 DEF RequestOf, AskedOf, BatchOf, TooLongOf
    <2>5. ASSUME NEW j \in DeliveryKeys, j # k
          PROVE  /\ (request[j].phase \in {"none", "asked", "answered"})'
                 /\ RequestOf(j, request[j])' /\ AskedOf(j, request[j])'
                 /\ BatchOf(j, request[j])' /\ TooLongOf(j, request[j])'
      <3>1. request'[j] = request[j]
        BY <1>3, <2>5
      <3>2. CursorOf(j)' = CursorOf(j) /\ UNCHANGED <<lostAt, retained>>
        BY DEF AskBinding, Log!Ask, CursorOf
      <3> QED BY <3>1, <3>2, <2>2
              DEF Inv, RequestsOK, RequestOf, AskedOf, BatchOf, TooLongOf
    <2>6. DOMAIN request' = DeliveryKeys
      BY <1>2
    <2> HIDE DEF q
    <2> QED BY <2>4, <2>5, <2>6 DEF RequestsOK
  <1>5. PassOK'
    <2>1. phase = "poll" /\ phase' = "poll" /\ k \in todo /\ states[k[1]] # Absent
          /\ todo' = todo \ {k} /\ UNCHANGED <<pass, states, targets>>
      BY DEF AskBinding
    <2>2. q.phase = "asked"
      BY DEF Log!Asked
    <2>3. \A j \in DeliveryKeys : request[j].phase # "asked"
      BY DEF AskBinding, BusyPolling
    <2> HIDE DEF q
    <2>4. \A j \in DeliveryKeys : Read(j) => Read(j)'
      BY <1>3, <2>1, <2>2 DEF Read
    <2> QED BY <1>3, <2>1, <2>2, <2>3, <2>4 DEF Inv, PassOK
  <1> QED BY <1>1, <1>4, <1>5, Undisturbed DEF Inv, AskBinding, Log!Ask

(* What the service answers keeps within the limit and the log.            *)
LEMMA AnswerOfService ==
    ASSUME Numbers, NEW k \in DeliveryKeys, NEW q, q.phase = "asked",
           RequestOf(k, q), AskedOf(k, q), LossOK,
           NEW last \in Nat, NEW answer,
           \/ /\ answer = Log!TooLong
              /\ \/ Log!ReplayTooOld(q.from, retained[q.stream])
                 \/ Log!ReplayOverBudget(q.from, last, q.totalLimit)
           \/ /\ answer = Log!Batch(q.from, q.limit, last)
              /\ ~Log!ReplayTooOld(q.from, retained[q.stream])
    PROVE  /\ BatchOf(k, Log!Answered(q, answer)) /\ TooLongOf(k, Log!Answered(q, answer))
           /\ RequestOf(k, Log!Answered(q, answer))
  <1> DEFINE r == Log!Answered(q, answer)
  <1>1. /\ r.phase = "answered" /\ r.stream = q.stream /\ r.from = q.from
        /\ r.answer = answer
    BY DEF Log!Answered
  <1>2. /\ q.stream = StreamOf(k) /\ q.from \in Nat /\ q.from <= CursorOf(k)
        /\ q.limit = BatchLimit /\ q.totalLimit = 0 /\ lostAt[k] <= q.from
        /\ lostAt[k] \in Nat \cup {Never} /\ BatchLimit \in Nat \ {0}
    BY LimitFacts DEF RequestOf, AskedOf, Numbers
  <1> HIDE DEF r
  <1>3. RequestOf(k, r)
    BY <1>1, <1>2 DEF RequestOf
  <1>4. CASE answer = Log!TooLong /\ Log!ReplayTooOld(q.from, retained[q.stream])
    <2>1. answer.status # "ok"
      BY <1>4 DEF Log!TooLong
    <2> QED BY <2>1, <1>1, <1>2, <1>3, <1>4 DEF BatchOf, TooLongOf, r
  <1>5. CASE /\ answer = Log!Batch(q.from, q.limit, last)
             /\ ~Log!ReplayTooOld(q.from, retained[q.stream])
    <2> DEFINE n == Log!Smaller(q.from + BatchLimit, last) - q.from
    <2>1. /\ answer.status = "ok" /\ answer.head = last
          /\ answer.seqs = [i \in 1..n |-> q.from + i]
      BY <1>2, <1>5 DEF Log!Batch
    <2>2. n \in Int /\ n <= BatchLimit
      BY <1>2 DEF Log!Smaller
    <2> HIDE DEF n
    <2>3. /\ answer.seqs \in Seq(Nat) /\ Len(answer.seqs) <= BatchLimit
          /\ answer.seqs # <<>> => answer.seqs[1] = q.from + 1
      <3>1. CASE n >= 0
        <4>1. answer.seqs \in [1..n -> Nat]
          BY <2>1, <1>2
        <4>2. answer.seqs \in Seq(Nat) /\ Len(answer.seqs) = n
          BY <4>1, <2>2, <3>1
        <4>3. n > 0 => answer.seqs[1] = q.from + 1
          BY <2>1, <2>2
        <4>4. n = 0 => answer.seqs = <<>>
          BY <4>2
        <4> QED BY <4>2, <4>3, <4>4, <2>2, <3>1
      <3>2. CASE n < 0
        <4>1. 1..n = {}
          BY <2>2, <3>2
        <4>2. answer.seqs = <<>>
          BY <2>1, <4>1
        <4> QED BY <4>2, <1>2
      <3> QED BY <3>1, <3>2, <2>2
    <2>4. lostAt[k] < q.from
      <3>1. lostAt[k] = q.from => Log!ReplayTooOld(q.from, retained[StreamOf(k)])
        BY <1>2 DEF LossOK, Never
      <3> QED BY <3>1, <1>2, <1>5 DEF Never
    <2> QED BY <2>1, <2>3, <2>4, <1>1, <1>3 DEF BatchOf, TooLongOf, r
  <1>6. ~Log!ReplayOverBudget(q.from, last, q.totalLimit)
    BY <1>2 DEF Log!ReplayOverBudget
  <1> QED BY <1>4, <1>5, <1>6

LEMMA AnswerBindingStep ==
    ASSUME Inv, NEW k \in DeliveryKeys, AnswerBinding(k), UNCHANGED subscription
    PROVE  Inv'
  <1>n. Numbers
    BY DEF Inv
  <1>1. Forward
    BY <1>n, LogStays DEF AnswerBinding, Log!AnswerTooLong, Log!AnswerBatch
  <1> DEFINE q == request[k]
  <1>2. /\ q.phase = "asked" /\ RequestOf(k, q) /\ AskedOf(k, q)
        /\ DOMAIN request = DeliveryKeys
    BY DEF AnswerBinding, Log!AnswerTooLong, Log!AnswerBatch, Inv, RequestsOK
  <1>3. head[q.stream] \in Nat
    <2>1. q.stream \in Streams
      BY <1>2, KeyFacts DEF RequestOf
    <2> QED BY <2>1, <1>n DEF Numbers
  <1>4. PICK answer :
          /\ request' = [request EXCEPT ![k] = Log!Answered(q, answer)]
          /\ \/ /\ answer = Log!TooLong
                /\ \/ Log!ReplayTooOld(q.from, retained[q.stream])
                   \/ Log!ReplayOverBudget(q.from, head[q.stream], q.totalLimit)
             \/ /\ answer = Log!Batch(q.from, q.limit, head[q.stream])
                /\ ~Log!ReplayTooOld(q.from, retained[q.stream])
    BY DEF AnswerBinding, Log!AnswerTooLong, Log!AnswerBatch
  <1> DEFINE r == Log!Answered(q, answer)
  <1>5. BatchOf(k, r) /\ TooLongOf(k, r) /\ RequestOf(k, r) /\ r.phase = "answered"
    BY <1>n, <1>2, <1>3, <1>4, AnswerOfService DEF Inv, Log!Answered
  <1>6. /\ DOMAIN request' = DeliveryKeys
        /\ \A j \in DeliveryKeys : request'[j] = IF j = k THEN r ELSE request[j]
    BY <1>2, <1>4
  <1> HIDE DEF r, q
  <1>7. RequestsOK'
    <2>1. \A j \in DeliveryKeys : CursorOf(j)' = CursorOf(j)
      BY DEF AnswerBinding, Log!AnswerTooLong, Log!AnswerBatch, CursorOf
    <2>2. UNCHANGED <<lostAt, retained>> /\ BatchLimit' = BatchLimit
      BY DEF AnswerBinding, Log!AnswerTooLong, Log!AnswerBatch, BatchLimit
    <2>3. ASSUME NEW j \in DeliveryKeys
          PROVE  /\ (request[j].phase \in {"none", "asked", "answered"})'
                 /\ RequestOf(j, request[j])' /\ AskedOf(j, request[j])'
                 /\ BatchOf(j, request[j])' /\ TooLongOf(j, request[j])'
      <3>1. CASE j = k
        BY <3>1, <2>1, <2>2, <1>5, <1>6 DEF RequestOf, AskedOf, BatchOf, TooLongOf
      <3>2. CASE j # k
        BY <3>2, <2>1, <2>2, <1>6
           DEF Inv, RequestsOK, RequestOf, AskedOf, BatchOf, TooLongOf
      <3> QED BY <3>1, <3>2
    <2> QED BY <2>3, <1>6 DEF RequestsOK
  <1>8. PassOK'
    <2>1. phase = "poll" /\ UNCHANGED <<pass, todo, states, targets>>
      BY DEF AnswerBinding
    <2>2. phase' \in {"ended", "poll", "handle"} /\ (phase' = "handle" => todo = {})
      BY <2>1 DEF AnswerBinding
    <2>3. \A j \in DeliveryKeys : request'[j].phase # "asked"
      BY <1>2, <1>5, <1>6 DEF Inv, PassOK, q
    <2>4. \A j \in DeliveryKeys : Read(j) => Read(j)'
      BY <1>5, <1>6, <2>1 DEF Read
    <2> QED BY <2>1, <2>2, <2>3, <2>4 DEF Inv, PassOK
  <1> QED BY <1>1, <1>7, <1>8, Undisturbed DEF Inv, AnswerBinding

-----------------------------------------------------------------------------
(* The answers of a complete pass.                                         *)
LEMMA CompletePass ==
    ASSUME Inv, phase = "handle", NEW k \in DeliveryKeys, k[1] \in pass
    PROVE  /\ request[k].phase = "answered" /\ states[k[1]].target = k[1]
           /\ CursorOf(k) \in Nat /\ request[k].from \in Nat /\ request[k].from <= CursorOf(k)
           /\ StateCursor(k) \in Nat /\ StateCursor(k) <= CursorOf(k)
           /\ Delivered(k) \in Nat /\ Delivered(k) <= CursorOf(k) + BatchLimit
           /\ BatchLimit \in Nat
  <1>n. Numbers
    BY DEF Inv
  <1>1. Read(k) /\ todo = {} /\ request[k].phase # "asked"
    BY DEF Inv, PassOK
  <1>2. states[k[1]] # Absent /\ request[k].phase = "answered"
    BY <1>1 DEF Read, Inv, RequestsOK
  <1>3. CursorOf(k) \in Nat /\ BatchLimit \in Nat /\ delivered[k] \in Nat
    BY <1>n, CursorFacts, LimitFacts DEF Numbers
  <1>4. request[k].from \in Nat /\ request[k].from <= CursorOf(k)
    BY <1>2 DEF Inv, RequestsOK, RequestOf
  <1>5. /\ states[k[1]].target = k[1]
        /\ StateCursor(k) \in Nat /\ StateCursor(k) <= CursorOf(k)
    BY <1>2 DEF Inv, StatesOK
  <1>6. delivered[k] <= CursorOf(k) + BatchLimit
    BY DEF Inv, OneBatchAhead
  <1>7. Delivered(k) \in Nat /\ Delivered(k) <= CursorOf(k) + BatchLimit
    BY <1>3, <1>5, <1>6 DEF Delivered
  <1> QED BY <1>2, <1>3, <1>4, <1>5, <1>7

LEMMA BatchThatIsSent ==
    ASSUME Inv, phase = "handle", NEW k \in DeliveryKeys, k[1] \in pass,
           AnswerOf(k).status = "ok", AnswerOf(k).seqs # <<>>
    PROVE  /\ BatchSeq(AnswerOf(k), request[k].from) \in Nat
           /\ BatchSeq(AnswerOf(k), request[k].from) <= CursorOf(k) + BatchLimit
           /\ AnswerOf(k).seqs[1] = request[k].from + 1
           /\ lostAt[k] < request[k].from
  <1>1. /\ request[k].phase = "answered" /\ CursorOf(k) \in Nat /\ BatchLimit \in Nat
        /\ request[k].from \in Nat /\ request[k].from <= CursorOf(k)
    BY CompletePass
  <1>2. /\ AnswerOf(k).seqs \in Seq(Nat) /\ Len(AnswerOf(k).seqs) <= BatchLimit
        /\ AnswerOf(k).seqs[1] = request[k].from + 1 /\ lostAt[k] < request[k].from
    BY <1>1 DEF Inv, RequestsOK, BatchOf, AnswerOf
  <1>3. Len(AnswerOf(k).seqs) \in Nat
    BY <1>2
  <1> QED BY <1>1, <1>2, <1>3 DEF BatchSeq

LEMMA BatchOfOkFrame ==
    ASSUME Inv, phase = "handle", NEW k \in DeliveryKeys, k[1] \in pass,
           TellsTooLong(k) \/ SendsBatch(k), Frame(k).status = "OK"
    PROVE  Frame(k).batch.seq \in Nat
  <1>1. AnswerOf(k).status = "ok"
    BY DEF Frame
  <1>2. SendsBatch(k)
    BY <1>1 DEF TellsTooLong
  <1>3. Frame(k).batch.seq = BatchSeq(AnswerOf(k), request[k].from)
    BY <1>1 DEF Frame, GatewayBatchOf
  <1> QED BY <1>1, <1>2, <1>3, BatchThatIsSent DEF SendsBatch

(* There are finitely many bindings.                                       *)
LEMMA ImageIsFinite ==
    ASSUME NEW S, IsFiniteSet(S), NEW f, DOMAIN f = S
    PROVE  IsFiniteSet(Range(f))
  <1> DEFINE g == [x \in S |-> f[x]]
  <1>1. g \in Surjection(S, Range(f))
    BY DEF Surjection, Range
  <1> HIDE DEF g
  <1> QED BY <1>1, FS_Surjection

LEMMA FinitelyManyKeys == IsFiniteSet(DeliveryKeys)
  <1>1. ASSUME NEW t \in Targets PROVE IsFiniteSet(KeysOf(t))
    <2> DEFINE f == [i \in 1..Len(BindingsOf[t]) |-> <<t, BindingsOf[t][i].key>>]
    <2>1. Len(BindingsOf[t]) \in Nat
      BY DeliveryAssumption, LenProperties
    <2>2. IsFiniteSet(1..Len(BindingsOf[t]))
      BY <2>1, FS_Interval
    <2>3. IsFiniteSet(Range(f))
      BY <2>2, ImageIsFinite
    <2>4. Range(f) = KeysOf(t)
      BY DEF Range, KeysOf
    <2> QED BY <2>3, <2>4
  <1> DEFINE f == [t \in Targets |-> KeysOf(t)]
  <1>2. IsFiniteSet(Range(f))
    BY DeliveryAssumption, ImageIsFinite
  <1>3. Range(f) = {KeysOf(t) : t \in Targets}
    BY DEF Range
  <1>4. IsFiniteSet(UNION {KeysOf(t) : t \in Targets})
    <2> HIDE DEF f
    <2> QED BY <1>1, <1>2, <1>3, FS_UNION
  <1> QED BY <1>4 DEF DeliveryKeys

Outgoing == {Frame(k) : k \in {j \in DeliveryKeys : /\ j[1] \in pass
                                                    /\ TellsTooLong(j) \/ SendsBatch(j)}}

(* What a pass sends is added behind what is under way, if there is room.  *)
LEMMA HandleSends ==
    ASSUME Inv, Handle
    PROVE  \E out \in Seq(Outgoing \cup {HeartbeatFrame}) : wire' = wire \o out /\ Room(Len(out))
  <1> DEFINE keys == UNION {KeysOf(t) : t \in pass}
             sending == {k \in keys : TellsTooLong(k) \/ SendsBatch(k)}
             S == Outgoing \cup {HeartbeatFrame}
             heart == IF SendsHeartbeat(keys) THEN <<HeartbeatFrame>> ELSE <<>>
  <1>1. PICK order \in SetToSeqs(sending) :
          wire' = wire \o [i \in 1..Len(order) |-> Frame(order[i])] \o heart
    BY DEF Handle
  <1>2. \A k \in sending : k \in DeliveryKeys /\ k[1] \in pass
    BY KeyFacts DEF Inv, PassOK
  <1>3. IsFiniteSet(sending)
    BY <1>2, FinitelyManyKeys, FS_Subset
  <1>4. Cardinality(sending) \in Nat
    BY <1>3, FS_CardinalityType
  <1>5. order \in [1..Cardinality(sending) -> sending]
    BY DEF SetToSeqs
  <1>6. Len(order) = Cardinality(sending)
    BY <1>4, <1>5
  <1> DEFINE frames == [i \in 1..Len(order) |-> Frame(order[i])]
  <1>7. frames \in Seq(S)
    <2>1. \A k \in sending : Frame(k) \in S
      BY <1>2 DEF Outgoing
    <2>2. \A i \in 1..Len(order) : order[i] \in sending
      BY <1>5, <1>6
    <2>3. frames \in [1..Len(order) -> S]
      <3> HIDE DEF S, sending
      <3> QED BY <2>1, <2>2
    <2> HIDE DEF S, sending, frames
    <2> QED BY <2>3, <1>4, <1>6
  <1>8. heart \in Seq(S)
    <2>1. <<HeartbeatFrame>> \in Seq(S) /\ <<>> \in Seq(S)
      OBVIOUS
    <2> QED BY <2>1
  <1>9. wire \in Seq(Range(wire))
    BY DEF Inv, WireOK
  <1> HIDE DEF S, frames, heart
  <1>10. wire' = (wire \o frames) \o heart
    BY <1>1 DEF frames
  <1>11. wire' = wire \o (frames \o heart)
    <2> DEFINE T == Range(wire) \cup S
    <2>1. wire \in Seq(T) /\ frames \in Seq(T) /\ heart \in Seq(T)
      BY <1>7, <1>8, <1>9, WireInLarger
    <2> HIDE DEF T
    <2>2. ASSUME NEW x \in Seq(T), NEW y \in Seq(T), NEW z \in Seq(T)
          PROVE  (x \o y) \o z = x \o (y \o z)
      BY ConcatAssociative
    <2>3. (wire \o frames) \o heart = wire \o (frames \o heart)
      BY <2>1, <2>2, Zenon
    <2> QED BY <2>3, <1>10, Zenon
  <1>12. frames \o heart \in Seq(S) /\ Len(frames \o heart) = Len(frames) + Len(heart)
    BY <1>7, <1>8, ConcatProperties
  <1>13. Room(Len(frames \o heart))
    <2>1. Room(Cardinality(sending) + IF SendsHeartbeat(keys) THEN 1 ELSE 0)
      BY DEF Handle
    <2>2. Len(frames) = Cardinality(sending)
      BY <1>4, <1>6 DEF frames
    <2>3. Len(heart) = IF SendsHeartbeat(keys) THEN 1 ELSE 0
      BY DEF heart
    <2> HIDE DEF sending, keys
    <2> QED BY <2>1, <2>2, <2>3, <1>12
  <1> QED BY <1>11, <1>12, <1>13 DEF S

LEMMA HandleStep ==
    ASSUME Inv, Handle, UNCHANGED subscription
    PROVE  Inv'
  <1>n. Numbers
    BY DEF Inv
  <1>f. Forward
    BY <1>n, LogStays DEF Handle, logVars
  <1> DEFINE keys == UNION {KeysOf(t) : t \in pass}
  <1>k. \A k \in DeliveryKeys : k \in keys => k[1] \in pass
    BY KeyFacts DEF Inv, PassOK
  <1>u. /\ UNCHANGED <<request, retained, targets, pass, todo, states, applied>>
        /\ phase = "handle"
    BY DEF Handle, logVars
  <1>c. \A k \in DeliveryKeys : CursorOf(k) \in Nat /\ CursorOf(k)' = CursorOf(k)
    BY <1>n, CursorFacts DEF Handle, logVars, CursorOf
  <1>d. /\ delivered' = [k \in DeliveryKeys |->
             IF k \notin keys THEN delivered[k]
             ELSE IF SendsBatch(k) THEN BatchSeq(AnswerOf(k), request[k].from) ELSE Delivered(k)]
        /\ lostAt' = [k \in DeliveryKeys |->
             IF k \in keys /\ TellsTooLong(k) THEN request[k].from ELSE lostAt[k]]
    BY DEF Handle
  <1> HIDE DEF keys
  <1>1. ASSUME NEW k \in DeliveryKeys
        PROVE  delivered'[k] \in Nat /\ delivered'[k] <= CursorOf(k) + BatchLimit
    <2>1. CASE k \notin keys
      BY <2>1, <1>d, <1>n DEF Inv, OneBatchAhead, Numbers
    <2>2. CASE k \in keys /\ SendsBatch(k)
      BY <2>2, <1>d, <1>k, <1>u, BatchThatIsSent DEF SendsBatch
    <2>3. CASE k \in keys /\ ~SendsBatch(k)
      BY <2>3, <1>d, <1>k, <1>u, CompletePass
    <2> QED BY <2>1, <2>2, <2>3
  <1>2. ASSUME NEW k \in DeliveryKeys, k \in keys, TellsTooLong(k)
        PROVE  /\ request[k].phase = "answered" /\ request[k].answer.status # "ok"
               /\ request[k].from \in Nat /\ request[k].from <= CursorOf(k)
               /\ Log!ReplayTooOld(request[k].from, retained[StreamOf(k)])
    <2>1. /\ request[k].phase = "answered"
          /\ request[k].from \in Nat /\ request[k].from <= CursorOf(k)
      BY <1>2, <1>k, <1>u, CompletePass
    <2>2. request[k].answer.status # "ok"
      BY <1>2 DEF TellsTooLong, AnswerOf
    <2> QED BY <2>1, <2>2 DEF Inv, RequestsOK, TooLongOf
  <1>3. Numbers'
    <2>1. delivered' \in [DeliveryKeys -> Nat]
      BY <1>1, <1>d
    <2>2. lostAt' \in [DeliveryKeys -> Nat \cup {Never}]
      BY <1>2, <1>d, <1>n DEF Numbers
    <2> QED BY <2>1, <2>2, <1>n, <1>f, <1>u DEF Numbers, Forward
  <1>4. RequestsOK'
    <2>1. ASSUME NEW k \in DeliveryKeys
          PROVE  /\ (request[k].phase \in {"none", "asked", "answered"})'
                 /\ RequestOf(k, request[k])' /\ AskedOf(k, request[k])'
                 /\ BatchOf(k, request[k])' /\ TooLongOf(k, request[k])'
      <3>1. /\ request[k].phase \in {"none", "asked", "answered"}
            /\ RequestOf(k, request[k]) /\ AskedOf(k, request[k])
            /\ BatchOf(k, request[k]) /\ TooLongOf(k, request[k])
        BY DEF Inv, RequestsOK
      <3>2. BatchLimit' = BatchLimit
        BY DEF BatchLimit
      <3>3. RequestOf(k, request[k])' /\ TooLongOf(k, request[k])'
        BY <3>1, <1>u, <1>c DEF RequestOf, TooLongOf
      <3>4. CASE k \in keys /\ TellsTooLong(k)
        <4>1. AskedOf(k, request[k])' /\ BatchOf(k, request[k])'
          BY <3>4, <1>2, <1>u DEF AskedOf, BatchOf
        <4> QED BY <4>1, <3>1, <3>3, <1>u
      <3>5. CASE ~(k \in keys /\ TellsTooLong(k))
        <4>1. lostAt'[k] = lostAt[k]
          BY <3>5, <1>d
        <4>2. AskedOf(k, request[k])' /\ BatchOf(k, request[k])'
          BY <4>1, <3>1, <3>2, <1>u DEF AskedOf, BatchOf
        <4> QED BY <4>2, <3>1, <3>3, <1>u
      <3> QED BY <3>4, <3>5
    <2> QED BY <2>1, <1>u DEF RequestsOK, Inv
  <1>5. PassOK'
    <2>1. phase' \in {"start", "throttled", "wait"}
      BY DEF Handle
    <2> QED BY <2>1, <1>u DEF Inv, PassOK
  <1>6. LossOK'
    <2>1. ASSUME NEW k \in DeliveryKeys, lostAt'[k] # Never
          PROVE  /\ lostAt'[k] <= CursorOf(k)'
                 /\ Log!ReplayTooOld(lostAt'[k], retained'[StreamOf(k)])
      <3>1. CASE k \in keys /\ TellsTooLong(k)
        BY <3>1, <1>2, <1>c, <1>d, <1>u
      <3>2. CASE ~(k \in keys /\ TellsTooLong(k))
        <4>1. lostAt'[k] = lostAt[k]
          BY <3>2, <1>d
        <4> QED BY <4>1, <2>1, <1>c, <1>u DEF Inv, LossOK
      <3> QED BY <3>1, <3>2
    <2> QED BY <2>1 DEF LossOK
  <1>7. WireOK'
    <2>1. PICK out \in Seq(Outgoing \cup {HeartbeatFrame}) : wire' = wire \o out
      BY HandleSends
    <2> DEFINE T == Range(wire) \cup (Outgoing \cup {HeartbeatFrame})
    <2>2. \A f \in T : f.status = "OK" => f.batch.seq \in Nat
      BY <1>u, BatchOfOkFrame DEF Outgoing, HeartbeatFrame, Inv, WireOK
    <2>3. wire \in Seq(T) /\ out \in Seq(T)
      BY WireInLarger DEF Inv, WireOK
    <2> HIDE DEF T
    <2>4. wire' \in Seq(T)
      BY <2>1, <2>3, ConcatProperties
    <2> QED BY <2>2, <2>4, WireShape DEF WireOK
  <1>8. OneBatchAhead'
    BY <1>1, <1>c DEF OneBatchAhead, BatchLimit
  <1>9. StatesOK'
    BY <1>f, <1>u, Undisturbed
  <1> QED BY <1>3, <1>4, <1>5, <1>6, <1>7, <1>8, <1>9 DEF Inv

LEMMA TakeFrameStep ==
    ASSUME Inv, TakeFrame
    PROVE  Inv'
  <1>n. Numbers
    BY DEF Inv
  <1>1. Forward
    BY <1>n, LogStays DEF TakeFrame, logVars
  <1>2. wire \in Seq(Range(wire)) /\ wire # <<>> /\ wire' = Tail(wire)
    BY DEF TakeFrame, Inv, WireOK
  <1>3. wire[1] \in Range(wire)
    BY <1>2, HeadTailProperties
  <1>4. applied' \in [DeliveryKeys -> Nat]
    <2> DEFINE k == KeyOfFrame(wire[1])
    <2>1. ASSUME wire[1].status = "OK",
                 applied' = [applied EXCEPT ![k] = Max({applied[k], wire[1].batch.seq})]
          PROVE  applied' \in [DeliveryKeys -> Nat]
      <3>1. wire[1].batch.seq \in Nat
        BY <2>1, <1>3 DEF Inv, WireOK
      <3>2. ASSUME k \in DeliveryKeys PROVE Max({applied[k], wire[1].batch.seq}) \in Nat
        <4>1. applied[k] \in Nat
          BY <3>2, <1>n DEF Numbers
        <4> HIDE DEF k
        <4> QED BY <3>1, <4>1, MaxOfNats
      <3> HIDE DEF k
      <3> QED BY <3>2, <2>1, <1>n DEF Numbers
    <2>2. ASSUME NEW seq \in Max({retained[StreamOf(k)] - 1, 0})..head[StreamOf(k)],
                 applied' = [applied EXCEPT ![k] = Max({applied[k], seq})]
          PROVE  applied' \in [DeliveryKeys -> Nat]
      <3>1. ASSUME k \in DeliveryKeys PROVE Max({applied[k], seq}) \in Nat
        <4>1. /\ retained[StreamOf(k)] - 1 \in Int /\ head[StreamOf(k)] \in Nat
              /\ applied[k] \in Nat
          BY <3>1, <1>n, KeyFacts DEF Numbers
        <4> DEFINE first == retained[StreamOf(k)] - 1
        <4>2. Max({first, 0}) >= 0 /\ Max({first, 0}) \in {first, 0}
          <5>1. first \in Int
            BY <4>1
          <5> HIDE DEF first, k
          <5> QED BY <5>1, MaxWithZero
        <4>3. seq \in Nat
          BY <4>1, <4>2
        <4> HIDE DEF k
        <4> QED BY <4>1, <4>3, MaxOfNats
      <3> HIDE DEF k
      <3> QED BY <3>1, <2>2, <1>n DEF Numbers
    <2>3. CASE UNCHANGED applied
      BY <2>3, <1>n DEF Numbers
    <2> QED BY <2>1, <2>2, <2>3 DEF TakeFrame
  <1>5. Numbers'
    BY <1>n, <1>1, <1>4 DEF Numbers, Forward, TakeFrame, loopVars
  <1>6. WireOK'
    <2>1. wire' \in Seq(Range(wire))
      BY <1>2, HeadTailProperties
    <2> QED BY <2>1, WireShape DEF Inv, WireOK
  <1> QED BY <1>1, <1>5, <1>6, Undisturbed DEF Inv, TakeFrame, loopVars, logVars

LEMMA DeliveryStep == Inv /\ [Next]_vars => Inv'
  <1> SUFFICES ASSUME Inv, [Next]_vars PROVE Inv'
    OBVIOUS
  <1>1. CASE LoopNext
    <2>1. CASE StartPass
      BY <1>1, <2>1, StartPassStep DEF LoopNext
    <2>2. CASE Handle
      BY <1>1, <2>2, HandleStep DEF LoopNext
    <2>3. CASE EnterWait \/ WatcherFires \/ WaitTimeout \/ WakeUp
      BY <1>1, <2>3, WaitSteps DEF LoopNext
    <2>4. ASSUME NEW t \in Targets, ReadState(t) PROVE Inv'
      BY <1>1, <2>4, ReadStateStep DEF LoopNext
    <2>5. ASSUME NEW k \in DeliveryKeys, AskBinding(k) PROVE Inv'
      BY <1>1, <2>5, AskBindingStep DEF LoopNext
    <2>6. ASSUME NEW k \in DeliveryKeys, AnswerBinding(k) PROVE Inv'
      BY <1>1, <2>6, AnswerBindingStep DEF LoopNext
    <2> QED BY <1>1, <2>1, <2>2, <2>3, <2>4, <2>5, <2>6 DEF LoopNext
  <1>2. CASE ClientNext
    <2>1. CASE TakeFrame
      BY <2>1, TakeFrameStep
    <2>2. ASSUME NEW k \in DeliveryKeys, AckApplied(k) PROVE Inv'
      <3>1. UNCHANGED subscription
        BY <2>2 DEF AckApplied
      <3> QED BY <2>2, <3>1, LogSteps
    <2> QED BY <1>2, <2>1, <2>2 DEF ClientNext
  <1>3. CASE WorldNext
    BY <1>3, LogSteps, WorldSteps DEF WorldNext
  <1>4. CASE UNCHANGED vars
    <2>1. UNCHANGED subscription
      BY <1>4 DEF vars
    <2> QED BY <1>4, <2>1, WorldSteps
  <1> QED BY <1>1, <1>2, <1>3, <1>4 DEF Next

LEMMA DeliveryInvariant == Spec => []Inv
  BY DeliveryInit, DeliveryStep, PTL DEF Spec

-----------------------------------------------------------------------------
(* However far a client is behind, the loop has never more out for a       *)
(* binding than one batch beyond the committed cursor, for every           *)
(* subscription and every world: every pass of GatewaySubscribe polls from *)
(* that cursor again, whatever was sent before.                            *)
THEOREM OneBatchIsOut == Spec => []OneBatchAhead
  <1>1. Inv => OneBatchAhead
    BY DEF Inv
  <1> QED BY <1>1, DeliveryInvariant, PTL

(* New frames are of this pass, or a heartbeat.                            *)
LEMMA NewFramesOfPass ==
    ASSUME Inv, [Next]_vars, NEW f \in NewFrames, f.batch # Absent
    PROVE  /\ phase = "handle"
           /\ \E k \in DeliveryKeys : /\ k[1] \in pass /\ f = Frame(k)
                                      /\ TellsTooLong(k) \/ SendsBatch(k)
  <1>1. wire \in Seq(Range(wire))
    BY DEF Inv, WireOK
  <1>2. Len(wire) \in Nat
    BY <1>1, LenProperties
  <1>3. CASE Handle
    <2>1. PICK out \in Seq(Outgoing \cup {HeartbeatFrame}) : wire' = wire \o out
      BY <1>3, HandleSends
    <2> DEFINE T == Range(wire) \cup (Outgoing \cup {HeartbeatFrame})
    <2>2. wire \in Seq(T) /\ out \in Seq(T)
      BY <1>1, WireInLarger
    <2>3. /\ Len(out) \in Nat /\ Len(wire') = Len(wire) + Len(out)
          /\ \A i \in 1..(Len(wire) + Len(out)) :
                wire'[i] = IF i <= Len(wire) THEN wire[i] ELSE out[i - Len(wire)]
      <3> HIDE DEF T
      <3> QED BY <2>1, <2>2, ConcatProperties, LenProperties
    <2>4. PICK i \in (Len(wire) + 1)..Len(wire') : f = wire'[i]
      BY DEF NewFrames
    <2>5. f = out[i - Len(wire)] /\ i - Len(wire) \in 1..Len(out)
      BY <2>3, <2>4, <1>2
    <2>6. f \in Outgoing \cup {HeartbeatFrame}
      BY <2>5, ElementOfSeq
    <2>7. f # HeartbeatFrame
      BY DEF HeartbeatFrame
    <2> QED BY <1>3, <2>6, <2>7 DEF Outgoing, Handle
  <1>4. CASE StartPass /\ wire' = Append(wire, HeartbeatFrame)
    <2> DEFINE T == Range(wire) \cup {HeartbeatFrame}
    <2>1. wire \in Seq(T)
      BY <1>1, WireInLarger
    <2>2. Len(wire') = Len(wire) + 1 /\ wire'[Len(wire) + 1] = HeartbeatFrame
      <3>1. HeartbeatFrame \in T
        OBVIOUS
      <3> HIDE DEF T
      <3> QED BY <1>4, <2>1, <3>1
    <2>3. f = HeartbeatFrame
      BY <2>2, <1>2 DEF NewFrames
    <2> QED BY <2>3 DEF HeartbeatFrame
  <1>5. CASE wire' = wire
    BY <1>5, <1>2 DEF NewFrames
  <1>6. CASE TakeFrame
    <2>1. Len(wire') = Len(wire) - 1
      BY <1>6, <1>1, HeadTailProperties DEF TakeFrame
    <2> QED BY <2>1, <1>2 DEF NewFrames
  <1>7. \/ Handle \/ TakeFrame \/ wire' = wire
        \/ StartPass /\ wire' = Append(wire, HeartbeatFrame)
    BY DEF Next, LoopNext, ClientNext, WorldNext, StartPass, EnterWait, WatcherFires, WaitTimeout,
           WakeUp, ReadState, AskBinding, AnswerBinding, AckApplied, AppendEvents, DiscardEvents,
           RemoveTarget, AddTarget, ChangeAccess, HeartbeatDue, WaitVars, OtherVars, vars
  <1> QED BY <1>3, <1>4, <1>5, <1>6, <1>7

LEMMA NewBatchOfPass ==
    ASSUME Inv, [Next]_vars, NEW k \in DeliveryKeys, NEW f \in NewBatch(k)
    PROVE  /\ phase = "handle" /\ k[1] \in pass /\ f = Frame(k) /\ SendsBatch(k)
  <1>1. f \in NewFrames /\ f.batch # Absent /\ KeyOfFrame(f) = k
    BY DEF NewBatch
  <1>2. PICK j \in DeliveryKeys : /\ phase = "handle" /\ j[1] \in pass /\ f = Frame(j)
                                  /\ TellsTooLong(j) \/ SendsBatch(j)
    BY <1>1, NewFramesOfPass
  <1>3. states[j[1]].target = j[1] /\ j = <<j[1], j[2]>>
    BY <1>2, CompletePass, KeyFacts
  <1>4. KeyOfFrame(f) = j
    BY <1>2, <1>3 DEF KeyOfFrame, Frame
  <1>5. AnswerOf(j).status = "ok"
    BY <1>1, <1>2 DEF Frame
  <1> QED BY <1>1, <1>2, <1>4, <1>5 DEF TellsTooLong

(* Whatever the window and the batch limit are, no batch goes out for a    *)
(* binding that has MaxInFlight events out and not acked: the cursor the   *)
(* throttle of GatewaySubscribe looks at may be older than the committed   *)
(* one, never newer.                                                       *)
THEOREM WindowIsKept == Spec => SendsWithinWindow
  <1>1. ASSUME Inv, [Next]_vars
        PROVE  \A k \in DeliveryKeys : NewBatch(k) # {} /\ MaxInFlight > 0 =>
                  delivered[k] - CursorOf(k) < MaxInFlight
    <2> SUFFICES ASSUME NEW k \in DeliveryKeys, NEW f \in NewBatch(k), MaxInFlight > 0
                 PROVE  delivered[k] - CursorOf(k) < MaxInFlight
      OBVIOUS
    <2>1. phase = "handle" /\ k[1] \in pass /\ SendsBatch(k)
      BY <1>1, NewBatchOfPass
    <2>2. /\ CursorOf(k) \in Nat /\ StateCursor(k) \in Nat /\ StateCursor(k) <= CursorOf(k)
          /\ delivered[k] \in Nat /\ MaxInFlight \in Nat
      BY <1>1, <2>1, CompletePass, LimitFacts DEF Inv, Numbers
    <2>3. \/ Delivered(k) <= StateCursor(k)
          \/ Delivered(k) - StateCursor(k) < MaxInFlight
      <3>1. ~Throttled(k) /\ Delivered(k) \in Nat
        BY <1>1, <2>1, CompletePass DEF SendsBatch
      <3> QED BY <3>1, <2>2 DEF Throttled
    <2> QED BY <2>2, <2>3 DEF Delivered, CaughtUp
  <1>2. Inv /\ [Next]_vars =>
          [\A k \in DeliveryKeys : NewBatch(k) # {} /\ MaxInFlight > 0 =>
              delivered[k] - CursorOf(k) < MaxInFlight]_vars
    BY <1>1
  <1> QED BY <1>2, DeliveryInvariant, PTL DEF Spec, SendsWithinWindow

(* After TOO_LONG a binding gets no batch until its cursor has moved,      *)
(* though TOO_LONG may be told again: a boundary never moves back, so what *)
(* was lost once stays lost, however the answer, the mark in tooLongSent   *)
(* and a re-added target interleave.                                       *)
THEOREM NoBatchAfterTooLong == Spec => TooLongStopsDelivery
  <1>1. ASSUME Inv, [Next]_vars
        PROVE  \A k \in DeliveryKeys : \A f \in NewBatch(k) : lostAt[k] < f.batch.seqStart - 1
    <2> SUFFICES ASSUME NEW k \in DeliveryKeys, NEW f \in NewBatch(k)
                 PROVE  lostAt[k] < f.batch.seqStart - 1
      OBVIOUS
    <2>1. phase = "handle" /\ k[1] \in pass /\ SendsBatch(k) /\ f = Frame(k)
      BY <1>1, NewBatchOfPass
    <2>2. AnswerOf(k).status = "ok" /\ AnswerOf(k).seqs # <<>>
      BY <2>1 DEF SendsBatch
    <2>3. f.batch.seqStart = AnswerOf(k).seqs[1]
      BY <2>1, <2>2 DEF Frame, GatewayBatchOf
    <2>4. /\ AnswerOf(k).seqs[1] = request[k].from + 1 /\ lostAt[k] < request[k].from
          /\ request[k].from \in Nat
      BY <1>1, <2>1, <2>2, BatchThatIsSent, CompletePass
    <2> QED BY <2>3, <2>4
  <1>2. Inv /\ [Next]_vars =>
          [\A k \in DeliveryKeys : \A f \in NewBatch(k) : lostAt[k] < f.batch.seqStart - 1]_vars
    BY <1>1
  <1> QED BY <1>2, DeliveryInvariant, PTL DEF Spec, TooLongStopsDelivery

-----------------------------------------------------------------------------
(* What the client can use.  Bindings that share a stream share a cursor,  *)
(* and an ack of one would be an ack of all.                               *)
DistinctStreams ==
    \A j \in DeliveryKeys, k \in DeliveryKeys : StreamOf(j) = StreamOf(k) => j = k

(* The cursor is behind what is applied, and so is every batch under way.  *)
CursorBehind == \A k \in DeliveryKeys : CursorOf(k) <= applied[k]

FitsClient(f) ==
    f.batch # Absent =>
        /\ KeyOfFrame(f) \in DeliveryKeys /\ f.batch.seqStart \in Nat
        /\ f.batch.seqStart <= applied[KeyOfFrame(f)] + 1

Fits == CursorBehind /\ \A f \in Range(wire) : FitsClient(f)

LEMMA AppliedGrows ==
    ASSUME Inv, [Next]_vars, NEW k \in DeliveryKeys
    PROVE  applied[k] \in Nat /\ applied'[k] \in Nat /\ applied[k] <= applied'[k]
  <1>1. applied \in [DeliveryKeys -> Nat] /\ applied' \in [DeliveryKeys -> Nat]
    BY DeliveryStep DEF Inv, Numbers
  <1>2. applied[k] \in Nat /\ applied'[k] \in Nat
    BY <1>1
  <1> SUFFICES applied[k] <= applied'[k]
    BY <1>2
  <1>3. CASE TakeFrame
    <2> DEFINE j == KeyOfFrame(wire[1])
    <2>1. ASSUME NEW n, applied' = [applied EXCEPT ![j] = Max({applied[j], n})],
                 j = k => n \in Int
          PROVE  applied[k] <= applied'[k]
      <3> HIDE DEF j
      <3>1. CASE j = k
        <4> DEFINE a == applied[k]
        <4>1. a \in Int /\ n \in Int
          BY <1>2, <2>1, <3>1
        <4>2. Max({a, n}) >= a
          <5> HIDE DEF a
          <5> QED BY <4>1, MaxOfTwo
        <4>3. applied'[k] = Max({a, n})
          BY <1>1, <2>1, <3>1
        <4> QED BY <4>2, <4>3
      <3>2. CASE j # k
        BY <3>2, <2>1, <1>1, <1>2
      <3> QED BY <3>1, <3>2
    <2>2. CASE /\ wire[1].status = "OK"
               /\ applied' = [applied EXCEPT ![j] = Max({applied[j], wire[1].batch.seq})]
      <3>1. wire \in Seq(Range(wire)) /\ wire # <<>>
        BY <1>3 DEF TakeFrame, Inv, WireOK
      <3>2. wire[1] \in Range(wire)
        BY <3>1, HeadTailProperties
      <3>3. wire[1].batch.seq \in Int
        BY <2>2, <3>2 DEF Inv, WireOK
      <3> HIDE DEF j
      <3> QED BY <2>1, <2>2, <3>3
    <2>3. ASSUME NEW seq \in Max({retained[StreamOf(j)] - 1, 0})..head[StreamOf(j)],
                 applied' = [applied EXCEPT ![j] = Max({applied[j], seq})]
          PROVE  applied[k] <= applied'[k]
      <3>1. seq \in Int
        OBVIOUS
      <3> HIDE DEF j
      <3> QED BY <2>1, <2>3, <3>1
    <2>4. CASE UNCHANGED applied
      BY <2>4, <1>2
    <2> QED BY <1>3, <2>2, <2>3, <2>4 DEF TakeFrame
  <1>4. CASE UNCHANGED applied
    BY <1>4, <1>2
  <1>5. TakeFrame \/ UNCHANGED applied
    BY DEF Next, LoopNext, ClientNext, WorldNext, StartPass, EnterWait, WatcherFires, WaitTimeout,
           WakeUp, ReadState, AskBinding, AnswerBinding, AckApplied, AppendEvents, DiscardEvents,
           RemoveTarget, AddTarget, ChangeAccess, HeartbeatDue, Handle, WaitVars, vars
  <1> QED BY <1>2, <1>3, <1>4, <1>5

LEMMA CursorStaysBehind ==
    ASSUME DistinctStreams, Inv, CursorBehind, [Next]_vars
    PROVE  CursorBehind'
  <1>n. Numbers
    BY DEF Inv
  <1>1. ASSUME NEW k \in DeliveryKeys, CursorOf(k)' = CursorOf(k) \/ CursorOf(k)' = applied[k]
        PROVE  CursorOf(k)' <= applied'[k]
    <2>1. CursorOf(k) \in Nat /\ CursorOf(k) <= applied[k]
      BY <1>n, CursorFacts DEF CursorBehind
    <2> QED BY <1>1, <2>1, AppliedGrows
  <1>2. ASSUME NEW j \in DeliveryKeys, AckApplied(j), NEW k \in DeliveryKeys
        PROVE  CursorOf(k)' = CursorOf(k) \/ CursorOf(k)' = applied[k]
    <2>1. /\ cursor' = [cursor EXCEPT ![<<Subscriber, StreamOf(j)>>] = applied[j]]
          /\ cursor \in [Subscribers \X Streams -> Nat]
          /\ <<Subscriber, StreamOf(k)>> \in Subscribers \X Streams
      BY <1>2, <1>n, CursorFacts DEF AckApplied, Log!Commit, Numbers
    <2>2. CASE j = k
      BY <2>1, <2>2 DEF CursorOf
    <2>3. CASE j # k
      <3>1. StreamOf(j) # StreamOf(k)
        BY <2>3 DEF DistinctStreams
      <3>2. <<Subscriber, StreamOf(j)>> # <<Subscriber, StreamOf(k)>>
        BY <3>1
      <3> QED BY <2>1, <3>2 DEF CursorOf
    <2> QED BY <2>2, <2>3
  <1>3. CASE UNCHANGED cursor
    BY <1>3, <1>1 DEF CursorBehind, CursorOf
  <1>4. UNCHANGED cursor \/ \E j \in DeliveryKeys : AckApplied(j)
    BY DEF Next, LoopNext, ClientNext, WorldNext, StartPass, EnterWait, WatcherFires, WaitTimeout,
           WakeUp, ReadState, AskBinding, AnswerBinding, AppendEvents, DiscardEvents,
           RemoveTarget, AddTarget, ChangeAccess, HeartbeatDue, Handle, TakeFrame, WaitVars,
           logVars, vars, Log!Ask, Log!AnswerTooLong, Log!AnswerBatch, Log!Publish, Log!Discard
  <1> QED BY <1>1, <1>2, <1>3, <1>4 DEF CursorBehind

LEMMA FitsStep ==
    ASSUME DistinctStreams, Inv, Fits, [Next]_vars
    PROVE  Fits'
  <1>1. CursorBehind'
    BY CursorStaysBehind DEF Fits
  <1>2. ASSUME NEW f, FitsClient(f) PROVE FitsClient(f)'
    <2>1. KeyOfFrame(f)' = KeyOfFrame(f)
      BY DEF KeyOfFrame
    <2> QED BY <1>2, <2>1, AppliedGrows DEF FitsClient
  <1>3. ASSUME NEW f \in NewFrames PROVE FitsClient(f)'
    <2>1. CASE f.batch = Absent
      BY <2>1 DEF FitsClient
    <2>2. CASE f.batch # Absent
      <3>1. PICK k \in DeliveryKeys : /\ phase = "handle" /\ k[1] \in pass /\ f = Frame(k)
                                      /\ TellsTooLong(k) \/ SendsBatch(k)
        BY <2>2, NewFramesOfPass
      <3>2. KeyOfFrame(f) = k
        <4>1. states[k[1]].target = k[1] /\ k = <<k[1], k[2]>>
          BY <3>1, CompletePass, KeyFacts
        <4> QED BY <3>1, <4>1 DEF KeyOfFrame, Frame
      <3>3. AnswerOf(k).status = "ok" /\ AnswerOf(k).seqs # <<>>
        <4>1. AnswerOf(k).status = "ok"
          BY <3>1, <2>2 DEF Frame
        <4> QED BY <4>1, <3>1 DEF TellsTooLong, SendsBatch
      <3>4. f.batch.seqStart = request[k].from + 1
        BY <3>1, <3>3, BatchThatIsSent DEF Frame, GatewayBatchOf
      <3>5. /\ request[k].from \in Nat /\ request[k].from <= CursorOf(k) /\ CursorOf(k) \in Nat
            /\ CursorOf(k) <= applied[k]
        BY <3>1, CompletePass DEF Fits, CursorBehind
      <3>6. FitsClient(f)
        <4>1. applied[k] \in Nat
          BY DEF Inv, Numbers
        <4> QED BY <3>2, <3>4, <3>5, <4>1 DEF FitsClient
      <3> QED BY <3>6, <1>2
    <2> QED BY <2>1, <2>2
  <1>4. ASSUME NEW f \in Range(wire') PROVE f \in Range(wire) \/ f \in NewFrames
    <2>1. /\ wire \in Seq(Range(wire)) /\ wire' \in Seq(Range(wire'))
      BY DeliveryStep DEF Inv, WireOK
    <2>2. /\ Len(wire) \in Nat /\ DOMAIN wire = 1..Len(wire)
          /\ Len(wire') \in Nat /\ DOMAIN wire' = 1..Len(wire')
      BY <2>1, LenProperties
    <2>3. PICK i \in 1..Len(wire') : f = wire'[i]
      BY <2>2 DEF Range
    <2>4. CASE i > Len(wire)
      BY <2>2, <2>3, <2>4 DEF NewFrames
    <2>5. CASE i <= Len(wire)
      <3>1. CASE TakeFrame
        <4>1. f \in {wire[i + 1]} /\ i + 1 \in 1..Len(wire)
          BY <3>1, <2>1, <2>2, <2>3, HeadTailProperties DEF TakeFrame
        <4> QED BY <4>1, <2>2 DEF Range
      <3>2. CASE wire'[i] = wire[i]
        BY <3>2, <2>2, <2>3, <2>5 DEF Range
      <3>3. CASE Handle
        <4>1. PICK out \in Seq(Outgoing \cup {HeartbeatFrame}) : wire' = wire \o out
          BY <3>3, HandleSends
        <4> DEFINE T == Range(wire) \cup (Outgoing \cup {HeartbeatFrame})
        <4>2. wire \in Seq(T) /\ out \in Seq(T)
          BY <2>1, WireInLarger
        <4>3. wire'[i] = wire[i]
          <5> HIDE DEF T
          <5>1. /\ Len(wire') = Len(wire) + Len(out)
                /\ \A n \in 1..(Len(wire) + Len(out)) :
                      wire'[n] = IF n <= Len(wire) THEN wire[n] ELSE out[n - Len(wire)]
            BY <4>1, <4>2, ConcatProperties
          <5> QED BY <5>1, <2>2, <2>3, <2>5
        <4> QED BY <4>3, <3>2
      <3>4. CASE wire' = Append(wire, HeartbeatFrame)
        <4>1. wire'[i] = wire[i]
          <5> DEFINE T == Range(wire) \cup {HeartbeatFrame}
          <5>1. wire \in Seq(T) /\ HeartbeatFrame \in T
            BY <2>1, WireInLarger
          <5> HIDE DEF T
          <5> QED BY <5>1, <3>4, <2>2, <2>3, <2>5
        <4> QED BY <4>1, <3>2
      <3>5. Handle \/ TakeFrame \/ wire' = wire \/ wire' = Append(wire, HeartbeatFrame)
        BY DEF Next, LoopNext, ClientNext, WorldNext, StartPass, EnterWait, WatcherFires,
               WaitTimeout, WakeUp, ReadState, AskBinding, AnswerBinding, AckApplied,
               AppendEvents, DiscardEvents, RemoveTarget, AddTarget, ChangeAccess,
               HeartbeatDue, WaitVars, OtherVars, vars
      <3> QED BY <3>1, <3>2, <3>3, <3>4, <3>5
    <2> QED BY <2>2, <2>3, <2>4, <2>5
  <1> QED BY <1>1, <1>2, <1>3, <1>4 DEF Fits

(* Where no two bindings share a stream, a client can use every batch when *)
(* its turn comes: it starts no later than the event after those applied,  *)
(* whatever was sent twice, lost with a removed target or restored from a  *)
(* snapshot in between.                                                    *)
THEOREM ClientCanApply ==
    ASSUME DistinctStreams
    PROVE  Spec => []NextBatchFits
  <1>1. Init => Fits
    <2> SUFFICES ASSUME Init PROVE Fits
      OBVIOUS
    <2>1. \A k \in DeliveryKeys : applied[k] = 0 /\ CursorOf(k) = 0
      <3>1. \A k \in DeliveryKeys : <<Subscriber, StreamOf(k)>> \in Subscribers \X Streams
        BY DeliveryInit, CursorFacts DEF Inv
      <3> QED BY <3>1 DEF Init, Log!Init, CursorOf
    <2>2. Range(wire) = {}
      BY DEF Init, Range
    <2> QED BY <2>1, <2>2 DEF Fits, CursorBehind
  <1>2. Inv /\ Fits /\ [Next]_vars => Fits'
    BY FitsStep
  <1>3. Inv /\ Fits => NextBatchFits
    <2> SUFFICES ASSUME Inv, Fits, wire # <<>>, wire[1].batch # Absent
                 PROVE  wire[1].batch.seqStart <= applied[KeyOfFrame(wire[1])] + 1
      BY DEF NextBatchFits
    <2>1. wire[1] \in Range(wire)
      BY HeadTailProperties DEF Inv, WireOK
    <2> QED BY <2>1 DEF Fits, FitsClient
  <1> QED BY <1>1, <1>2, <1>3, DeliveryInvariant, PTL DEF Spec

-----------------------------------------------------------------------------
(* Every set of numbers has a least member, and a greatest one if it is    *)
(* bounded.                                                                *)
LEMMA LeastOfNat ==
    ASSUME NEW S \in SUBSET Nat, S # {}
    PROVE  Min(S) \in S /\ \A x \in S : Min(S) <= x
  <1> DEFINE R == {p \in Nat \X Nat : p[1] < p[2]}
  <1>1. IsWellFoundedOn(R, Nat)
    BY NatLessThanWellFounded, SMT DEF OpToRel
  <1>2. \A x, y \in Nat : <<x, y>> \in R <=> x < y
    OBVIOUS
  <1> HIDE DEF R
  <1>3. PICK m \in S : \A y \in S : <<y, m>> \notin R
    BY <1>1, WFMin
  <1>4. ASSUME NEW x \in S PROVE m <= x
    <2>1. m \in Nat /\ x \in Nat /\ ~(x < m)
      BY <1>2, <1>3
    <2> QED BY <2>1
  <1> QED BY <1>4 DEF Min

LEMMA GreatestOfNat ==
    ASSUME NEW S \in SUBSET Nat, S # {}, NEW n \in Nat, \A x \in S : x <= n
    PROVE  Max(S) \in S
  <1> DEFINE B == {m \in Nat : \A x \in S : x <= m}
  <1>1. B \in SUBSET Nat /\ B # {}
    OBVIOUS
  <1>2. PICK m \in B : \A y \in B : m <= y
    <2> HIDE DEF B
    <2>1. Min(B) \in B /\ \A y \in B : Min(B) <= y
      BY <1>1, LeastOfNat
    <2> QED BY <2>1
  <1>3. m \in S
    <2> SUFFICES ASSUME m \notin S PROVE FALSE
      OBVIOUS
    <2>1. \A x \in S : x <= m - 1 /\ m - 1 \in Nat
      BY <1>2
    <2>2. m - 1 \in B
      BY <2>1
    <2> QED BY <1>2, <2>2
  <1>4. \A x \in S : m >= x
    BY <1>2
  <1> QED BY <1>3, <1>4 DEF Max

(* The values of a non-empty sequence.                                     *)
LEMMA SeqValues ==
    ASSUME NEW V, NEW s \in Seq(V), s # <<>>
    PROVE  (\E x : x \in Range(s)) /\ \A x \in Range(s) : x \in V
  <1>1. DOMAIN s = 1..Len(s) /\ Len(s) \in Nat \ {0} /\ \A i \in 1..Len(s) : s[i] \in V
    BY LenProperties, EmptySeq, ElementOfSeq
  <1>2. \E x : x \in Range(s)
    BY <1>1 DEF Range
  <1>3. \A x \in Range(s) : x \in V
    BY <1>1 DEF Range
  <1> QED BY <1>2, <1>3

(* The state of a target, summed up over its bindings, is one of           *)
(* gateway.proto's.                                                        *)
LEMMA StateHasType ==
    ASSUME Inv, TypeOK, NEW t \in Targets
    PROVE  StateOf(t) \in TargetState
  <1> DEFINE B == BindingsOf[t]
             bindings == [i \in 1..Len(B) |-> BindingState(<<t, B[i].key>>)]
             S == Range(bindings)
             boundaries == {b.retainedSeqStart : b \in S} \ {0}
             cursors == {b.cursorSeq : b \in S}
             heads == {b.headSeq : b \in S}
  <1>1. B \in Seq([key : BindingKeys, stream : Streams]) /\ B # <<>> /\ t \in SyncTarget
    BY DeliveryAssumption
  <1>2. Len(B) \in Nat \ {0}
    BY <1>1, EmptySeq
  <1>3. ASSUME NEW i \in 1..Len(B)
        PROVE  /\ BindingState(<<t, B[i].key>>) \in TargetBindingState
               /\ BindingState(<<t, B[i].key>>).headSeq <= subscription.events
    <2>1. <<t, B[i].key>> \in DeliveryKeys
      BY DEF KeysOf, DeliveryKeys
    <2>2. B[i].key \in BindingKeys
      <3>1. B[i] \in [key : BindingKeys, stream : Streams]
        BY <1>1, ElementOfSeq
      <3> QED BY <3>1
    <2> DEFINE k == <<t, B[i].key>>
    <2>3. StreamOf(k) \in Streams /\ CursorOf(k) \in Nat
      BY <2>1, KeyFacts, CursorFacts DEF Inv
    <2>4. head[StreamOf(k)] \in SeqSet /\ retained[StreamOf(k)] \in Nat /\ k[2] = B[i].key
      BY <2>3 DEF TypeOK, Inv, Numbers
    <2>5. head[StreamOf(k)] \in Nat /\ head[StreamOf(k)] <= subscription.events
      BY <2>3, <2>4 DEF SeqSet, Inv, Numbers
    <2> HIDE DEF k
    <2> QED BY <2>2, <2>3, <2>4, <2>5 DEF BindingState, TargetBindingState, k
  <1>4. bindings \in Seq(TargetBindingState)
    <2>1. bindings \in [1..Len(B) -> TargetBindingState]
      BY <1>3
    <2> HIDE DEF bindings
    <2> QED BY <2>1, <1>2
  <1>5. bindings # <<>>
    <2>1. DOMAIN bindings = 1..Len(B) /\ 1 \in 1..Len(B)
      BY <1>2
    <2> HIDE DEF bindings
    <2> QED BY <2>1
  <1>6. \A b \in S : b.headSeq <= subscription.events
    BY <1>3 DEF Range
  <1> HIDE DEF bindings
  <1>7. S # {} /\ S \subseteq TargetBindingState
    <2>1. (\E b : b \in S) /\ \A b \in S : b \in TargetBindingState
      BY <1>4, <1>5, SeqValues
    <2> HIDE DEF S
    <2> QED BY <2>1
  <1> HIDE DEF S
  <1>8. \A b \in S : b.cursorSeq \in Nat /\ b.headSeq \in Nat /\ b.retainedSeqStart \in Nat
    BY <1>7 DEF TargetBindingState
  <1>9. Min(cursors) \in Nat
    <2>1. cursors \in SUBSET Nat /\ cursors # {}
      BY <1>7, <1>8
    <2> HIDE DEF cursors
    <2> QED BY <2>1, LeastOfNat
  <1>10. Max(heads) \in Nat
    <2>1. heads \in SUBSET Nat /\ heads # {} /\ \A x \in heads : x <= subscription.events
      BY <1>6, <1>7, <1>8
    <2>2. subscription.events \in Nat
      BY DeliveryAssumption DEF TypeOK, SubscriptionSet
    <2> HIDE DEF heads
    <2>3. Max(heads) \in heads
      BY <2>1, <2>2, GreatestOfNat
    <2> QED BY <2>1, <2>3
  <1>11. boundaries = {} \/ Min(boundaries) \in Nat
    <2>1. boundaries \in SUBSET Nat
      BY <1>8
    <2> HIDE DEF boundaries
    <2> QED BY <2>1, LeastOfNat
  <1>12. StateOf(t) = [target |-> t, bindings |-> bindings, cursorSeq |-> Min(cursors),
                       headSeq |-> Max(heads),
                       retainedSeqStart |-> IF boundaries = {} THEN 0 ELSE Min(boundaries)]
    BY DEF StateOf, bindings, S
  <1> HIDE DEF cursors, heads, boundaries
  <1> QED BY <1>1, <1>4, <1>9, <1>10, <1>11, <1>12 DEF TargetState

(* What the type invariant needs beside Inv: the batches that are answered *)
(* or under way end within the events there are.                           *)
AnswersFit ==
    \A k \in DeliveryKeys :
        (request[k].phase = "answered" /\ request[k].answer.status = "ok") =>
            /\ request[k].answer.final \in BOOLEAN
            /\ request[k].answer.seqs # <<>> =>
                  request[k].from + Len(request[k].answer.seqs) <= subscription.events

FramesFit == \A f \in Range(wire) : f.status = "OK" => f.batch.seq <= subscription.events

Types == TypeOK /\ AnswersFit /\ FramesFit

LEMMA OneSubscription ==
    ASSUME [Next]_vars
    PROVE  subscription' = subscription /\ SeqSet' = SeqSet /\ DeliveryKeys' = DeliveryKeys
  <1>1. subscription' = subscription
    BY DEF Next, LoopNext, ClientNext, WorldNext, TakeFrame, AckApplied, vars
  <1> QED BY <1>1 DEF SeqSet

(* The numbers of a state with types, as numbers.                          *)
LEMMA Bounds ==
    ASSUME Inv, TypeOK
    PROVE  /\ subscription.events \in Nat
           /\ \A s \in Streams : /\ head[s] \in Nat /\ head[s] <= subscription.events
                                 /\ retained[s] \in Nat
                                 /\ retained[s] <= subscription.events + 1
           /\ \A c \in Subscribers \X Streams : cursor[c] \in Nat /\ cursor[c] <= subscription.events
           /\ \A k \in DeliveryKeys : /\ delivered[k] \in Nat /\ delivered[k] <= subscription.events
                                      /\ applied[k] \in Nat /\ applied[k] <= subscription.events
                                      /\ CursorOf(k) \in Nat /\ CursorOf(k) <= subscription.events
  <1>1. subscription.events \in Nat
    BY DeliveryAssumption DEF TypeOK, SubscriptionSet
  <1>2. \A s \in Streams : /\ head[s] \in Nat /\ head[s] <= subscription.events
                           /\ retained[s] \in Nat /\ retained[s] <= subscription.events + 1
    BY <1>1 DEF TypeOK, SeqSet
  <1>3. \A c \in Subscribers \X Streams : cursor[c] \in Nat /\ cursor[c] <= subscription.events
    BY <1>1 DEF TypeOK, SeqSet
  <1>4. \A k \in DeliveryKeys : /\ delivered[k] \in Nat /\ delivered[k] <= subscription.events
                                /\ applied[k] \in Nat /\ applied[k] <= subscription.events
    BY <1>1 DEF TypeOK, SeqSet
  <1>5. \A k \in DeliveryKeys : CursorOf(k) \in Nat /\ CursorOf(k) <= subscription.events
    BY <1>3, CursorFacts DEF CursorOf, Inv
  <1> QED BY <1>1, <1>2, <1>3, <1>4, <1>5

LEMMA TypesInit == Init => Types
  <1> SUFFICES ASSUME Init PROVE Types
    OBVIOUS
  <1>1. subscription \in Subscriptions /\ subscription.events \in Nat
        /\ subscription.targets \subseteq Targets
    BY DeliveryAssumption DEF Init, SubscriptionSet
  <1>2. 0 \in SeqSet /\ 0 \in 0..(subscription.events + 1)
    BY <1>1 DEF SeqSet
  <1>3. /\ head \in [Streams -> SeqSet] /\ retained \in [Streams -> 0..(subscription.events + 1)]
        /\ cursor \in [Subscribers \X Streams -> SeqSet]
    BY <1>2 DEF Init, Log!Init
  <1>4. /\ delivered \in [DeliveryKeys -> SeqSet] /\ tooLongSent \in [DeliveryKeys -> BOOLEAN]
        /\ applied \in [DeliveryKeys -> SeqSet] /\ lostAt \in [DeliveryKeys -> SeqSet \cup {Never}]
        /\ states \in [Targets -> Optional(TargetState)]
    BY <1>2 DEF Init, Optional
  <1>5. /\ wire \in Seq(SyncGatewayService.gatewaySubscribe.output) /\ Len(wire) <= MaxWire
        /\ Range(wire) = {}
    <2>1. wire = <<>> /\ 0 <= MaxWire
      BY DeliveryAssumption DEF Init
    <2> QED BY <2>1 DEF Range
  <1>6. TypeOK
    BY <1>1, <1>3, <1>4, <1>5 DEF TypeOK, Init
  <1>7. AnswersFit
    BY DEF AnswersFit, Init, Log!Init, Log!NoRequest
  <1> QED BY <1>5, <1>6, <1>7 DEF Types, FramesFit

(* Appends stop at the last event, a boundary is at most one beyond the    *)
(* head, and acks stay within the head.                                    *)
LEMMA LogsTyped ==
    ASSUME Inv, TypeOK, [Next]_vars
    PROVE  /\ head' \in [Streams -> SeqSet']
           /\ retained' \in [Streams -> 0..(subscription'.events + 1)]
           /\ cursor' \in [Subscribers \X Streams -> SeqSet']
  <1> DEFINE n == subscription.events
  <1>1. subscription' = subscription /\ SeqSet' = SeqSet
    BY OneSubscription
  <1>2. /\ head \in [Streams -> SeqSet] /\ retained \in [Streams -> 0..(n + 1)]
        /\ cursor \in [Subscribers \X Streams -> SeqSet] /\ SeqSet = 0..n /\ n \in Nat
    BY Bounds DEF TypeOK, SeqSet
  <1> SUFFICES /\ head' \in [Streams -> SeqSet] /\ retained' \in [Streams -> 0..(n + 1)]
               /\ cursor' \in [Subscribers \X Streams -> SeqSet]
    BY <1>1
  <1>3. ASSUME NEW s \in Streams, NEW boundary \in 1..(MaxSeq + 1), AppendEvents(s, boundary)
        PROVE  /\ head' \in [Streams -> SeqSet] /\ retained' \in [Streams -> 0..(n + 1)]
               /\ cursor' = cursor
    <2>1. boundary \in Int /\ head[s] \in Nat /\ retained[s] \in Nat
      BY Bounds
    <2>2. /\ head[s] < n /\ boundary >= Log!Larger(retained[s], 1) /\ boundary <= head[s] + 2
          /\ head' = [head EXCEPT ![s] = @ + 1]
          /\ retained' = [retained EXCEPT ![s] = boundary] /\ cursor' = cursor
      BY <1>3 DEF AppendEvents, Log!Publish
    <2> HIDE DEF n
    <2>3. head[s] + 1 \in SeqSet /\ boundary \in 0..(n + 1)
      BY <1>2, <2>1, <2>2 DEF Log!Larger
    <2> QED BY <1>2, <2>2, <2>3
  <1>4. ASSUME NEW s \in Streams, NEW boundary \in 1..(MaxSeq + 1), DiscardEvents(s, boundary)
        PROVE  retained' \in [Streams -> 0..(n + 1)] /\ UNCHANGED <<head, cursor>>
    <2>1. boundary \in Int /\ head[s] \in Nat /\ retained[s] \in Nat /\ head[s] <= n
      BY Bounds
    <2>2. /\ boundary > retained[s] /\ boundary <= head[s] + 1
          /\ retained' = [retained EXCEPT ![s] = boundary] /\ UNCHANGED <<head, cursor>>
      BY <1>4 DEF DiscardEvents, Log!Discard
    <2> HIDE DEF n
    <2>3. boundary \in 0..(n + 1)
      BY <1>2, <2>1, <2>2
    <2> QED BY <1>2, <2>2, <2>3
  <1>5. ASSUME NEW k \in DeliveryKeys, AckApplied(k)
        PROVE  /\ cursor' \in [Subscribers \X Streams -> SeqSet]
               /\ UNCHANGED <<head, retained>>
    <2>1. applied[k] \in SeqSet
      BY DEF TypeOK
    <2>2. /\ cursor' = [cursor EXCEPT ![<<Subscriber, StreamOf(k)>>] = applied[k]]
          /\ UNCHANGED <<head, retained>>
      BY <1>5 DEF AckApplied, Log!Commit
    <2> QED BY <1>2, <2>1, <2>2
  <1>6. CASE UNCHANGED <<head, retained, cursor>>
    BY <1>2, <1>6
  <1>7. \/ UNCHANGED <<head, retained, cursor>>
        \/ \E k \in DeliveryKeys : AckApplied(k)
        \/ \E s \in Streams, boundary \in 1..(MaxSeq + 1) :
              AppendEvents(s, boundary) \/ DiscardEvents(s, boundary)
    BY DEF Next, LoopNext, ClientNext, WorldNext, StartPass, EnterWait, WatcherFires, WaitTimeout,
           WakeUp, ReadState, AskBinding, AnswerBinding, RemoveTarget, AddTarget, ChangeAccess,
           HeartbeatDue, Handle, TakeFrame, WaitVars, logVars, vars, Log!Ask, Log!AnswerTooLong,
           Log!AnswerBatch
  <1> QED BY <1>2, <1>3, <1>4, <1>5, <1>6, <1>7

(* The flags and the phases of the loop.                                   *)
LEMMA FlagsTyped ==
    ASSUME TypeOK, [Next]_vars
    PROVE  /\ phase' \in {"start", "idle", "poll", "handle", "throttled", "wait", "blocked",
                          "ended"}
           /\ allowed' \subseteq Targets /\ wake' \in BOOLEAN /\ overdue' \in BOOLEAN
           /\ tooLongSent' \in [DeliveryKeys -> BOOLEAN]
  <1>1. phase' \in {"start", "idle", "poll", "handle", "throttled", "wait", "blocked", "ended"}
    BY DEF TypeOK, Next, LoopNext, ClientNext, WorldNext, StartPass, EnterWait, WatcherFires,
           WaitTimeout, WakeUp, ReadState, AskBinding, AnswerBinding, AppendEvents,
           DiscardEvents, RemoveTarget, AddTarget, ChangeAccess, HeartbeatDue, Handle, TakeFrame,
           AckApplied, OtherVars, loopVars, vars
  <1>2. allowed' \subseteq Targets
    BY DEF TypeOK, Next, LoopNext, ClientNext, WorldNext, StartPass, EnterWait, WatcherFires,
           WaitTimeout, WakeUp, ReadState, AskBinding, AnswerBinding, AppendEvents,
           DiscardEvents, RemoveTarget, AddTarget, ChangeAccess, HeartbeatDue, Handle, TakeFrame,
           AckApplied, WaitVars, vars
  <1>3. wake' \in BOOLEAN
    BY DEF TypeOK, Next, LoopNext, ClientNext, WorldNext, StartPass, EnterWait, WatcherFires,
           WaitTimeout, WakeUp, ReadState, AskBinding, AnswerBinding, AppendEvents,
           DiscardEvents, RemoveTarget, AddTarget, ChangeAccess, HeartbeatDue, Handle, TakeFrame,
           AckApplied, vars
  <1>4. overdue' \in BOOLEAN
    <2>1. overdue' \in {TRUE, FALSE, overdue} \/ Handle
      BY DEF Next, LoopNext, ClientNext, WorldNext, StartPass, EnterWait, WatcherFires,
             WaitTimeout, WakeUp, ReadState, AskBinding, AnswerBinding, AppendEvents,
             DiscardEvents, RemoveTarget, AddTarget, ChangeAccess, HeartbeatDue, TakeFrame,
             AckApplied, vars
    <2>2. Handle => overdue' \in BOOLEAN
      BY DEF Handle
    <2> QED BY <2>1, <2>2 DEF TypeOK
  <1>5. tooLongSent' \in [DeliveryKeys -> BOOLEAN]
    <2>1. tooLongSent' = tooLongSent \/ StartPass \/ Handle
      BY DEF Next, LoopNext, ClientNext, WorldNext, EnterWait, WatcherFires, WaitTimeout, WakeUp,
             ReadState, AskBinding, AnswerBinding, AppendEvents, DiscardEvents, RemoveTarget,
             AddTarget, ChangeAccess, HeartbeatDue, TakeFrame, AckApplied, OtherVars, loopVars,
             WaitVars, vars
    <2>2. StartPass => tooLongSent' \in [DeliveryKeys -> BOOLEAN]
      BY DEF StartPass
    <2>3. Handle => tooLongSent' \in [DeliveryKeys -> BOOLEAN]
      BY DEF Handle, TypeOK, TooLongSent, TellsTooLong
    <2> QED BY <2>1, <2>2, <2>3 DEF TypeOK
  <1> QED BY <1>1, <1>2, <1>3, <1>4, <1>5

LEMMA StatesTyped ==
    ASSUME Inv, TypeOK, [Next]_vars
    PROVE  states' \in [Targets -> Optional(TargetState)]
  <1>1. \/ states' = states
        \/ states' = [t \in Targets |-> Absent]
        \/ \E t \in Targets : states' = [states EXCEPT ![t] = StateOf(t)]
    BY DEF Next, LoopNext, ClientNext, WorldNext, StartPass, EnterWait, WatcherFires, WaitTimeout,
           WakeUp, ReadState, AskBinding, AnswerBinding, AppendEvents, DiscardEvents,
           RemoveTarget, AddTarget, ChangeAccess, HeartbeatDue, Handle, TakeFrame, AckApplied,
           OtherVars, loopVars, WaitVars, vars
  <1>2. Absent \in Optional(TargetState) /\ \A t \in Targets : StateOf(t) \in Optional(TargetState)
    BY StateHasType DEF Optional
  <1> QED BY <1>1, <1>2 DEF TypeOK

(* A batch ends at the limit or at the head.                               *)
LEMMA AnswersTyped ==
    ASSUME Inv, Types, [Next]_vars
    PROVE  AnswersFit'
  <1> DEFINE n == subscription.events
  <1>1. n' = n /\ n \in Nat /\ DOMAIN request = DeliveryKeys
    BY OneSubscription, Bounds DEF Types, Inv, RequestsOK
  <1>2. ASSUME NEW k \in DeliveryKeys, AskBinding(k) PROVE AnswersFit'
    <2> DEFINE q == Log!Asked(StreamOf(k), BatchLimit, 0, CursorOf(k))
    <2>1. request' = [request EXCEPT ![k] = q]
      BY <1>2 DEF AskBinding, Log!Ask, CursorOf
    <2>2. q.phase = "asked"
      BY DEF Log!Asked
    <2> HIDE DEF q
    <2> QED BY <1>1, <2>1, <2>2 DEF Types, AnswersFit
  <1>3. ASSUME NEW k \in DeliveryKeys, AnswerBinding(k) PROVE AnswersFit'
    <2> DEFINE q == request[k]
    <2>1. PICK answer :
            /\ request' = [request EXCEPT ![k] = Log!Answered(q, answer)]
            /\ answer = Log!TooLong \/ answer = Log!Batch(q.from, q.limit, head[q.stream])
      BY <1>3 DEF AnswerBinding, Log!AnswerTooLong, Log!AnswerBatch
    <2>2. q.phase = "asked" /\ RequestOf(k, q) /\ AskedOf(k, q)
      BY <1>3 DEF AnswerBinding, Log!AnswerTooLong, Log!AnswerBatch, Inv, RequestsOK
    <2>3. /\ q.from \in Nat /\ q.limit \in Nat /\ head[q.stream] \in Nat /\ head[q.stream] <= n
          /\ q.from <= n
      <3>1. q.stream = StreamOf(k) /\ q.from \in Nat /\ q.from <= CursorOf(k)
            /\ q.limit = BatchLimit
        BY <2>2 DEF RequestOf, AskedOf
      <3>2. BatchLimit \in Nat /\ CursorOf(k) \in Nat /\ CursorOf(k) <= n
        BY LimitFacts, Bounds DEF Inv, Numbers, Types
      <3>3. StreamOf(k) \in Streams
        BY KeyFacts
      <3>4. head[StreamOf(k)] \in Nat /\ head[StreamOf(k)] <= n
        BY <3>3, Bounds DEF Types
      <3> HIDE DEF n
      <3> QED BY <1>1, <3>1, <3>2, <3>4
    <2>4. ASSUME answer.status = "ok"
          PROVE  /\ answer.final \in BOOLEAN
                 /\ answer.seqs # <<>> => q.from + Len(answer.seqs) <= n
      <3> DEFINE last == head[q.stream]
                 m == Log!Smaller(q.from + q.limit, last) - q.from
      <3>1. answer = Log!Batch(q.from, q.limit, last)
        BY <2>1, <2>4 DEF Log!TooLong
      <3>2. answer.seqs = [i \in 1..m |-> q.from + i] /\ answer.final \in BOOLEAN
        BY <3>1 DEF Log!Batch
      <3>3. m \in Int /\ q.from + m <= n
        BY <1>1, <2>3 DEF Log!Smaller
      <3> HIDE DEF m, n
      <3>4. CASE m >= 0
        <4>1. Len(answer.seqs) = m
          BY <3>2, <3>3, <3>4
        <4> QED BY <3>2, <3>3, <4>1
      <3>5. CASE m < 0
        <4>1. 1..m = {}
          BY <3>3, <3>5
        <4>2. answer.seqs = <<>>
          BY <3>2, <4>1
        <4> QED BY <3>2, <4>2
      <3> QED BY <3>3, <3>4, <3>5
    <2> DEFINE r == Log!Answered(q, answer)
    <2>5. r.answer = answer /\ r.from = q.from
      BY DEF Log!Answered
    <2>6. \A j \in DeliveryKeys : request'[j] = IF j = k THEN r ELSE request[j]
      BY <1>1, <2>1
    <2> HIDE DEF r, q
    <2> SUFFICES ASSUME NEW j \in DeliveryKeys, request'[j].phase = "answered",
                        request'[j].answer.status = "ok"
                 PROVE  /\ request'[j].answer.final \in BOOLEAN
                        /\ request'[j].answer.seqs # <<>> =>
                              request'[j].from + Len(request'[j].answer.seqs) <= n
      BY <1>1, OneSubscription DEF AnswersFit
    <2>7. CASE j = k
      BY <2>4, <2>5, <2>6, <2>7
    <2>8. CASE j # k
      BY <2>6, <2>8 DEF Types, AnswersFit
    <2> QED BY <2>7, <2>8
  <1>4. CASE request' = request
    BY <1>1, <1>4, OneSubscription DEF Types, AnswersFit
  <1>5. request' = request \/ \E k \in DeliveryKeys : AskBinding(k) \/ AnswerBinding(k)
    BY DEF Next, LoopNext, ClientNext, WorldNext, StartPass, EnterWait, WatcherFires, WaitTimeout,
           WakeUp, ReadState, AppendEvents, DiscardEvents, RemoveTarget, AddTarget, ChangeAccess,
           HeartbeatDue, Handle, TakeFrame, AckApplied, WaitVars, logVars, vars, Log!Publish,
           Log!Discard, Log!Commit
  <1> QED BY <1>2, <1>3, <1>4, <1>5

(* What a pass sends of a binding.                                         *)
LEMMA BatchFits ==
    ASSUME Inv, Types, phase = "handle", NEW k \in DeliveryKeys, k[1] \in pass,
           AnswerOf(k).status = "ok", AnswerOf(k).seqs # <<>>
    PROVE  /\ BatchSeq(AnswerOf(k), request[k].from) \in SeqSet
           /\ AnswerOf(k).final \in BOOLEAN /\ AnswerOf(k).seqs \in Seq(Nat)
  <1>1. request[k].phase = "answered" /\ BatchSeq(AnswerOf(k), request[k].from) \in Nat
    BY CompletePass, BatchThatIsSent
  <1>2. /\ AnswerOf(k).final \in BOOLEAN
        /\ BatchSeq(AnswerOf(k), request[k].from) <= subscription.events
    BY <1>1 DEF Types, AnswersFit, AnswerOf, BatchSeq
  <1>3. AnswerOf(k).seqs \in Seq(Nat)
    BY <1>1 DEF Inv, RequestsOK, BatchOf, AnswerOf
  <1>4. subscription.events \in Nat
    BY Bounds DEF Types
  <1> QED BY <1>1, <1>2, <1>3, <1>4 DEF SeqSet

LEMMA FrameTyped ==
    ASSUME Inv, Types, phase = "handle", NEW k \in DeliveryKeys, k[1] \in pass,
           TellsTooLong(k) \/ SendsBatch(k)
    PROVE  /\ Frame(k) \in GatewaySubscribeResponse
           /\ Frame(k).status = "OK" => Frame(k).batch.seq <= subscription.events
  <1>1. k[1] \in SyncTarget /\ k[1] \in Targets /\ k[2] \in BindingKeys
    <2>1. k[1] \in Targets /\ k \in KeysOf(k[1])
      BY KeyFacts
    <2>2. PICK i \in 1..Len(BindingsOf[k[1]]) : k = <<k[1], BindingsOf[k[1]][i].key>>
      BY <2>1 DEF KeysOf
    <2>3. BindingsOf[k[1]] \in Seq([key : BindingKeys, stream : Streams])
      BY <2>1, DeliveryAssumption
    <2>4. BindingsOf[k[1]][i] \in [key : BindingKeys, stream : Streams]
      BY <2>3, ElementOfSeq
    <2>5. BindingsOf[k[1]][i].key \in BindingKeys /\ k[2] = BindingsOf[k[1]][i].key
      BY <2>2, <2>4
    <2> QED BY <2>1, <2>5, DeliveryAssumption
  <1>2. states[k[1]] \in TargetState
    <2>1. Read(k) /\ todo = {}
      BY DEF Inv, PassOK
    <2>2. states[k[1]] # Absent
      BY <2>1 DEF Read
    <2> QED BY <1>1, <2>2 DEF Types, TypeOK, Optional
  <1>3. CASE AnswerOf(k).status = "ok"
    <2>1. SendsBatch(k) /\ AnswerOf(k).seqs # <<>>
      BY <1>3 DEF TellsTooLong, SendsBatch
    <2> DEFINE answer == AnswerOf(k)
               type == CHOOSE type \in PayloadTypes : TRUE
               events == [i \in 1..Len(answer.seqs) |->
                            [target |-> k[1], seq |-> answer.seqs[i], bindingKey |-> k[2],
                             payloadType |-> type, payloadVersion |-> 1]]
    <2>2. /\ BatchSeq(answer, request[k].from) \in SeqSet
          /\ answer.final \in BOOLEAN /\ answer.seqs \in Seq(Nat)
      BY <1>3, <2>1, BatchFits
    <2>3. subscription.events \in Nat
      BY Bounds DEF Types
    <2>4. BatchSeq(answer, request[k].from) \in Nat
          /\ BatchSeq(answer, request[k].from) <= subscription.events
      BY <2>2, <2>3 DEF SeqSet
    <2>5. Len(answer.seqs) \in Nat \ {0} /\ answer.seqs[1] \in Nat
          /\ \A i \in 1..Len(answer.seqs) : answer.seqs[i] \in Nat
      BY <2>1, <2>2, EmptySeq, ElementOfSeq
    <2>6. type \in PayloadTypes
      BY DeliveryAssumption
    <2>7. events \in Seq(GatewayEvent)
      <3>1. events \in [1..Len(answer.seqs) -> GatewayEvent]
        <4> HIDE DEF answer, type
        <4> QED BY <1>1, <2>5, <2>6 DEF GatewayEvent
      <3> HIDE DEF events
      <3> QED BY <2>5, <3>1
    <2>8. GatewayBatchOf(k) = [target |-> k[1], bindingKey |-> k[2], events |-> events,
                               seqStart |-> answer.seqs[1],
                               seq |-> BatchSeq(answer, request[k].from), final |-> answer.final]
      BY <2>1 DEF GatewayBatchOf
    <2> HIDE DEF answer, type, events
    <2>9. GatewayBatchOf(k) \in GatewayBatch /\ GatewayBatchOf(k).seq <= subscription.events
      BY <1>1, <2>2, <2>4, <2>5, <2>7, <2>8 DEF GatewayBatch
    <2>10. Frame(k) = [status |-> "OK", batch |-> GatewayBatchOf(k), state |-> states[k[1]],
                       heartbeat |-> FALSE, bindingKey |-> k[2]]
      BY <1>3 DEF Frame
    <2> QED BY <1>1, <1>2, <2>9, <2>10
            DEF GatewaySubscribeResponse, CatchUpStatus, Optional, BindingKey
  <1>4. CASE AnswerOf(k).status # "ok"
    <2>1. Frame(k) = [status |-> "TOO_LONG", batch |-> Absent, state |-> states[k[1]],
                      heartbeat |-> FALSE, bindingKey |-> k[2]]
      BY <1>4 DEF Frame
    <2> QED BY <1>1, <1>2, <2>1
            DEF GatewaySubscribeResponse, CatchUpStatus, Optional, BindingKey
  <1> QED BY <1>3, <1>4

LEMMA DeliveredTyped ==
    ASSUME Inv, Types, [Next]_vars
    PROVE  delivered' \in [DeliveryKeys -> SeqSet]
  <1> DEFINE n == subscription.events
  <1>1. n \in Nat /\ 0 \in SeqSet /\ delivered \in [DeliveryKeys -> SeqSet]
    BY Bounds DEF Types, TypeOK, SeqSet
  <1>2. CASE StartPass
    <2>1. delivered' = [k \in DeliveryKeys |-> IF k[1] \in targets THEN delivered[k] ELSE 0]
      BY <1>2 DEF StartPass
    <2> QED BY <1>1, <2>1
  <1>3. CASE Handle
    <2> DEFINE keys == UNION {KeysOf(t) : t \in pass}
    <2>1. \A k \in DeliveryKeys : k \in keys => k[1] \in pass
      BY KeyFacts DEF Inv, PassOK
    <2>2. /\ phase = "handle"
          /\ delivered' = [k \in DeliveryKeys |->
               IF k \notin keys THEN delivered[k]
               ELSE IF SendsBatch(k) THEN BatchSeq(AnswerOf(k), request[k].from)
               ELSE Delivered(k)]
      BY <1>3 DEF Handle
    <2> HIDE DEF keys
    <2>3. ASSUME NEW k \in DeliveryKeys, k \in keys, SendsBatch(k)
          PROVE  BatchSeq(AnswerOf(k), request[k].from) \in SeqSet
      BY <2>1, <2>2, <2>3, BatchFits DEF SendsBatch
    <2>4. ASSUME NEW k \in DeliveryKeys, k \in keys
          PROVE  Delivered(k) \in SeqSet
      <3>1. StateCursor(k) \in Nat /\ StateCursor(k) <= CursorOf(k)
        BY <2>1, <2>2, <2>4, CompletePass
      <3>2. CursorOf(k) \in Nat /\ CursorOf(k) <= n
        BY Bounds DEF Types
      <3>3. StateCursor(k) \in SeqSet
        BY <1>1, <3>1, <3>2 DEF SeqSet
      <3> QED BY <1>1, <3>3 DEF Delivered
    <2> QED BY <1>1, <2>2, <2>3, <2>4
  <1>4. delivered' = delivered \/ StartPass \/ Handle
    BY DEF Next, LoopNext, ClientNext, WorldNext, EnterWait, WatcherFires, WaitTimeout, WakeUp,
           ReadState, AskBinding, AnswerBinding, AppendEvents, DiscardEvents, RemoveTarget,
           AddTarget, ChangeAccess, HeartbeatDue, TakeFrame, AckApplied, OtherVars, loopVars,
           WaitVars, vars
  <1> QED BY <1>1, <1>2, <1>3, <1>4

FittingFrames ==
    {f \in GatewaySubscribeResponse : f.status = "OK" => f.batch.seq <= subscription.events}

LEMMA FramesAre ==
    ASSUME Inv, Types
    PROVE  wire \in Seq(FittingFrames) /\ Len(wire) \in Nat /\ Len(wire) <= MaxWire
  <1>1. wire \in Seq(GatewaySubscribeResponse) /\ Len(wire) <= MaxWire
    BY DEF Types, TypeOK, SyncGatewayService
  <1>2. DOMAIN wire = 1..Len(wire) /\ Len(wire) \in Nat
        /\ \A i \in 1..Len(wire) : wire[i] \in GatewaySubscribeResponse
    BY <1>1, LenProperties, ElementOfSeq
  <1>3. \A i \in 1..Len(wire) : wire[i] \in FittingFrames
    BY <1>2 DEF Types, FramesFit, FittingFrames, Range
  <1>4. wire \in [1..Len(wire) -> FittingFrames]
    BY <1>1, <1>2, <1>3
  <1> QED BY <1>1, <1>2, <1>4

LEMMA HeartbeatFits == HeartbeatFrame \in FittingFrames
  BY DEF HeartbeatFrame, FittingFrames, GatewaySubscribeResponse, CatchUpStatus, Optional,
         BindingKey

LEMMA WireTyped ==
    ASSUME Inv, Types, [Next]_vars
    PROVE  wire' \in Seq(FittingFrames) /\ Len(wire') <= MaxWire
  <1>1. wire \in Seq(FittingFrames) /\ Len(wire) \in Nat /\ Len(wire) <= MaxWire
    BY FramesAre
  <1>2. CASE StartPass
    <2>1. wire' = wire \/ (wire' = Append(wire, HeartbeatFrame) /\ Len(wire) + 1 <= MaxWire)
      BY <1>2 DEF StartPass, Room
    <2> HIDE DEF HeartbeatFrame
    <2>2. /\ Append(wire, HeartbeatFrame) \in Seq(FittingFrames)
          /\ Len(Append(wire, HeartbeatFrame)) = Len(wire) + 1
      BY <1>1, HeartbeatFits, AppendProperties
    <2> QED BY <1>1, <2>1, <2>2
  <1>3. CASE Handle
    <2>1. PICK out \in Seq(Outgoing \cup {HeartbeatFrame}) : wire' = wire \o out /\ Room(Len(out))
      BY <1>3, HandleSends
    <2>2. phase = "handle"
      BY <1>3 DEF Handle
    <2>3. Outgoing \cup {HeartbeatFrame} \subseteq FittingFrames
      <3>1. ASSUME NEW k \in DeliveryKeys, k[1] \in pass, TellsTooLong(k) \/ SendsBatch(k)
            PROVE  Frame(k) \in FittingFrames
        BY <2>2, <3>1, FrameTyped DEF FittingFrames
      <3> QED BY <3>1, HeartbeatFits DEF Outgoing
    <2>4. out \in Seq(FittingFrames)
      BY <2>3, WireInLarger
    <2>5. wire \o out \in Seq(FittingFrames) /\ Len(wire \o out) = Len(wire) + Len(out)
      BY <1>1, <2>4, ConcatProperties
    <2> QED BY <2>1, <2>5 DEF Room
  <1>4. CASE TakeFrame
    <2>1. wire # <<>> /\ wire' = Tail(wire)
      BY <1>4 DEF TakeFrame
    <2>2. Tail(wire) \in Seq(FittingFrames) /\ Len(Tail(wire)) = Len(wire) - 1
      BY <1>1, <2>1, HeadTailProperties
    <2>3. MaxWire \in Nat
      BY DeliveryAssumption
    <2> QED BY <1>1, <2>1, <2>2, <2>3
  <1>5. wire' = wire \/ StartPass \/ Handle \/ TakeFrame
    BY DEF Next, LoopNext, ClientNext, WorldNext, EnterWait, WatcherFires, WaitTimeout, WakeUp,
           ReadState, AskBinding, AnswerBinding, AppendEvents, DiscardEvents, RemoveTarget,
           AddTarget, ChangeAccess, HeartbeatDue, AckApplied, OtherVars, WaitVars, vars
  <1> QED BY <1>1, <1>2, <1>3, <1>4, <1>5

(* What a client has applied or restored is never ahead of the log.        *)
LEMMA AppliedTyped ==
    ASSUME Inv, Types, [Next]_vars
    PROVE  applied' \in [DeliveryKeys -> SeqSet]
  <1>1. applied \in [DeliveryKeys -> SeqSet] /\ subscription.events \in Nat
    BY Bounds DEF Types, TypeOK
  <1>2. \A k \in DeliveryKeys : applied[k] \in Nat /\ applied[k] <= subscription.events
    BY Bounds DEF Types
  <1>3. CASE TakeFrame
    <2> DEFINE k == KeyOfFrame(wire[1])
    <2>1. ASSUME NEW seq \in Int, seq <= subscription.events, k \in DeliveryKeys
          PROVE  Max({applied[k], seq}) \in SeqSet
      <3> DEFINE a == applied[k]
      <3>1. a \in Nat /\ a <= subscription.events
        BY <1>2, <2>1
      <3> HIDE DEF a, k
      <3>2. Max({a, seq}) \in {a, seq} /\ Max({a, seq}) >= a
        BY <2>1, <3>1, MaxOfTwo
      <3>3. Max({a, seq}) \in SeqSet
        BY <1>1, <2>1, <3>1, <3>2 DEF SeqSet
      <3> QED BY <3>3 DEF a
    <2>2. ASSUME wire[1].status = "OK",
                 applied' = [applied EXCEPT ![k] = Max({applied[k], wire[1].batch.seq})]
          PROVE  applied' \in [DeliveryKeys -> SeqSet]
      <3>1. wire \in Seq(Range(wire)) /\ wire # <<>>
        BY <1>3 DEF TakeFrame, Inv, WireOK
      <3>2. wire[1] \in Range(wire)
        BY <3>1, HeadTailProperties
      <3>3. wire[1].batch.seq \in Int /\ wire[1].batch.seq <= subscription.events
        BY <2>2, <3>2 DEF Inv, WireOK, Types, FramesFit
      <3>4. k \in DeliveryKeys => Max({applied[k], wire[1].batch.seq}) \in SeqSet
        BY <2>1, <3>3
      <3> HIDE DEF k
      <3> QED BY <1>1, <2>2, <3>4
    <2>3. ASSUME NEW seq \in Max({retained[StreamOf(k)] - 1, 0})..head[StreamOf(k)],
                 applied' = [applied EXCEPT ![k] = Max({applied[k], seq})]
          PROVE  applied' \in [DeliveryKeys -> SeqSet]
      <3>1. ASSUME k \in DeliveryKeys PROVE Max({applied[k], seq}) \in SeqSet
        <4>1. StreamOf(k) \in Streams
          BY <3>1, KeyFacts
        <4>2. head[StreamOf(k)] \in Nat /\ head[StreamOf(k)] <= subscription.events
          BY <4>1, Bounds DEF Types
        <4>3. seq \in Int /\ seq <= subscription.events
          BY <1>1, <4>2
        <4> QED BY <2>1, <3>1, <4>3
      <3> HIDE DEF k
      <3> QED BY <1>1, <2>3, <3>1
    <2> QED BY <1>1, <1>3, <2>2, <2>3 DEF TakeFrame
  <1>4. applied' = applied \/ TakeFrame
    BY DEF Next, LoopNext, ClientNext, WorldNext, StartPass, EnterWait, WatcherFires, WaitTimeout,
           WakeUp, ReadState, AskBinding, AnswerBinding, AckApplied, AppendEvents, DiscardEvents,
           RemoveTarget, AddTarget, ChangeAccess, HeartbeatDue, Handle, WaitVars, vars
  <1> QED BY <1>1, <1>3, <1>4

LEMMA TypesStep ==
    ASSUME Inv, Types, [Next]_vars
    PROVE  Types'
  <1>1. subscription' = subscription /\ SeqSet' = SeqSet /\ Inv'
    BY OneSubscription, DeliveryStep
  <1>2. /\ subscription \in Subscriptions /\ subscription.events \in Nat
    BY Bounds DEF Types, TypeOK
  <1>3. lostAt' \in [DeliveryKeys -> SeqSet \cup {Never}]
    <2>1. lostAt' \in [DeliveryKeys -> Nat \cup {Never}]
      BY <1>1 DEF Inv, Numbers
    <2>2. ASSUME NEW k \in DeliveryKeys, lostAt'[k] # Never
          PROVE  lostAt'[k] \in SeqSet
      <3>1. lostAt'[k] <= CursorOf(k)' /\ lostAt'[k] \in Nat
        BY <1>1, <2>1, <2>2 DEF Inv, LossOK
      <3>2. cursor' \in [Subscribers \X Streams -> SeqSet]
        BY <1>1, LogsTyped DEF Types
      <3>3. <<Subscriber, StreamOf(k)>> \in Subscribers \X Streams
        BY CursorFacts DEF Inv
      <3>4. CursorOf(k)' \in SeqSet
        BY <3>2, <3>3 DEF CursorOf
      <3> QED BY <1>2, <3>1, <3>4 DEF SeqSet
    <2> QED BY <2>1, <2>2
  <1>4. targets' \subseteq Targets /\ pass' \subseteq Targets /\ todo' \subseteq DeliveryKeys
    BY <1>1 DEF Inv, PassOK
  <1>5. /\ wire' \in Seq(SyncGatewayService.gatewaySubscribe.output) /\ Len(wire') <= MaxWire
        /\ FramesFit'
    <2>1. wire' \in Seq(FittingFrames) /\ Len(wire') <= MaxWire
      BY WireTyped
    <2>2. FittingFrames \subseteq SyncGatewayService.gatewaySubscribe.output
      BY DEF FittingFrames, SyncGatewayService
    <2>3. wire' \in Seq(SyncGatewayService.gatewaySubscribe.output)
      BY <2>1, <2>2, WireInLarger
    <2>4. \A f \in Range(wire') : f \in FittingFrames
      <3>1. DOMAIN wire' = 1..Len(wire') /\ \A i \in 1..Len(wire') : wire'[i] \in FittingFrames
        BY <2>1, LenProperties, ElementOfSeq
      <3> QED BY <3>1 DEF Range
    <2>5. FramesFit'
      BY <1>1, <2>4 DEF FramesFit, FittingFrames
    <2> QED BY <2>1, <2>3, <2>5
  <1>6. /\ head' \in [Streams -> SeqSet'] /\ retained' \in [Streams -> 0..(subscription'.events + 1)]
        /\ cursor' \in [Subscribers \X Streams -> SeqSet']
    BY LogsTyped DEF Types
  <1>7. /\ phase' \in {"start", "idle", "poll", "handle", "throttled", "wait", "blocked", "ended"}
        /\ allowed' \subseteq Targets /\ wake' \in BOOLEAN /\ overdue' \in BOOLEAN
        /\ tooLongSent' \in [DeliveryKeys -> BOOLEAN]
    BY FlagsTyped DEF Types
  <1>8. states' \in [Targets -> Optional(TargetState)]
    BY StatesTyped DEF Types
  <1>9. delivered' \in [DeliveryKeys -> SeqSet'] /\ applied' \in [DeliveryKeys -> SeqSet']
    BY <1>1, DeliveredTyped, AppliedTyped
  <1>10. TypeOK'
    BY <1>1, <1>2, <1>3, <1>4, <1>5, <1>6, <1>7, <1>8, <1>9 DEF TypeOK
  <1> QED BY <1>5, <1>10, AnswersTyped DEF Types

(* Whatever the targets, their bindings and the world are, every frame on  *)
(* the wire is a GatewaySubscribeResponse with the state of a target whose *)
(* sums exist, the flow-control window is never overrun, and neither loop  *)
(* nor client counts an event there is not.                                *)
THEOREM DeliveryTypes == Spec => []TypeOK
  <1>1. Init => Types
    BY TypesInit
  <1>2. Inv /\ Types /\ [Next]_vars => Types'
    BY TypesStep
  <1>3. Types => TypeOK
    BY DEF Types
  <1> QED BY <1>1, <1>2, <1>3, DeliveryInvariant, PTL DEF Spec
=============================================================================
