------------------------ MODULE LiveSubscriptionProofs ------------------------
(* What holds of live subscriptions for any number of streams, modify      *)
(* calls, subscribers and ids.                                             *)
EXTENDS LiveSubscription, TLAPS

(* A server that was just made is well-typed.                              *)
LEMMA TypeInit == Init => TypeOK
BY SubscriptionAssumption DEF Init, TypeOK, StreamSet, NewStream, WaitSet, NoWait, ModifySet

(* A wait stays a wait when it is started, cancelled or woken.             *)
LEMMA WaitTypes ==
    /\ NoWait \in WaitSet /\ NewWait \in WaitSet
    /\ \A wait \in WaitSet : Cancelled(wait) \in WaitSet
    /\ \A wait \in WaitSet : [Cancelled(wait) EXCEPT !.listening = FALSE] \in WaitSet
BY DEF WaitSet, NoWait, NewWait, Cancelled

(* A handler that returns leaves every stream well-typed.                  *)
LEMMA ReturnType ==
    ASSUME TypeOK, NEW h \in Handlers,
           NEW why \in {"canceled", "deadline", "failed"}, Return(h, why)
    PROVE  stream' \in [Handlers -> StreamSet]
<1>1. stream[h] \in StreamSet
  BY DEF TypeOK
<1>2. [stream[h] EXCEPT !.phase = "closing", !.wait = NoWait, !.why = why] \in StreamSet
  BY <1>1, WaitTypes DEF StreamSet
<1> QED
  BY <1>2 DEF Return, TypeOK

(* No step of a client, a handler, a timer or a goroutine breaks the types. *)
LEMMA TypeStep == TypeOK /\ [Next]_vars => TypeOK'
<1> SUFFICES ASSUME TypeOK, [Next]_vars PROVE TypeOK'
  OBVIOUS
<1> USE SubscriptionAssumption
<1>h. \A h \in Handlers : stream[h] \in StreamSet
  BY DEF TypeOK
<1>1. ASSUME NEW h \in Handlers, NEW id \in Ids \cup {NoId}, NEW targets \in SUBSET Targets,
             GatewaySubscribe(h, id, targets)
      PROVE  TypeOK'
  <2>1. [stream[h] EXCEPT !.phase = "loop", !.id = id, !.targets = targets] \in StreamSet
    BY <1>h, <1>1 DEF StreamSet
  <2> QED
    BY <2>1, <1>1 DEF GatewaySubscribe, Register, TypeOK
<1>2. ASSUME NEW h \in Handlers, NEW id \in Ids, Refuse(h, id) PROVE TypeOK'
  <2>1. [stream[h] EXCEPT !.phase = "ended", !.id = id, !.why = "already_exists"] \in StreamSet
    BY <1>h, <1>2 DEF StreamSet
  <2> QED
    BY <2>1, <1>2 DEF Refuse, TypeOK
<1>3. ASSUME NEW h \in Handlers, ClientLeaves(h) PROVE TypeOK'
  <2> DEFINE wait == IF stream[h].phase = "wait" THEN Cancelled(stream[h].wait)
                     ELSE stream[h].wait
  <2>1. wait \in WaitSet
    BY <1>h, WaitTypes DEF StreamSet
  <2>2. [stream[h] EXCEPT !.gone = TRUE, !.wait = wait] \in StreamSet
    BY <1>h, <2>1 DEF StreamSet
  <2> QED
    BY <2>2, <1>3 DEF ClientLeaves, At, TypeOK
<1>4. ASSUME NEW m \in Modifiers, NEW id \in Ids, NEW u \in Subscribers,
             NEW add \in SUBSET Targets, NEW remove \in SUBSET Targets,
             LookupSub(m, id, u, add, remove)
      PROVE  TypeOK'
  BY <1>4 DEF LookupSub, ModifySet, TypeOK
<1>5. ASSUME NEW m \in Modifiers, ApplyModify(m) PROVE TypeOK'
  <2> DEFINE g == modify[m].sub
             targets == (stream[g].targets \ modify[m].remove) \cup modify[m].add
  <2>1. modify[m] \in ModifySet
    BY DEF TypeOK
  <2>2. modify' \in [Modifiers -> ModifySet]
    <3>1. [modify[m] EXCEPT !.phase = "idle", !.sub = NoHandler, !.add = {}, !.remove = {}]
            \in ModifySet
      BY <2>1 DEF ModifySet
    <3> QED
      BY <3>1, <1>5 DEF ApplyModify, TypeOK
  <2>3. ASSUME g \in Handlers PROVE stream' \in [Handlers -> StreamSet]
    <3>1. targets \in SUBSET Targets
      BY <2>1, <2>3, <1>h DEF ModifySet, StreamSet
    <3>a. \A r \in StreamSet, ts \in SUBSET Targets :
             [r EXCEPT !.targets = ts, !.wake = TRUE] \in StreamSet
      BY DEF StreamSet
    <3>2. [stream[g] EXCEPT !.targets = targets, !.wake = TRUE] \in StreamSet
      <4> HIDE DEF g, targets
      <4> QED
        BY <3>a, <3>1, <2>3, <1>h
    <3>3. stream' = [stream EXCEPT ![g] = [stream[g] EXCEPT !.targets = targets, !.wake = TRUE]]
      BY <1>5 DEF ApplyModify
    <3> QED
      BY <3>2, <3>3 DEF TypeOK
  <2>4. ASSUME g \notin Handlers PROVE stream' = stream
    BY <1>5, <2>4 DEF ApplyModify, TypeOK
  <2> QED
    BY <2>2, <2>3, <2>4, <1>5 DEF ApplyModify, TypeOK
<1>6. ASSUME NEW h \in Handlers, NEW next \in {"loop", "idle", "wait"}, Iterate(h, next)
      PROVE  TypeOK'
  <2>1. [stream[h] EXCEPT !.seen = stream[h].targets, !.phase = next,
                          !.wait = IF next = "wait" THEN NewWait ELSE NoWait] \in StreamSet
    BY <1>h, WaitTypes DEF StreamSet
  <2> QED
    BY <2>1, <1>6 DEF Iterate, TypeOK
<1>7. ASSUME NEW h \in Handlers, SeesCancel(h) \/ IdleCancel(h) \/ PollFails(h) PROVE TypeOK'
  <2>1. \E why \in {"canceled", "failed"} : Return(h, why)
    BY <1>7 DEF SeesCancel, IdleCancel, PollFails
  <2>2. stream' \in [Handlers -> StreamSet]
    BY <2>1, ReturnType
  <2> QED
    BY <2>2, <1>7 DEF SeesCancel, IdleCancel, PollFails, TypeOK
<1>8. ASSUME NEW h \in Handlers, IdleWakes(h) \/ IdleTimer(h) PROVE TypeOK'
  <2>1. [stream[h] EXCEPT !.phase = "loop"] \in StreamSet
    BY <1>h DEF StreamSet
  <2>2. [[stream[h] EXCEPT !.phase = "loop"] EXCEPT !.wake = FALSE] \in StreamSet
    BY <2>1 DEF StreamSet
  <2>3. stream' \in [Handlers -> StreamSet]
    BY <2>1, <2>2, <1>8 DEF IdleWakes, IdleTimer, TypeOK
  <2> QED
    BY <2>3, <1>8 DEF IdleWakes, IdleTimer, TypeOK
<1>9. ASSUME NEW h \in Handlers, HelperWakes(h) PROVE TypeOK'
  <2>1. [stream[h] EXCEPT !.wake = FALSE,
                          !.wait = [Cancelled(stream[h].wait) EXCEPT !.listening = FALSE]]
          \in StreamSet
    BY <1>h, WaitTypes DEF StreamSet
  <2> QED
    BY <2>1, <1>9 DEF HelperWakes, TypeOK
<1>10. ASSUME NEW h \in Handlers, WaitTimer(h) PROVE TypeOK'
  <2>1. [stream[h] EXCEPT !.wait = [@ EXCEPT !.ended = "deadline"]] \in StreamSet
    BY <1>h DEF StreamSet, WaitSet
  <2> QED
    BY <2>1, <1>10 DEF WaitTimer, TypeOK
<1>11. ASSUME NEW h \in Handlers, NEW report \in {"event", "canceled", "deadline"},
              WatcherReports(h, report)
       PROVE  TypeOK'
  <2>1. [stream[h] EXCEPT !.wait = [@ EXCEPT !.done = report]] \in StreamSet
    BY <1>h DEF StreamSet, WaitSet
  <2> QED
    BY <2>1, <1>11 DEF WatcherReports, TypeOK
<1>12. ASSUME NEW h \in Handlers, WaitReturns(h) PROVE TypeOK'
  <2> DEFINE error == WaitError(stream[h].wait)
  <2>1. stream[h].wait \in WaitSet /\ stream[h].gone \in BOOLEAN
    BY <1>h DEF StreamSet
  <2>2. error \in {"none", "canceled", "deadline"}
    BY <2>1, <1>12 DEF WaitError, WaitSet, WaitReturns
  <2>3. stream' \in [Handlers -> StreamSet]
    <3>1. CASE error = "none" \/ (error = "canceled" /\ ~stream[h].gone)
      <4>1. [[stream[h] EXCEPT !.phase = "loop"] EXCEPT !.wait = NoWait] \in StreamSet
        BY <1>h, WaitTypes DEF StreamSet
      <4> QED
        BY <4>1, <3>1, <1>12 DEF WaitReturns, TypeOK
    <3>2. CASE ~(error = "none" \/ (error = "canceled" /\ ~stream[h].gone))
      <4>1. Return(h, IF stream[h].gone THEN "canceled" ELSE error)
        BY <3>2, <1>12 DEF WaitReturns
      <4>2. (IF stream[h].gone THEN "canceled" ELSE error) \in {"canceled", "deadline", "failed"}
        BY <3>2, <2>2, <2>1
      <4> QED
        BY <4>1, <4>2, ReturnType
    <3> QED
      BY <3>1, <3>2
  <2>4. helpers' \in [Handlers -> 0..MaxHelpers]
    BY <1>12 DEF WaitReturns, TypeOK
  <2> QED
    BY <2>3, <2>4, <1>12 DEF WaitReturns, TypeOK
<1>13. ASSUME NEW h \in Handlers, UnregisterSub(h) PROVE TypeOK'
  <2>1. [stream[h] EXCEPT !.phase = "ended"] \in StreamSet
    BY <1>h DEF StreamSet
  <2> QED
    BY <2>1, <1>13 DEF UnregisterSub, TypeOK
<1>14. ASSUME NEW h \in Handlers, LateHelperTakesToken(h) \/ LateHelperExits(h) PROVE TypeOK'
  <2>1. [stream[h] EXCEPT !.wake = FALSE] \in StreamSet
    BY <1>h DEF StreamSet
  <2>2. stream' \in [Handlers -> StreamSet]
    BY <2>1, <1>14 DEF LateHelperTakesToken, LateHelperExits, TypeOK
  <2>3. helpers' \in [Handlers -> 0..MaxHelpers]
    BY <1>14 DEF LateHelperTakesToken, LateHelperExits, TypeOK
  <2> QED
    BY <2>2, <2>3, <1>14 DEF LateHelperTakesToken, LateHelperExits, TypeOK
<1>15. ASSUME UNCHANGED vars PROVE TypeOK'
  BY <1>15 DEF vars, TypeOK
<1> QED
  BY <1>1, <1>2, <1>3, <1>4, <1>5, <1>6, <1>7, <1>8, <1>9, <1>10, <1>11, <1>12, <1>13,
     <1>14, <1>15 DEF Next, ClientNext, Untimed, Timer

(* Every reachable state is well-typed; in particular no stream is ever    *)
(* registered under the empty id.                                          *)
THEOREM TypeCorrect == Spec => []TypeOK
BY TypeInit, TypeStep, PTL DEF Spec

-----------------------------------------------------------------------------
(* The registry.  What the steps between registerSub and unregisterSub     *)
(* have in common: the registry stays, and no stream is opened, ended or   *)
(* given another id.                                                       *)
KeepsStreamsOpen ==
    /\ subs' = subs
    /\ \A h \in Handlers : stream'[h].id = stream[h].id /\ (Open(h)' <=> Open(h))

(* A handler that returns keeps its id until its deferred unregisterSub runs. *)
LEMMA ReturnKeepsOpen ==
    ASSUME TypeOK, NEW h \in Handlers, NEW why, Return(h, why), Open(h), subs' = subs
    PROVE  KeepsStreamsOpen
BY DEF Return, TypeOK, StreamSet, KeepsStreamsOpen, Open

(* So do the steps of the loop outside of a wait ...                       *)
LEMMA LoopKeepsOpen ==
    ASSUME TypeOK, NEW h \in Handlers,
           \/ ClientLeaves(h) \/ PollFails(h) \/ SeesCancel(h)
           \/ \E next \in {"loop", "idle", "wait"} : Iterate(h, next)
           \/ IdleWakes(h) \/ IdleTimer(h) \/ IdleCancel(h)
    PROVE  KeepsStreamsOpen
<1>h. \A g \in Handlers : stream[g] \in StreamSet
  BY DEF TypeOK
<1>1. CASE ClientLeaves(h)
  BY <1>1, <1>h DEF ClientLeaves, TypeOK, StreamSet, KeepsStreamsOpen, Open
<1>2. CASE PollFails(h) \/ SeesCancel(h) \/ IdleCancel(h)
  BY <1>2, ReturnKeepsOpen DEF PollFails, SeesCancel, IdleCancel, At, Open
<1>3. ASSUME NEW next \in {"loop", "idle", "wait"}, Iterate(h, next) PROVE KeepsStreamsOpen
  BY <1>3, <1>h DEF Iterate, At, TypeOK, StreamSet, KeepsStreamsOpen, Open
<1>4. CASE IdleWakes(h) \/ IdleTimer(h)
  BY <1>4, <1>h DEF IdleWakes, IdleTimer, At, TypeOK, StreamSet, KeepsStreamsOpen, Open
<1> QED
  BY <1>1, <1>2, <1>3, <1>4

(* ... the steps inside of a wait ...                                      *)
LEMMA WaitKeepsOpen ==
    ASSUME TypeOK, NEW h \in Handlers,
           \/ HelperWakes(h) \/ WaitTimer(h) \/ WaitReturns(h)
           \/ \E report \in {"event", "canceled", "deadline"} : WatcherReports(h, report)
           \/ LateHelperTakesToken(h) \/ LateHelperExits(h)
    PROVE  KeepsStreamsOpen
<1>h. \A g \in Handlers : stream[g] \in StreamSet
  BY DEF TypeOK
<1>1. CASE HelperWakes(h)
  BY <1>1, <1>h DEF HelperWakes, At, TypeOK, StreamSet, KeepsStreamsOpen, Open
<1>2. CASE WaitTimer(h)
  BY <1>2, <1>h DEF WaitTimer, At, TypeOK, StreamSet, KeepsStreamsOpen, Open
<1>3. CASE WaitReturns(h)
  <2>1. Open(h) /\ subs' = subs
    BY <1>3 DEF WaitReturns, At, Open
  <2>2. ASSUME NEW why, Return(h, why) PROVE KeepsStreamsOpen
    BY <2>1, <2>2, ReturnKeepsOpen
  <2>3. ASSUME stream' = [stream EXCEPT ![h].phase = "loop", ![h].wait = NoWait]
        PROVE  KeepsStreamsOpen
    BY <2>1, <2>3, <1>h DEF TypeOK, StreamSet, KeepsStreamsOpen, Open
  <2> QED
    BY <2>2, <2>3, <1>3 DEF WaitReturns
<1>4. ASSUME NEW report \in {"event", "canceled", "deadline"}, WatcherReports(h, report)
      PROVE  KeepsStreamsOpen
  BY <1>4, <1>h DEF WatcherReports, At, TypeOK, StreamSet, KeepsStreamsOpen, Open
<1>5. CASE LateHelperTakesToken(h)
  BY <1>5, <1>h DEF LateHelperTakesToken, TypeOK, StreamSet, KeepsStreamsOpen, Open
<1>6. CASE LateHelperExits(h)
  BY <1>6 DEF LateHelperExits, KeepsStreamsOpen, Open
<1> QED
  BY <1>1, <1>2, <1>3, <1>4, <1>5, <1>6

(* ... and both steps of a modify call.                                    *)
LEMMA ModifyKeepsOpen ==
    ASSUME TypeOK, NEW m \in Modifiers,
           \/ ApplyModify(m)
           \/ \E id \in Ids, u \in Subscribers, add, remove \in SUBSET Targets :
                 LookupSub(m, id, u, add, remove)
    PROVE  KeepsStreamsOpen
<1>1. CASE ApplyModify(m)
  BY <1>1 DEF ApplyModify, TypeOK, StreamSet, KeepsStreamsOpen, Open
<1>2. CASE \E id \in Ids, u \in Subscribers, add, remove \in SUBSET Targets :
              LookupSub(m, id, u, add, remove)
  BY <1>2 DEF LookupSub, KeepsStreamsOpen, Open
<1> QED
  BY <1>1, <1>2

(* The empty registry is exact.                                            *)
LEMMA RegistryInit == Init => RegistryExact
BY SubscriptionAssumption DEF Init, NewStream, RegistryExact, Open

(* Only registerSub and unregisterSub write the registry, and both keep it exact. *)
LEMMA RegistryStep == TypeOK /\ RegistryExact /\ [Next]_vars => RegistryExact'
<1> SUFFICES ASSUME TypeOK, RegistryExact, [Next]_vars PROVE RegistryExact'
  OBVIOUS
<1> USE SubscriptionAssumption
<1>t. /\ subs \in [Ids -> Handlers \cup {NoHandler}]
      /\ \A g \in Handlers : stream[g] \in StreamSet
  BY DEF TypeOK
<1>1. ASSUME KeepsStreamsOpen PROVE RegistryExact'
  BY <1>1, <1>t DEF KeepsStreamsOpen, RegistryExact
<1>2. ASSUME NEW h \in Handlers, NEW id \in Ids \cup {NoId}, NEW targets \in SUBSET Targets,
             GatewaySubscribe(h, id, targets)
      PROVE  RegistryExact'
  <2>1. /\ ~Open(h)
        /\ id \in Ids => subs[id] = NoHandler
        /\ subs' = [i \in Ids |-> IF i = id THEN h ELSE subs[i]]
    BY <1>2 DEF GatewaySubscribe, Register, At, Open
  <2>2. /\ stream'[h].phase = "loop" /\ stream'[h].id = id
        /\ \A g \in Handlers \ {h} : stream'[g] = stream[g]
    BY <1>2, <1>t DEF GatewaySubscribe, TypeOK, StreamSet
  <2> QED
    BY <2>1, <2>2, <1>t DEF RegistryExact, Open
<1>3. ASSUME NEW h \in Handlers, NEW id \in Ids, Refuse(h, id) PROVE RegistryExact'
  <2>1. ~Open(h) /\ subs' = subs
    BY <1>3 DEF Refuse, At, Open
  <2>2. /\ stream'[h].phase = "ended"
        /\ \A g \in Handlers \ {h} : stream'[g] = stream[g]
    BY <1>3, <1>t DEF Refuse, TypeOK, StreamSet
  <2> QED
    BY <2>1, <2>2, <1>t DEF RegistryExact, Open
<1>4. ASSUME NEW h \in Handlers, UnregisterSub(h) PROVE RegistryExact'
  <2>1. /\ Open(h)
        /\ subs' = [i \in Ids |-> IF i = stream[h].id /\ subs[i] = h THEN NoHandler
                                  ELSE subs[i]]
    BY <1>4 DEF UnregisterSub, At, Open
  <2>2. /\ stream'[h].phase = "ended"
        /\ \A g \in Handlers \ {h} : stream'[g] = stream[g]
    BY <1>4, <1>t DEF UnregisterSub, TypeOK, StreamSet
  <2> QED
    BY <2>1, <2>2, <1>t DEF RegistryExact, Open
<1>5. CASE UNCHANGED vars
  BY <1>5, <1>1 DEF vars, KeepsStreamsOpen, Open
<1>6. CASE ClientNext
  BY <1>6, <1>1, <1>2, <1>3, LoopKeepsOpen, ModifyKeepsOpen DEF ClientNext
<1>7. ASSUME NEW h \in Handlers,
             \/ Untimed(h) \/ Timer(h) \/ PollFails(h)
             \/ LateHelperTakesToken(h) \/ LateHelperExits(h)
      PROVE  RegistryExact'
  BY <1>7, <1>1, <1>4, LoopKeepsOpen, WaitKeepsOpen DEF Untimed, Timer
<1> QED
  BY <1>5, <1>6, <1>7 DEF Next

(* An open stream with an id is what the id finds, and no id finds a       *)
(* stream that ended (registerSub and unregisterSub under s.mu).           *)
THEOREM RegistryIsExact == Spec => []RegistryExact
<1>1. TypeOK /\ RegistryExact /\ [Next]_vars => RegistryExact'
  BY RegistryStep
<1> QED
  BY TypeCorrect, RegistryInit, <1>1, PTL DEF Spec

-----------------------------------------------------------------------------
(* Ownership.  A modify call between its lookup and its change holds a     *)
(* stream of its own subscriber: the owner of a stream never changes, so   *)
(* what lookupSub compared is still true when apply runs.                  *)
HoldsOwnStream ==
    \A m \in Modifiers : modify[m].phase = "apply" =>
        modify[m].sub \in Handlers /\ OwnedBy(modify[m].sub, modify[m].subscriber)

(* At first no modify call holds a stream.                                 *)
LEMMA HoldsOwnInit == Init => HoldsOwnStream
BY DEF Init, HoldsOwnStream

(* The lookup establishes the ownership and nothing takes it away.         *)
LEMMA HoldsOwnStep == TypeOK /\ HoldsOwnStream /\ [Next]_vars => HoldsOwnStream'
<1> SUFFICES ASSUME TypeOK, HoldsOwnStream, [Next]_vars PROVE HoldsOwnStream'
  OBVIOUS
<1> USE SubscriptionAssumption
<1>1. ASSUME UNCHANGED modify PROVE HoldsOwnStream'
  BY <1>1 DEF HoldsOwnStream, OwnedBy
<1>2. ASSUME NEW m \in Modifiers, NEW id \in Ids, NEW u \in Subscribers,
             NEW add \in SUBSET Targets, NEW remove \in SUBSET Targets,
             LookupSub(m, id, u, add, remove)
      PROVE  HoldsOwnStream'
  <2>1. subs[id] \in Handlers /\ OwnedBy(subs[id], u)
    BY <1>2 DEF LookupSub, TypeOK
  <2>2. /\ modify'[m].sub = subs[id] /\ modify'[m].subscriber = u
        /\ \A n \in Modifiers \ {m} : modify'[n] = modify[n]
    BY <1>2 DEF LookupSub, TypeOK
  <2> QED
    BY <2>1, <2>2 DEF HoldsOwnStream, OwnedBy
<1>3. ASSUME NEW m \in Modifiers, ApplyModify(m) PROVE HoldsOwnStream'
  <2>1. /\ modify'[m].phase = "idle"
        /\ \A n \in Modifiers \ {m} : modify'[n] = modify[n]
    BY <1>3 DEF ApplyModify, TypeOK, ModifySet
  <2> QED
    BY <2>1 DEF HoldsOwnStream, OwnedBy
<1>4. CASE UNCHANGED vars
  BY <1>4, <1>1 DEF vars
<1>5. CASE ClientNext
  BY <1>5, <1>1, <1>2, <1>3 DEF ClientNext, GatewaySubscribe, Refuse, ClientLeaves
<1>6. ASSUME NEW h \in Handlers,
             \/ Untimed(h) \/ Timer(h) \/ PollFails(h)
             \/ LateHelperTakesToken(h) \/ LateHelperExits(h)
      PROVE  HoldsOwnStream'
  BY <1>6, <1>1 DEF Untimed, Timer, PollFails, LateHelperTakesToken, LateHelperExits,
     Iterate, SeesCancel, IdleWakes, IdleCancel, HelperWakes, WaitReturns, UnregisterSub,
     WatcherReports, IdleTimer, WaitTimer
<1> QED
  BY <1>4, <1>5, <1>6 DEF Next

(* No step but apply changes the target set of a stream that was opened.   *)
LEMMA OwnStreamStep ==
    TypeOK /\ HoldsOwnStream /\ [Next]_vars =>
        \A h \in Handlers :
           ~At(h, "new") /\ stream'[h].targets # stream[h].targets =>
              \E m \in Modifiers : /\ modify[m].phase = "apply" /\ modify'[m].phase = "idle"
                                   /\ modify[m].sub = h
                                   /\ OwnedBy(h, modify[m].subscriber)
<1> SUFFICES ASSUME TypeOK, HoldsOwnStream, [Next]_vars, NEW h \in Handlers,
                    ~At(h, "new"), stream'[h].targets # stream[h].targets
             PROVE  \E m \in Modifiers :
                       /\ modify[m].phase = "apply" /\ modify'[m].phase = "idle"
                       /\ modify[m].sub = h
                       /\ OwnedBy(h, modify[m].subscriber)
  OBVIOUS
<1>h. stream \in [Handlers -> StreamSet]
  BY DEF TypeOK
<1>1. ASSUME NEW m \in Modifiers, ApplyModify(m)
      PROVE  /\ modify[m].phase = "apply" /\ modify'[m].phase = "idle"
             /\ modify[m].sub = h /\ OwnedBy(h, modify[m].subscriber)
  <2>1. modify[m].phase = "apply" /\ modify'[m].phase = "idle"
    BY <1>1 DEF ApplyModify, TypeOK, ModifySet
  <2>2. modify[m].sub = h
    BY <1>1, <1>h DEF ApplyModify
  <2> QED
    BY <2>1, <2>2 DEF HoldsOwnStream
<1>2. ASSUME NEW g \in Handlers,
             \/ \E id \in Ids \cup {NoId}, targets \in SUBSET Targets :
                   GatewaySubscribe(g, id, targets)
             \/ \E id \in Ids : Refuse(g, id)
             \/ ClientLeaves(g)
      PROVE  FALSE
  <2>1. ASSUME NEW id \in Ids \cup {NoId}, NEW targets \in SUBSET Targets,
               GatewaySubscribe(g, id, targets)
        PROVE  FALSE
    BY <2>1, <1>h DEF GatewaySubscribe, At
  <2>2. ASSUME NEW id \in Ids, Refuse(g, id) PROVE FALSE
    BY <2>2, <1>h DEF Refuse, At
  <2>3. CASE ClientLeaves(g)
    BY <2>3, <1>h DEF ClientLeaves, StreamSet
  <2> QED
    BY <1>2, <2>1, <2>2, <2>3
<1>3. ASSUME NEW m \in Modifiers, NEW id \in Ids, NEW u \in Subscribers,
             NEW add \in SUBSET Targets, NEW remove \in SUBSET Targets,
             LookupSub(m, id, u, add, remove)
      PROVE  FALSE
  BY <1>3 DEF LookupSub
<1>4. ASSUME NEW g \in Handlers, NEW why, Return(g, why) PROVE FALSE
  BY <1>4, <1>h DEF Return, StreamSet
<1>5. ASSUME NEW g \in Handlers,
             \/ PollFails(g) \/ SeesCancel(g) \/ IdleCancel(g)
             \/ \E next \in {"loop", "idle", "wait"} : Iterate(g, next)
             \/ IdleWakes(g) \/ IdleTimer(g)
      PROVE  FALSE
  <2>1. CASE PollFails(g) \/ SeesCancel(g) \/ IdleCancel(g)
    BY <2>1, <1>4 DEF PollFails, SeesCancel, IdleCancel
  <2>2. ASSUME NEW next \in {"loop", "idle", "wait"}, Iterate(g, next) PROVE FALSE
    BY <2>2, <1>h DEF Iterate, StreamSet
  <2>3. CASE IdleWakes(g) \/ IdleTimer(g)
    BY <2>3, <1>h DEF IdleWakes, IdleTimer, StreamSet
  <2> QED
    BY <1>5, <2>1, <2>2, <2>3
<1>6. ASSUME NEW g \in Handlers,
             \/ HelperWakes(g) \/ WaitTimer(g) \/ WaitReturns(g)
             \/ \E report \in {"event", "canceled", "deadline"} : WatcherReports(g, report)
             \/ UnregisterSub(g) \/ LateHelperTakesToken(g) \/ LateHelperExits(g)
      PROVE  FALSE
  <2>1. CASE HelperWakes(g)
    BY <2>1, <1>h DEF HelperWakes, StreamSet
  <2>2. CASE WaitTimer(g)
    BY <2>2, <1>h DEF WaitTimer, StreamSet
  <2>3. CASE WaitReturns(g)
    <3>1. ASSUME stream' = [stream EXCEPT ![g].phase = "loop", ![g].wait = NoWait]
          PROVE  FALSE
      BY <3>1, <1>h DEF StreamSet
    <3> QED
      BY <3>1, <2>3, <1>4 DEF WaitReturns
  <2>4. ASSUME NEW report \in {"event", "canceled", "deadline"}, WatcherReports(g, report)
        PROVE  FALSE
    BY <2>4, <1>h DEF WatcherReports, StreamSet
  <2>5. CASE UnregisterSub(g)
    BY <2>5, <1>h DEF UnregisterSub, StreamSet
  <2>6. CASE LateHelperTakesToken(g) \/ LateHelperExits(g)
    BY <2>6, <1>h DEF LateHelperTakesToken, LateHelperExits, StreamSet
  <2> QED
    BY <1>6, <2>1, <2>2, <2>3, <2>4, <2>5, <2>6
<1>7. CASE UNCHANGED vars
  BY <1>7 DEF vars
<1>8. CASE ClientNext
  BY <1>8, <1>1, <1>2, <1>3 DEF ClientNext
<1>9. ASSUME NEW g \in Handlers,
             \/ Untimed(g) \/ Timer(g) \/ PollFails(g)
             \/ LateHelperTakesToken(g) \/ LateHelperExits(g)
      PROVE  FALSE
  BY <1>9, <1>5, <1>6 DEF Untimed, Timer
<1> QED
  BY <1>7, <1>8, <1>9 DEF Next

(* The target set of a stream is only changed by a modify call of the      *)
(* stream's own subscriber, although lookupSub and apply are separate      *)
(* critical sections (ModifySubscription, server.go:434-457).              *)
THEOREM OnlyOwnerModifies == Spec => OwnStreamOnly
<1>1. Spec => []HoldsOwnStream
  BY TypeCorrect, HoldsOwnInit, HoldsOwnStep, PTL DEF Spec
<1> QED
  BY TypeCorrect, <1>1, OwnStreamStep, PTL DEF Spec, OwnStreamOnly
===============================================================================
