--------------------------- MODULE LiveSubscription ---------------------------
(***************************************************************************)
(* GatewaySubscribe streams and ModifySubscription                         *)
(* (pkg/gateway/transport/grpc/server.go): the registry of live streams,   *)
(* the target set a stream shares with the modify calls, and how a stream  *)
(* blocks between two polls and is woken.                                  *)
(*                                                                         *)
(* A stream's handler runs a loop: copy the target set, poll it and send,  *)
(* block.  What a poll sends belongs to the delivery of events and is one  *)
(* step here (Iterate).  While it blocks on the engine's watchers, a       *)
(* helper goroutine listens for the wake-up channel; when the wait ends    *)
(* by itself the helper is cancelled but keeps listening until it is       *)
(* scheduled, so helpers of earlier waits linger (helpers).                *)
(*                                                                         *)
(* Bounds: a handler runs one stream; MaxHelpers helpers per stream.       *)
(***************************************************************************)
EXTENDS Naturals

CONSTANTS
    Targets,
    Ids,            \* non-empty subscription ids
    NoId,           \* the empty subscription id
    Subscribers,
    Handlers,       \* one per GatewaySubscribe call
    SubscriberOf,   \* the subscriber_id of each call
    NoHandler,      \* what an unknown id is mapped to
    Modifiers,      \* concurrent ModifySubscription calls
    MaxHelpers

ASSUME SubscriptionAssumption ==
    /\ NoId \notin Ids
    /\ SubscriberOf \in [Handlers -> Subscribers]
    /\ NoHandler \notin Handlers
    /\ MaxHelpers \in Nat

VARIABLES
    subs,       \* s.subs
    stream,     \* per handler: its request, its liveSub and its loop
    helpers,    \* per handler: cancelled helpers that still listen
    modify      \* per ModifySubscription call: idle, or holding a liveSub

vars == <<subs, stream, helpers, modify>>

(* A wait: listening, its helper has not taken a token; cancelled, waitCtx *)
(* is done; ended, why watchCtx is done; done, what the watchers reported. *)
WaitSet ==
    [listening : BOOLEAN, cancelled : BOOLEAN,
     ended : {"none", "canceled", "deadline"},
     done : {"none", "event", "canceled", "deadline"}]

NoWait == [listening |-> FALSE, cancelled |-> FALSE, ended |-> "none", done |-> "none"]
NewWait == [NoWait EXCEPT !.listening = TRUE]

(* phase: "loop" at the head of the loop, "idle" inside waitWake, "wait"   *)
(* inside waitOrWake, "closing" before the deferred unregister.            *)
(* gone: the stream's context is done.  seen: the targets last copied.     *)
(* why: how the call returned.                                             *)
StreamSet ==
    [phase : {"new", "loop", "idle", "wait", "closing", "ended"},
     id : Ids \cup {NoId}, gone : BOOLEAN,
     targets : SUBSET Targets, wake : BOOLEAN, seen : SUBSET Targets, wait : WaitSet,
     why : {"none", "canceled", "deadline", "failed", "already_exists"}]

NewStream ==
    [phase |-> "new", id |-> NoId, gone |-> FALSE, targets |-> {}, wake |-> FALSE,
     seen |-> {}, wait |-> NoWait, why |-> "none"]

ModifySet ==
    [phase : {"idle", "apply"}, sub : Handlers \cup {NoHandler},
     subscriber : Subscribers, add : SUBSET Targets, remove : SUBSET Targets]

TypeOK ==
    /\ subs \in [Ids -> Handlers \cup {NoHandler}]
    /\ stream \in [Handlers -> StreamSet]
    /\ helpers \in [Handlers -> 0..MaxHelpers]
    /\ modify \in [Modifiers -> ModifySet]

Init ==
    /\ subs = [id \in Ids |-> NoHandler]
    /\ stream = [h \in Handlers |-> NewStream]
    /\ helpers = [h \in Handlers |-> 0]
    /\ modify \in [Modifiers -> [phase : {"idle"}, sub : {NoHandler},
                                 subscriber : Subscribers, add : {{}}, remove : {{}}]]

At(h, phase) == stream[h].phase = phase

(* The handler returns; deferred calls run next. *)
Return(h, why) ==
    stream' = [stream EXCEPT ![h] = [@ EXCEPT !.phase = "closing", !.wait = NoWait, !.why = why]]

-----------------------------------------------------------------------------
(* Opening and closing a stream.                                           *)

(* Mutant: an id that is taken goes to the newer stream. *)
RegisterOverwrites(h, id) ==
    subs' = [i \in Ids |-> IF i = id THEN h ELSE subs[i]]

Register(h, id) ==
    /\ id \in Ids => subs[id] = NoHandler
    /\ subs' = [i \in Ids |-> IF i = id THEN h ELSE subs[i]]

GatewaySubscribe(h, id, targets) ==
    /\ At(h, "new")
    /\ Register(h, id)
    /\ stream' = [stream EXCEPT ![h] = [@ EXCEPT !.phase = "loop", !.id = id,
                                                 !.targets = targets]]
    /\ UNCHANGED <<helpers, modify>>

(* registerSub refused the id. *)
Refuse(h, id) ==
    /\ At(h, "new")
    /\ subs[id] # NoHandler
    /\ stream' = [stream EXCEPT ![h] = [@ EXCEPT !.phase = "ended", !.id = id,
                                                 !.why = "already_exists"]]
    /\ UNCHANGED <<subs, helpers, modify>>

(* Mutant: the id is not given back. *)
UnregisterSubMissing(h) ==
    /\ At(h, "closing")
    /\ stream' = [stream EXCEPT ![h].phase = "ended"]
    /\ UNCHANGED <<subs, helpers, modify>>

UnregisterSub(h) ==
    /\ At(h, "closing")
    /\ subs' = [i \in Ids |-> IF i = stream[h].id /\ subs[i] = h THEN NoHandler ELSE subs[i]]
    /\ stream' = [stream EXCEPT ![h].phase = "ended"]
    /\ UNCHANGED <<helpers, modify>>

(* waitCtx is cancelled, and watchCtx with it. *)
Cancelled(wait) ==
    [wait EXCEPT !.cancelled = TRUE, !.ended = IF @ = "none" THEN "canceled" ELSE @]

(* The client leaves: the stream's context and those derived from it end.  *)
ClientLeaves(h) ==
    /\ stream[h].phase \notin {"new", "ended"} /\ ~stream[h].gone
    /\ stream' = [stream EXCEPT ![h] =
         [@ EXCEPT !.gone = TRUE,
                   !.wait = IF At(h, "wait") THEN Cancelled(stream[h].wait)
                            ELSE stream[h].wait]]
    /\ UNCHANGED <<subs, helpers, modify>>

(* A poll or a send failed: a storage error, or a target that no longer    *)
(* resolves or is no longer allowed.                                       *)
PollFails(h) ==
    /\ At(h, "loop")
    /\ Return(h, "failed")
    /\ UNCHANGED <<subs, helpers, modify>>

-----------------------------------------------------------------------------
(* The loop.                                                               *)

SeesCancel(h) ==
    /\ At(h, "loop") /\ stream[h].gone
    /\ Return(h, "canceled")
    /\ UNCHANGED <<subs, helpers, modify>>

(* Mutant: the target set is copied once. *)
IterateOldTargets(h, next) ==
    /\ At(h, "loop") /\ ~stream[h].gone
    /\ stream[h].targets = {} => next = "idle"
    /\ stream' = [stream EXCEPT ![h] =
         [@ EXCEPT !.seen = IF @ = {} THEN stream[h].targets ELSE @, !.phase = next,
                   !.wait = IF next = "wait" THEN NewWait ELSE NoWait]]
    /\ UNCHANGED <<subs, helpers, modify>>

(* One pass: the target set is copied, polled and sent.  Without targets,  *)
(* or with a throttled one, the handler sleeps in waitWake; when a batch   *)
(* was not final it goes round again; otherwise it enters waitOrWake.      *)
Iterate(h, next) ==
    /\ At(h, "loop") /\ ~stream[h].gone
    /\ stream[h].targets = {} => next = "idle"
    /\ stream' = [stream EXCEPT ![h] =
         [@ EXCEPT !.seen = stream[h].targets, !.phase = next,
                   !.wait = IF next = "wait" THEN NewWait ELSE NoWait]]
    /\ UNCHANGED <<subs, helpers, modify>>

(* waitWake.                                                               *)
IdleWakes(h) ==
    /\ At(h, "idle") /\ stream[h].wake
    /\ stream' = [stream EXCEPT ![h].phase = "loop", ![h].wake = FALSE]
    /\ UNCHANGED <<subs, helpers, modify>>

IdleTimer(h) ==
    /\ At(h, "idle")
    /\ stream' = [stream EXCEPT ![h].phase = "loop"]
    /\ UNCHANGED <<subs, helpers, modify>>

IdleCancel(h) ==
    /\ At(h, "idle") /\ stream[h].gone
    /\ Return(h, "canceled")
    /\ UNCHANGED <<subs, helpers, modify>>

-----------------------------------------------------------------------------
(* waitOrWake and WaitGatewaySubscribe.                                    *)

(* The helper of the current wait receives the token and cancels waitCtx.  *)
HelperWakes(h) ==
    /\ At(h, "wait") /\ stream[h].wait.listening /\ stream[h].wake
    /\ stream' = [stream EXCEPT ![h] =
         [@ EXCEPT !.wake = FALSE,
                   !.wait = [Cancelled(stream[h].wait) EXCEPT !.listening = FALSE]]]
    /\ UNCHANGED <<subs, helpers, modify>>

(* The deadline of watchCtx, unless it is done already.                    *)
WaitTimer(h) ==
    /\ At(h, "wait") /\ stream[h].wait.ended = "none"
    /\ stream' = [stream EXCEPT ![h].wait.ended = "deadline"]
    /\ UNCHANGED <<subs, helpers, modify>>

(* The first watcher goroutine to report fills the channel: its stream was *)
(* passed (or was so before it was started), or its context is done.       *)
WatcherReports(h, report) ==
    /\ At(h, "wait") /\ stream[h].wait.done = "none"
    /\ report = "event" \/ (report = stream[h].wait.ended /\ report # "none")
    /\ stream' = [stream EXCEPT ![h].wait.done = report]
    /\ UNCHANGED <<subs, helpers, modify>>

(* What WaitGatewaySubscribe returns is nil, or the error it received; the *)
(* deadline is swallowed unless waitCtx is done by now.                    *)
WaitError(wait) ==
    IF wait.done = "event" \/ (wait.done = "deadline" /\ ~wait.cancelled)
    THEN "none"
    ELSE wait.done

(* waitOrWake swallows a cancellation while the stream itself is alive; a  *)
(* helper that took no token is left behind with a done context.           *)
WaitReturns(h) ==
    LET error == WaitError(stream[h].wait)
    IN  /\ At(h, "wait") /\ stream[h].wait.done # "none"
        /\ IF error = "none" \/ (error = "canceled" /\ ~stream[h].gone)
           THEN stream' = [stream EXCEPT ![h].phase = "loop", ![h].wait = NoWait]
           ELSE Return(h, IF stream[h].gone THEN "canceled" ELSE error)
        /\ helpers' = [helpers EXCEPT ![h] =
             IF stream[h].wait.listening /\ @ < MaxHelpers THEN @ + 1 ELSE @]
        /\ UNCHANGED <<subs, modify>>

(* A cancelled helper is scheduled: with a token and a done context its    *)
(* select may take either.                                                 *)
LateHelperTakesToken(h) ==
    /\ helpers[h] > 0 /\ stream[h].wake
    /\ helpers' = [helpers EXCEPT ![h] = @ - 1]
    /\ stream' = [stream EXCEPT ![h].wake = FALSE]
    /\ UNCHANGED <<subs, modify>>

LateHelperExits(h) ==
    /\ helpers[h] > 0
    /\ helpers' = [helpers EXCEPT ![h] = @ - 1]
    /\ UNCHANGED <<subs, stream, modify>>

-----------------------------------------------------------------------------
(* ModifySubscription: the adds were resolved and authorized before; the   *)
(* lookup and the change are under different locks.                        *)

OwnedBy(h, subscriber) == SubscriberOf[h] = subscriber

(* Mutant: the owner of the stream is not compared. *)
LookupSubAnyOwner(m, id, subscriber, add, remove) ==
    /\ modify[m].phase = "idle"
    /\ subs[id] # NoHandler
    /\ modify' = [modify EXCEPT ![m] =
                    [phase |-> "apply", sub |-> subs[id], subscriber |-> subscriber,
                     add |-> add, remove |-> remove]]
    /\ UNCHANGED <<subs, stream, helpers>>

(* Without a stream of the caller under the id the call is NotFound.       *)
LookupSub(m, id, subscriber, add, remove) ==
    /\ modify[m].phase = "idle"
    /\ subs[id] # NoHandler /\ OwnedBy(subs[id], subscriber)
    /\ modify' = [modify EXCEPT ![m] =
                    [phase |-> "apply", sub |-> subs[id], subscriber |-> subscriber,
                     add |-> add, remove |-> remove]]
    /\ UNCHANGED <<subs, stream, helpers>>

(* Adds win over removes; the token is kept if the channel holds one. *)
ApplyModify(m) ==
    LET h == modify[m].sub
        targets == (stream[h].targets \ modify[m].remove) \cup modify[m].add
    IN
    /\ modify[m].phase = "apply"
    /\ stream' = [stream EXCEPT ![h] = [@ EXCEPT !.targets = targets, !.wake = TRUE]]
    /\ modify' = [modify EXCEPT ![m] = [@ EXCEPT !.phase = "idle", !.sub = NoHandler,
                                             !.add = {}, !.remove = {}]]
    /\ UNCHANGED <<subs, helpers>>

-----------------------------------------------------------------------------
(* What a handler and its goroutines do by themselves, timers left aside.  *)
Untimed(h) ==
    \/ \E next \in {"loop", "idle", "wait"} : Iterate(h, next)
    \/ SeesCancel(h) \/ IdleWakes(h) \/ IdleCancel(h)
    \/ HelperWakes(h) \/ WaitReturns(h) \/ UnregisterSub(h)
    \/ \E report \in {"event", "canceled", "deadline"} : WatcherReports(h, report)

Timer(h) == IdleTimer(h) \/ WaitTimer(h)

ClientNext ==
    \/ \E h \in Handlers :
          \/ \E id \in Ids \cup {NoId}, targets \in SUBSET Targets :
                GatewaySubscribe(h, id, targets)
          \/ \E id \in Ids : Refuse(h, id)
          \/ ClientLeaves(h)
    \/ \E m \in Modifiers :
          \/ \E id \in Ids, u \in Subscribers, add, remove \in SUBSET Targets :
                LookupSub(m, id, u, add, remove)
          \/ ApplyModify(m)

Next ==
    \/ ClientNext
    \/ \E h \in Handlers :
          \/ Untimed(h) \/ Timer(h) \/ PollFails(h)
          \/ LateHelperTakesToken(h) \/ LateHelperExits(h)

(* Goroutines that can run are scheduled, timers fire, and watchers report *)
(* a done context; no event has to arrive and no client has to act.        *)
Fairness ==
    \A h \in Handlers :
        /\ WF_vars(\E next \in {"loop", "idle", "wait"} : Iterate(h, next))
        /\ WF_vars(SeesCancel(h))
        /\ WF_vars(IdleWakes(h) \/ IdleTimer(h) \/ IdleCancel(h))
        /\ WF_vars(WaitTimer(h))
        /\ WF_vars(WatcherReports(h, "canceled") \/ WatcherReports(h, "deadline"))
        /\ WF_vars(WaitReturns(h))
        /\ WF_vars(UnregisterSub(h))

Spec == Init /\ [][Next]_vars /\ Fairness

-----------------------------------------------------------------------------
(* Properties.                                                             *)

Open(h) == stream[h].phase \in {"loop", "idle", "wait", "closing"}

(* The registry is exact: an open stream with an id is what the id finds,  *)
(* so two open streams never share an id, and a stream that ended is found *)
(* under no id, whatever closes, re-opens and modifies at the same time.   *)
RegistryExact ==
    /\ \A h \in Handlers : Open(h) /\ stream[h].id \in Ids => subs[stream[h].id] = h
    /\ \A id \in Ids : subs[id] # NoHandler => Open(subs[id]) /\ stream[subs[id]].id = id

(* gateway.proto:145-146: "The stream must belong to the same subscriber." *)
(* A target set changes only by a modify call of the stream's subscriber,  *)
(* also when the stream ended and its id was taken between the lookup and  *)
(* the change.                                                             *)
OwnStreamOnly ==
    [][\A h \in Handlers :
         ~At(h, "new") /\ stream'[h].targets # stream[h].targets =>
            \E m \in Modifiers : /\ modify[m].phase = "apply" /\ modify'[m].phase = "idle"
                                 /\ modify[m].sub = h
                                 /\ OwnedBy(h, modify[m].subscriber)]_vars

(* A change to the target set is polled, or the stream ends: no way of     *)
(* blocking, no lost token and no token taken for the wrong wait leaves    *)
(* the loop with the old set for ever.                                     *)
ModificationIsPolled ==
    \A h \in Handlers :
        (stream[h].targets # stream[h].seen)
            ~> (stream[h].targets = stream[h].seen \/ ~Open(h))

(* A client that leaves frees its id, wherever the handler was blocked.    *)
LeavingFreesId ==
    \A h \in Handlers : stream[h].gone ~> \A id \in Ids : subs[id] # h
=============================================================================
