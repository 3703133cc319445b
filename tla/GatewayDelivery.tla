--------------------------- MODULE GatewayDelivery ---------------------------
(***************************************************************************)
(* The delivery loop of one GatewaySubscribe stream                        *)
(* (pkg/gateway/transport/grpc/server.go): it polls its targets through    *)
(* the gateway engine, decides per binding what to send, and waits.        *)
(* Between any two of its steps events are appended and discarded, the     *)
(* client takes frames, applies and acks, targets are added and removed,   *)
(* and the product changes its mind about who may read what.               *)
(*                                                                         *)
(* Below the loop is the sync service (SyncService), which the core engine *)
(* implements.  The state of a target is read in one step here; the module *)
(* GatewayEngine takes it apart.  LiveSubscription has the registry, the   *)
(* wake-up token and the locks that are abstracted here.                   *)
(*                                                                         *)
(* The client applies a batch that continues what it has, restores a       *)
(* snapshot that reaches the boundary when told TOO_LONG, and acks what it *)
(* applied.  A frame of a target it has removed may be dropped.            *)
(*                                                                         *)
(* Bounds: the events of a subscription per stream, MaxWire frames under   *)
(* way (Send blocks on a full flow-control window).                        *)
(***************************************************************************)
EXTENDS GatewayMessages, FiniteSetsExt, SequencesExt

CONSTANTS
    Targets,        \* the targets of all subscriptions
    BindingsOf,     \* per target: its bindings as records of key and stream
    Subscriber,     \* the subscriber that holds the stream
    Subscriptions,  \* the subscriptions of which one is followed
    MaxWire

(* A subscription is what its request says (targets, the limits of a batch *)
(* and of what may be out per target, 0 for none) and what its world does: *)
(* which targets the client adds and removes, which the product allows and *)
(* forbids, which the client never stops acking, how many events there are *)
(* per stream, and whether it lasts for a heartbeat interval.              *)
SubscriptionSet ==
    [targets : SUBSET Targets, batchLimit : Nat \ {0}, maxInFlight : Nat,
     removable : SUBSET Targets, revocable : SUBSET Targets, acking : SUBSET Targets,
     events : Nat, heartbeats : BOOLEAN]

ASSUME DeliveryAssumption ==
    /\ Targets \subseteq SyncTarget /\ IsFiniteSet(Targets)
    /\ \A t \in Targets :    \* resolveBindings refuses a target without bindings
          BindingsOf[t] \in Seq([key : BindingKeys, stream : Streams]) /\ BindingsOf[t] # <<>>
    /\ PayloadTypes # {} /\ MaxWire \in Nat
    /\ Subscriber \in Subscribers
    /\ Subscriptions \subseteq SubscriptionSet

VARIABLES
    subscription,   \* the one that is followed; never changes
    head, retained, cursor, request,    \* the sync service
    phase,          \* what the loop does next
    targets,        \* liveSub.targets
    allowed,        \* the targets the product resolves and authorizes
    pass,           \* the targets of the current pass
    todo,           \* bindings of the pass that are not polled yet
    states,         \* per target: the state read in this pass
    delivered, tooLongSent,
    wake,           \* is there a wake-up token
    overdue,        \* has the heartbeat interval passed since the last heartbeat
    wire,           \* frames sent and not yet taken by the client
    applied,        \* per binding: the last seq the client applied
    lostAt          \* history: the cursor the last TOO_LONG was sent for

logVars == <<head, retained, cursor, request>>
loopVars == <<phase, pass, todo, states, delivered, tooLongSent>>
vars == <<subscription, logVars, loopVars, targets, allowed, wake, overdue, wire, applied, lostAt>>

Never == -1

MaxSeq == Max({q.events : q \in Subscriptions})

BatchLimit == subscription.batchLimit
MaxInFlight == subscription.maxInFlight

(* A binding of a target, as the loop's maps are keyed by it.              *)
KeysOf(t) == {<<t, BindingsOf[t][i].key>> : i \in 1..Len(BindingsOf[t])}
DeliveryKeys == UNION {KeysOf(t) : t \in Targets}
StreamOf(k) == (CHOOSE b \in Range(BindingsOf[k[1]]) : b.key = k[2]).stream

Log == INSTANCE SyncService WITH
    Callers <- DeliveryKeys, SubscriberOf <- [k \in DeliveryKeys |-> Subscriber],
    Limits <- {q.batchLimit : q \in Subscriptions}, TotalLimits <- {0}

CursorOf(k) == cursor[<<Subscriber, StreamOf(k)>>]

(* No seq is beyond the events there are.                                  *)
SeqSet == 0..subscription.events

TypeOK ==
    /\ subscription \in Subscriptions
    /\ head \in [Streams -> SeqSet] /\ retained \in [Streams -> 0..(subscription.events + 1)]
    /\ cursor \in [Subscribers \X Streams -> SeqSet]
    /\ phase \in {"start", "idle", "poll", "handle", "throttled", "wait", "blocked", "ended"}
    /\ targets \subseteq Targets /\ allowed \subseteq Targets /\ pass \subseteq Targets
    /\ todo \subseteq DeliveryKeys
    /\ states \in [Targets -> Optional(TargetState)]
    /\ delivered \in [DeliveryKeys -> SeqSet] /\ tooLongSent \in [DeliveryKeys -> BOOLEAN]
    /\ wake \in BOOLEAN /\ overdue \in BOOLEAN
    /\ wire \in Seq(SyncGatewayService.gatewaySubscribe.output) /\ Len(wire) <= MaxWire
    /\ applied \in [DeliveryKeys -> SeqSet]
    /\ lostAt \in [DeliveryKeys -> SeqSet \cup {Never}]

Init ==
    /\ Log!Init
    /\ subscription \in Subscriptions
    /\ phase = "start" /\ targets = subscription.targets /\ allowed = Targets
    /\ pass = {} /\ todo = {}
    /\ states = [t \in Targets |-> Absent]
    /\ delivered = [k \in DeliveryKeys |-> 0] /\ tooLongSent = [k \in DeliveryKeys |-> FALSE]
    /\ wake = FALSE /\ overdue = FALSE /\ wire = <<>>
    /\ applied = [k \in DeliveryKeys |-> 0]
    /\ lostAt = [k \in DeliveryKeys |-> Never]

-----------------------------------------------------------------------------
(* One pass: prune, then poll target by target.                            *)

HeartbeatFrame ==
    [status |-> "NONE", batch |-> Absent, state |-> Absent, heartbeat |-> TRUE,
     bindingKey |-> NoBindingKey]

Room(n) == Len(wire) + n <= MaxWire

(* Delivery state of targets that are gone is dropped; without targets the *)
(* stream is kept alive by heartbeats.                                     *)
StartPass ==
    /\ phase = "start"
    /\ pass' = targets
    /\ delivered' = [k \in DeliveryKeys |-> IF k[1] \in targets THEN delivered[k] ELSE 0]
    /\ tooLongSent' = [k \in DeliveryKeys |-> k[1] \in targets /\ tooLongSent[k]]
    /\ states' = [t \in Targets |-> Absent]
    /\ todo' = UNION {KeysOf(t) : t \in targets}
    /\ IF targets = {}
       THEN /\ phase' = "idle"
            /\ overdue => Room(1)
            /\ wire' = IF overdue THEN Append(wire, HeartbeatFrame) ELSE wire
            /\ overdue' = FALSE
       ELSE phase' = "poll" /\ UNCHANGED <<wire, overdue>>
    /\ UNCHANGED <<logVars, targets, allowed, wake, applied, lostAt>>

BindingState(k) ==
    [bindingKey |-> k[2], cursorSeq |-> CursorOf(k), headSeq |-> head[StreamOf(k)],
     retainedSeqStart |-> retained[StreamOf(k)]]

(* The least cursor, the greatest head and the least boundary that is set. *)
StateOf(t) ==
    LET bindings == [i \in 1..Len(BindingsOf[t]) |-> BindingState(<<t, BindingsOf[t][i].key>>)]
        boundaries == {b.retainedSeqStart : b \in Range(bindings)} \ {0}
    IN  [target |-> t, bindings |-> bindings,
         cursorSeq |-> Min({b.cursorSeq : b \in Range(bindings)}),
         headSeq |-> Max({b.headSeq : b \in Range(bindings)}),
         retainedSeqStart |-> IF boundaries = {} THEN 0 ELSE Min(boundaries)]

BusyPolling == \E k \in DeliveryKeys : request[k].phase = "asked"

(* Mutant: a target that is not allowed is left out of the pass.           *)
ReadStateSkips(t) ==
    /\ phase = "poll" /\ t \in pass /\ states[t] = Absent /\ ~BusyPolling
    /\ \A k \in todo : states[k[1]] = Absent
    /\ IF t \in allowed
       THEN states' = [states EXCEPT ![t] = StateOf(t)] /\ UNCHANGED <<phase, pass, todo>>
       ELSE /\ pass' = pass \ {t} /\ todo' = todo \ KeysOf(t)
            /\ phase' = IF todo' = {} THEN "wait" ELSE phase
            /\ UNCHANGED states
    /\ UNCHANGED <<logVars, delivered, tooLongSent, targets, allowed, wake, overdue, wire,
                   applied, lostAt>>

(* The targets are polled one after the other, in no fixed order; one that *)
(* is not resolved or authorized ends the stream.                          *)
ReadState(t) ==
    /\ phase = "poll" /\ t \in pass /\ states[t] = Absent /\ ~BusyPolling
    /\ \A k \in todo : states[k[1]] = Absent
    /\ IF t \in allowed
       THEN states' = [states EXCEPT ![t] = StateOf(t)] /\ UNCHANGED phase
       ELSE phase' = "ended" /\ UNCHANGED states
    /\ UNCHANGED <<logVars, pass, todo, delivered, tooLongSent, targets, allowed, wake, overdue,
                   wire, applied, lostAt>>

(* Mutant: polls from what was delivered and not from the committed cursor.*)
AskBindingFromDelivered(k) ==
    /\ phase = "poll" /\ k \in todo /\ states[k[1]] # Absent /\ ~BusyPolling
    /\ request' = [request EXCEPT ![k] = Log!Asked(StreamOf(k), BatchLimit, 0, delivered[k])]
    /\ todo' = todo \ {k}
    /\ UNCHANGED <<head, retained, cursor, phase, pass, states, delivered, tooLongSent, targets,
                   allowed, wake, overdue, wire, applied, lostAt>>

AskBinding(k) ==
    /\ phase = "poll" /\ k \in todo /\ states[k[1]] # Absent /\ ~BusyPolling
    /\ Log!Ask(k, StreamOf(k), BatchLimit, 0)
    /\ todo' = todo \ {k}
    /\ UNCHANGED <<phase, pass, states, delivered, tooLongSent, targets, allowed, wake, overdue,
                   wire, applied, lostAt>>

(* The events of a batch are authorized again; the last answer ends the    *)
(* poll.                                                                   *)
AnswerBinding(k) ==
    /\ phase = "poll"
    /\ Log!AnswerTooLong(k) \/ Log!AnswerBatch(k)
    /\ LET answer == request'[k].answer
           refused == k[1] \notin allowed /\ answer.status = "ok" /\ answer.seqs # <<>>
       IN  phase' = IF refused THEN "ended" ELSE IF todo = {} THEN "handle" ELSE phase
    /\ UNCHANGED <<pass, todo, states, delivered, tooLongSent, targets, allowed, wake, overdue,
                   wire, applied, lostAt>>

-----------------------------------------------------------------------------
(* What the loop makes of the answers.                                     *)

AnswerOf(k) == request[k].answer

(* Mutant: a batch always counts as full.                                  *)
BatchSeqFull(answer, from) == IF answer.seqs = <<>> THEN answer.head ELSE from + BatchLimit

(* The last seq of a batch; an empty one stands for the whole log.         *)
BatchSeq(answer, from) == IF answer.seqs = <<>> THEN answer.head ELSE from + Len(answer.seqs)

GatewayBatchOf(k) ==
    LET answer == AnswerOf(k)
    IN  [target |-> k[1], bindingKey |-> k[2],
         events |-> [i \in 1..Len(answer.seqs) |->
                       [target |-> k[1], seq |-> answer.seqs[i], bindingKey |-> k[2],
                        payloadType |-> CHOOSE type \in PayloadTypes : TRUE,
                        payloadVersion |-> 1]],
         seqStart |-> IF answer.seqs = <<>> THEN 0 ELSE answer.seqs[1],
         seq |-> BatchSeq(answer, request[k].from), final |-> answer.final]

Frame(k) ==
    [status |-> IF AnswerOf(k).status = "ok" THEN "OK" ELSE "TOO_LONG",
     batch |-> IF AnswerOf(k).status = "ok" THEN GatewayBatchOf(k) ELSE Absent,
     state |-> states[k[1]], heartbeat |-> FALSE, bindingKey |-> k[2]]

(* The cursor in the state that was read before the batch.                 *)
StateCursor(k) ==
    LET bindings == Range(states[k[1]].bindings)
    IN  (CHOOSE b \in bindings : b.bindingKey = k[2]).cursorSeq

(* A cursor at or beyond what was delivered takes its place, and a         *)
(* TOO_LONG may be sent again.                                             *)
CaughtUp(k) == StateCursor(k) >= delivered[k]
Delivered(k) == IF CaughtUp(k) THEN StateCursor(k) ELSE delivered[k]

(* Mutant: a TOO_LONG is sent once and never again.                        *)
TooLongSentForever(k) == tooLongSent[k]

TooLongSent(k) == ~CaughtUp(k) /\ tooLongSent[k]

(* Mutant: lets one more event out than the window holds.                  *)
ThrottledLate(k) ==
    /\ MaxInFlight > 0 /\ Delivered(k) > StateCursor(k)
    /\ Delivered(k) - StateCursor(k) > MaxInFlight

Throttled(k) ==
    /\ MaxInFlight > 0 /\ Delivered(k) > StateCursor(k)
    /\ Delivered(k) - StateCursor(k) >= MaxInFlight

TellsTooLong(k) == ~Throttled(k) /\ AnswerOf(k).status = "too_long" /\ ~TooLongSent(k)

SendsBatch(k) ==
    /\ ~Throttled(k) /\ AnswerOf(k).status = "ok" /\ AnswerOf(k).seqs # <<>>
    /\ BatchSeq(AnswerOf(k), request[k].from) > Delivered(k)

(* Mutant: no heartbeat while the client keeps the stream waiting.         *)
SendsHeartbeatUnthrottled(keys) == overdue /\ \A k \in keys : ~Throttled(k)

(* When the interval is over and nothing else goes out.                    *)
SendsHeartbeat(keys) == overdue /\ \A k \in keys : ~TellsTooLong(k) /\ ~SendsBatch(k)

(* All results of a pass are looked at, in the order of the poll, which is *)
(* none in particular.                                                     *)
Handle ==
    LET keys == UNION {KeysOf(t) : t \in pass}
        sending == {k \in keys : TellsTooLong(k) \/ SendsBatch(k)}
        heartbeat == SendsHeartbeat(keys)
    IN  /\ phase = "handle"
        /\ Room(Cardinality(sending) + IF heartbeat THEN 1 ELSE 0)
        /\ \E order \in SetToSeqs(sending) :
              wire' = wire \o [i \in 1..Len(order) |-> Frame(order[i])]
                           \o IF heartbeat THEN <<HeartbeatFrame>> ELSE <<>>
        /\ overdue' = (overdue /\ ~heartbeat)
        /\ delivered' = [k \in DeliveryKeys |->
             IF k \notin keys THEN delivered[k]
             ELSE IF SendsBatch(k) THEN BatchSeq(AnswerOf(k), request[k].from) ELSE Delivered(k)]
        /\ tooLongSent' = [k \in DeliveryKeys |->
             IF k \notin keys THEN tooLongSent[k] ELSE TooLongSent(k) \/ TellsTooLong(k)]
        /\ phase' = IF \E k \in keys : SendsBatch(k) /\ ~AnswerOf(k).final THEN "start"
                    ELSE IF \E k \in keys : Throttled(k) THEN "throttled" ELSE "wait"
        /\ lostAt' = [k \in DeliveryKeys |->
             IF k \in keys /\ TellsTooLong(k) THEN request[k].from ELSE lostAt[k]]
        /\ UNCHANGED <<logVars, pass, todo, states, targets, allowed, wake, applied>>

-----------------------------------------------------------------------------
(* Waiting.                                                                *)

WaitVars == <<logVars, pass, todo, states, delivered, tooLongSent, targets, allowed, wire,
              applied, lostAt>>

Ahead == {t \in pass : \E k \in KeysOf(t) : head[StreamOf(k)] > delivered[k]}

(* WaitGatewaySubscribe takes target after target, resolves and authorizes *)
(* it again, and returns at once when a head is beyond what was delivered. *)
EnterWait ==
    /\ phase = "wait"
    /\ \/ ~(pass \subseteq allowed) /\ phase' = "ended"
       \/ Ahead \cap allowed # {} /\ phase' = "start"
       \/ pass \subseteq allowed /\ Ahead = {} /\ phase' = "blocked"
    /\ UNCHANGED <<WaitVars, wake, overdue>>

WatcherFires ==
    /\ phase = "blocked" /\ Ahead # {}
    /\ phase' = "start"
    /\ UNCHANGED <<WaitVars, wake, overdue>>

Sleeping == phase \in {"blocked", "throttled", "idle"}

WaitTimeout ==
    /\ Sleeping
    /\ phase' = "start"
    /\ UNCHANGED <<WaitVars, wake, overdue>>

WakeUp ==
    /\ Sleeping /\ wake
    /\ phase' = "start" /\ wake' = FALSE
    /\ UNCHANGED <<WaitVars, overdue>>

LoopNext ==
    /\ \/ StartPass \/ Handle \/ EnterWait \/ WatcherFires \/ WaitTimeout \/ WakeUp
       \/ \E t \in Targets : ReadState(t)
       \/ \E k \in DeliveryKeys : AskBinding(k) \/ AnswerBinding(k)
    /\ UNCHANGED subscription

-----------------------------------------------------------------------------
(* Everyone else.                                                          *)

OtherVars == <<loopVars, wire, lostAt>>

AppendEvents(s, boundary) ==
    /\ head[s] < subscription.events
    /\ \E k \in DeliveryKeys : k[1] \in subscription.targets /\ StreamOf(k) = s
    /\ Log!Publish(s, boundary)
    /\ UNCHANGED <<OtherVars, targets, allowed, wake, overdue, applied>>

DiscardEvents(s, boundary) ==
    /\ Log!Discard(s, boundary)
    /\ UNCHANGED <<OtherVars, targets, allowed, wake, overdue, applied>>

(* ModifySubscription: the set changes under its mutex, then the loop is   *)
(* woken.                                                                  *)
RemoveTarget(t) ==
    /\ t \in subscription.removable \cap targets
    /\ targets' = targets \ {t} /\ wake' = TRUE
    /\ UNCHANGED <<logVars, OtherVars, allowed, overdue, applied>>

AddTarget(t) ==
    /\ t \in (subscription.removable \cap allowed) \ targets
    /\ targets' = targets \cup {t} /\ wake' = TRUE
    /\ UNCHANGED <<logVars, OtherVars, allowed, overdue, applied>>

(* The product's hooks change their answer.                                *)
ChangeAccess(t) ==
    /\ t \in subscription.revocable
    /\ allowed' = IF t \in allowed THEN allowed \ {t} ELSE allowed \cup {t}
    /\ UNCHANGED <<logVars, OtherVars, targets, wake, overdue, applied>>

HeartbeatDue ==
    /\ subscription.heartbeats /\ ~overdue /\ overdue' = TRUE
    /\ UNCHANGED <<logVars, OtherVars, targets, allowed, wake, applied>>

KeyOfFrame(f) == <<f.state.target, f.bindingKey>>

(* The client takes the next frame: it applies the events it does not      *)
(* have, or restores a snapshot that reaches the boundary.                 *)
TakeFrame ==
    LET f == wire[1]
        k == KeyOfFrame(f)
        s == StreamOf(k)
    IN  /\ wire # <<>> /\ wire' = Tail(wire)
        /\ IF f.heartbeat THEN UNCHANGED applied
           ELSE \/ /\ f.status = "OK"
                   /\ applied' = [applied EXCEPT ![k] = Max({@, f.batch.seq})]
                \/ /\ f.status = "TOO_LONG"
                   /\ \E seq \in Max({retained[s] - 1, 0})..head[s] :
                         applied' = [applied EXCEPT ![k] = Max({@, seq})]
                \/ k[1] \notin targets /\ UNCHANGED applied
        /\ UNCHANGED <<subscription, logVars, loopVars, targets, allowed, wake, overdue, lostAt>>

(* Mutant: acks the head it was told of.                                   *)
AckHead(k) ==
    /\ Log!Commit(Subscriber, StreamOf(k), head[StreamOf(k)])
    /\ UNCHANGED <<subscription, OtherVars, targets, allowed, wake, overdue, applied>>

AckApplied(k) ==
    /\ Log!Commit(Subscriber, StreamOf(k), applied[k])
    /\ UNCHANGED <<subscription, OtherVars, targets, allowed, wake, overdue, applied>>

ClientNext == TakeFrame \/ \E k \in DeliveryKeys : AckApplied(k)

WorldNext ==
    /\ \/ \E s \in Streams, boundary \in 1..(MaxSeq + 1) :
             AppendEvents(s, boundary) \/ DiscardEvents(s, boundary)
       \/ \E t \in Targets : RemoveTarget(t) \/ AddTarget(t) \/ ChangeAccess(t)
       \/ HeartbeatDue
    /\ UNCHANGED subscription

Next == LoopNext \/ ClientNext \/ WorldNext

Spec == Init /\ [][Next]_vars

(* The loop's goroutine runs whenever it can, its timers expire, and the   *)
(* client keeps taking frames, and acking some targets at least.           *)
LiveSpec ==
    /\ Spec
    /\ WF_vars(LoopNext) /\ WF_vars(TakeFrame)
    /\ \A k \in DeliveryKeys : WF_vars(k[1] \in subscription.acking /\ AckApplied(k))

-----------------------------------------------------------------------------
(* Properties.                                                             *)

(* However far the client is behind, at most one batch beyond its cursor   *)
(* is ever out: the loop polls from the committed cursor every time.       *)
OneBatchAhead == \A k \in DeliveryKeys : delivered[k] <= CursorOf(k) + BatchLimit

(* The client can always use the batch that comes next: it starts no later *)
(* than the event after those it has.                                      *)
NextBatchFits ==
    wire # <<>> /\ wire[1].batch # Absent =>
        wire[1].batch.seqStart <= applied[KeyOfFrame(wire[1])] + 1

(* Frames that a step adds to the wire.                                    *)
NewFrames == IF Len(wire') > Len(wire) THEN {wire'[i] : i \in (Len(wire) + 1)..Len(wire')} ELSE {}

NewBatch(k) == {f \in NewFrames : f.batch # Absent /\ KeyOfFrame(f) = k}

(* No batch goes out for a binding that has MaxInFlight events out and not *)
(* acked, by the cursor of that very moment.                               *)
SendsWithinWindow ==
    [][\A k \in DeliveryKeys : NewBatch(k) # {} /\ MaxInFlight > 0 =>
          delivered[k] - CursorOf(k) < MaxInFlight]_vars

(* After TOO_LONG the binding gets no batch until its cursor has moved     *)
(* beyond the one that was lost.  TOO_LONG itself may be told again, on    *)
(* every pass whose cursor is at or beyond what was delivered.             *)
TooLongStopsDelivery ==
    [][\A k \in DeliveryKeys : \A f \in NewBatch(k) : lostAt[k] < f.batch.seqStart - 1]_vars

(* Every event of a target the client keeps acking reaches it, as a part   *)
(* of a batch or of a snapshot, as long as the target stays on the stream  *)
(* and whatever becomes of the other targets.                              *)
EventsArrive ==
    \A k \in DeliveryKeys, seq \in 1..MaxSeq :
        (head[StreamOf(k)] >= seq /\ k[1] \in subscription.acking \cap targets)
            ~> (applied[k] >= seq \/ k[1] \notin targets \/ phase = "ended")

(* A stream is never silent for long: when the heartbeat interval is over, *)
(* a frame goes out, whatever the loop is waiting for.                     *)
NeverSilent == overdue /\ wire = <<>> ~> wire # <<>> \/ phase = "ended"

(* A target that is not allowed any more ends the stream, unless it is     *)
(* removed or allowed again first.                                         *)
RevokedEnds ==
    \A t \in Targets :
        (t \in targets /\ t \notin allowed)
            ~> (phase = "ended" \/ t \notin targets \/ t \in allowed)
=============================================================================
