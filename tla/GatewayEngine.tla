---------------------------- MODULE GatewayEngine ----------------------------
(***************************************************************************)
(* The unary calls of the gateway engine (pkg/gateway/engine.go): Open,    *)
(* GatewayCatchUp, GatewayAck, GatewayGetLatestSnapshot and the resolution *)
(* of targets for ModifySubscription.  A call takes its targets one after  *)
(* the other, asks the product whether each is there and allowed, and      *)
(* reads cursors, heads and events binding by binding; each of these reads *)
(* is a step.                                                              *)
(*                                                                         *)
(* One call is followed at a time.  Other sessions of the subscriber ack,  *)
(* the log is appended to and discarded, snapshots are put and the product *)
(* changes its mind between any two of its steps.                          *)
(***************************************************************************)
EXTENDS GatewayMessages, FiniteSetsExt, SequencesExt

CONSTANTS
    Subscriber,
    BindingsOf,     \* per target the product knows: records of key and stream
    Clients,        \* what sessions call: records of rpcs and the targets they ask for
    Limits, TotalLimits,
    MaxSeq

ASSUME GatewayAssumption ==
    /\ Subscriber \in Subscribers
    /\ DOMAIN BindingsOf \subseteq SyncTarget
    /\ \A t \in DOMAIN BindingsOf :
          /\ BindingsOf[t] \in Seq([key : BindingKeys, stream : Streams]) /\ BindingsOf[t] # <<>>
          /\ \A i, j \in DOMAIN BindingsOf[t] :    \* resolveBindings refuses duplicates
                BindingsOf[t][i].key = BindingsOf[t][j].key => i = j
    /\ \A q \in Clients : /\ q.rpcs \subseteq DOMAIN SyncGatewayService
                         /\ q.targets \in Seq(SyncTarget) /\ q.targets # <<>>
    /\ Limits \subseteq Nat /\ TotalLimits \subseteq Nat /\ MaxSeq \in Nat
    /\ PayloadTypes # {} /\ Payloads # {} /\ Checksums # {} /\ RejectionCodes # {}

VARIABLES
    client,         \* the session that is followed; never changes
    head, retained, cursor, request,    \* the sync service
    snapshots,      \* per stream: the seqs there are snapshots of
    allowed,        \* the targets the product resolves and authorizes
    call,           \* the call under way
    reply           \* what the last call returned

logVars == <<head, retained, cursor, request>>
vars == <<client, logVars, snapshots, allowed, call, reply>>

Session == "session"

Log == INSTANCE SyncService WITH
    Callers <- {Session}, SubscriberOf <- [c \in {Session} |-> Subscriber]

CursorOf(s) == cursor[<<Subscriber, s>>]

Idle == [stage |-> "idle"]
Failed == Absent

TypeOK ==
    /\ snapshots \in [Streams -> SUBSET (1..MaxSeq)]
    /\ allowed \subseteq DOMAIN BindingsOf
    /\ call.stage \in {"idle", "resolve", "commit", "snapshot", "cursor", "head", "ask", "answer"}
    /\ call # Idle => /\ call.rpc \in client.rpcs
                      /\ call.input \in SyncGatewayService[call.rpc].input
                      /\ call.bindings # <<>> \/ call.stage = "resolve"
    /\ reply # Absent => /\ reply.input \in SyncGatewayService[reply.rpc].input
                         /\ reply.output = Failed
                            \/ reply.output \in SyncGatewayService[reply.rpc].output

Init ==
    /\ client \in Clients
    /\ Log!Init
    /\ snapshots = [s \in Streams |-> {}] /\ allowed = DOMAIN BindingsOf
    /\ call = Idle /\ reply = Absent

-----------------------------------------------------------------------------
(* The requests.                                                           *)

TargetsOf(rpc, input) ==
    IF rpc \in {"open", "gatewayCatchUp"} THEN input.targets
    ELSE IF rpc = "modifySubscription" THEN input.addTargets
    ELSE <<input.target>>

Start(rpc, input) ==
    /\ call = Idle /\ rpc \in client.rpcs
    /\ call' = [rpc |-> rpc, input |-> input, stage |-> "resolve",
                targets |-> TargetsOf(rpc, input), bindings |-> <<>>, cursorRead |-> 0,
                state |-> Absent, selected |-> Absent, snapshotSeq |-> 0,
                states |-> <<>>, results |-> <<>>, rejected |-> <<>>]
    /\ reply' = Absent
    /\ UNCHANGED <<logVars, snapshots, allowed>>

Open(targets) == Start("open", [subscriberId |-> Subscriber, targets |-> targets])

GatewayCatchUp(targets, limit, totalLimit) ==
    Start("gatewayCatchUp", [subscriberId |-> Subscriber, targets |-> targets,
                             limitPerTarget |-> limit, totalLimitPerTarget |-> totalLimit])

GatewayAck(t, key, seq) ==
    Start("gatewayAck",
          [subscriberId |-> Subscriber, target |-> t, seq |-> seq, bindingKey |-> key])

GatewayGetLatestSnapshot(t, key, type) ==
    Start("gatewayGetLatestSnapshot",
          [subscriberId |-> Subscriber, target |-> t, payloadType |-> type,
           maxPayloadVersion |-> 0, bindingKey |-> key])

ModifySubscription(id, targets) ==
    Start("modifySubscription",
          [subscriberId |-> Subscriber, subscriptionId |-> id, addTargets |-> targets,
           removeTargets |-> <<>>])

-----------------------------------------------------------------------------
(* Returning.                                                              *)

(* Mutant: an ack is answered with nothing.                                *)
AckOutputEmpty(q) == [state |-> Absent]

AckOutput(q) == [state |-> q.states[1]]

SnapshotOf(q, seq) ==
    [target |-> q.input.target, seq |-> seq, payload |-> CHOOSE p \in Payloads : TRUE,
     payloadType |-> q.input.payloadType, payloadVersion |-> 1, compression |-> "NONE",
     checksum |-> CHOOSE x \in Checksums : TRUE, bindingKey |-> q.selected.key]

SnapshotOutput(q) == [state |-> q.states[1], snapshot |-> SnapshotOf(q, q.snapshotSeq)]

OutputOf(q) ==
    CASE q.rpc = "open" -> [targets |-> q.states]
      [] q.rpc = "gatewayCatchUp" -> [results |-> q.results]
      [] q.rpc = "modifySubscription" -> [added |-> q.states, rejected |-> q.rejected]
      [] q.rpc = "gatewayAck" -> AckOutput(q)
      [] q.rpc = "gatewayGetLatestSnapshot" -> SnapshotOutput(q)

Return(output) ==
    /\ call' = Idle
    /\ reply' = [rpc |-> call.rpc, input |-> call.input, output |-> output]

(* The current target is done with: the next one, or the end of the call.  *)
NextTarget(q) ==
    IF Len(q.targets) = 1 THEN Return(OutputOf(q))
    ELSE /\ call' = [q EXCEPT !.targets = Tail(@), !.stage = "resolve"]
         /\ UNCHANGED reply

Target == call.targets[1]

-----------------------------------------------------------------------------
(* The steps of a call.                                                    *)

(* A binding key may only be left out when there is one binding.           *)
SelectBinding(t, key) ==
    {b \in Range(BindingsOf[t]) :
        b.key = key \/ (key = NoBindingKey /\ Len(BindingsOf[t]) = 1)}

RejectionCode == CHOOSE code \in RejectionCodes : TRUE

(* Mutant: a target that is refused is passed over.                        *)
RejectSilently(q) == q

Reject(q) ==
    [q EXCEPT !.rejected = Append(@, [target |-> q.targets[1], code |-> RejectionCode])]

(* A target state that no binding has been added to.                       *)
NewState(t) ==
    [target |-> t, cursorSeq |-> 0, headSeq |-> 0, retainedSeqStart |-> 0, bindings |-> <<>>]

Reading(stage) ==
    [call EXCEPT !.bindings = BindingsOf[Target], !.state = NewState(Target), !.stage = stage]

(* The product is asked for the target.  A target that is refused fails    *)
(* the call, except that ModifySubscription lists it as rejected.          *)
Resolve ==
    /\ call.stage = "resolve"
    /\ IF Target \notin allowed
       THEN IF call.rpc = "modifySubscription"
            THEN NextTarget(Reject(call))
            ELSE Return(Failed)
       ELSE IF call.rpc \in {"gatewayAck", "gatewayGetLatestSnapshot"}
            THEN IF SelectBinding(Target, call.input.bindingKey) = {} THEN Return(Failed)
                 ELSE /\ \E b \in SelectBinding(Target, call.input.bindingKey) :
                            call' = [Reading(IF call.rpc = "gatewayAck" THEN "commit"
                                             ELSE "snapshot") EXCEPT !.selected = b]
                      /\ UNCHANGED reply
            ELSE call' = Reading("cursor") /\ UNCHANGED reply
    /\ UNCHANGED <<logVars, snapshots, allowed>>

SelectedStream == call.selected.stream

(* Mutant: an ack beyond the head counts as one of the head.               *)
CommitAckClipped ==
    /\ call.stage = "commit"
    /\ cursor' = [cursor EXCEPT ![<<Subscriber, SelectedStream>>] =
                     Max({@, Min({call.input.seq, head[SelectedStream]})})]
    /\ call' = [call EXCEPT !.stage = "cursor"]
    /\ UNCHANGED <<head, retained, request, reply, snapshots, allowed>>

(* Engine.Ack of the selected binding's stream.                            *)
CommitAck ==
    /\ call.stage = "commit"
    /\ \/ /\ Log!Commit(Subscriber, SelectedStream, call.input.seq)
          /\ call' = [call EXCEPT !.stage = "cursor"] /\ UNCHANGED reply
       \/ /\ call.input.seq <= CursorOf(SelectedStream)
          /\ call' = [call EXCEPT !.stage = "cursor"] /\ UNCHANGED <<reply, logVars>>
       \/ /\ call.input.seq > head[SelectedStream]
          /\ Return(Failed) /\ UNCHANGED logVars
    /\ UNCHANGED <<snapshots, allowed>>

ReadSnapshot ==
    /\ call.stage = "snapshot"
    /\ IF snapshots[SelectedStream] = {} THEN Return(Failed)
       ELSE /\ call' = [call EXCEPT !.stage = "cursor",
                                    !.snapshotSeq = Max(snapshots[SelectedStream])]
            /\ UNCHANGED reply
    /\ UNCHANGED <<logVars, snapshots, allowed>>

(* targetState: the cursor and then the head of every binding.             *)
ReadCursor ==
    /\ call.stage = "cursor"
    /\ call' = [call EXCEPT !.stage = "head", !.cursorRead = CursorOf(call.bindings[1].stream)]
    /\ UNCHANGED <<logVars, snapshots, allowed, reply>>

(* Mutant: a stream without events counts as one with boundary 0.          *)
AggregateUnset(state, b) ==
    LET first == state.bindings = <<>>
    IN  [target |-> state.target, bindings |-> Append(state.bindings, b),
         cursorSeq |-> IF first \/ b.cursorSeq < state.cursorSeq THEN b.cursorSeq
                       ELSE state.cursorSeq,
         headSeq |-> IF b.headSeq > state.headSeq THEN b.headSeq ELSE state.headSeq,
         retainedSeqStart |->
             IF first \/ b.retainedSeqStart < state.retainedSeqStart THEN b.retainedSeqStart
             ELSE state.retainedSeqStart]

(* A binding joins the state, and its numbers the aggregates: the least    *)
(* cursor, the greatest head, and the least boundary that is set.          *)
Aggregate(state, b) ==
    LET first == state.bindings = <<>>
        unset == state.retainedSeqStart = 0
    IN  [target |-> state.target, bindings |-> Append(state.bindings, b),
         cursorSeq |-> IF first \/ b.cursorSeq < state.cursorSeq THEN b.cursorSeq
                       ELSE state.cursorSeq,
         headSeq |-> IF b.headSeq > state.headSeq THEN b.headSeq ELSE state.headSeq,
         retainedSeqStart |->
             IF b.retainedSeqStart > 0 /\ (unset \/ b.retainedSeqStart < state.retainedSeqStart)
             THEN b.retainedSeqStart ELSE state.retainedSeqStart]

ReadHead ==
    LET b == call.bindings[1]
        shown == [bindingKey |-> b.key, cursorSeq |-> call.cursorRead,
                  headSeq |-> head[b.stream], retainedSeqStart |-> retained[b.stream]]
        q == [call EXCEPT !.state = Aggregate(@, shown)]
        done == [q EXCEPT !.states = Append(@, q.state)]
    IN  /\ call.stage = "head"
        /\ IF Len(call.bindings) > 1
           THEN call' = [q EXCEPT !.bindings = Tail(@), !.stage = "cursor"] /\ UNCHANGED reply
           ELSE IF call.rpc = "gatewayCatchUp"
           THEN call' = [done EXCEPT !.bindings = BindingsOf[Target], !.stage = "ask"]
                /\ UNCHANGED reply
           ELSE NextTarget(done)
        /\ UNCHANGED <<logVars, snapshots, allowed>>

AskBinding ==
    /\ call.stage = "ask"
    /\ Log!Ask(Session, call.bindings[1].stream, call.input.limitPerTarget,
               call.input.totalLimitPerTarget)
    /\ call' = [call EXCEPT !.stage = "answer"]
    /\ UNCHANGED <<snapshots, allowed, reply>>

GatewayBatchOf(t, key, from, answer) ==
    [target |-> t, bindingKey |-> key,
     events |-> [i \in 1..Len(answer.seqs) |->
                   [target |-> t, seq |-> answer.seqs[i], bindingKey |-> key,
                    payloadType |-> CHOOSE type \in PayloadTypes : TRUE, payloadVersion |-> 1]],
     seqStart |-> IF answer.seqs = <<>> THEN 0 ELSE answer.seqs[1],
     seq |-> IF answer.seqs = <<>> THEN answer.head ELSE from + Len(answer.seqs),
     final |-> answer.final]

AddResult(result) == [call EXCEPT !.results = Append(@, result)]

(* Every event is authorized again.                                        *)
AnswerBinding ==
    LET b == call.bindings[1]
        answer == request'[Session].answer
        result == [target |-> Target, bindingKey |-> b.key, state |-> Last(call.states),
                   status |-> IF answer.status = "ok" THEN "OK" ELSE "TOO_LONG",
                   batch |-> IF answer.status # "ok" THEN Absent
                             ELSE GatewayBatchOf(Target, b.key, request[Session].from, answer)]
        q == AddResult(result)
    IN  /\ call.stage = "answer"
        /\ Log!AnswerTooLong(Session) \/ Log!AnswerBatch(Session)
        /\ IF Target \notin allowed /\ answer.status = "ok" /\ answer.seqs # <<>>
           THEN Return(Failed)
           ELSE IF Len(call.bindings) > 1
           THEN call' = [q EXCEPT !.bindings = Tail(@), !.stage = "ask"] /\ UNCHANGED reply
           ELSE NextTarget(q)
        /\ UNCHANGED <<snapshots, allowed>>

-----------------------------------------------------------------------------
(* Everyone else.                                                          *)

AppendEvents(s, boundary) ==
    /\ head[s] < MaxSeq
    /\ Log!Publish(s, boundary)
    /\ UNCHANGED <<snapshots, allowed, call, reply>>

DiscardEvents(s, boundary) ==
    /\ Log!Discard(s, boundary)
    /\ UNCHANGED <<snapshots, allowed, call, reply>>

AckElsewhere(s, seq) ==
    /\ Log!Commit(Subscriber, s, seq)
    /\ UNCHANGED <<snapshots, allowed, call, reply>>

(* The product puts snapshots of states it has built from the log.         *)
PutSnapshot(s, seq) ==
    /\ seq \in 1..head[s] /\ "gatewayGetLatestSnapshot" \in client.rpcs
    /\ snapshots' = [snapshots EXCEPT ![s] = @ \cup {seq}]
    /\ UNCHANGED <<logVars, allowed, call, reply>>

ChangeAccess(t) ==
    /\ allowed' = IF t \in allowed THEN allowed \ {t} ELSE allowed \cup {t}
    /\ UNCHANGED <<logVars, snapshots, call, reply>>

StartNext ==
    \/ Open(client.targets)
    \/ \E limit \in Limits, totalLimit \in TotalLimits :
          GatewayCatchUp(client.targets, limit, totalLimit)
    \/ \E id \in SubscriptionIds : ModifySubscription(id, client.targets)
    \/ \E t \in Range(client.targets), key \in BindingKey :
          \/ \E seq \in 1..MaxSeq : GatewayAck(t, key, seq)
          \/ \E type \in PayloadTypes : GatewayGetLatestSnapshot(t, key, type)

CallNext ==
    Resolve \/ CommitAck \/ ReadSnapshot \/ ReadCursor \/ ReadHead \/ AskBinding \/ AnswerBinding

WorldNext ==
    \/ \E s \in Streams, n \in 1..(MaxSeq + 1) :
          AppendEvents(s, n) \/ DiscardEvents(s, n) \/ AckElsewhere(s, n) \/ PutSnapshot(s, n)
    \/ \E t \in Range(client.targets) \cap DOMAIN BindingsOf : ChangeAccess(t)

Next == (StartNext \/ CallNext \/ WorldNext) /\ UNCHANGED client

Spec == Init /\ [][Next]_vars

-----------------------------------------------------------------------------
(* Properties.                                                             *)

Returned(rpc) == reply # Absent /\ reply.rpc = rpc /\ reply.output # Failed

(* All target states in what the last call returned.                       *)
RepliedStates ==
    CASE Returned("open") -> Range(reply.output.targets)
      [] Returned("modifySubscription") -> Range(reply.output.added)
      [] Returned("gatewayCatchUp") -> {r.state : r \in Range(reply.output.results)}
      [] Returned("gatewayAck") \/ Returned("gatewayGetLatestSnapshot") -> {reply.output.state}
      [] OTHER -> {}

(* Although cursor and head are read in two steps, no client is shown a    *)
(* cursor beyond the head next to it.                                      *)
CursorsShownWithinHead ==
    \A state \in RepliedStates : \A b \in Range(state.bindings) : b.cursorSeq <= b.headSeq

(* The top-level numbers are the least cursor, the greatest head and the   *)
(* least boundary of the bindings that have one.                           *)
AggregatesExact ==
    \A state \in RepliedStates :
        LET boundaries == {b.retainedSeqStart : b \in Range(state.bindings)} \ {0}
        IN  /\ state.cursorSeq = Min({b.cursorSeq : b \in Range(state.bindings)})
            /\ state.headSeq = Max({b.headSeq : b \in Range(state.bindings)})
            /\ state.retainedSeqStart = IF boundaries = {} THEN 0 ELSE Min(boundaries)

BindingIn(state, key) == CHOOSE b \in Range(state.bindings) : b.bindingKey = key

(* A catch-up answers for every binding of every target it was asked for,  *)
(* in that order, or fails as a whole.                                     *)
CatchUpComplete ==
    Returned("gatewayCatchUp") =>
        [i \in 1..Len(reply.output.results) |->
            <<reply.output.results[i].target, reply.output.results[i].bindingKey>>]
        = FlattenSeq([i \in 1..Len(reply.input.targets) |->
            LET t == reply.input.targets[i]
            IN  [j \in 1..Len(BindingsOf[t]) |-> <<t, BindingsOf[t][j].key>>]])

(* The batch of a result starts after the cursor, and a final one reaches  *)
(* the head, that are shown in its state, which was read before it.        *)
BatchFitsState ==
    Returned("gatewayCatchUp") =>
        \A r \in Range(reply.output.results) : r.batch # Absent =>
            LET b == BindingIn(r.state, r.bindingKey)
            IN  /\ r.batch.events # <<>> => r.batch.seqStart > b.cursorSeq
                /\ r.batch.final => r.batch.seq >= b.headSeq

(* Every target that was to be added is either accepted or rejected, and   *)
(* none is lost or reported twice.                                         *)
EveryTargetReported ==
    Returned("modifySubscription") =>
        LET reported == [i \in 1..Len(reply.output.added) |-> reply.output.added[i].target]
                        \o [i \in 1..Len(reply.output.rejected) |-> reply.output.rejected[i].target]
        IN  \A t \in Range(reported) \cup Range(reply.input.addTargets) :
                Cardinality({i \in 1..Len(reported) : reported[i] = t})
                = Cardinality({i \in 1..Len(reply.input.addTargets) : reply.input.addTargets[i] = t})

SelectedIn(input) == CHOOSE b \in SelectBinding(input.target, input.bindingKey) : TRUE

(* The state in the answer to an ack covers the ack, also when it changed  *)
(* nothing because the cursor was there already.                           *)
AckShown ==
    Returned("gatewayAck") =>
        BindingIn(reply.output.state, SelectedIn(reply.input).key).cursorSeq >= reply.input.seq

(* A snapshot never goes beyond the head that is shown with it.            *)
SnapshotWithinHead ==
    Returned("gatewayGetLatestSnapshot") =>
        reply.output.snapshot.seq
            <= BindingIn(reply.output.state, reply.output.snapshot.bindingKey).headSeq

(* What a client is shown of a target is consistent, however many reads it *)
(* took while others acked, appended and put snapshots: cursors within     *)
(* heads, aggregates that are those of the bindings shown, and a batch or  *)
(* a snapshot that fits.  The numbers need never have held together: an    *)
(* old cursor may stand beside a newer head.                               *)
StatesShownFit ==
    CursorsShownWithinHead /\ AggregatesExact /\ BatchFitsState /\ SnapshotWithinHead

(* Every target and every binding that was asked about is answered for,    *)
(* once, or the call fails as a whole.                                     *)
EveryTargetAnswered == EveryTargetReported /\ CatchUpComplete
=============================================================================
