----------------------------- MODULE RawSubscribe -----------------------------
(***************************************************************************)
(* The Subscribe loop of the raw sync log service                          *)
(* (pkg/synclog/transport/grpc/server.go): one stream, one subscriber, no  *)
(* wake-up channel.  It catches up, sends what is new, and waits in the    *)
(* stream watcher of the storage for the head to pass the one it has seen. *)
(*                                                                         *)
(* The sync service is below, and around the loop events are appended and  *)
(* discarded and a consumer takes frames and acks, as in GatewayDelivery.  *)
(*                                                                         *)
(* Bounds: MaxSeq events, MaxWire frames under way.                        *)
(***************************************************************************)
EXTENDS SyncLogMessages, FiniteSetsExt, SequencesExt

CONSTANTS
    Subscriber, Tailed,     \* who subscribes to which stream
    BatchLimit,             \* batch_limit
    MaxInFlight,            \* max_in_flight; 0 is no limit
    MaxSeq, MaxWire

(* What the proofs need of the constants; every instance assumes it.       *)
SubscribeAssumption ==
    /\ Subscriber \in Subscribers /\ Tailed \in Streams /\ PayloadTypes # {}
    /\ BatchLimit \in Nat \ {0} /\ MaxInFlight \in Nat
    /\ MaxSeq \in Nat /\ MaxWire \in Nat

VARIABLES
    head, retained, cursor, request,    \* the sync service
    phase,          \* what the loop does next
    result,         \* the answer of the last catch-up, as a response
    delivered, tooLongSent,
    overdue,        \* has the heartbeat interval passed since the last heartbeat
    wire,           \* frames sent and not yet taken by the consumer
    applied         \* the last seq the consumer applied

logVars == <<head, retained, cursor, request>>
loopVars == <<phase, result, delivered, tooLongSent>>
vars == <<logVars, loopVars, overdue, wire, applied>>

Log == INSTANCE SyncService WITH
    Callers <- {Tailed}, SubscriberOf <- [s \in {Tailed} |-> Subscriber],
    Limits <- {BatchLimit}, TotalLimits <- {0}

Committed == cursor[<<Subscriber, Tailed>>]

TypeOK ==
    /\ phase \in {"catchUp", "answer", "handle", "wait", "blocked"}
    /\ result \in Optional(SyncLogService.catchUp.output)
    /\ delivered \in 0..MaxSeq /\ tooLongSent \in BOOLEAN /\ overdue \in BOOLEAN
    /\ wire \in Seq(SyncLogService.subscribe.output) /\ Len(wire) <= MaxWire
    /\ applied \in 0..MaxSeq

Init ==
    /\ Log!Init
    /\ phase = "catchUp" /\ result = Absent
    /\ delivered = 0 /\ tooLongSent = FALSE /\ overdue = FALSE
    /\ wire = <<>> /\ applied = 0

-----------------------------------------------------------------------------
(* The loop.                                                               *)

CatchUp ==
    /\ phase = "catchUp" /\ phase' = "answer"
    /\ Log!Ask(Tailed, Tailed, BatchLimit, 0)
    /\ UNCHANGED <<result, delivered, tooLongSent, overdue, wire, applied>>

PBCursor(seq) == [streamId |-> Tailed, seq |-> seq]

(* Mutant: a batch always counts as full.                                  *)
PBBatchFull(from, answer) ==
    [events |-> [i \in 1..Len(answer.seqs) |->
                   [streamId |-> Tailed, seq |-> answer.seqs[i],
                    payloadType |-> CHOOSE type \in PayloadTypes : TRUE, payloadVersion |-> 1,
                    idempotencyKey |-> NoKey]],
     seqStart |-> IF answer.seqs = <<>> THEN 0 ELSE answer.seqs[1],
     seq |-> from + BatchLimit, final |-> answer.final]

PBBatch(from, answer) ==
    [events |-> [i \in 1..Len(answer.seqs) |->
                   [streamId |-> Tailed, seq |-> answer.seqs[i],
                    payloadType |-> CHOOSE type \in PayloadTypes : TRUE, payloadVersion |-> 1,
                    idempotencyKey |-> NoKey]],
     seqStart |-> IF answer.seqs = <<>> THEN 0 ELSE answer.seqs[1],
     seq |-> IF answer.seqs = <<>> THEN answer.head ELSE from + Len(answer.seqs),
     final |-> answer.final]

EmptyBatch == [events |-> <<>>, seqStart |-> 0, seq |-> 0, final |-> FALSE]

(* The cursor is the one the catch-up started from; the head is that of    *)
(* the answer.                                                             *)
CatchUpResponseOf(from, answer) ==
    [status |-> IF answer.status = "ok" THEN "OK" ELSE "TOO_LONG",
     batch |-> IF answer.status = "ok" THEN PBBatch(from, answer) ELSE EmptyBatch,
     cursor |-> PBCursor(from), head |-> PBCursor(head[Tailed]),
     retainedSeqStart |-> retained[Tailed]]

CatchUpReturns ==
    /\ phase = "answer" /\ phase' = "handle"
    /\ Log!AnswerTooLong(Tailed) \/ Log!AnswerBatch(Tailed)
    /\ result' = CatchUpResponseOf(request[Tailed].from, request'[Tailed].answer)
    /\ UNCHANGED <<delivered, tooLongSent, overdue, wire, applied>>

SubscribeResponseOf(r) ==
    [status |-> r.status, batch |-> r.batch, cursor |-> r.cursor, head |-> r.head,
     retainedSeqStart |-> r.retainedSeqStart, heartbeat |-> FALSE]

HeartbeatFrame ==
    [status |-> "NONE", batch |-> Absent, cursor |-> Absent, head |-> Absent,
     retainedSeqStart |-> 0, heartbeat |-> TRUE]

CaughtUp == result.cursor.seq >= delivered
Delivered == IF CaughtUp THEN result.cursor.seq ELSE delivered

(* Mutant: a TOO_LONG is sent once and never again.                        *)
TooLongSentForever == tooLongSent

TooLongSent == ~CaughtUp /\ tooLongSent

Throttled ==
    /\ MaxInFlight > 0 /\ Delivered > result.cursor.seq
    /\ Delivered - result.cursor.seq >= MaxInFlight

Send(frame) == Len(wire) < MaxWire /\ wire' = Append(wire, frame)

HandleThrottled ==
    /\ Throttled
    /\ tooLongSent' = TooLongSent /\ delivered' = Delivered /\ phase' = "wait"
    /\ UNCHANGED <<wire, overdue>>

HandleTooLong ==
    /\ ~Throttled /\ result.status = "TOO_LONG"
    /\ IF TooLongSent THEN UNCHANGED wire ELSE Send(SubscribeResponseOf(result))
    /\ tooLongSent' = TRUE /\ delivered' = Delivered /\ phase' = "wait"
    /\ UNCHANGED overdue

HasNews == result.status = "OK" /\ result.batch.events # <<>> /\ result.batch.seq > Delivered

HandleBatch ==
    /\ ~Throttled /\ HasNews
    /\ Send(SubscribeResponseOf(result))
    /\ tooLongSent' = TooLongSent /\ delivered' = result.batch.seq
    /\ phase' = IF result.batch.final THEN "wait" ELSE "catchUp"
    /\ UNCHANGED overdue

(* Nothing to send: the only place that sends heartbeats.                  *)
HandleIdle ==
    /\ ~Throttled /\ result.status = "OK" /\ ~HasNews
    /\ IF overdue THEN Send(HeartbeatFrame) ELSE UNCHANGED wire
    /\ tooLongSent' = TooLongSent /\ delivered' = Delivered /\ phase' = "wait"
    /\ overdue' = FALSE

Handle ==
    /\ phase = "handle"
    /\ HandleThrottled \/ HandleTooLong \/ HandleBatch \/ HandleIdle
    /\ UNCHANGED <<logVars, result, applied>>

(* waitStream: at once when a heartbeat is overdue, otherwise in the       *)
(* watcher until the head passes the one of the last catch-up.             *)
EnterWait ==
    /\ phase = "wait"
    /\ phase' = IF overdue \/ head[Tailed] > result.head.seq THEN "catchUp" ELSE "blocked"
    /\ UNCHANGED <<logVars, result, delivered, tooLongSent, overdue, wire, applied>>

WaitReturns ==
    /\ phase = "blocked" /\ phase' = "catchUp"
    /\ UNCHANGED <<logVars, result, delivered, tooLongSent, overdue, wire, applied>>

LoopNext == CatchUp \/ CatchUpReturns \/ Handle \/ EnterWait \/ WaitReturns

-----------------------------------------------------------------------------
(* Everyone else.                                                          *)

AppendEvents(boundary) ==
    /\ head[Tailed] < MaxSeq
    /\ Log!Publish(Tailed, boundary)
    /\ UNCHANGED <<loopVars, overdue, wire, applied>>

DiscardEvents(boundary) ==
    /\ Log!Discard(Tailed, boundary)
    /\ UNCHANGED <<loopVars, overdue, wire, applied>>

HeartbeatDue ==
    /\ ~overdue /\ overdue' = TRUE
    /\ UNCHANGED <<logVars, loopVars, wire, applied>>

(* A consumer that is told TOO_LONG refreshes from elsewhere, up to a      *)
(* point within the log that is left.                                      *)
TakeFrame ==
    /\ wire # <<>> /\ wire' = Tail(wire)
    /\ LET f == wire[1]
       IN  \/ f.heartbeat /\ UNCHANGED applied
           \/ f.status = "OK" /\ applied' = Max({applied, f.batch.seq})
           \/ f.status = "TOO_LONG"
              /\ \E seq \in Max({retained[Tailed] - 1, 0})..head[Tailed] :
                    applied' = Max({applied, seq})
    /\ UNCHANGED <<logVars, loopVars, overdue>>

AckApplied ==
    /\ Log!Commit(Subscriber, Tailed, applied)
    /\ UNCHANGED <<loopVars, overdue, wire, applied>>

Next ==
    \/ LoopNext \/ TakeFrame \/ AckApplied \/ HeartbeatDue
    \/ \E boundary \in 1..(MaxSeq + 1) : AppendEvents(boundary) \/ DiscardEvents(boundary)

Spec == Init /\ [][Next]_vars

(* The handler's goroutine runs whenever it can, and the consumer keeps    *)
(* taking frames and acking what it applied.                               *)
LiveSpec ==
    /\ Spec
    /\ WF_vars(LoopNext) /\ WF_vars(TakeFrame)
    /\ WF_vars(AckApplied)

-----------------------------------------------------------------------------
(* Properties.                                                             *)

(* A frame continues what the consumer has, and is never ahead of the head *)
(* that is sent with it; marked final it reaches that head.                *)
NextFrameFits ==
    LET f == wire[1]
    IN  wire # <<>> /\ ~f.heartbeat /\ f.status = "OK" =>
            /\ f.batch.seqStart <= applied + 1
            /\ f.batch.seq <= f.head.seq
            /\ f.batch.final <=> f.batch.seq = f.head.seq

(* Every event reaches a consumer that acks, in a batch or as a part of    *)
(* what it refreshed from.                                                 *)
EventsArrive ==
    \A seq \in 1..MaxSeq : head[Tailed] >= seq ~> applied >= seq
=============================================================================
