------------------------------ MODULE SyncClient ------------------------------
(***************************************************************************)
(* The TypeScript client (ts/synclog/src/client.ts) with its projection    *)
(* store, against the server it talks to.  Every await of the client is a  *)
(* step boundary: several catchUp() and subscribe() loops of one           *)
(* subscriber run interleaved, calls get lost before or after the server   *)
(* handles them, and the process dies between any two steps.               *)
(*                                                                         *)
(* The server is what the Go side promises: per target a contiguous log    *)
(* known by its head and its boundary, the committed cursor, the stored    *)
(* snapshots, catch-up answers computed at one instant, and per open       *)
(* stream a queue of responses that were right when they were sent.        *)
(*                                                                         *)
(* A projection is the seq numbers it reflects.  The projection store      *)
(* follows MemorySyncStore, kept across a restart as a durable             *)
(* ProjectionStore keeps it.                                               *)
(*                                                                         *)
(* Bounds: MaxSeq events per target, MaxInbox responses under way on a     *)
(* stream, MaxFailures lost calls, broken streams and restarts.            *)
(***************************************************************************)
EXTENDS Replay, Sequences, FiniteSetsExt

CONSTANTS
    Targets,            \* sync targets, each with one stream binding
    OnceTasks,          \* callers of catchUp()
    LiveTasks,          \* subscriptions opened with subscribe()
    BatchLimit,         \* limitPerTarget
    TotalLimits,        \* totalLimitPerTarget of the bindings; 0 is none
    SnapshotsKeepUp,    \* can a client always go on from the latest snapshot
    MaxSeq, MaxInbox, MaxFailures

ASSUME ClientAssumption ==
    /\ OnceTasks \cap LiveTasks = {}
    /\ BatchLimit \in Nat \ {0}
    /\ TotalLimits \subseteq Nat
    /\ SnapshotsKeepUp \in BOOLEAN
    /\ MaxSeq \in Nat /\ MaxInbox \in Nat /\ MaxFailures \in Nat

Tasks == OnceTasks \cup LiveTasks

VARIABLES
    server,     \* per target: head, retained, committed cursor, latest snapshot
    lateAcks,   \* acks the client gave up on that the server may still handle
    store,      \* per target: appliedSeq, snapshot seq and event seqs kept
    task,       \* per task: the await it is at and its locals
    inbox,      \* per subscription: responses sent and not yet taken
    onStream,   \* per subscription: the targets its open stream delivers
    failures    \* failures so far (bound)

vars == <<server, lateAcks, store, task, inbox, onStream, failures>>

(* restored is history: the highest snapshot the record was built from.    *)
EmptyRecord == [applied |-> 0, snapshot |-> 0, events |-> {}, restored |-> 0]

ServerSet == [head : Nat, retained : Nat, cursor : Nat, snapshot : Nat]
RecordSet == [applied : Nat, snapshot : Nat, events : SUBSET (Targets \X Nat), restored : Nat]
ResponseSet == [target : Targets, tooLong : BOOLEAN, seqs : SUBSET Nat, final : BOOLEAN]

(* phase names the call a task is waiting for:                             *)
(*   catchUp                    the gateway's catch-up                     *)
(*   snapshot, restore, ackSnapshot   #recoverFromSnapshot                 *)
(*   filter, apply, reread, ack       #applyBatch                          *)
(*   stream                     iterator.next()                            *)
(*   backoff                    the reconnect delay                        *)
(* live says whether the task's stream is open, so that catchUp() was      *)
(* called from the handler of a response, and totalLimit is the budget the *)
(* caller's binding sets.                                                  *)
TaskSet ==
    [phase : {"idle", "catchUp", "snapshot", "restore", "ackSnapshot", "filter", "apply",
              "reread", "ack", "stream", "backoff"},
     target : Targets, live : BOOLEAN, stopped : BOOLEAN,
     inCatchUp : BOOLEAN, seqs : SUBSET (Targets \X Nat), final : BOOLEAN, seq : Nat,
     totalLimit : Nat]

TypeOK ==
    /\ server \in [Targets -> ServerSet]
    /\ lateAcks \subseteq Targets \X Nat
    /\ store \in [Targets -> RecordSet]
    /\ task \in [Tasks -> TaskSet]
    /\ \A t \in OnceTasks :
          ~task[t].live /\ ~task[t].stopped /\ task[t].phase \notin {"stream", "backoff"}
    /\ inbox \in [LiveTasks -> Seq(ResponseSet)]
    /\ onStream \in [LiveTasks -> SUBSET Targets]
    /\ failures \in 0..MaxFailures

Init ==
    /\ server = [g \in Targets |-> [head |-> 0, retained |-> 0, cursor |-> 0, snapshot |-> 0]]
    /\ lateAcks = {}
    /\ store = [g \in Targets |-> EmptyRecord]
    /\ task \in [Tasks -> [phase : {"idle"}, target : Targets, live : {FALSE},
                           stopped : {FALSE}, inCatchUp : {FALSE}, seqs : {{}},
                           final : {FALSE}, seq : {0}, totalLimit : TotalLimits]]
    /\ inbox = [t \in LiveTasks |-> <<>>]
    /\ onStream = [t \in LiveTasks |-> {}]
    /\ failures = 0

At(t, phase) == task[t].phase = phase

(* The locals of a task that is between two batches or snapshots.          *)
Fresh(t, phase) ==
    [task[t] EXCEPT !.phase = phase, !.seqs = {}, !.final = FALSE,
                    !.inCatchUp = FALSE, !.seq = 0]

Go(t, phase) == task' = [task EXCEPT ![t] = Fresh(t, phase)]

-----------------------------------------------------------------------------
(* The server's side.                                                      *)

(* A client that restored the latest snapshot is answered with events: the *)
(* log is kept from there on, and no more of it than any binding's budget. *)
(* SnapshotsKeepUp makes the log's producers, truncation and whoever       *)
(* stores snapshots keep to this, which no code of the repository does:    *)
(* an append waits until a snapshot is near enough, and so does a cut.     *)
Recoverable(v) ==
    /\ ~ReplayTooOld(v.snapshot, v.retained)
    /\ \A limit \in TotalLimits : ~ReplayOverBudget(v.snapshot, v.head, limit)

AppendEvents(g) ==
    /\ server[g].head < MaxSeq
    /\ SnapshotsKeepUp => Recoverable([server[g] EXCEPT !.head = @ + 1])
    /\ server' = [server EXCEPT ![g].head = @ + 1,
                                ![g].retained = IF @ = 0 THEN 1 ELSE @]
    /\ UNCHANGED <<lateAcks, store, task, inbox, onStream, failures>>

(* Retention, truncation or compaction moves the boundary.                 *)
MoveBoundary(g, retained) ==
    /\ server[g].retained < retained /\ retained <= server[g].head + 1
    /\ server[g].head > 0
    /\ SnapshotsKeepUp => Recoverable([server[g] EXCEPT !.retained = retained])
    /\ server' = [server EXCEPT ![g].retained = retained]
    /\ UNCHANGED <<lateAcks, store, task, inbox, onStream, failures>>

(* A snapshot producer covers the log up to some event.  Readers are given *)
(* the snapshot with the highest seq, so only that one is kept.            *)
PutSnapshot(g, seq) ==
    /\ seq <= server[g].head /\ seq > server[g].snapshot
    /\ server' = [server EXCEPT ![g].snapshot = seq]
    /\ UNCHANGED <<lateAcks, store, task, inbox, onStream, failures>>

(* The answer of a catch-up for one target.                                *)
Answer(g, totalLimit) ==
    LET v == server[g]
        tooLong == ReplayTooOld(v.cursor, v.retained)
                   \/ ReplayOverBudget(v.cursor, v.head, totalLimit)
        last == Smaller(v.cursor + BatchLimit, v.head)
    IN  [target |-> g, tooLong |-> tooLong,
         seqs |-> IF tooLong THEN {} ELSE (v.cursor + 1)..last,
         final |-> ~tooLong /\ last >= v.head]

(* The server handles an ack: above the head it is an error, at or below   *)
(* the cursor it changes nothing.                                          *)
AckFails(g, seq) == seq > server[g].head
Acked(g, seq) == [server EXCEPT ![g].cursor =
                    IF seq <= server[g].head THEN Larger(@, seq) ELSE @]

LateAck(g, seq) ==
    /\ <<g, seq>> \in lateAcks
    /\ server' = Acked(g, seq)
    /\ lateAcks' = lateAcks \ {<<g, seq>>}
    /\ UNCHANGED <<store, task, inbox, onStream, failures>>

(* The subscribe stream sends what a catch-up without a total limit        *)
(* answers for a target it delivers, again and again until that is acked.  *)
StreamSend(t, g) ==
    /\ task[t].live
    /\ g \in onStream[t]
    /\ Len(inbox[t]) < MaxInbox
    /\ Answer(g, 0).tooLong \/ Answer(g, 0).seqs # {}
    /\ inbox' = [inbox EXCEPT ![t] = Append(@, Answer(g, 0))]
    /\ UNCHANGED <<server, lateAcks, store, task, onStream, failures>>

(* ModifySubscription adds a target to an open stream.                     *)
ModifySubscription(t, g) ==
    /\ task[t].live
    /\ onStream' = [onStream EXCEPT ![t] = @ \cup {g}]
    /\ UNCHANGED <<server, lateAcks, store, task, inbox, failures>>

-----------------------------------------------------------------------------
(* How a task leaves an await.                                             *)

CloseStream(t) ==
    IF t \in LiveTasks
    THEN /\ inbox' = [inbox EXCEPT ![t] = <<>>]
         /\ onStream' = [onStream EXCEPT ![t] = {}]
    ELSE UNCHANGED <<inbox, onStream>>

(* An exception: catchUp() rejects; a subscription reconnects after a      *)
(* delay, unless it was stopped.                                           *)
Raise(t) ==
    /\ task' = [task EXCEPT ![t] =
                  [Fresh(t, IF t \in LiveTasks /\ ~task[t].stopped THEN "backoff" ELSE "idle")
                      EXCEPT !.live = FALSE]]
    /\ CloseStream(t)

(* catchUp() returns: to its caller, to the handler of a stream response,  *)
(* or to #runSubscription, which opens the stream.                         *)
ReturnFromCatchUp(t) ==
    IF t \in OnceTasks
    THEN Go(t, "idle") /\ UNCHANGED <<inbox, onStream>>
    ELSE /\ task' = [task EXCEPT ![t] = [Fresh(t, "stream") EXCEPT !.live = TRUE]]
         /\ inbox' = inbox
         /\ onStream' = IF task[t].live THEN onStream
                        ELSE [onStream EXCEPT ![t] = {task[t].target}]

(* #applyBatch is entered with a batch, #recoverFromSnapshot without.      *)
Handle(t, answer, inCatchUp) ==
    task' = [task EXCEPT ![t] =
               [@ EXCEPT !.phase = IF answer.tooLong THEN "snapshot" ELSE "filter",
                         !.inCatchUp = inCatchUp,
                         !.seqs = {answer.target} \X answer.seqs,
                         !.final = answer.final]]

-----------------------------------------------------------------------------
(* The caller.                                                             *)

StartCatchUp(t, g) ==
    /\ t \in OnceTasks /\ At(t, "idle")
    /\ task' = [task EXCEPT ![t] = [@ EXCEPT !.phase = "catchUp", !.target = g]]
    /\ UNCHANGED <<server, lateAcks, store, inbox, onStream, failures>>

Subscribe(t, g) ==
    /\ t \in LiveTasks /\ At(t, "idle") /\ ~task[t].stopped
    /\ task' = [task EXCEPT ![t] = [@ EXCEPT !.phase = "catchUp", !.target = g]]
    /\ UNCHANGED <<server, lateAcks, store, inbox, onStream, failures>>

(* stop() only raises the abort signal.                                    *)
Stop(t) ==
    /\ t \in LiveTasks /\ ~At(t, "idle") /\ ~task[t].stopped
    /\ task' = [task EXCEPT ![t].stopped = TRUE]
    /\ UNCHANGED <<server, lateAcks, store, inbox, onStream, failures>>

-----------------------------------------------------------------------------
(* catchUp() and #recoverFromSnapshot.                                     *)

CatchUp(t) ==
    LET answer == Answer(task[t].target, task[t].totalLimit)
    IN  /\ At(t, "catchUp")
        /\ IF answer.tooLong \/ answer.seqs # {}
           THEN Handle(t, answer, TRUE) /\ UNCHANGED <<inbox, onStream>>
           ELSE ReturnFromCatchUp(t)
        /\ UNCHANGED <<server, lateAcks, store, failures>>

(* Mutant: the snapshot is acked and never handed to the store. *)
GetLatestSnapshotNotApplied(t) ==
    LET snapshot == server[task[t].target].snapshot
    IN  /\ At(t, "snapshot")
        /\ IF snapshot = 0
           THEN Raise(t)
           ELSE /\ task' = [task EXCEPT ![t] = [@ EXCEPT !.phase = "ackSnapshot", !.seq = snapshot]]
                /\ UNCHANGED <<inbox, onStream>>
        /\ UNCHANGED <<server, lateAcks, store, failures>>

(* The gateway answers with the latest snapshot, or with an error.         *)
GetLatestSnapshot(t) ==
    LET snapshot == server[task[t].target].snapshot
    IN  /\ At(t, "snapshot")
        /\ IF snapshot = 0
           THEN Raise(t)
           ELSE /\ task' = [task EXCEPT ![t] = [@ EXCEPT !.phase = "restore", !.seq = snapshot]]
                /\ UNCHANGED <<inbox, onStream>>
        /\ UNCHANGED <<server, lateAcks, store, failures>>

(* Applied state never regresses: newer events stay and only the snapshot  *)
(* reference is refreshed.                                                 *)
ApplySnapshot(t) ==
    LET g == task[t].target
        seq == task[t].seq
    IN  /\ At(t, "restore")
        /\ store' = [store EXCEPT ![g] =
              IF @.applied > seq THEN [@ EXCEPT !.snapshot = seq]
              ELSE [applied |-> seq, snapshot |-> seq, events |-> {}, restored |-> seq]]
        /\ task' = [task EXCEPT ![t].phase = "ackSnapshot"]
        /\ UNCHANGED <<server, lateAcks, inbox, onStream, failures>>

(* Mutant: the restored snapshot is not acked. *)
AckSnapshotSkipped(t) ==
    /\ At(t, "ackSnapshot")
    /\ Go(t, "catchUp")
    /\ UNCHANGED <<server, lateAcks, store, inbox, onStream, failures>>

AckSnapshot(t) ==
    LET g == task[t].target
    IN  /\ At(t, "ackSnapshot")
        /\ server' = Acked(g, task[t].seq)
        /\ IF AckFails(g, task[t].seq) THEN Raise(t)
           ELSE Go(t, "catchUp") /\ UNCHANGED <<inbox, onStream>>
        /\ UNCHANGED <<lateAcks, store, failures>>

-----------------------------------------------------------------------------
(* #applyBatch.                                                            *)

(* The first getAppliedSeq: what is new, under the task's own binding.     *)
FilterBatch(t) ==
    LET new == {e \in task[t].seqs : e[2] > store[task[t].target].applied}
    IN  /\ At(t, "filter")
        /\ task' = [task EXCEPT ![t] = [@ EXCEPT !.seqs = new,
                                                 !.phase = IF new = {} THEN "reread" ELSE "apply"]]
        /\ UNCHANGED <<server, lateAcks, store, inbox, onStream, failures>>

(* The store skips what another task applied in the meantime.              *)
ApplyEvents(t) ==
    LET g == task[t].target
        new == {e \in task[t].seqs : e[2] > store[g].applied}
    IN  /\ At(t, "apply")
        /\ store' = [store EXCEPT ![g].events = @ \cup new,
                                  ![g].applied = Max({@} \cup {e[2] : e \in new})]
        /\ task' = [task EXCEPT ![t] = [@ EXCEPT !.phase = "reread", !.seqs = {}]]
        /\ UNCHANGED <<server, lateAcks, inbox, onStream, failures>>

(* Mutant: the head of the target is acked. *)
RereadAppliedAcksHead(t) ==
    /\ At(t, "reread")
    /\ task' = [task EXCEPT ![t] = [@ EXCEPT !.phase = "ack",
                                             !.seq = server[task[t].target].head]]
    /\ UNCHANGED <<server, lateAcks, store, inbox, onStream, failures>>

(* The second getAppliedSeq: what is acked is what the store reached.      *)
RereadApplied(t) ==
    /\ At(t, "reread")
    /\ task' = [task EXCEPT ![t] = [@ EXCEPT !.phase = "ack",
                                             !.seq = store[task[t].target].applied]]
    /\ UNCHANGED <<server, lateAcks, store, inbox, onStream, failures>>

(* Mutant: a batch of the stream is not acked. *)
AckBatchOnlyInCatchUp(t) ==
    LET g == task[t].target
    IN  /\ At(t, "ack")
        /\ server' = IF task[t].inCatchUp THEN Acked(g, task[t].seq) ELSE server
        /\ IF AckFails(g, task[t].seq) THEN Raise(t)
           ELSE IF task[t].inCatchUp
                THEN IF task[t].final THEN ReturnFromCatchUp(t)
                     ELSE Go(t, "catchUp") /\ UNCHANGED <<inbox, onStream>>
                ELSE Go(t, "stream") /\ UNCHANGED <<inbox, onStream>>
        /\ UNCHANGED <<lateAcks, store, failures>>

AckBatch(t) ==
    LET g == task[t].target
    IN  /\ At(t, "ack")
        /\ server' = Acked(g, task[t].seq)
        /\ IF AckFails(g, task[t].seq) THEN Raise(t)
           ELSE IF task[t].inCatchUp
                THEN IF task[t].final THEN ReturnFromCatchUp(t)
                     ELSE Go(t, "catchUp") /\ UNCHANGED <<inbox, onStream>>
                ELSE Go(t, "stream") /\ UNCHANGED <<inbox, onStream>>
        /\ UNCHANGED <<lateAcks, store, failures>>

-----------------------------------------------------------------------------
(* The subscription's own loop.                                            *)

(* The next response; its binding key fits, its target is not compared.    *)
TakeResponse(t) ==
    /\ t \in LiveTasks /\ At(t, "stream") /\ ~task[t].stopped
    /\ inbox[t] # <<>>
    /\ Handle(t, Head(inbox[t]), FALSE)
    /\ inbox' = [inbox EXCEPT ![t] = Tail(@)]
    /\ UNCHANGED <<server, lateAcks, store, onStream, failures>>

(* The abort signal ends a waiting stream at once; the server may end it   *)
(* when the client has taken what was sent.                                *)
EndStream(t) ==
    /\ At(t, "stream")
    /\ task' = [task EXCEPT ![t] = [Fresh(t, "idle") EXCEPT !.live = FALSE]]
    /\ CloseStream(t)
    /\ UNCHANGED <<server, lateAcks, store, failures>>

(* Mutant: the abort signal is only looked at when a response is there. *)
AbortOnResponse(t) == task[t].stopped /\ t \in LiveTasks /\ inbox[t] # <<>> /\ EndStream(t)

Abort(t) == task[t].stopped /\ EndStream(t)
ServerClosesStream(t) ==
    ~task[t].stopped /\ t \in LiveTasks /\ inbox[t] = <<>> /\ EndStream(t)

(* The delay is over, or cut short by the abort signal.                    *)
Reconnect(t) ==
    /\ At(t, "backoff")
    /\ Go(t, IF task[t].stopped THEN "idle" ELSE "catchUp")
    /\ UNCHANGED <<server, lateAcks, store, inbox, onStream, failures>>

-----------------------------------------------------------------------------
(* Failures.                                                               *)

Fail == failures < MaxFailures /\ failures' = failures + 1

(* A call that only reads at the server, or the stream, breaks.            *)
CallBreaks(t) ==
    /\ Fail
    /\ task[t].phase \in {"catchUp", "snapshot", "stream"}
    /\ Raise(t)
    /\ UNCHANGED <<server, lateAcks, store>>

(* An ack breaks: the server may still handle it, now or later, or never.  *)
AckBreaks(t) ==
    /\ Fail
    /\ task[t].phase \in {"ack", "ackSnapshot"}
    /\ Raise(t)
    /\ lateAcks' = lateAcks \cup {<<task[t].target, task[t].seq>>}
    /\ UNCHANGED <<server, store>>

(* The process dies and comes back with no task running.                   *)
Restart ==
    /\ Fail
    /\ task' = [t \in Tasks |-> [Fresh(t, "idle") EXCEPT !.live = FALSE, !.stopped = FALSE]]
    /\ inbox' = [t \in LiveTasks |-> <<>>]
    /\ onStream' = [t \in LiveTasks |-> {}]
    /\ UNCHANGED <<server, lateAcks, store>>

-----------------------------------------------------------------------------
ServerNext ==
    \E g \in Targets :
        \/ AppendEvents(g)
        \/ \E retained \in 1..(MaxSeq + 1) : MoveBoundary(g, retained)
        \/ \E seq \in 1..MaxSeq : PutSnapshot(g, seq)
        \/ \E seq \in 0..MaxSeq : LateAck(g, seq)
        \/ \E t \in LiveTasks : StreamSend(t, g)

CallerNext ==
    \E t \in Tasks :
        \/ \E g \in Targets : StartCatchUp(t, g) \/ Subscribe(t, g)
        \/ Stop(t)

(* The steps a running task takes by itself.                               *)
Proceed(t) ==
    \/ CatchUp(t) \/ GetLatestSnapshot(t) \/ ApplySnapshot(t) \/ AckSnapshot(t)
    \/ FilterBatch(t) \/ ApplyEvents(t) \/ RereadApplied(t) \/ AckBatch(t)
    \/ TakeResponse(t) \/ Abort(t) \/ Reconnect(t)

FailureNext ==
    \/ \E t \in Tasks : CallBreaks(t) \/ AckBreaks(t) \/ ServerClosesStream(t)
    \/ Restart

AddTargetNext == \E t \in LiveTasks, g \in Targets : ModifySubscription(t, g)

Next == ServerNext \/ CallerNext \/ (\E t \in Tasks : Proceed(t)) \/ FailureNext

(* Calls return (or fail) and an open stream that has something to send    *)
(* sends it; the caller and the log's producers owe nothing.               *)
Fairness ==
    /\ \A t \in Tasks : WF_vars(Proceed(t))
    /\ \A t \in LiveTasks, g \in Targets : WF_vars(StreamSend(t, g))

Spec == Init /\ [][Next]_vars /\ Fairness
ModifySpec == Init /\ [][Next \/ AddTargetNext]_vars

-----------------------------------------------------------------------------
(* Properties.                                                             *)

(* The promise of #applyBatch ("acking ahead of applied state would let    *)
(* the server cursor skip events that the projection never persisted"):    *)
(* the committed cursor, and every ack under way or given up on, is at or  *)
(* behind what the projection store holds.                                 *)
AckBehindApplied ==
    /\ \A g \in Targets : server[g].cursor <= store[g].applied
    /\ \A a \in lateAcks : a[2] <= store[a[1]].applied
    /\ \A t \in Tasks : task[t].phase \in {"ack", "ackSnapshot"} =>
          task[t].seq <= store[task[t].target].applied

(* No silent gap: everything up to the applied seq was handed to the       *)
(* projection store, in a snapshot it was built from or as an event,       *)
(* however redeliveries, concurrent loops, lost acks, truncation and       *)
(* restarts interleave.                                                    *)
NoSilentGap ==
    \A g \in Targets : \A q \in 1..store[g].applied :
        q <= store[g].restored \/ <<g, q>> \in store[g].events

(* A projection is only built from the events of its own target.           *)
OwnEventsOnly == \A g \in Targets : \A e \in store[g].events : e[1] = g

(* A catch-up comes to an end.                                             *)
CatchUpEnds == \A t \in OnceTasks : ~At(t, "idle") ~> At(t, "idle")

(* A subscription that is not stopped brings its projection to the head,   *)
(* or its stream was closed by the server or its process died.             *)
SubscriptionCatchesUp ==
    \A t \in LiveTasks :
        ~At(t, "idle") ~>
            (At(t, "idle") \/ store[task[t].target].applied >= server[task[t].target].head)

(* "retries on transport/stream errors until stopped" (client.ts:42): a    *)
(* stopped subscription resolves its done promise.                         *)
StopResolves == \A t \in LiveTasks : task[t].stopped ~> (At(t, "idle") \/ ~task[t].stopped)
=============================================================================
