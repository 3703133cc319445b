# A verification development for synclog

synclog is a sync engine for cursor-based event streams: a Go library (core
engine, storage interface, in-memory adapter, target-based gateway, gRPC
transports) and a TypeScript client. This directory holds TLA+ models of its
parts, the TLC configurations that check them, and proofs checked by TLAPS.
Source paths below are relative to the repository's root.

## 1. Inventory

### Components, their state and operations

| component | state | operations |
|---|---|---|
| memory adapter, `internal/storage/memory/store.go` | per stream: head, retained start, events, idempotency index; cursors; retention policies; watchers; snapshots; one mutex | Append, Read, GetHead, WaitForStream, GetCursor, Ack, CreateStream, DeleteStream, ResetCursor, TruncateStream, CompactStream, SetStreamRetention, PutSnapshot and its readers |
| core engine, `pkg/synclog/engine.go` | none: it calls the storage | Append, CatchUp, Ack, GetHead, GetCursor; `ReplayTooOld`, `replayOverBudget` |
| raw gRPC services, `pkg/synclog/transport/grpc/server.go` | per Subscribe call: last seq sent, too-long mark, heartbeat timer | unary calls convert and pass through, GetCursor and Ack with two reads; Subscribe polls, sends and waits |
| gateway engine, `pkg/gateway/engine.go` | none | resolve and authorize targets, catch up several bindings, GatewayAck, snapshots, target state, WaitGatewaySubscribe |
| gateway gRPC server, `pkg/gateway/transport/grpc/server.go` | registry of live streams by id; per stream its target set, wake-up token, delivered and in-flight bookkeeping | GatewaySubscribe, ModifySubscription, waitOrWake, waitWake |
| TypeScript client, `ts/synclog/src/client.ts` | per subscription: open stream, abort signal, backoff | catchUp, subscribe, stop, modifySubscription, snapshot recovery |
| projection store, `ts/synclog/src/memory-store.ts` | per binding: applied seq, snapshot, events | applySnapshot, applyEvents, getAppliedSeq, clearTarget |
| target keys, `ts/synclog/src/target.ts` | none | a subscriber, target and binding written out as one string |
| messages, `synclog/v1/*.proto` and the code generated from them | none | what each rpc takes and returns |
| codec registry, contract tests | none of interest | not modelled, see section 8 |

### Interaction

A producer appends through the core engine to the storage. A reader's catch-up
reads its cursor, the head and a batch in three storage calls. The gateway maps
a target to streams, runs the core catch-up per binding and, in its subscribe
stream, repeats that for a changing target set, blocking on the storage's
watchers in between. The client applies batches to its projection store and
acks what the store reached; when it is told TOO_LONG it fetches a snapshot,
applies it, acks it and catches up from there. The administration truncates,
compacts, deletes and resets at any time. Nothing is shared between the parts
but the storage's mutex, the watcher channels, the registry of live streams and
the projection store.

### What is hard, and what correctness means

* **Storage.** Retention by age and by count, truncation and append all move
  the boundary of the same log; idempotency entries outlive their events;
  `CompactStream` drops its mutex in the middle; watchers are woken and removed
  by different callers. Correct: a contiguous log from the boundary to the
  head, retries answered with the first write, no lost wake-up, no unread event
  removed by a compaction.
* **Core engine.** Three reads that are not one snapshot. Correct: a batch
  follows its cursor, final means caught up, TOO_LONG is justified, acks never
  put a cursor beyond the log.
* **Snapshots.** One map walked in random order. Correct: the newest compatible
  snapshot is the one that is handed out, and what is put stays.
* **Gateway engine.** A target has several bindings, each with its own cursor
  and head, read in calls of their own while other sessions ack. Correct: no
  state shows a cursor beyond its head, aggregates are those of the bindings,
  a batch fits the state that is sent with it, every target is accounted for.
* **Delivery.** A loop that remembers what it has sent, polls from what was
  acked, and decides from both. Correct: the client can use what comes next, no
  batch is sent while the window is full (the batch that fills it may go beyond),
  no batch is sent from a cursor that was told TOO_LONG, the other bindings go
  on, events arrive, heartbeats go out.
* **Raw services.** Two sessions of one subscriber call at once, a consumer of
  Subscribe falls behind. Correct: reads follow acks that were answered, retries
  are answered once, the loop resumes after an ack.
* **Live subscriptions.** Handlers, helper goroutines, watcher goroutines,
  timers and modify calls around one buffered token. Correct: the registry is
  exact, only the owner modifies, a modification is polled, ids are freed.
* **Client.** Several loops share a projection store across awaits; acks get
  lost or are handled late; the process dies anywhere. Correct: the server's
  cursor never passes the projection, the projection has no gap, catch-ups end,
  a stopped subscription resolves.
* **Projection store.** One map of strings holds the records of all targets.
  Correct: a call for one key, or a clear of one target, shows in no other.

`PROJECT.json` lists the hazards one by one, each at its line and with the
properties that would catch it.

## 2. Modules

| module | what it is | built on |
|---|---|---|
| `Replay` | the two comparisons that decide TOO_LONG | |
| `StreamLog` | one stream's log as operators: append, truncate, retention, read | `Replay` |
| `MemoryStore` | the adapter as a state machine | `StreamLog` |
| `CoreEngine` | catch-up and ack calls on top of the store | `MemoryStore` |
| `SyncService` | what the sync log promises: a catch-up answered as of one instant | `Replay` |
| `EngineService` | the engine implements the service | `CoreEngine`, instance of `SyncService` |
| `EventMessages`, `SyncLogMessages`, `SnapshotMessages`, `AdminMessages`, `GatewayMessages` | the messages of each proto file, and what each rpc takes and returns | each other, as the proto files import |
| `SnapshotStore` | the adapter's snapshots | `SnapshotMessages` |
| `AdminService` | the admin rpcs with what they report | `AdminMessages`, instance of `MemoryStore` |
| `RawService` | the unary sync log rpcs, two sessions at once | `SyncLogMessages`, instance of `CoreEngine` |
| `RawSubscribe` | the raw Subscribe loop | `SyncLogMessages`, instance of `SyncService` |
| `GatewayEngine` | the unary gateway calls, read by read | `GatewayMessages`, instance of `SyncService` |
| `GatewayDelivery` | the delivery loop of GatewaySubscribe, with its client | `GatewayMessages`, instance of `SyncService` |
| `LiveSubscription` | live streams, their registry and their modification | |
| `SyncClient` | the client, its projection store, and the server it sees | `Replay` |
| `ProjectionStore` | what a projection store promises | |
| `MemorySyncStore` | the projection store in memory, with its encoded keys | |
| `Services` | the raw, admin and snapshot services, the raw loop and the projection store, side by side | `RawService`, instances of `AdminService`, `SnapshotStore`, `RawSubscribe`, `MemorySyncStore` |
| `MC*` | values and symmetry for TLC | the module they name |
| `*Proofs` | theorems | the module they name, and each other from bottom to top; `EngineProofs` is about `CoreEngine` and `EngineService`, `ServicesProofs` about `Services` |

Two abstract specifications tie the layers together. `SyncService` stands
between the engine and everything that calls it: `EngineService` shows that the
engine's three reads and two-step acks refine it, and the delivery loop, the
raw loop and the gateway engine run over it instead of over the store. This is
what keeps them small enough to be checked with a client, a network and a
product around them. `ProjectionStore` is what a client may rely on whatever
store it is given.

Definitions whose comment starts with "Mutant" are deliberate faults, each next
to the definition it stands in for. They are used by no specification; they
show that a property fails when the code is changed in that way.

### StreamLog and MemoryStore

A stream is a record `exists, head, retained, events, idempotency`, as in
`streamState`; an event is its seq, key and creation time. The head and the
events are kept apart as in the code, so that their agreement is something to
check. Scans over the log (`for i < len && events[i] < x`) are counts of a
prefix (`PrefixBelow`, `PrefixExpired`), which needs no recursion and can be
proved about.

Every method of the adapter holds the mutex from its first read to its last
write and is one action. `CompactStream` is two (`CompactMinimum`,
`CompactTruncate`), `WaitForStream` is the registration, the return and the
cancellation. Closing a channel is part of the action that closes it
(`NotifyStream`), as in `notifyStreamLocked`. `compacting[c].counted` is a
history variable: which subscribers the minimum was taken over.

### CoreEngine

Each call is a record with the phase it is in and what it has read so far:
`CatchUp` (cursor), `CatchUpHead` (head and boundary, and the first TOO_LONG
decision), `CatchUpRead` (the batch, and the storage's own decision), `Ack`
(head check) and `AckCursor`. `ProducerNext`, `RetentionNext`, `AdminNext` and
the other calls run between them. `steady` is a history variable: no stream was
deleted and no cursor reset so far.

### SyncService and EngineService

A stream of the service is a head and a boundary, a request is asked from the
cursor of that moment and answered once, with the events that follow it or with
TOO_LONG. The refinement maps the store's streams to their head and boundary,
its cursor map to a total function, and a call that has read its cursor to a
request that was asked. It holds as long as no stream is deleted and no cursor
reset (`SteadySpec`): both move a cursor or a head back, which the service
never does.

### The message modules

A message is a set of records with the field names of the TypeScript types;
the services map every rpc to what it takes and returns. They are the types of
the components' invariants: each request, response and frame of a component
must be in the set its rpc declares. Payload bytes, times and free text are
left out, an unset message is `Absent`.

### SnapshotStore, AdminService, RawService

`SnapshotStore` walks its map in every order the runtime may choose
(`SetToSeqs`). `AdminService` and `RawService` are the rpcs over the store and
the engine: a step of theirs is the step of the instance together with the
response, kept in `reply`. Their history variables (`removed`, `unreported`,
`policed`; `acked`, `promised`, `answered`) remember what callers have been
told, which is what their properties compare with.

### GatewayEngine

One call is followed from its first target to its response: `Resolve`,
`CommitAck`, `ReadSnapshot`, `ReadCursor`, `ReadHead`, `AskBinding`,
`AnswerBinding`, with `NextTarget` deciding between the next target and the
return. The product's resolver, authorizer and policies are the set `allowed`,
which changes between any two steps.

### GatewayDelivery and RawSubscribe

A pass of the loop is `StartPass` (the target set is copied, delivery state of
gone targets is dropped), `ReadState`, `AskBinding` and `AnswerBinding` per
target and binding, `Handle` (what the loop makes of the answers and sends), and
a wait: `EnterWait` in the engine's watcher, `throttled` and `idle` in the
`waitWake` sleep. `delivered` and `tooLongSent` are keyed by target and binding
as in the code. Time is two things only: whether a heartbeat is overdue, and
that a wait may time out. The client is reduced to what the server can see of
it: it takes frames in order, applies what is new, restores a snapshot when told
TOO_LONG, and acks what it has applied, in its own time. `RawSubscribe` is the
simpler loop of the raw service in the same form.

### ProjectionStore and MemorySyncStore

Strings are sequences of tokens, in which the three separators are tokens of
their own and the free parts are whatever the instance gives, so a part may end
like another or contain a separator. `targetBindingKey` concatenates, and
`clearTarget` looks for a part of the result, as in the code. `Projection` is
the refinement mapping: the records by the key they are for.

### SyncClient

Each await of `client.ts` is a phase of a task; a task is a `catchUp()` call or
a subscription. The server is abstracted to what it answers: per target the
head, the boundary, the committed cursor and the latest snapshot; catch-up
answers are computed at one instant, which `EngineService` justifies. A record
of the projection store holds the applied seq, the seq of its snapshot and the
events kept after it, and as history the highest snapshot it was built from.
Acks that broke may be handled later or never (`lateAcks`, `LateAck`). The budget
`totalLimitPerTarget` of a caller's binding is `totalLimit` of its task, any of
`TotalLimits` from the initial state on; the subscribe stream has none. In
`MCSyncClient` both tasks are of one binding and have the same budget.

### LiveSubscription

`subs` is the registry, `stream[h]` a handler with its `liveSub` (targets and
token) and the wait it is in, `helpers[h]` the number of cancelled helper
goroutines that still listen, `modify[m]` a ModifySubscription call between its
lookup and its change, which hold different locks. What one pass of the loop
polls and sends is one step (`Iterate`); how it blocks is modelled in full:
`waitWake` as `IdleWakes`, `IdleTimer`, `IdleCancel`; `waitOrWake` and
`WaitGatewaySubscribe` as the helper, the timer, the watcher goroutines, and the
two places that decide which error survives (`WaitError`, `WaitReturns`).

## 3. Runs

Ten runs pass. Type invariants of `MemoryStore`, `CoreEngine` and
`LiveSubscription` are proved for all constants and not run; those of the
other components are part of `TypeOK` of their run.

| run | bounds | shows |
|---|---|---|
| MemoryStore | 1 stream, 2 keys, 2 waiters, 3 events, clock to 3; no policy, a count, an age, and both | LogContiguous, IdempotencyConsistent, CountLimitHolds, NoMissedWakeup, PassedWaiterReturns |
| CoreEngine | 2 sessions of 1 subscriber, 2 events, limits 1 and 2, no budget and a budget of 1; deletion and reset | BatchFollowsCursor, FinalMeansCaughtUp, TooLongIsJustified, CursorWithinHead |
| EngineService | the same with a compactor, and no deletion or reset | ImplementsService (the refinement), CompactionKeepsCounted |
| SyncClientConcurrent | 1 catch-up and 1 subscription, 3 events, 1 failure, batches of 2, no budget and a budget of 2 | AckBehindApplied, NoSilentGap |
| SyncClientLive | the same tasks, 2 events, 1 failure, batches of 1, no budget and a budget of 1 | CatchUpEnds, SubscriptionCatchesUp, StopResolves |
| LiveSubscription | 2 streams of 2 subscribers, 1 id, 1 modify call, 1 target | RegistryExact, OwnStreamOnly, ModificationIsPolled, LeavingFreesId |
| GatewayDelivery | 2 subscriptions: a window of 1 with batches of 2 and 3 events; a target that is removed, added and revoked | TypeOK, NextBatchFits, OneBatchAhead, SendsWithinWindow, TooLongStopsDelivery |
| GatewayDeliveryLive | 3 subscriptions: a target that may be revoked; two targets of which one is never acked; one target alone that is never acked | EventsArrive, NeverSilent, RevokedEnds |
| GatewayEngine | sessions of 3 kinds over 1 or 2 targets and streams, 2 events | TypeOK, StatesShownFit, EveryTargetAnswered, AckShown |
| Services | 6 parts, see below | ServicesTypeOK, ReadYourAcks, AppendsAnsweredOnce, EventsAccountedFor, SnapshotsExact, NextFrameFits, EventsArrive, ImplementsStore |
| SyncClientAddTarget | 1 subscription, 2 targets, 1 event | **violated**: OwnEventsOnly |
| GatewayDeliveryReAdd | 1 target removed and added | **violated**: EventsArrive |

Three runs look at several instances of one specification. What tells them apart
is a variable that the initial state chooses and no step changes:
`subscription` of `GatewayDelivery` (its targets, limits, and what its client
and the product do), `client` of `GatewayEngine` (the call and the targets
asked for), `part` of `MCServices`. `Services` composes its parts without shared
state: what one part sees of the others through the store, a deletion, a
truncation, an append, an ack, is an action of its own module. So no step of one
meets a step of another, and `MCServices` lets one part run and leaves the others
where they start:

| part | bounds | property |
|---|---|---|
| sessions | 2 sessions of 1 subscriber, 2 events, until a deletion or reset | ReadYourAcks |
| producers | retries of 2 keys, 3 events, truncation and deletion | AppendsAnsweredOnce |
| admin | 1 operator, 1 subscriber, 2 events, clock to 3, policies by age and by count | EventsAccountedFor |
| snapshots | 2 seqs, 2 payload versions, 2 checksums, lists of at most 3 | SnapshotsExact |
| loop | batches of 2, a window of 1, 3 events, 2 frames under way | NextFrameFits, EventsArrive |
| projection | 3 targets: 2 views, and a namespace that ends like the other | ImplementsStore |

Why the bounds are enough for the questions asked:

* Boundary arithmetic of a log distinguishes an empty log before its first
  event, an emptied one, one event, and several; three events with a count limit
  of one or two pass through all of them more than once, and a
  clock to 3 with an age limit of 1 expires what was stamped 1 and keeps what
  was stamped later, side by side, or empties the log in the append of an event
  that its producer stamped in the past.
* A compaction needs a minimum, one ack that changes it, and events on both
  sides; truncations between its two critical sections make the minimum stale.
* The three reads of a catch-up are disturbed by an append, a truncation, a
  deletion or another session's ack; two sessions and two events give every
  order of these with a full batch, a short batch and an empty one.
* The client's races are between two tasks on one binding; three events and
  batches of two make a redelivered batch overlap what was applied.
* A second stream is needed for the reuse of an id, a second subscriber for
  ownership; one target is enough to tell the copied set from the current one.
* The delivery loop's decisions compare a cursor, a delivered seq, a batch and
  a window: batches smaller than the log and a window smaller than what can be
  out make each comparison fall both ways, and two frames under way are enough
  for one that overlaps or outlives what the client did with the one before.
* Aggregates and partial failures need two bindings and two targets; a third
  would repeat the fold.
* The gateway engine's reads are disturbed by acks, appends and discards of
  the same two streams the call reads.
* Key collisions need one name that is a suffix of another.

`CHECK_DEADLOCK FALSE` appears where the system may really stop: with every
event appended, every frame taken and acked, every stream ended and every
failure used up, nothing has to happen any more. The cfg files say which; the
store and engine runs check deadlock.

## 4. Findings

Two runs are expected to fail. They state what a comment of the code says, and
TLC shows what the code does instead.

* Events of a target added with `modifySubscription` are applied to the
  projection of the target the stream was opened for (SyncClientAddTarget,
  `ts/synclog/src/client.ts:258`).
* A target removed and added again between two passes of the delivery loop
  keeps its delivery state: events since the server's cursor do not come until
  the client acks (GatewayDeliveryReAdd,
  `pkg/gateway/transport/grpc/server.go:230`).

Seen while modelling, without a run of their own. The models take these steps;
the properties above are stated so that they hold beside them.

* `CompactStream` computes its minimum in one critical section and uses it in
  another; a subscriber whose first ack lands in between is not counted and may
  lose events it has not read. `CompactionKeepsCounted` speaks of the counted.
* Two recoveries of one binding in the opposite order leave a record whose
  snapshot reference is older than the events that follow it. `NoSilentGap`
  speaks of what was handed to the store, not of what the record still shows.
* When the log was truncated past the latest snapshot, or that snapshot is
  further behind the head than `totalLimitPerTarget`, `catchUp()` is told
  TOO_LONG, restores the snapshot, acks it and is told TOO_LONG again, without a
  delay and without looking at the abort signal (`ts/synclog/src/client.ts:116-134`):
  it does not end, a subscription does not reach the head, and `stop()` does not
  resolve. When no snapshot is stored and the log is over the budget, or cut, a
  subscription backs off for ever. The constant `SnapshotsKeepUp` excludes both
  where liveness is checked; see section 5.
* A wake-up that arrives as the poll interval ends turns the deadline into an
  error and ends the stream (`why = "deadline"` in `LiveSubscription`).
* While the client has not acked everything, the wait of the delivery loop
  returns at once and the loop polls without a pause.
* Events that were delivered and not acked go out again as soon as another is
  appended. `NextBatchFits` and `OneBatchAhead` bound what comes of it.
* A consumer of the raw Subscribe that does not ack gets no heartbeat, and the
  loop spins once one is overdue.
* `service.proto:47-48` says a cursor below `retained_seq_start` is TOO_LONG,
  while `ReplayTooOld` rightly serves one that is lower by one.
* Clearing a target clears another one whose namespace ends in a colon and the
  namespace of the first; the instance of `ImplementsStore` has no separator in
  a name.
* A helper left over from an earlier wait may take the token meant for the next
  one, which delays a modification until the poll timer (ModificationIsPolled
  still holds, because the timer fires).
* The registry is keyed by id alone, so subscribers share one name space
  although `gateway.proto:129` asks for uniqueness per subscriber only.

## 5. Fairness

* `MemoryStore`: a goroutine whose channel was closed returns (`WaitReturn`).
  Nothing else is assumed; appends and cancellations may never come.
* `SyncClient`: a running task takes its next step (`Proceed`: calls return or
  fail, timers fire), and an open stream that has something to send sends it
  (`StreamSend`). The server's loop polls at least once per interval, which is
  what justifies the second. Callers, producers and failures owe nothing.
* `LiveSubscription`: goroutines that can run are scheduled, timers fire, and a
  done context is reported. No event has to arrive, no client has to leave, a
  helper of an earlier wait may linger for ever, and the helper of the current
  one may be late (the timer is what bounds it).
* `GatewayDelivery`: the loop's goroutine runs whenever it can and its timers
  expire (`LoopNext`), and the client keeps taking frames (`TakeFrame`); both
  are what a connected stream is. Acks are only owed for the targets in
  `acking` of the subscription, per binding. Producers, retention, modify calls,
  the product and the heartbeat clock owe nothing.
* `RawSubscribe`: the same, with a consumer that acks (`MCSpec` of
  `MCServices`).

SyncClientLive sets `SnapshotsKeepUp`, an assumption on the environment in two
parts (`Recoverable` of `SyncClient`): the log is only truncated up to a stored
snapshot, and the head is never further from the latest snapshot (from the start
of the log, when none is stored) than the `totalLimitPerTarget` of any binding
that sets one. Nothing in the repository enforces either; it is what whoever
truncates, appends and stores snapshots has to keep to. Without the first part,
or with three events and without the second, the liveness properties fail, see
section 4.

## 6. Proofs

| theorem | module | states |
|---|---|---|
| TypeCorrect | `MemoryStoreProofs` | `Spec => []TypeOK` |
| LogStaysContiguous | `MemoryStoreProofs` | `Spec => []LogContiguous` |
| NoWakeupIsMissed | `MemoryStoreProofs` | `Spec => []NoMissedWakeup` |
| KeysNameFirstWrites | `MemoryStoreProofs` | `Spec => IdempotencyConsistent` |
| CountLimitIsKept | `MemoryStoreProofs` | `Spec => []CountLimitHolds` |
| EngineTypeCorrect | `EngineProofs` | `EngineSpec => []EngineTypeOK` |
| CursorsStayWithinHead | `EngineProofs` | `EngineSpec => []CursorWithinHead` |
| BatchesFollowCursors | `EngineProofs` | `EngineSpec => []BatchFollowsCursor` |
| FinalIsCaughtUp | `EngineProofs` | `EngineSpec => []FinalMeansCaughtUp` |
| TypeCorrect | `SyncClientProofs` | `Spec => []TypeOK` |
| AcksStayBehind | `SyncClientProofs` | `Spec => []AckBehindApplied` |
| ProjectionsHaveNoGap | `SyncClientProofs` | `Spec => []NoSilentGap` |
| OneBatchIsOut | `GatewayDeliveryProofs` | `Spec => []OneBatchAhead` |
| WindowIsKept | `GatewayDeliveryProofs` | `Spec => SendsWithinWindow` |
| NoBatchAfterTooLong | `GatewayDeliveryProofs` | `Spec => TooLongStopsDelivery` |
| ClientCanApply | `GatewayDeliveryProofs` | `DistinctStreams` implies `Spec => []NextBatchFits` |
| DeliveryTypes | `GatewayDeliveryProofs` | `Spec => []TypeOK` |
| TypeCorrect | `LiveSubscriptionProofs` | `Spec => []TypeOK` |
| RegistryIsExact | `LiveSubscriptionProofs` | `Spec => []RegistryExact` |
| OnlyOwnerModifies | `LiveSubscriptionProofs` | `Spec => OwnStreamOnly` |
| EngineImplementsService | `EngineProofs` | `SteadySpec => ImplementsService` |
| TooLongStaysJustified | `EngineProofs` | `EngineSpec => []TooLongIsJustified` |
| CompactionSparesCounted | `EngineProofs` | `SteadySpec => CompactionKeepsCounted` |
| CallsInvariant | `GatewayEngineProofs` | `Spec => []Inv` |
| GatewayTypes | `GatewayEngineProofs` | `Spec => []TypeOK` |
| StatesFit | `GatewayEngineProofs` | `Spec => []StatesShownFit` |
| TargetsAnswered | `GatewayEngineProofs` | `Spec => []EveryTargetAnswered` |
| AcksShown | `GatewayEngineProofs` | `Spec => []AckShown` |
| ServiceTypes | `RawServiceProofs` | `Spec => []TypeOK` |
| AcksAreRead | `RawServiceProofs` | `Spec => []ReadYourAcks` |
| AppendsAreAnsweredOnce | `RawServiceProofs` | `Spec => []AppendsAnsweredOnce` |
| ServicesTypes | `ServicesProofs` | `ServicesSpec => []ServicesTypeOK` |
| EveryEventAccountedFor | `ServicesProofs` | `ServicesSpec => []EventsAccountedFor` |
| FramesFit | `ServicesProofs` | `ServicesSpec => []NextFrameFits` |
| SnapshotsFound | `ServicesProofs` | `ServicesSpec => []SnapshotsExact` |

They hold for every value of the constants, from the named assumptions of the
modules (`KeyAssumption`, `StoreAssumption`, `EngineAssumption`,
`ClientAssumption`, `DeliveryAssumption`, `SubscriptionAssumption`,
`GatewayAssumption`), which TLC evaluates on every run. The modules that
`Services` is made of state theirs as definitions (`ServiceAssumption`,
`AdminAssumption`, `SubscribeAssumption`, `SnapshotAssumption`; together
`ServicesAssumption`), which are hypotheses of their theorems and which
`MCServices` asserts of the instance it checks. They give constants their types, keep
markers apart from values and say which sets are finite or not empty;
`GatewayAssumption` and `DeliveryAssumption` add that a target has bindings, the
former also that their keys are distinct: the gateway checks both when it
resolves a target (`resolveBindings`).

* **The log.** `MemoryStoreProofs` first shows that both prefix scans stop within the
  log, what removing a prefix leaves, and that append, truncation and retention
  keep a contiguous stream contiguous and of its type. With these,
  `LogContiguous` is inductive relative to `TypeOK`: an action changes at most
  one stream, by one of the operators.
* **Keys.** The state half of `IdempotencyConsistent`, that entries name the
  events that are left, is inductive relative to `TypeOK` and
  `LogContiguous`: truncation and retention leave keys alone and take a prefix
  of the log; a new event takes the seq after the head, which no key names yet,
  under a key that is not used and so names no event that is left. The other half,
  that an entry stays until its stream is deleted, is a property of each step:
  truncation and retention keep all entries, and an append writes one that was 0.
* **The count limit.** `CountLimitHolds` is inductive relative to `TypeOK`,
  because append and the change of a policy run retention in the same critical
  section, and every other step only shortens a log.
* **Wake-ups.** `NoMissedWakeup` is inductive relative to `TypeOK` in the form
  it is checked: its second half (a watcher belongs to a blocked caller) is what
  the first half (a blocked caller is registered and not passed) needs when a
  watcher is removed. An append moves the head and removes every watcher it
  passes in the same step.
* **Cursors.** The types need one strengthening (`EngineTyped`): a call that
  reads carries one of the given limits, which are positive, so that its batch
  has a last event. `CursorWithinHead` is then inductive as it is checked; its
  second half, about acks between their two storage calls, is what the first
  half needs when the cursor is written. Every step but a deletion or a reset
  moves heads forward only (`HeadsMoveForward`), and those two end `steady`.
* **Batches.** `AnswersFollow` says that the answer of every finished call
  keeps its promise (`Follows`) and that an ack carries no answer; it is
  inductive relative to `EngineTyped` and `LogContiguous`, which the engine's
  environment preserves as the store does. The one step with something to show
  is `CatchUpRead`: in a contiguous log that is replayable from a position, the
  number of events at or below it follows from the boundary
  (`SkipInContiguousLog`), so the batch starts right after the cursor, however
  old that cursor is. Both properties follow from `AnswersFollow`.
* **The refinement.** Every step of the steady engine maps to one step of the
  service or to none. What the mapping needs of the state is `EngineTyped`,
  `LogContiguous`, `CursorWithinHead` and one fact about calls under way: a
  call's cursor is within the head, and a head it has read is not beyond the
  current one. Then the first TOO_LONG decision, taken from a boundary that can
  only have grown, and the batch, which by `SkipInContiguousLog` starts right
  after the cursor, are what the service would answer at the moment of the
  call's last read.
* **TOO_LONG.** Every step of the service leaves or advances a boundary, so by
  the refinement every step of the steady engine does
  (`BoundariesMoveForward`): what justified an answer when it was decided
  justifies it from then on.
* **Compaction.** `MinimumIsRemembered` is the inductive part: between its two
  critical sections a compaction remembers a minimum that every cursor it
  counted is at or above, because commits only go forward. In a contiguous log
  a truncation at or before the position after a cursor then takes nothing that
  this reader still needs (`TruncationSparesReader`). The theorem is about
  `SteadySpec`: an admin reset may put a counted cursor anywhere.
* **The client.** `Inv` of `SyncClientProofs` strengthens the two properties by
  what is under way: every batch a task or a stream holds is of the task's own
  target and is an interval that starts at or before the event after the
  applied seq (`IsNext`), an ack under way is at or behind that seq, and a task
  has no stream while it is idle or waits to reconnect. A batch stays such an
  interval because an applied seq never goes back (`Grows`); what the store
  adds of it is then exactly the interval after the applied seq
  (`BatchOfTask`), which leaves no gap. The theorems are about `Spec`: with a
  target added to an open stream (`ModifySpec`) a batch need not be of the
  task's target, which is the first finding.
* **The delivery loop.** `Inv` of `GatewayDeliveryProofs` says of every request
  that it asks from a cursor that was committed, of every answer that it keeps
  within the limit or stands for a loss, of every state that was read that its
  cursor has not gone back since, of a pass that is handled that all its answers
  are there, and of every TOO_LONG that was sent that its cursor is lost for
  good. The logs only move forward (`Forward`), so most steps leave most parts
  alone (`Undisturbed`). The batch limit then bounds what is out, an old cursor
  makes the throttle stricter and never looser, and an answer with events
  starts beyond every loss. `ClientCanApply` needs two more facts (`Fits`), and
  that bindings do not share a stream (`DistinctStreams`): they would share its
  cursor, and an ack of one would skip events of the other. `DeliveryTypes`
  follows the seqs round the loop: the head bounds what is answered
  (`AnswersFit`), that what is on the wire (`FramesFit`), that what is applied,
  and that what is acked; a state has sums because a target has bindings
  (`StateHasType`), and a pass sends only what there is room for
  (`HandleSends`).
* **The registry.** `RegistryExact` is inductive relative to `TypeOK`. All
  actions but three leave the registry alone and neither open nor end a stream
  (`KeepsStreamsOpen`); `Register` requires the id to be free, and
  `UnregisterSub` ends the stream in the step that frees its id.
* **Ownership.** `OwnStreamOnly` follows from `HoldsOwnStream`: a modify call
  between its lookup and its change holds a stream of its own subscriber. The
  stream may have ended and its id may have been taken, but the call holds the
  stream and not the id, and the owner of a stream never changes.
* **The gateway's calls.** `Inv` of `GatewayEngineProofs` follows a call from
  read to read. Where it stands is a target and a binding of its own
  (`Located`); the state under construction has exactly the bindings passed so
  far, in their order, and its aggregates are the least cursor, the greatest
  head and the least boundary of them (`Building`); each binding shown is behind the log and the cursor as they are
  now, because those only move forward; the ack that was committed
  (`AckHeld`), the snapshot that was found (`SnapshotHeld`) and the batch that
  was read (`CatchingUp`) fit the state that is put together after them or
  before them; and every target taken up so far is reported (`Reported`). The
  answer keeps all this (`ReplyFits`). That a key selects one binding, which
  `AckShown` needs, rests on distinct binding keys. What the aggregates and
  the flattened lists are is shown by the lemmas before it (`SetInduction`,
  `CountIn`, `FlattenSeq`).
* **The raw services.** They run on the engine itself, so
  `RawServiceProofs` takes the theory of `EngineProofs` through an instance
  (`P`) and adds what its sessions remember. `PromisesKept` says that a cursor
  is at or beyond every ack answered for its subscriber while the store is
  steady; `SessionsOK` carries this through the phases of a call, each of which
  may only have read more. `ShownWithinHead` needs that a cursor which was read
  is within the head that is read later. For appends (`AnsweredOK`) the
  inductive part is that the log, the key index and the answers agree: every
  event is one somebody was told of, every key names the seq its first write was
  told, and no answer is beyond the head, so a new seq is new to everybody.
* **The account.** `Accounted` says for every stream that its events and the
  reported removals never exceed the head, equal it unless something was cut
  unreported, and that a stream has no policy unless somebody set one since it
  was created. It needs that truncation reports exactly what it takes
  (`MemoryStoreProofs`), and that a deletion takes policy and account with it.
* **The raw Subscribe loop.** `LoopOK` says that the committed cursor is at or
  behind what the consumer applied, which is within the head (`WithinLog`);
  that every catch-up, asked or answered, starts at a cursor the consumer had
  reached (`RequestFits`, `ResultFits`); and that of each frame on the wire,
  from the position where the frames before it leave the consumer
  (`WireFits`). A frame taken late then only repeats what was applied.
* **Snapshots.** `ScanFinds` is an induction over how far the scan of the map
  has come: the candidate is compatible and no compatible one among those
  passed is newer. It holds for every order, because the order is a variable of
  the statement.
* **The services side by side.** `PartsBehave` shows that `ServicesSpec` implies
  the specification of each part, because a step of one leaves the variables of
  the others alone; what is proved of the parts then holds of the whole.

### Only model-checked

* Liveness: it depends on fairness, which is out of the prover's reach.
* `ImplementsStore`, with the order of the events in a record: a batch is applied to the projection store by a fold, and
  records are found by parts of encoded keys, so that the proof needs a theory
  of names without separators first (section 7).

The library's induction theorems have operators as parameters, which the
installed provers cannot instantiate. Where induction over numbers is needed,
for scans, flattening and counting, `SetInduction` states it for a set of
numbers and is proved from the well-foundedness of the naturals.

## 7. Plan

Done: every component of section 1 but those of section 8; the refinements of
the engine and of the projection store; the theorems of section 6. Next:

1. Proofs: that `MemorySyncStore` implements `ProjectionStore` for names
   without separators.
2. The client on top of `SyncService` in place of its own server part, with
   several bindings of one target.
3. `GatewayDelivery` and `LiveSubscription` in one composition, with streams
   that end and are opened again.

## 8. Not modelled

* The codec registry and the contract tests: no state, or not part of the
  program. Which payloads may be read is one changing predicate of the models.
* The transport of the client, an interface the repository does not implement.
* Descriptors, reflection and JSON forms in the generated code, and its Go
  half: no logic of this program. The message types are modelled.
* Payload bytes, metadata, times in messages: no service looks at them.
  Creation times that retention reads are in `StreamLog`.
* Argument checks that only reject a call with an error and change nothing, and
  services that are not configured.
* Pages of lists: requests have page tokens, which the store does not read.
