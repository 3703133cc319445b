----------------------------- MODULE MemoryStore -----------------------------
(***************************************************************************)
(* The in-memory storage adapter (internal/storage/memory/store.go) under  *)
(* concurrent callers.  Every method holds the store's one mutex from its  *)
(* first read to its last write, so a method is one action, except:        *)
(*   - CompactStream, which computes the minimum cursor under the mutex,   *)
(*     lets the mutex go, and takes it again to truncate;                  *)
(*   - WaitForStream, which registers a watcher and then blocks outside    *)
(*     the mutex until it is woken or its context ends.                    *)
(*                                                                         *)
(* Snapshots are a map of their own that no operation here reads or        *)
(* writes (only DeleteStream clears a stream's entries); they are left to  *)
(* a module of their own.  Calls that only read (ListStreams, ListCursors, *)
(* GetStreamStats) change nothing and have no action.                      *)
(*                                                                         *)
(* Bounds: MaxSeq caps the sequence numbers a run appends or names, and    *)
(* MaxTime the clock.                                                      *)
(***************************************************************************)
EXTENDS StreamLog

CONSTANTS
    Streams,        \* stream ids
    Subscribers,    \* subscriber ids
    Waiters,        \* callers of WaitForStream
    Compactors,     \* callers of CompactStream
    Retentions,     \* the policies SetStreamRetention is called with
    MaxSeq,         \* bound: largest seq appended or named by a caller
    MaxTime         \* bound: largest value of the clock

ASSUME StoreAssumption ==
    /\ Retentions \subseteq RetentionSet
    /\ MaxSeq \in Nat
    /\ MaxTime \in Nat \ {0}

VARIABLES
    streams,        \* s.streams
    cursors,        \* s.cursors: the stored seq, or NoCursor
    retention,      \* s.retention
    watchers,       \* s.watchers, with the caller that owns the channel
    waiting,        \* per waiter: idle, or inside the select of WaitForStream
    compacting,     \* per compactor: idle, or between its two critical sections
    now             \* the wall clock

storeVars == <<streams, cursors, retention, watchers, waiting, compacting, now>>

NoCursor == -1

(* waiting[w].phase: "blocked" until the channel is closed, then "woken".  *)
WaitSet == [phase : {"idle", "blocked", "woken"}, stream : Streams, after : Nat]
(* counted is history: the subscribers whose cursors the minimum is over.  *)
CompactSet == [phase : {"idle", "truncate"}, stream : Streams, min : Nat,
               counted : SUBSET Subscribers]

TypeOK ==
    /\ streams \in [Streams -> StreamSet]
    /\ cursors \in [Subscribers \X Streams -> Nat \cup {NoCursor}]
    /\ retention \in [Streams -> RetentionSet]
    /\ watchers \in [Streams -> SUBSET [after : Nat, owner : Waiters]]
    /\ waiting \in [Waiters -> WaitSet]
    /\ compacting \in [Compactors -> CompactSet]
    /\ now \in Nat

Init ==
    /\ streams = [s \in Streams |-> NoStream]
    /\ cursors = [c \in Subscribers \X Streams |-> NoCursor]
    /\ retention = [s \in Streams |-> NoRetention]
    /\ watchers = [s \in Streams |-> {}]
    /\ waiting \in [Waiters -> [phase : {"idle"}, stream : Streams, after : {0}]]
    /\ compacting \in [Compactors -> [phase : {"idle"}, stream : Streams, min : {0},
                                      counted : {{}}]]
    /\ now = 1

-----------------------------------------------------------------------------
(* Watchers.                                                               *)

(* Mutant: a waiter that is passed by one event is not woken. *)
NotifyStreamLate(s, head) ==
    LET woken == {x \in watchers[s] : x.after + 1 < head}
    IN  /\ watchers' = [watchers EXCEPT ![s] = @ \ woken]
        /\ waiting' = [w \in Waiters |->
                         IF \E x \in woken : x.owner = w
                         THEN [waiting[w] EXCEPT !.phase = "woken"]
                         ELSE waiting[w]]

(* Close the channels of the watchers that wait for less than the head,    *)
(* and keep the others.                                                    *)
NotifyStream(s, head) ==
    LET woken == {x \in watchers[s] : x.after < head}
    IN  /\ watchers' = [watchers EXCEPT ![s] = @ \ woken]
        /\ waiting' = [w \in Waiters |->
                         IF \E x \in woken : x.owner = w
                         THEN [waiting[w] EXCEPT !.phase = "woken"]
                         ELSE waiting[w]]

(* The first critical section when the head is not past after: register.   *)
(* (When it is, the call returns nil at once and changes nothing.)         *)
WaitForStream(w, s, after) ==
    /\ waiting[w].phase = "idle"
    /\ streams[s].head <= after
    /\ watchers' = [watchers EXCEPT ![s] = @ \cup {[after |-> after, owner |-> w]}]
    /\ waiting' = [waiting EXCEPT ![w] = [phase |-> "blocked", stream |-> s, after |-> after]]
    /\ UNCHANGED <<streams, cursors, retention, compacting, now>>

(* select: the closed channel is received from; the call returns nil.      *)
WaitReturn(w) ==
    /\ waiting[w].phase = "woken"
    /\ waiting' = [waiting EXCEPT ![w].phase = "idle"]
    /\ UNCHANGED <<streams, cursors, retention, watchers, compacting, now>>

(* select: the context is done, which may win against a closed channel;    *)
(* the watcher is removed if it is still registered.                       *)
WaitCancel(w) ==
    /\ waiting[w].phase # "idle"
    /\ watchers' = [watchers EXCEPT ![waiting[w].stream] = {x \in @ : x.owner # w}]
    /\ waiting' = [waiting EXCEPT ![w].phase = "idle"]
    /\ UNCHANGED <<streams, cursors, retention, compacting, now>>

-----------------------------------------------------------------------------
(* The log.                                                                *)

(* Mutant: the watchers are told the head before the append. *)
AppendNewNotifiesOldHead(s, key, at) ==
    /\ streams[s].head < MaxSeq
    /\ ~KeyUsed(streams[s], key)
    /\ streams' = [streams EXCEPT ![s] =
                     ApplyRetention(AppendEvent(@, key, at), retention[s], now)]
    /\ NotifyStream(s, streams[s].head)
    /\ UNCHANGED <<cursors, retention, compacting, now>>

(* Append of a first write: retention is applied in the same critical      *)
(* section, before the watchers are told.                                  *)
AppendNew(s, key, at) ==
    /\ streams[s].head < MaxSeq
    /\ ~KeyUsed(streams[s], key)
    /\ streams' = [streams EXCEPT ![s] =
                     ApplyRetention(AppendEvent(@, key, at), retention[s], now)]
    /\ NotifyStream(s, streams[s].head + 1)
    /\ UNCHANGED <<cursors, retention, compacting, now>>

(* A retry with a used key: answered from the log, or with ErrTooLong when *)
(* the event is gone; either way nothing changes.                          *)
AppendRetry(s, key) ==
    /\ KeyUsed(streams[s], key)
    /\ UNCHANGED storeVars

CreateStream(s) ==
    /\ streams' = [streams EXCEPT ![s] = EnsureStream(@)]
    /\ UNCHANGED <<cursors, retention, watchers, waiting, compacting, now>>

(* The stream, its policy and its cursors go; its watchers stay.           *)
DeleteStream(s) ==
    /\ streams' = [streams EXCEPT ![s] = NoStream]
    /\ retention' = [retention EXCEPT ![s] = NoRetention]
    /\ cursors' = [c \in Subscribers \X Streams |->
                     IF c[2] = s THEN NoCursor ELSE cursors[c]]
    /\ UNCHANGED <<watchers, waiting, compacting, now>>

TruncateStream(s, before) ==
    /\ streams' = [streams EXCEPT ![s] = TruncateBefore(@, before)]
    /\ UNCHANGED <<cursors, retention, watchers, waiting, compacting, now>>

SetStreamRetention(s, policy) ==
    /\ retention' = [retention EXCEPT ![s] = policy]
    /\ streams' = [streams EXCEPT ![s] = ApplyRetention(@, policy, now)]
    /\ UNCHANGED <<cursors, watchers, waiting, compacting, now>>

-----------------------------------------------------------------------------
(* Compaction.                                                             *)

CursorsOn(s) == {u \in Subscribers : cursors[<<u, s>>] # NoCursor}

(* min is the smallest stored cursor of the stream.                        *)
IsMinimumCursor(s, min) ==
    /\ \E u \in CursorsOn(s) : cursors[<<u, s>>] = min
    /\ \A u \in CursorsOn(s) : min <= cursors[<<u, s>>]

(* First critical section.  With no cursor, or a minimum of 0, the call    *)
(* ends without touching the stream.                                       *)
CompactMinimum(c, s) ==
    /\ compacting[c].phase = "idle"
    /\ \E min \in {cursors[<<u, s>>] : u \in CursorsOn(s)} :
          /\ IsMinimumCursor(s, min)
          /\ min > 0
          /\ compacting' = [compacting EXCEPT ![c] =
                              [phase |-> "truncate", stream |-> s, min |-> min,
                               counted |-> CursorsOn(s)]]
    /\ UNCHANGED <<streams, cursors, retention, watchers, waiting, now>>

(* Mutant: one event too many is removed. *)
CompactTruncateOneMore(c) ==
    /\ compacting[c].phase = "truncate"
    /\ streams' = [streams EXCEPT ![compacting[c].stream] =
                     TruncateBefore(@, compacting[c].min + 2)]
    /\ compacting' = [compacting EXCEPT ![c].phase = "idle"]
    /\ UNCHANGED <<cursors, retention, watchers, waiting, now>>

(* Second critical section, entered through TruncateBefore.                *)
CompactTruncate(c) ==
    /\ compacting[c].phase = "truncate"
    /\ streams' = [streams EXCEPT ![compacting[c].stream] =
                     TruncateBefore(@, compacting[c].min + 1)]
    /\ compacting' = [compacting EXCEPT ![c].phase = "idle"]
    /\ UNCHANGED <<cursors, retention, watchers, waiting, now>>

-----------------------------------------------------------------------------
(* Cursors.                                                                *)

(* What GetCursor answers: a missing cursor reads as 0.                    *)
CursorSeq(u, s) == Larger(cursors[<<u, s>>], 0)

(* Mutant: an ack is stored whatever the cursor is. *)
StoreAckOverwrites(u, s, seq) ==
    /\ cursors' = [cursors EXCEPT ![<<u, s>>] = seq]
    /\ UNCHANGED <<streams, retention, watchers, waiting, compacting, now>>

(* Ack only moves forward; an ack at or below the cursor stores nothing.   *)
StoreAck(u, s, seq) ==
    /\ cursors' = [cursors EXCEPT ![<<u, s>>] = IF seq > CursorSeq(u, s) THEN seq ELSE @]
    /\ UNCHANGED <<streams, retention, watchers, waiting, compacting, now>>

(* The admin reset stores any seq, unchecked.                              *)
ResetCursor(u, s, seq) ==
    /\ cursors' = [cursors EXCEPT ![<<u, s>>] = seq]
    /\ UNCHANGED <<streams, retention, watchers, waiting, compacting, now>>

Tick ==
    /\ now < MaxTime
    /\ now' = now + 1
    /\ UNCHANGED <<streams, cursors, retention, watchers, waiting, compacting>>

-----------------------------------------------------------------------------
(* Every caller of the storage interface.                                  *)
WatcherNext ==
    \E w \in Waiters :
        \/ \E s \in Streams, after \in 0..MaxSeq : WaitForStream(w, s, after)
        \/ WaitReturn(w)
        \/ WaitCancel(w)

LogNext ==
    \E s \in Streams :
        \/ \E key \in Keys \cup {NoKey}, at \in 0..MaxTime : AppendNew(s, key, at)
        \/ \E key \in Keys : AppendRetry(s, key)
        \/ \E before \in 0..(MaxSeq + 1) : TruncateStream(s, before)
        \/ \E policy \in Retentions : SetStreamRetention(s, policy)

RegistryNext == \E s \in Streams : CreateStream(s) \/ DeleteStream(s)

CompactNext ==
    \E c \in Compactors :
        \/ \E s \in Streams : CompactMinimum(c, s)
        \/ CompactTruncate(c)

AckNext ==
    \E u \in Subscribers, s \in Streams, seq \in 0..MaxSeq : StoreAck(u, s, seq)

ResetNext ==
    \E u \in Subscribers, s \in Streams, seq \in 0..MaxSeq : ResetCursor(u, s, seq)

Next ==
    WatcherNext \/ LogNext \/ RegistryNext \/ CompactNext \/ AckNext \/ ResetNext \/ Tick

(* A goroutine whose channel is closed is scheduled again; nothing else of *)
(* the store has to happen.                                                *)
Spec == Init /\ [][Next]_storeVars /\ \A w \in Waiters : WF_storeVars(WaitReturn(w))

-----------------------------------------------------------------------------
(* Properties.                                                             *)

(* The order of appends, retention by age and by count, truncation,        *)
(* compaction and deletion never tears a hole into a log or moves the      *)
(* boundary that readers compare their cursor with off its first event.    *)
LogContiguous == \A s \in Streams : Contiguous(streams[s])

(* Retention, truncation, compaction and deletion between a first write    *)
(* and its retry: the retry is answered with the first write or refused,   *)
(* never appended a second time or answered with another event.  Entries   *)
(* name the events that are left; and an entry, once written, is never     *)
(* changed, so that no event is appended under a key that was used, also   *)
(* when the first event of the key is gone, until the stream is deleted    *)
(* and its keys with it.                                                   *)
EntriesNameEvents == \A s \in Streams : KeyNamesFirstWrite(streams[s])

EntryStays(s, k) ==
    streams[s].idempotency[k] > 0 =>
        streams'[s].idempotency[k] = streams[s].idempotency[k] \/ DeleteStream(s)

IdempotencyConsistent ==
    []EntriesNameEvents /\ [][\A s \in Streams, k \in Keys : EntryStays(s, k)]_storeVars

(* No lost wake-up and no leaked watcher: a caller blocked on its channel  *)
(* is registered and the head is not past what it waits for, and a         *)
(* registered watcher belongs to a caller that is still blocked on it.     *)
NoMissedWakeup ==
    /\ \A w \in Waiters : waiting[w].phase = "blocked" =>
          /\ [after |-> waiting[w].after, owner |-> w] \in watchers[waiting[w].stream]
          /\ streams[waiting[w].stream].head <= waiting[w].after
    /\ \A s \in Streams : \A x \in watchers[s] :
          /\ waiting[x.owner].phase = "blocked"
          /\ waiting[x.owner].stream = s
          /\ waiting[x.owner].after = x.after

(* The max_events policy in force is never exceeded between two calls.     *)
CountLimitHolds ==
    \A s \in Streams : retention[s].max > 0 => Len(streams[s].events) <= retention[s].max

(* A waiter that was passed by an append returns to its caller.            *)
PassedWaiterReturns ==
    \A w \in Waiters :
        (waiting[w].phase # "idle" /\ streams[waiting[w].stream].head > waiting[w].after)
            ~> waiting[w].phase = "idle"

(* Compaction against concurrent acks, appends and truncations: its second *)
(* critical section works with an old minimum and still leaves every       *)
(* subscriber it counted able to replay from where it is by then.          *)
KeepsUnreadOf(c, u) ==
    LET s == compacting[c].stream
    IN  /\ cursors[<<u, s>>] # NoCursor
        /\ ~ReplayTooOld(cursors[<<u, s>>], streams[s].retained)
        => ~ReplayTooOld(cursors[<<u, s>>], streams'[s].retained)

CompactionKeepsCounted ==
    [][\A c \in Compactors : CompactTruncate(c) =>
          \A u \in compacting[c].counted : KeepsUnreadOf(c, u)]_storeVars
=============================================================================
