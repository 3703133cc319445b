---------------------------- MODULE AdminService ----------------------------
(***************************************************************************)
(* The admin service (the SyncLogAdmin methods of                          *)
(* pkg/synclog/transport/grpc/server.go) on the memory store, which        *)
(* implements its interfaces itself.  A method passes its request to the   *)
(* store and returns the answer; producers and subscribers keep using the  *)
(* streams in between.                                                     *)
(*                                                                         *)
(* Three histories serve the properties: what truncations reported as      *)
(* removed, which streams were cut without a report, and which streams     *)
(* anyone may have cut at all.  They are kept since the stream was last    *)
(* deleted and guard no action.                                            *)
(***************************************************************************)
EXTENDS AdminMessages, FiniteSetsExt

CONSTANTS
    Operators,      \* callers of CompactStream, which is not one step
    Retentions,     \* policies operators set
    ListLimits,     \* limits operators list with; 0 is the default
    MaxLimit,       \* synclog.MaxLimit
    MaxSeq, MaxTime

(* What the proofs need of the constants; every instance assumes it.       *)
AdminAssumption ==
    /\ NoKey \notin Keys /\ IsFiniteSet(Subscribers)
    /\ Prefixes \subseteq SUBSET Streams /\ ListLimits \subseteq Nat
    /\ Retentions \subseteq [ttl : Nat, max : Nat]
    /\ MaxSeq \in Nat /\ MaxTime \in Nat \ {0}

VARIABLES
    streams, cursors, retention, watchers, waiting, compacting, now,
    reply,          \* the last call and what it returned
    removed,        \* history: the sum of what truncations reported
    unreported,     \* history: streams retention or compaction was used on
    policed         \* history: streams a policy with a limit was set for

storeVars == <<streams, cursors, retention, watchers, waiting, compacting, now>>
histories == <<removed, unreported, policed>>
vars == <<storeVars, reply, histories>>

Store == INSTANCE MemoryStore WITH Waiters <- {}, Compactors <- Operators

TypeOK ==
    /\ reply # Absent => /\ reply.input \in SyncLogAdminService[reply.rpc].input
                         /\ reply.output \in SyncLogAdminService[reply.rpc].output
    /\ removed \in [Streams -> Nat]
    /\ unreported \subseteq Streams /\ policed \subseteq Streams

Init ==
    /\ Store!Init
    /\ reply = Absent
    /\ removed = [s \in Streams |-> 0] /\ unreported = {} /\ policed = {}

Reply(rpc, input, output) == reply' = [rpc |-> rpc, input |-> input, output |-> output]

-----------------------------------------------------------------------------
(* Streams.                                                                *)

CreateStream(s) ==
    /\ Store!CreateStream(s)
    /\ Reply("createStream", [streamId |-> s], [stream |-> [id |-> s]])
    /\ UNCHANGED histories

DeleteStream(s) ==
    /\ Store!DeleteStream(s)
    /\ Reply("deleteStream", [streamId |-> s], [deleted |-> streams[s].exists])
    /\ removed' = [removed EXCEPT ![s] = 0]
    /\ unreported' = unreported \ {s} /\ policed' = policed \ {s}

EffectiveLimit(limit) == IF limit = 0 \/ limit > MaxLimit THEN MaxLimit ELSE limit

(* The map is walked in an order of its own: any streams with the prefix,  *)
(* as many as the limit allows.                                            *)
ListStreams(prefix, limit) ==
    LET found == {s \in prefix : streams[s].exists}
        size == Store!Smaller(Cardinality(found), EffectiveLimit(limit))
    IN  /\ \E shown \in kSubset(size, found) :
              Reply("listStreams", [prefix |-> prefix, limit |-> limit],
                    [streams |-> [id : shown]])
        /\ UNCHANGED <<storeVars, histories>>

-----------------------------------------------------------------------------
(* Retention.                                                              *)

(* Mutant: counts the event at the boundary as removed.                    *)
RemovedInclusive(s, before) == Store!PrefixBelow(streams[s].events, before + 1)

Removed(s, before) == Store!PrefixBelow(streams[s].events, before)

TruncateStream(s, before) ==
    /\ Store!TruncateStream(s, before)
    /\ Reply("truncateStream", [streamId |-> s, beforeSeq |-> before],
             [removed |-> Removed(s, before)])
    /\ removed' = [removed EXCEPT ![s] = @ + Removed(s, before)]
    /\ UNCHANGED <<unreported, policed>>

Compacted(s) ==
    Reply("compactStream", [streamId |-> s], [job |-> [jobId |-> s, state |-> "DONE"]])

CompactStream(o, s) == Store!CompactMinimum(o, s) /\ UNCHANGED <<reply, histories>>

(* No cursor, or one that has read nothing: answered at once.              *)
CompactNothing(o, s) ==
    /\ compacting[o].phase = "idle"
    /\ \A u \in Store!CursorsOn(s) : \E v \in Store!CursorsOn(s) : cursors[<<v, s>>] = 0
    /\ Compacted(s)
    /\ UNCHANGED <<storeVars, histories>>

CompactTruncate(o) ==
    /\ Store!CompactTruncate(o)
    /\ Compacted(compacting[o].stream)
    /\ unreported' = unreported \cup {compacting[o].stream}
    /\ UNCHANGED <<removed, policed>>

PolicyOf(s, policy) == [streamId |-> s, ttlDays |-> policy.ttl, maxEvents |-> policy.max]

SetStreamRetention(s, policy) ==
    /\ Store!SetStreamRetention(s, policy)
    /\ Reply("setStreamRetention", [retention |-> PolicyOf(s, policy)],
             [retention |-> PolicyOf(s, policy)])
    /\ policed' = IF policy = Store!NoRetention THEN policed ELSE policed \cup {s}
    /\ UNCHANGED <<removed, unreported>>

-----------------------------------------------------------------------------
(* Cursors and statistics.                                                 *)

CursorShown(u, s, seq) ==
    [subscriberId |-> u, cursor |-> [streamId |-> s, seq |-> seq]]

(* Mutant: the cursor is not wrapped into a response.                      *)
ResetOutputBare(u, s, seq) == CursorShown(u, s, seq)

ResetOutput(u, s, seq) == [cursor |-> CursorShown(u, s, seq)]

ResetCursor(u, s, seq) ==
    /\ Store!ResetCursor(u, s, seq)
    /\ Reply("resetCursor", [subscriberId |-> u, streamId |-> s, seq |-> seq],
             ResetOutput(u, s, seq))
    /\ UNCHANGED histories

ListCursors(s) ==
    /\ Reply("listCursors", [streamId |-> s],
             [cursors |-> {CursorShown(u, s, cursors[<<u, s>>]) : u \in Store!CursorsOn(s)}])
    /\ UNCHANGED <<storeVars, histories>>

GetStreamStats(s) ==
    /\ Reply("getStreamStats", [streamId |-> s],
             [stats |-> [streamId |-> s, eventCount |-> Len(streams[s].events),
                         headSeq |-> streams[s].head,
                         subscriberCount |-> Cardinality(Store!CursorsOn(s))]])
    /\ UNCHANGED <<storeVars, histories>>

-----------------------------------------------------------------------------
StreamNext ==
    \/ \E s \in Streams : CreateStream(s) \/ DeleteStream(s)
    \/ \E prefix \in Prefixes, limit \in ListLimits : ListStreams(prefix, limit)

RetentionNext ==
    \E s \in Streams :
        \/ \E before \in 0..(MaxSeq + 1) : TruncateStream(s, before)
        \/ \E policy \in Retentions : SetStreamRetention(s, policy)
        \/ \E o \in Operators : CompactStream(o, s) \/ CompactNothing(o, s)

CursorNext ==
    \E s \in Streams :
        \/ \E u \in Subscribers, seq \in 0..MaxSeq : ResetCursor(u, s, seq)
        \/ ListCursors(s) \/ GetStreamStats(s)

UsersNext ==
    /\ \/ \E s \in Streams, key \in Keys \cup {NoKey} : Store!AppendNew(s, key, now)
       \/ Store!AckNext
       \/ Store!Tick
    /\ UNCHANGED <<reply, histories>>

Next ==
    StreamNext \/ RetentionNext \/ (\E o \in Operators : CompactTruncate(o))
        \/ CursorNext \/ UsersNext

Spec == Init /\ [][Next]_vars

-----------------------------------------------------------------------------
(* Properties.                                                             *)

LastWas(rpc) == reply # Absent /\ reply.rpc = rpc

(* Appends, truncation, retention, compaction and deletion in any order:   *)
(* the statistics never show an event that a truncation already reported   *)
(* as removed, and as long as nothing was cut without a report, what they  *)
(* show and what was reported make up the whole log.                       *)
EventsAccountedFor ==
    LastWas("getStreamStats") =>
        LET stats == reply.output.stats
            known == stats.eventCount + removed[stats.streamId]
        IN  /\ known <= stats.headSeq
            /\ stats.streamId \notin unreported \cup policed => known = stats.headSeq

(* "0 = keep forever", "0 = unlimited" (admin.proto:24-25), and a policy   *)
(* dies with its stream: a stream that was not truncated, compacted or     *)
(* given a limit since it was deleted last still holds its first event,    *)
(* whatever policies its predecessor of the same name had.                 *)
UntouchedIsComplete ==
    \A s \in Streams :
        s \notin unreported \cup policed /\ removed[s] = 0
            => Len(streams[s].events) = streams[s].head
=============================================================================
