------------------------------ MODULE CoreEngine ------------------------------
(***************************************************************************)
(* The core engine (pkg/synclog/engine.go) on top of the memory store.     *)
(* The engine holds no lock of its own: CatchUp asks the storage for the   *)
(* cursor, for the head and for a batch in three separate calls, and Ack   *)
(* for the head and then for the cursor update in two, so appends,         *)
(* retention, deletions and other sessions of the same subscriber run      *)
(* between them.                                                           *)
(*                                                                         *)
(* The engine's Append only stamps a missing creation time before it calls *)
(* the log, and GetHead and GetCursor pass through: events are appended    *)
(* here with a time of at least 1 (StampedAppend).                         *)
(*                                                                         *)
(* A deleted stream starts again at seq 1 and a reset puts a cursor at any *)
(* seq, so two of the properties speak of the time before the first of     *)
(* these; the history variable steady marks it and guards no action.       *)
(*                                                                         *)
(* Bounds: those of the store; a call names a limit and a total limit from *)
(* the sets the instance gives.                                            *)
(***************************************************************************)
EXTENDS MemoryStore

CONSTANTS
    Callers,        \* concurrent calls into the engine
    SubscriberOf,   \* the subscriber each caller acts for
    Limits,         \* batch limits after normalizeLimit
    TotalLimits     \* total limits; 0 is none

ASSUME EngineAssumption ==
    /\ SubscriberOf \in [Callers -> Subscribers]
    /\ Limits \subseteq Nat \ {0}
    /\ TotalLimits \subseteq Nat

VARIABLES
    call,       \* per caller: where its call is and what it has read
    steady      \* history: no stream was deleted and no cursor reset so far

vars == <<storeVars, call, steady>>

(* The answer of a catch-up; seqs are the seq numbers of the batch.        *)
ResultSet ==
    [status : {"none", "ok", "too_long"}, cursor : Nat, head : Nat, retained : Nat,
     seqs : Seq(Nat), seq : Nat, final : BOOLEAN]

NoResult ==
    [status |-> "none", cursor |-> 0, head |-> 0, retained |-> 0,
     seqs |-> <<>>, seq |-> 0, final |-> FALSE]

(* "head": the cursor is known; "read": the head is known and a batch is   *)
(* wanted; "ack": the head is known and seq is at or below it.             *)
CallSet ==
    [phase : {"idle", "head", "read", "ack"}, stream : Streams,
     limit : Nat, totalLimit : Nat, seq : Nat, result : ResultSet]

EngineTypeOK ==
    /\ TypeOK
    /\ call \in [Callers -> CallSet]
    /\ steady \in BOOLEAN

EngineInit ==
    /\ Init
    /\ call \in [Callers -> [phase : {"idle"}, stream : Streams, limit : {0},
                             totalLimit : {0}, seq : {0}, result : {NoResult}]]
    /\ steady = TRUE

-----------------------------------------------------------------------------
(* CatchUp.                                                                *)

CatchUp(c, s, limit, totalLimit) ==
    /\ call[c].phase = "idle"
    /\ call' = [call EXCEPT ![c] =
                  [phase |-> "head", stream |-> s, limit |-> limit,
                   totalLimit |-> totalLimit, seq |-> 0,
                   result |-> [NoResult EXCEPT !.cursor = CursorSeq(SubscriberOf[c], s)]]]
    /\ UNCHANGED storeVars

(* Mutant: the cursor is compared with the boundary itself. *)
CatchUpHeadAtBoundary(c) ==
    LET st == streams[call[c].stream]
        r == [call[c].result EXCEPT !.head = st.head, !.retained = st.retained]
    IN  /\ call[c].phase = "head"
        /\ call' = [call EXCEPT ![c] =
             IF \/ r.cursor < st.retained
                \/ ReplayOverBudget(r.cursor, st.head, call[c].totalLimit)
             THEN [@ EXCEPT !.phase = "idle", !.result = [r EXCEPT !.status = "too_long"]]
             ELSE [@ EXCEPT !.phase = "read", !.result = r]]
        /\ UNCHANGED storeVars

(* The head and the boundary are read together; a cursor behind the        *)
(* boundary, or too far behind the head for the budget, ends the call.     *)
CatchUpHead(c) ==
    LET st == streams[call[c].stream]
        r == [call[c].result EXCEPT !.head = st.head, !.retained = st.retained]
    IN  /\ call[c].phase = "head"
        /\ call' = [call EXCEPT ![c] =
             IF \/ ReplayTooOld(r.cursor, st.retained)
                \/ ReplayOverBudget(r.cursor, st.head, call[c].totalLimit)
             THEN [@ EXCEPT !.phase = "idle", !.result = [r EXCEPT !.status = "too_long"]]
             ELSE [@ EXCEPT !.phase = "read", !.result = r]]
        /\ UNCHANGED storeVars

(* Mutant: the batch is answered with the head read before it. *)
CatchUpReadOldHead(c) ==
    LET st == streams[call[c].stream]
        r == call[c].result
        batch == ReadBatch(st, r.cursor, call[c].limit)
    IN  /\ call[c].phase = "read"
        /\ call' = [call EXCEPT ![c] =
             [@ EXCEPT !.phase = "idle",
                       !.result = IF ReadTooLong(st, r.cursor)
                                  THEN [r EXCEPT !.status = "too_long"]
                                  ELSE [status |-> "ok", cursor |-> r.cursor,
                                        head |-> r.head, retained |-> r.retained,
                                        seqs |-> batch.seqs, seq |-> batch.seq,
                                        final |-> batch.final]]]
        /\ UNCHANGED storeVars

(* The storage decides again: its ErrTooLong keeps the older head.         *)
CatchUpRead(c) ==
    LET st == streams[call[c].stream]
        r == call[c].result
        batch == ReadBatch(st, r.cursor, call[c].limit)
    IN  /\ call[c].phase = "read"
        /\ call' = [call EXCEPT ![c] =
             [@ EXCEPT !.phase = "idle",
                       !.result = IF ReadTooLong(st, r.cursor)
                                  THEN [r EXCEPT !.status = "too_long"]
                                  ELSE [status |-> "ok", cursor |-> r.cursor,
                                        head |-> st.head, retained |-> st.retained,
                                        seqs |-> batch.seqs, seq |-> batch.seq,
                                        final |-> batch.final]]]
        /\ UNCHANGED storeVars

-----------------------------------------------------------------------------
(* Ack.                                                                    *)

(* Mutant: no check against the head. *)
AckUnchecked(c, s, seq) ==
    /\ call[c].phase = "idle"
    /\ call' = [call EXCEPT ![c] = [@ EXCEPT !.phase = "ack", !.stream = s, !.seq = seq,
                                             !.result = NoResult]]
    /\ UNCHANGED storeVars

(* The check against the head; a seq above it ends the call with an error. *)
Ack(c, s, seq) ==
    /\ call[c].phase = "idle"
    /\ seq <= streams[s].head
    /\ call' = [call EXCEPT ![c] = [@ EXCEPT !.phase = "ack", !.stream = s, !.seq = seq,
                                             !.result = NoResult]]
    /\ UNCHANGED storeVars

AckCursor(c) ==
    /\ call[c].phase = "ack"
    /\ StoreAck(SubscriberOf[c], call[c].stream, call[c].seq)
    /\ call' = [call EXCEPT ![c].phase = "idle"]

-----------------------------------------------------------------------------
EngineNext ==
    \E c \in Callers :
        \/ \E s \in Streams, limit \in Limits, totalLimit \in TotalLimits :
              CatchUp(c, s, limit, totalLimit)
        \/ CatchUpHead(c)
        \/ CatchUpRead(c)
        \/ \E s \in Streams, seq \in 0..MaxSeq : Ack(c, s, seq)
        \/ AckCursor(c)

StampedAppend(s, key) == AppendNew(s, key, now)

(* Everything but engine calls that changes the store.                     *)
ProducerNext ==
    \E s \in Streams :
        \/ \E key \in Keys \cup {NoKey} : StampedAppend(s, key)
        \/ \E key \in Keys : AppendRetry(s, key)

RetentionNext ==
    \E s \in Streams :
        \/ \E before \in 0..(MaxSeq + 1) : TruncateStream(s, before)
        \/ \E policy \in Retentions : SetStreamRetention(s, policy)

AdminNext == RegistryNext \/ ResetNext

SteadyNext ==
    \/ EngineNext
    \/ (ProducerNext \/ RetentionNext \/ CompactNext \/ Tick) /\ UNCHANGED call

EngineSpecNext ==
    \/ SteadyNext /\ UNCHANGED steady
    \/ AdminNext /\ UNCHANGED call /\ steady' = FALSE

EngineSpec == EngineInit /\ [][EngineSpecNext]_vars

-----------------------------------------------------------------------------
(* Properties.                                                             *)

Answered(c) == call[c].phase = "idle" /\ call[c].result.status # "none"
Result(c) == call[c].result

(* Whatever happened between the three reads, a batch starts at the event  *)
(* after the cursor that is returned with it, has no gap, and ends within  *)
(* the head that is returned with it; only an empty batch of a caught-up   *)
(* reader (or of one beyond a recreated log) carries no event.             *)
BatchFollowsCursor ==
    \A c \in Callers : Answered(c) /\ Result(c).status = "ok" =>
        LET r == Result(c) IN
        /\ \A i \in 1..Len(r.seqs) : r.seqs[i] = r.cursor + i
        /\ Len(r.seqs) <= call[c].limit
        /\ r.seqs # <<>> => r.seq = r.cursor + Len(r.seqs) /\ r.seq <= r.head
        /\ r.seqs = <<>> => r.seq = r.head /\ r.cursor >= r.head

(* A batch says final exactly when it reaches the head returned with it,   *)
(* so a reader that stops there missed nothing that was appended before.   *)
FinalMeansCaughtUp ==
    \A c \in Callers : Answered(c) /\ Result(c).status = "ok" =>
        (Result(c).final <=> Result(c).seq = Result(c).head)

(* TOO_LONG is never a false alarm while no stream is deleted: the reader  *)
(* really was over its budget, or the cursor the call worked with can not  *)
(* be replayed from any more, however long ago the answer was given.       *)
TooLongIsJustified ==
    steady => \A c \in Callers : Answered(c) /\ Result(c).status = "too_long" =>
        \/ ReplayOverBudget(Result(c).cursor, Result(c).head, call[c].totalLimit)
        \/ ReplayTooOld(Result(c).cursor, streams[call[c].stream].retained)

(* The head check and the cursor update of Ack are two storage calls; as   *)
(* long as no stream is deleted and no cursor is reset, the cursors that   *)
(* result stay within the log, and so do the acks still under way.         *)
CursorWithinHead ==
    steady =>
    /\ \A u \in Subscribers, s \in Streams : CursorSeq(u, s) <= streams[s].head
    /\ \A c \in Callers : call[c].phase = "ack" => call[c].seq <= streams[call[c].stream].head
=============================================================================
