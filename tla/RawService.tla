----------------------------- MODULE RawService -----------------------------
(***************************************************************************)
(* The unary methods of the raw sync log service                           *)
(* (pkg/synclog/transport/grpc/server.go) on the core engine, with several *)
(* sessions of a subscriber and producers at the same time.  A method      *)
(* calls the engine and turns what it returns into a response; GetCursor   *)
(* calls it twice.                                                         *)
(*                                                                         *)
(* A response is compared with what was answered before.  For that it      *)
(* carries promised, the highest cursor an ack had been answered with when *)
(* the call began, and the answers to appends are kept in answered.        *)
(***************************************************************************)
EXTENDS SyncLogMessages

CONSTANTS
    Callers, SubscriberOf,      \* sessions and the subscribers they act for
    Limits, TotalLimits,
    MaxSeq

(* What the proofs need of the constants; every instance assumes it.       *)
ServiceAssumption ==
    /\ NoKey \notin Keys /\ MaxSeq \in Nat
    /\ SubscriberOf \in [Callers -> Subscribers]
    /\ Limits \subseteq Nat \ {0} /\ TotalLimits \subseteq Nat
    /\ PayloadTypes # {}

VARIABLES
    streams, cursors, retention, watchers, waiting, compacting, now,
    call, steady,
    seen,           \* per session: the cursor or head its call has read first
    reply,          \* what was returned last
    acked,          \* history: per cursor the highest seq an ack answered with
    promised,       \* history: per session, acked when its call began
    answered        \* history: the first writes that were answered with a seq

storeVars == <<streams, cursors, retention, watchers, waiting, compacting, now>>
engineVars == <<storeVars, call, steady>>
vars == <<engineVars, seen, reply, acked, promised, answered>>

Engine == INSTANCE CoreEngine WITH
    Waiters <- {}, Compactors <- {}, Retentions <- {}, MaxTime <- 1

Failed == Absent

PBCursor(s, seq) == [streamId |-> s, seq |-> seq]

TypeOK ==
    /\ reply # Absent => /\ reply.input \in SyncLogService[reply.rpc].input
                         /\ reply.output \in Optional(SyncLogService[reply.rpc].output)
                         /\ reply.promised \in Nat
    /\ seen \in [Callers -> Optional(Cursor)]
    /\ acked \in [Subscribers \X Streams -> Nat] /\ promised \in [Callers -> Nat]
    /\ answered \subseteq [streamId : Streams, seq : Nat, key : Keys \cup {NoKey}]

Init ==
    /\ Engine!EngineInit
    /\ seen = [c \in Callers |-> Absent] /\ reply = Absent
    /\ acked = [x \in Subscribers \X Streams |-> 0]
    /\ promised = [c \in Callers |-> 0] /\ answered = {}

Begin(c, s) ==
    /\ seen[c] = Absent
    /\ promised' = [promised EXCEPT ![c] = acked[<<SubscriberOf[c], s>>]]

Reply(rpc, input, output, floor) ==
    reply' = [rpc |-> rpc, input |-> input, output |-> output, promised |-> floor]

-----------------------------------------------------------------------------
(* Append and GetHead.                                                     *)

AppendInput(s, key) ==
    [streamId |-> s, payloadType |-> CHOOSE type \in PayloadTypes : TRUE,
     payloadVersion |-> 1, idempotencyKey |-> key]

AppendFirst(s, key) ==
    /\ Engine!StampedAppend(s, key)
    /\ Reply("append", AppendInput(s, key),
             [seq |-> streams'[s].head, deduplicated |-> FALSE], 0)
    /\ answered' = answered \cup {[streamId |-> s, seq |-> streams'[s].head, key |-> key]}
    /\ UNCHANGED <<call, seen, acked, promised>>

(* The event of the first write, or an error when it is gone.              *)
AppendAgain(s, key) ==
    /\ Engine!AppendRetry(s, key)
    /\ Reply("append", AppendInput(s, key),
             IF \E i \in 1..Len(streams[s].events) :
                    streams[s].events[i].seq = streams[s].idempotency[key]
             THEN [seq |-> streams[s].idempotency[key], deduplicated |-> TRUE]
             ELSE Failed, 0)
    /\ UNCHANGED <<call, seen, acked, promised, answered>>

GetHead(s) ==
    /\ Reply("getHead", [streamId |-> s],
             [head |-> PBCursor(s, streams[s].head), retainedSeqStart |-> streams[s].retained], 0)
    /\ UNCHANGED <<storeVars, call, seen, acked, promised, answered>>

-----------------------------------------------------------------------------
(* GetCursor.                                                              *)

GetCursor(c, s) ==
    /\ call[c].phase = "idle" /\ Begin(c, s)
    /\ seen' = [seen EXCEPT ![c] = PBCursor(s, Engine!CursorSeq(SubscriberOf[c], s))]
    /\ UNCHANGED <<storeVars, call, reply, acked, answered>>

GetCursorHead(c) ==
    /\ seen[c] # Absent /\ call[c].phase = "idle"
    /\ LET s == seen[c].streamId
       IN  Reply("getCursor", [subscriberId |-> SubscriberOf[c], streamId |-> s],
                 [cursor |-> seen[c], head |-> PBCursor(s, streams[s].head)], promised[c])
    /\ seen' = [seen EXCEPT ![c] = Absent]
    /\ UNCHANGED <<storeVars, call, acked, promised, answered>>

-----------------------------------------------------------------------------
(* CatchUp.                                                                *)

EmptyBatch == [events |-> <<>>, seqStart |-> 0, seq |-> 0, final |-> FALSE]

PBEvent(s, e) ==
    [streamId |-> s, seq |-> e.seq, payloadType |-> CHOOSE type \in PayloadTypes : TRUE,
     payloadVersion |-> 1, idempotencyKey |-> e.key]

(* The batch is answered in the step that reads it.                        *)
PBBatch(s, result) ==
    LET log == streams[s].events
        EventAt(seq) == log[CHOOSE i \in 1..Len(log) : log[i].seq = seq]
    IN  [events |-> [i \in 1..Len(result.seqs) |-> PBEvent(s, EventAt(result.seqs[i]))],
         seqStart |-> IF result.seqs = <<>> THEN 0 ELSE result.seqs[1],
         seq |-> result.seq, final |-> result.final]

CatchUpResponseOf(s, result) ==
    [status |-> IF result.status = "ok" THEN "OK" ELSE "TOO_LONG",
     batch |-> IF result.status = "ok" THEN PBBatch(s, result) ELSE EmptyBatch,
     cursor |-> PBCursor(s, result.cursor), head |-> PBCursor(s, result.head),
     retainedSeqStart |-> result.retained]

CatchUp(c, s, limit, totalLimit) ==
    /\ Begin(c, s)
    /\ Engine!CatchUp(c, s, limit, totalLimit)
    /\ UNCHANGED <<seen, reply, acked, answered>>

CatchUpStep(c) ==
    /\ Engine!CatchUpHead(c) \/ Engine!CatchUpRead(c)
    /\ LET k == call'[c]
       IN  IF k.phase # "idle" THEN UNCHANGED reply
           ELSE Reply("catchUp",
                      [subscriberId |-> SubscriberOf[c], streamId |-> k.stream,
                       limit |-> k.limit, totalLimit |-> k.totalLimit],
                      CatchUpResponseOf(k.stream, k.result), promised[c])
    /\ UNCHANGED <<seen, acked, promised, answered>>

-----------------------------------------------------------------------------
(* Ack.                                                                    *)

AckInput(c, s, seq) == [subscriberId |-> SubscriberOf[c], streamId |-> s, seq |-> seq]

(* The head that is answered is read before the cursor is stored.          *)
Ack(c, s, seq) ==
    /\ Begin(c, s)
    /\ Engine!Ack(c, s, seq)
    /\ seen' = [seen EXCEPT ![c] = PBCursor(s, streams[s].head)]
    /\ UNCHANGED <<reply, acked, answered>>

AckTooHigh(c, s, seq) ==
    /\ call[c].phase = "idle" /\ seen[c] = Absent
    /\ seq > streams[s].head
    /\ Reply("ack", AckInput(c, s, seq), Failed, 0)
    /\ UNCHANGED <<storeVars, call, seen, acked, promised, answered>>

AckCursor(c) ==
    LET s == call[c].stream
        stored == Engine!CursorSeq(SubscriberOf[c], s)'
    IN  /\ Engine!AckCursor(c)
        /\ Reply("ack", AckInput(c, s, call[c].seq),
                 [cursor |-> PBCursor(s, stored), head |-> seen[c]], promised[c])
        /\ acked' = [acked EXCEPT ![<<SubscriberOf[c], s>>] = Engine!Larger(@, stored)]
        /\ seen' = [seen EXCEPT ![c] = Absent]
        /\ UNCHANGED <<promised, answered>>

-----------------------------------------------------------------------------
(* The log around the calls: truncation, deletion and cursor resets.       *)

Truncate(s, before) ==
    /\ Engine!TruncateStream(s, before)
    /\ UNCHANGED <<call, steady, seen, reply, acked, promised, answered>>

Reset(u, s, seq) ==
    /\ Engine!ResetCursor(u, s, seq) /\ steady' = FALSE
    /\ UNCHANGED <<call, seen, reply, acked, promised, answered>>

Delete(s) ==
    /\ Engine!DeleteStream(s) /\ steady' = FALSE
    /\ answered' = {a \in answered : a.streamId # s}
    /\ reply' = Absent
    /\ UNCHANGED <<call, seen, acked, promised>>

ProducerNext ==
    /\ \/ \E s \in Streams, key \in Keys \cup {NoKey} : AppendFirst(s, key)
       \/ \E s \in Streams, key \in Keys : AppendAgain(s, key)
       \/ \E s \in Streams : GetHead(s)
    /\ UNCHANGED steady

SessionNext ==
    /\ \/ \E c \in Callers, s \in Streams :
             \/ GetCursor(c, s)
             \/ \E limit \in Limits, totalLimit \in TotalLimits : CatchUp(c, s, limit, totalLimit)
             \/ \E seq \in 0..MaxSeq : Ack(c, s, seq) \/ AckTooHigh(c, s, seq)
       \/ \E c \in Callers : GetCursorHead(c) \/ CatchUpStep(c) \/ AckCursor(c)
    /\ UNCHANGED steady

LogNext == \E s \in Streams, before \in 0..(MaxSeq + 1) : Truncate(s, before)

OperatorNext ==
    \E s \in Streams :
        (\E u \in Subscribers, seq \in 0..MaxSeq : Reset(u, s, seq)) \/ Delete(s)

SteadyNext == ProducerNext \/ SessionNext \/ LogNext

(* While no operator deletes a stream or resets a cursor.                  *)
SteadySpec == Init /\ [][SteadyNext]_vars

Next == SteadyNext \/ OperatorNext

Spec == Init /\ [][Next]_vars

-----------------------------------------------------------------------------
(* Properties.                                                             *)

Returned(rpc) == reply # Absent /\ reply.rpc = rpc /\ reply.output # Failed

(* What producers were told is what the log holds: a seq is answered to    *)
(* one first write, a key to one seq, a retry is told the seq of the first *)
(* write, and no event is in the log that nobody was told of, whatever was *)
(* truncated in between.                                                   *)
AppendsAnsweredOnce ==
    /\ \A a, b \in answered :
          /\ a.streamId = b.streamId
          /\ a.seq = b.seq \/ (a.key = b.key /\ a.key # NoKey)
          => a = b
    /\ \A s \in Streams : \A i \in 1..Len(streams[s].events) :
          [streamId |-> s, seq |-> streams[s].events[i].seq, key |-> streams[s].events[i].key]
             \in answered
    /\ Returned("append") =>
          [streamId |-> reply.input.streamId, seq |-> reply.output.seq,
           key |-> reply.input.idempotencyKey] \in answered

(* "Ack is monotonic and never moves a cursor back" (service.proto:24):    *)
(* no call that began after an ack was answered shows a lower cursor than  *)
(* that answer, however the acks of several sessions overlap, as long as   *)
(* no operator resets it.                                                  *)
AckedIsShown ==
    steady => \A rpc \in {"getCursor", "catchUp", "ack"} :
                 Returned(rpc) => reply.output.cursor.seq >= reply.promised

(* A GetCursor made of two reads never shows a cursor beyond the head.     *)
ShownWithinHead ==
    steady /\ Returned("getCursor") => reply.output.cursor.seq <= reply.output.head.seq

(* What a session is shown of a cursor, in however many reads, lies        *)
(* between what was acked before and the head.                             *)
ReadYourAcks == AckedIsShown /\ ShownWithinHead
=============================================================================
