------------------------------ MODULE MCServices ------------------------------
(***************************************************************************)
(* A small instance of Services.  No step of one part can meet a step of   *)
(* another, so all interleavings of interest are inside the parts: which   *)
(* part runs is chosen in the initial state, and the others stay as they   *)
(* start.  The raw service runs twice, once as two sessions of a           *)
(* subscriber that nobody resets use it, and once as producers that retry  *)
(* do, beside truncation, deletion and resets.                             *)
(***************************************************************************)
EXTENDS Services

CONSTANTS s1, u1                        \* the stream and its subscriber

VARIABLE part

mcVars == <<part, servicesVars>>

MCStreams == {s1}
MCSubscribers == {u1}
MCSubscriberOf == [c \in Callers |-> u1]
MCLimits == {1}
MCTotalLimits == {0}

(* One stream, listed by a prefix it has and by one it has not, under      *)
(* policies by age and by count.                                           *)
MCPrefixes == {MCStreams, {}}
MCRetentions == {[ttl |-> 0, max |-> 0], [ttl |-> 1, max |-> 0], [ttl |-> 0, max |-> 1]}

(* Two views of one target, and a namespace that ends like its own.        *)
MCSyncTargets ==
    {[namespace |-> <<"n">>, id |-> <<"i">>, view |-> <<"v">>],
     [namespace |-> <<"n">>, id |-> <<"i">>, view |-> <<"w">>],
     [namespace |-> <<"m", "n">>, id |-> <<"i">>, view |-> <<"v">>]}
MCSubscriberIds == {<<"u">>}
MCBindingNames == {<<"d">>}
MCDefaultName == <<"d">>

ASSUME ServicesAssumption

(* Bounds: the sessions and the admin service are run without keys, which  *)
(* no property of theirs is about, the sessions up to two events.          *)
SessionMaxSeq == 2
Unkeyed(log) == \A k \in Keys : log.idempotency[k] = 0

MCInit ==
    /\ part \in {"sessions", "producers", "admin", "snapshots", "loop", "projection"}
    /\ ServicesInit

Sessions ==
    /\ part = "sessions" /\ SteadyNext
    /\ \A s \in Streams : streams'[s].head <= SessionMaxSeq /\ Unkeyed(streams'[s])
    /\ RawUnchanged

Producers == part = "producers" /\ (ProducerNext \/ LogNext \/ OperatorNext) /\ RawUnchanged

Operating ==
    /\ part = "admin" /\ Admin!Next
    /\ \A s \in Streams : Unkeyed(adminStreams'[s])
    /\ AdminUnchanged

Projecting == part = "projection" /\ Client!Next /\ ClientUnchanged

LoopStep == part = "loop" /\ Loop!LoopNext /\ UNCHANGED part /\ LoopUnchanged
FrameTaken == part = "loop" /\ Loop!TakeFrame /\ UNCHANGED part /\ LoopUnchanged
AppliedAcked == part = "loop" /\ Loop!AckApplied /\ UNCHANGED part /\ LoopUnchanged

MCNext ==
    /\ UNCHANGED part
    /\ \/ Sessions \/ Producers \/ Operating \/ Projecting
       \/ part = "snapshots" /\ Snapshots!Next /\ SnapshotsUnchanged
       \/ part = "loop" /\ Loop!Next /\ LoopUnchanged

MCSpec ==
    /\ MCInit /\ [][MCNext]_mcVars
    /\ WF_mcVars(LoopStep) /\ WF_mcVars(FrameTaken) /\ WF_mcVars(AppliedAcked)

(* What the projection store promises; while another part runs its records *)
(* stay as they are, and need not be looked at.                            *)
Promised == INSTANCE ProjectionStore WITH
    BindingKeys <- Client!TargetBindingKeys, MaxSeq <- RecordMaxSeq,
    projection <- IF part = "projection" THEN Client!Projection ELSE Client!NoProjection

-----------------------------------------------------------------------------
(* Properties, beside those of Services.                                   *)

(* A consumer that acks gets every event, although the loop marks TOO_LONG *)
(* as sent, says it again only after a pass that found its cursor at or    *)
(* beyond what was sent, and is not woken by an ack.                       *)
EventsArrive == part = "loop" => Loop!EventsArrive

(* One map of encoded strings keeps the promise of a record per key: a     *)
(* call for one key, or a clear of one target, shows in no record of       *)
(* another, redelivered batches and old snapshots never move a record      *)
(* back, and its events stay in order.                                     *)
ImplementsStore == Promised!ProjectionSpec /\ []Client!EventsInOrder
=============================================================================
