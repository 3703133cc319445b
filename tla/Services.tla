------------------------------- MODULE Services -------------------------------
(***************************************************************************)
(* The services beside the gateway and the client's projection store, side *)
(* by side: the unary methods of the raw service (RawService), the admin   *)
(* service (Admin), the snapshots (Snapshots), the raw Subscribe loop      *)
(* (Loop) and the records of a client (Client).                            *)
(*                                                                         *)
(* What a part sees of the others is a part of its own module: the raw     *)
(* service has truncation, deletion and resets around it, the admin        *)
(* service producers and subscribers, the snapshots the deletion of their  *)
(* stream, the loop appends, discards and acks.  Each therefore has a      *)
(* storage of its own here, at the level of detail it is written at, and   *)
(* the steps of the parts interleave freely.                               *)
(***************************************************************************)
EXTENDS RawService

CONSTANTS
    Operators, Retentions, Prefixes, ListLimits, MaxLimit, AdminMaxSeq, MaxTime,
    Payloads, Checksums, AnyType, Seqs, Versions, MaxVersions, SnapshotLimits, SnapshotMaxLimit,
    Subscriber, Tailed, BatchLimit, MaxInFlight, LoopMaxSeq, MaxWire,
    SubscriberIds, BindingNames, SyncTargets, DefaultName, RecordMaxSeq

VARIABLES
    adminStreams, adminCursors, adminRetention, adminWatchers, adminWaiting, adminCompacting,
    adminNow, adminReply, removed, unreported, policed,
    snapshots, snapshotReply,
    head, retained, cursor, request, phase, result, delivered, tooLongSent, overdue, wire, applied,
    records

adminVars ==
    <<adminStreams, adminCursors, adminRetention, adminWatchers, adminWaiting, adminCompacting,
      adminNow, adminReply, removed, unreported, policed>>
snapshotVars == <<snapshots, snapshotReply>>
loopVars ==
    <<head, retained, cursor, request, phase, result, delivered, tooLongSent, overdue, wire,
      applied>>
servicesVars == <<vars, adminVars, snapshotVars, loopVars, records>>

Admin == INSTANCE AdminService WITH
    streams <- adminStreams, cursors <- adminCursors, retention <- adminRetention,
    watchers <- adminWatchers, waiting <- adminWaiting, compacting <- adminCompacting,
    now <- adminNow, reply <- adminReply, MaxSeq <- AdminMaxSeq

Snapshots == INSTANCE SnapshotStore WITH
    reply <- snapshotReply, ListLimits <- SnapshotLimits, MaxLimit <- SnapshotMaxLimit

Loop == INSTANCE RawSubscribe WITH MaxSeq <- LoopMaxSeq

Client == INSTANCE MemorySyncStore WITH MaxSeq <- RecordMaxSeq

(* What the proofs need of the constants.                                  *)
ServicesAssumption ==
    /\ ServiceAssumption /\ Admin!AdminAssumption /\ Snapshots!SnapshotAssumption
    /\ Loop!SubscribeAssumption /\ Client!NameAssumption

-----------------------------------------------------------------------------
ServicesInit == Init /\ Admin!Init /\ Snapshots!Init /\ Loop!Init /\ Client!Init

RawUnchanged == UNCHANGED <<adminVars, snapshotVars, loopVars, records>>
AdminUnchanged == UNCHANGED <<vars, snapshotVars, loopVars, records>>
SnapshotsUnchanged == UNCHANGED <<vars, adminVars, loopVars, records>>
LoopUnchanged == UNCHANGED <<vars, adminVars, snapshotVars, records>>
ClientUnchanged == UNCHANGED <<vars, adminVars, snapshotVars, loopVars>>

ServicesNext ==
    \/ Next /\ RawUnchanged
    \/ Admin!Next /\ AdminUnchanged
    \/ Snapshots!Next /\ SnapshotsUnchanged
    \/ Loop!Next /\ LoopUnchanged
    \/ Client!Next /\ ClientUnchanged

ServicesSpec == ServicesInit /\ [][ServicesNext]_servicesVars

-----------------------------------------------------------------------------
(* Properties, beside those of RawService.                                 *)

(* Every request, answer and frame of every part is one its service        *)
(* defines.                                                                *)
ServicesTypeOK == TypeOK /\ Admin!TypeOK /\ Snapshots!TypeOK /\ Loop!TypeOK

(* What truncations report and statistics show make up the log, and a      *)
(* stream nobody limited is whole whatever its deleted predecessor was set *)
(* to.                                                                     *)
EventsAccountedFor == Admin!EventsAccountedFor /\ Admin!UntouchedIsComplete

(* Whatever order the map is walked in, the newest compatible snapshot is  *)
(* found, lists are complete within their limit, and a put is kept.        *)
SnapshotsExact == Snapshots!SnapshotsExact

(* A frame of the raw loop continues what the consumer has, also after a   *)
(* TOO_LONG it has recovered from, within the head that is sent with it.   *)
NextFrameFits == Loop!NextFrameFits
=============================================================================
