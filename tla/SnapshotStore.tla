---------------------------- MODULE SnapshotStore ----------------------------
(***************************************************************************)
(* The snapshots of the memory storage adapter                             *)
(* (internal/storage/memory/store.go): a map under the store's mutex, so   *)
(* every call is one step.  The adapter never looks into a snapshot and    *)
(* does not compare it with the log; of a stream it only knows that its    *)
(* deletion takes the snapshots along.                                     *)
(*                                                                         *)
(* Go iterates over a map in an order of its own every time; the calls     *)
(* that do are written over any order of the keys.                         *)
(***************************************************************************)
EXTENDS SnapshotMessages, SequencesExt

CONSTANTS
    Seqs, Versions,     \* the positions and payload versions of snapshots
    MaxVersions,        \* bounds that consumers ask for; 0 is none
    ListLimits,         \* limits that operators list with; 0 is the default
    MaxLimit            \* synclog.MaxLimit

VARIABLES
    snapshots,      \* s.snapshots
    reply           \* the last call and what it returned; Absent for an error

vars == <<snapshots, reply>>

SnapshotKey ==
    [streamId : Streams, seq : Seqs, payloadType : PayloadTypes, payloadVersion : Versions]

(* What the proofs need of the constants; every instance assumes it.       *)
SnapshotAssumption ==
    /\ Seqs \subseteq Nat /\ Versions \subseteq Nat \ {0}
    /\ MaxVersions \subseteq Nat /\ ListLimits \subseteq Nat /\ MaxLimit \in Nat
    /\ Absent \notin SnapshotKey \cup GetLatestSnapshotResponse

KeyOf(m) ==
    [streamId |-> m.streamId, seq |-> m.seq, payloadType |-> m.payloadType,
     payloadVersion |-> m.payloadVersion]

(* An entry is filed under what its own reference says.                    *)
TypeOK ==
    /\ DOMAIN snapshots \subseteq SnapshotKey
    /\ \A k \in DOMAIN snapshots : snapshots[k] \in Snapshot /\ KeyOf(snapshots[k].ref) = k
    /\ reply # Absent =>
          /\ reply.input \in SyncLogSnapshotService[reply.rpc].input
          /\ reply.output \in Optional(SyncLogSnapshotService[reply.rpc].output)

Init == snapshots = << >> /\ reply = Absent

Reply(rpc, input, output) == reply' = [rpc |-> rpc, input |-> input, output |-> output]

-----------------------------------------------------------------------------
RefOf(req) ==
    [streamId |-> req.streamId, seq |-> req.seq, payloadType |-> req.payloadType,
     payloadVersion |-> req.payloadVersion, compression |-> req.compression,
     checksum |-> req.checksum]

Store(key, snapshot) ==
    [k \in DOMAIN snapshots \cup {key} |-> IF k = key THEN snapshot ELSE snapshots[k]]

Known(req) ==
    /\ KeyOf(req) \in DOMAIN snapshots
    /\ snapshots[KeyOf(req)].ref.checksum = req.checksum

(* The same snapshot again is answered from the store; another one at the  *)
(* same place takes its place.                                             *)
PutSnapshot(req) ==
    IF Known(req)
    THEN /\ UNCHANGED snapshots
         /\ Reply("putSnapshot", req,
                  [snapshot |-> snapshots[KeyOf(req)].ref, deduplicated |-> TRUE])
    ELSE /\ snapshots' = Store(KeyOf(req), [ref |-> RefOf(req), payload |-> req.payload])
         /\ Reply("putSnapshot", req, [snapshot |-> RefOf(req), deduplicated |-> FALSE])

Compatible(req) ==
    {k \in DOMAIN snapshots :
        /\ k.streamId = req.streamId /\ k.payloadType = req.payloadType
        /\ req.maxPayloadVersion > 0 => k.payloadVersion <= req.maxPayloadVersion}

(* Mutant: of two versions at one seq the one that comes first is kept.    *)
NewerBySeq(k, latest) == k.seq > latest.seq

(* Highest seq wins; ties break to the higher payload version.             *)
Newer(k, latest) ==
    k.seq > latest.seq \/ (k.seq = latest.seq /\ k.payloadVersion > latest.payloadVersion)

Scanned(k, latest, req) ==
    IF k \in Compatible(req) /\ (latest = Absent \/ Newer(k, latest)) THEN k ELSE latest

ScanLatest(order, req) ==
    LET latest[i \in 0..Len(order)] ==
          IF i = 0 THEN Absent ELSE Scanned(order[i], latest[i - 1], req)
    IN  latest[Len(order)]

GetLatestSnapshot(req) ==
    /\ \E order \in SetToSeqs(DOMAIN snapshots) :
          LET latest == ScanLatest(order, req)
          IN  Reply("getLatestSnapshot", req,
                    IF latest = Absent THEN Absent ELSE [snapshot |-> snapshots[latest]])
    /\ UNCHANGED snapshots

GetSnapshot(req) ==
    /\ Reply("getSnapshot", req,
             IF KeyOf(req) \in DOMAIN snapshots THEN [snapshot |-> snapshots[KeyOf(req)]]
             ELSE Absent)
    /\ UNCHANGED snapshots

Listed(req) ==
    {k \in DOMAIN snapshots :
        k.streamId = req.streamId /\ req.payloadType \in {AnyType, k.payloadType}}

EffectiveLimit(limit) == IF limit = 0 \/ limit > MaxLimit THEN MaxLimit ELSE limit

(* The first that the iteration meets, up to the limit.                    *)
ListSnapshots(req) ==
    /\ \E order \in SetToSeqs(Listed(req)) :
          LET n == IF Len(order) > EffectiveLimit(req.limit) THEN EffectiveLimit(req.limit)
                   ELSE Len(order)
          IN  Reply("listSnapshots", req,
                    [snapshots |-> [i \in 1..n |-> snapshots[order[i]].ref]])
    /\ UNCHANGED snapshots

DeleteSnapshot(req) ==
    /\ Reply("deleteSnapshot", req, [deleted |-> KeyOf(req) \in DOMAIN snapshots])
    /\ snapshots' = [k \in DOMAIN snapshots \ {KeyOf(req)} |-> snapshots[k]]

(* The part of DeleteStream that concerns snapshots.                       *)
DeleteStream(s) ==
    /\ snapshots' = [k \in {k \in DOMAIN snapshots : k.streamId # s} |-> snapshots[k]]
    /\ reply' = Absent

PutRequests ==
    [streamId : Streams, seq : Seqs, payload : Payloads, payloadType : PayloadTypes,
     payloadVersion : Versions, compression : {"NONE"}, checksum : Checksums]

Next ==
    \/ \E req \in PutRequests : PutSnapshot(req)
    \/ \E req \in [streamId : Streams, payloadType : PayloadTypes,
                   maxPayloadVersion : MaxVersions] : GetLatestSnapshot(req)
    \/ \E req \in SnapshotKey : GetSnapshot(req) \/ DeleteSnapshot(req)
    \/ \E req \in [streamId : Streams, payloadType : PayloadTypes \cup {AnyType},
                   limit : ListLimits] : ListSnapshots(req)
    \/ \E s \in Streams : DeleteStream(s)

Spec == Init /\ [][Next]_vars

-----------------------------------------------------------------------------
(* Properties.                                                             *)

Returned(rpc) == reply # Absent /\ reply.rpc = rpc /\ reply.output # Absent

(* Whatever order the map is gone through, the latest snapshot is one that *)
(* no compatible one is newer than, and it is only missing when there is   *)
(* none.                                                                   *)
LatestIsNewest ==
    reply # Absent /\ reply.rpc = "getLatestSnapshot" =>
        IF reply.output = Absent THEN Compatible(reply.input) = {}
        ELSE LET latest == KeyOf(reply.output.snapshot.ref)
             IN  /\ latest \in Compatible(reply.input)
                 /\ \A k \in Compatible(reply.input) :
                       \/ k.seq < latest.seq
                       \/ k.seq = latest.seq /\ k.payloadVersion <= latest.payloadVersion

(* A listing that is shorter than the limit leaves nothing out, and names  *)
(* nothing twice.                                                          *)
ListIsComplete ==
    Returned("listSnapshots") =>
        LET refs == reply.output.snapshots
            asked == IF reply.input.limit = 0 THEN MaxLimit ELSE reply.input.limit
        IN  /\ IsInjective(refs)
            /\ Len(refs) < asked /\ asked <= MaxLimit =>
                  {KeyOf(refs[i]) : i \in 1..Len(refs)} = Listed(reply.input)

(* A put that is repeated, with whatever in between, keeps one snapshot:   *)
(* after any put the place holds what was put last.                        *)
PutIsKept ==
    Returned("putSnapshot") =>
        /\ KeyOf(reply.input) \in DOMAIN snapshots
        /\ snapshots[KeyOf(reply.input)].ref = reply.output.snapshot
        /\ reply.output.snapshot.checksum = reply.input.checksum

(* All three, whatever the last call was.                                  *)
SnapshotsExact == LatestIsNewest /\ ListIsComplete /\ PutIsKept
=============================================================================
