--------------------------- MODULE SnapshotMessages ---------------------------
(***************************************************************************)
(* The messages of snapshot.proto (proto/synclog/v1/snapshot_pb.ts).  A    *)
(* payload is what a snapshot shows, here opaque; its size is 1.           *)
(***************************************************************************)
EXTENDS EventMessages

CONSTANTS
    Payloads,       \* snapshot contents
    Checksums,      \* checksums, the empty one included
    AnyType         \* the empty payload type of a list request

SnapshotCompression == {"NONE", "GZIP", "ZSTD"}

SnapshotRef ==
    [streamId : Streams, seq : Nat, payloadType : PayloadTypes, payloadVersion : Nat,
     compression : SnapshotCompression, checksum : Checksums]

Snapshot == [ref : SnapshotRef, payload : Payloads]

PutSnapshotRequest ==
    [streamId : Streams, seq : Nat, payload : Payloads, payloadType : PayloadTypes,
     payloadVersion : Nat, compression : SnapshotCompression, checksum : Checksums]
PutSnapshotResponse == [snapshot : SnapshotRef, deduplicated : BOOLEAN]

GetLatestSnapshotRequest ==
    [streamId : Streams, payloadType : PayloadTypes, maxPayloadVersion : Nat]
GetLatestSnapshotResponse == [snapshot : Snapshot]

GetSnapshotRequest ==
    [streamId : Streams, seq : Nat, payloadType : PayloadTypes, payloadVersion : Nat]
GetSnapshotResponse == [snapshot : Snapshot]

ListSnapshotsRequest ==
    [streamId : Streams, payloadType : PayloadTypes \cup {AnyType}, limit : Nat]
ListSnapshotsResponse == [snapshots : Seq(SnapshotRef)]

DeleteSnapshotRequest ==
    [streamId : Streams, seq : Nat, payloadType : PayloadTypes, payloadVersion : Nat]
DeleteSnapshotResponse == [deleted : BOOLEAN]

(* What each rpc of the service takes and returns.                         *)
SyncLogSnapshotService ==
    [putSnapshot       |-> [input |-> PutSnapshotRequest,       output |-> PutSnapshotResponse],
     getLatestSnapshot |-> [input |-> GetLatestSnapshotRequest, output |-> GetLatestSnapshotResponse],
     getSnapshot       |-> [input |-> GetSnapshotRequest,       output |-> GetSnapshotResponse],
     listSnapshots     |-> [input |-> ListSnapshotsRequest,     output |-> ListSnapshotsResponse],
     deleteSnapshot    |-> [input |-> DeleteSnapshotRequest,    output |-> DeleteSnapshotResponse]]
=============================================================================
