--------------------------- MODULE SyncLogMessages ---------------------------
(***************************************************************************)
(* The messages of service.proto: the raw sync log service                 *)
(* (proto/synclog/v1/service_pb.ts).                                       *)
(***************************************************************************)
EXTENDS EventMessages

CatchUpStatus == {"NONE", "OK", "TOO_LONG"}

AppendRequest ==
    [streamId : Streams, payloadType : PayloadTypes, payloadVersion : Nat,
     idempotencyKey : Keys \cup {NoKey}]
AppendResponse == [seq : Nat, deduplicated : BOOLEAN]

GetHeadRequest == [streamId : Streams]
GetHeadResponse == [head : Cursor, retainedSeqStart : Nat]

GetCursorRequest == [subscriberId : Subscribers, streamId : Streams]
GetCursorResponse == [cursor : Cursor, head : Cursor]

CatchUpRequest == [subscriberId : Subscribers, streamId : Streams, limit : Nat, totalLimit : Nat]
CatchUpResponse ==
    [status : CatchUpStatus, batch : EventBatch, cursor : Cursor, head : Cursor,
     retainedSeqStart : Nat]

SubscribeRequest ==
    [subscriberId : Subscribers, streamId : Streams, batchLimit : Nat, maxInFlight : Nat]
(* A heartbeat carries neither batch nor cursors.                          *)
SubscribeResponse ==
    [status : CatchUpStatus, batch : Optional(EventBatch), cursor : Optional(Cursor),
     head : Optional(Cursor), retainedSeqStart : Nat, heartbeat : BOOLEAN]

AckRequest == [subscriberId : Subscribers, streamId : Streams, seq : Nat]
AckResponse == [cursor : Cursor, head : Cursor]

(* What each rpc of the service takes and returns.                         *)
SyncLogService ==
    [append    |-> [input |-> AppendRequest,    output |-> AppendResponse],
     getHead   |-> [input |-> GetHeadRequest,   output |-> GetHeadResponse],
     getCursor |-> [input |-> GetCursorRequest, output |-> GetCursorResponse],
     catchUp   |-> [input |-> CatchUpRequest,   output |-> CatchUpResponse],
     subscribe |-> [input |-> SubscribeRequest, output |-> SubscribeResponse],
     ack       |-> [input |-> AckRequest,       output |-> AckResponse]]
=============================================================================
