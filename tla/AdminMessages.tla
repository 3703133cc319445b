---------------------------- MODULE AdminMessages ----------------------------
(***************************************************************************)
(* The messages of admin.proto: streams, retention and cursors as an       *)
(* operator sees them (proto/synclog/v1/admin_pb.ts).                      *)
(***************************************************************************)
EXTENDS EventMessages

CONSTANTS
    Prefixes        \* prefixes of stream ids: the sets of ids that have them

JobState == {"NONE", "PENDING", "RUNNING", "DONE", "FAILED"}

(* A job is named after the stream it works on.                            *)
Job == [jobId : Streams, state : JobState]

StreamRetention == [streamId : Streams, ttlDays : Nat, maxEvents : Nat]

StreamStats == [streamId : Streams, eventCount : Nat, headSeq : Nat, subscriberCount : Nat]

CreateStreamRequest == [streamId : Streams]
CreateStreamResponse == [stream : Stream]

DeleteStreamRequest == [streamId : Streams]
DeleteStreamResponse == [deleted : BOOLEAN]

ListStreamsRequest == [prefix : Prefixes, limit : Nat]
ListStreamsResponse == [streams : SUBSET Stream]

TruncateStreamRequest == [streamId : Streams, beforeSeq : Nat]
TruncateStreamResponse == [removed : Nat]

CompactStreamRequest == [streamId : Streams]
CompactStreamResponse == [job : Job]

SetStreamRetentionRequest == [retention : StreamRetention]
SetStreamRetentionResponse == [retention : StreamRetention]

ResetCursorRequest == [subscriberId : Subscribers, streamId : Streams, seq : Nat]
ResetCursorResponse == [cursor : SubscriberCursor]

ListCursorsRequest == [streamId : Streams]
ListCursorsResponse == [cursors : SUBSET SubscriberCursor]

GetStreamStatsRequest == [streamId : Streams]
GetStreamStatsResponse == [stats : StreamStats]

(* What each rpc of the service takes and returns.                         *)
SyncLogAdminService ==
    [createStream       |-> [input |-> CreateStreamRequest,       output |-> CreateStreamResponse],
     deleteStream       |-> [input |-> DeleteStreamRequest,       output |-> DeleteStreamResponse],
     listStreams        |-> [input |-> ListStreamsRequest,        output |-> ListStreamsResponse],
     truncateStream     |-> [input |-> TruncateStreamRequest,     output |-> TruncateStreamResponse],
     compactStream      |-> [input |-> CompactStreamRequest,      output |-> CompactStreamResponse],
     setStreamRetention |-> [input |-> SetStreamRetentionRequest, output |-> SetStreamRetentionResponse],
     resetCursor        |-> [input |-> ResetCursorRequest,        output |-> ResetCursorResponse],
     listCursors        |-> [input |-> ListCursorsRequest,        output |-> ListCursorsResponse],
     getStreamStats     |-> [input |-> GetStreamStatsRequest,     output |-> GetStreamStatsResponse]]
=============================================================================
