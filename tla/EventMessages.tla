---------------------------- MODULE EventMessages ----------------------------
(***************************************************************************)
(* The messages of event.proto, as the client and the services exchange    *)
(* them (proto/synclog/v1/event_pb.ts).  A field is a component with the   *)
(* name it has in TypeScript; bigint and number are Nat.  A message field  *)
(* that may be unset holds Absent.                                         *)
(*                                                                         *)
(* Payload bytes, times and free text are left out: no service looks at    *)
(* them.                                                                   *)
(***************************************************************************)
EXTENDS Naturals, Sequences

CONSTANTS
    Streams,        \* stream ids
    Subscribers,    \* subscriber ids
    PayloadTypes,   \* payload types
    Keys,           \* idempotency keys
    NoKey,          \* the empty idempotency key
    Absent          \* an unset message field

Optional(messages) == messages \cup {Absent}

Stream == [id : Streams]

Cursor == [streamId : Streams, seq : Nat]

SubscriberCursor == [subscriberId : Subscribers, cursor : Cursor]

Event ==
    [streamId : Streams, seq : Nat, payloadType : PayloadTypes, payloadVersion : Nat,
     idempotencyKey : Keys \cup {NoKey}]

EventBatch == [events : Seq(Event), seqStart : Nat, seq : Nat, final : BOOLEAN]
=============================================================================
