--------------------------- MODULE GatewayMessages ---------------------------
(***************************************************************************)
(* The messages of gateway.proto: what a client of the product sees        *)
(* (proto/synclog/v1/gateway_pb.ts).  Targets are addressed by namespace,  *)
(* id and view; the bindings of a target to streams stay inside.           *)
(***************************************************************************)
EXTENDS SyncLogMessages, SnapshotMessages

CONSTANTS
    Namespaces, Ids, Views,     \* the parts of a target's address
    BindingKeys,                \* product-defined names of bindings
    NoBindingKey,               \* the empty binding key
    SubscriptionIds,            \* ids of live subscriptions
    NoSubscriptionId,           \* the empty one
    RejectionCodes              \* codes of rejected targets

BindingKey == BindingKeys \cup {NoBindingKey}

SyncTarget == [namespace : Namespaces, id : Ids, view : Views]

TargetBindingState ==
    [bindingKey : BindingKeys, cursorSeq : Nat, headSeq : Nat, retainedSeqStart : Nat]

(* Aggregated over the bindings, and each of them.                         *)
TargetState ==
    [target : SyncTarget, cursorSeq : Nat, headSeq : Nat, retainedSeqStart : Nat,
     bindings : Seq(TargetBindingState)]

GatewayEvent ==
    [target : SyncTarget, seq : Nat, payloadType : PayloadTypes, payloadVersion : Nat,
     bindingKey : BindingKeys]

GatewayBatch ==
    [target : SyncTarget, events : Seq(GatewayEvent), seqStart : Nat, seq : Nat,
     final : BOOLEAN, bindingKey : BindingKeys]

GatewaySnapshot ==
    [target : SyncTarget, seq : Nat, payload : Payloads, payloadType : PayloadTypes,
     payloadVersion : Nat, compression : SnapshotCompression, checksum : Checksums,
     bindingKey : BindingKeys]

-----------------------------------------------------------------------------
OpenRequest == [subscriberId : Subscribers, targets : Seq(SyncTarget)]
OpenResponse == [targets : Seq(TargetState)]

GatewayCatchUpRequest ==
    [subscriberId : Subscribers, targets : Seq(SyncTarget), limitPerTarget : Nat,
     totalLimitPerTarget : Nat]
GatewayCatchUpResult ==
    [target : SyncTarget, status : CatchUpStatus, batch : Optional(GatewayBatch),
     state : TargetState, bindingKey : BindingKeys]
GatewayCatchUpResponse == [results : Seq(GatewayCatchUpResult)]

GatewaySubscribeRequest ==
    [subscriberId : Subscribers, targets : Seq(SyncTarget), batchLimitPerTarget : Nat,
     maxInFlightPerTarget : Nat, subscriptionId : SubscriptionIds \cup {NoSubscriptionId}]
(* A heartbeat carries neither batch nor state.                            *)
GatewaySubscribeResponse ==
    [status : CatchUpStatus, batch : Optional(GatewayBatch), state : Optional(TargetState),
     heartbeat : BOOLEAN, bindingKey : BindingKey]

TargetRejection == [target : SyncTarget, code : RejectionCodes]
ModifySubscriptionRequest ==
    [subscriberId : Subscribers, subscriptionId : SubscriptionIds,
     addTargets : Seq(SyncTarget), removeTargets : Seq(SyncTarget)]
ModifySubscriptionResponse == [added : Seq(TargetState), rejected : Seq(TargetRejection)]

GatewayAckRequest ==
    [subscriberId : Subscribers, target : SyncTarget, seq : Nat, bindingKey : BindingKey]
GatewayAckResponse == [state : TargetState]

GatewayGetLatestSnapshotRequest ==
    [subscriberId : Subscribers, target : SyncTarget, payloadType : PayloadTypes,
     maxPayloadVersion : Nat, bindingKey : BindingKey]
GatewayGetLatestSnapshotResponse == [snapshot : GatewaySnapshot, state : TargetState]

(* What each rpc of the service takes and returns.                         *)
SyncGatewayService ==
    [open |-> [input |-> OpenRequest, output |-> OpenResponse],
     gatewayCatchUp |-> [input |-> GatewayCatchUpRequest, output |-> GatewayCatchUpResponse],
     gatewaySubscribe |->
        [input |-> GatewaySubscribeRequest, output |-> GatewaySubscribeResponse],
     modifySubscription |->
        [input |-> ModifySubscriptionRequest, output |-> ModifySubscriptionResponse],
     gatewayAck |-> [input |-> GatewayAckRequest, output |-> GatewayAckResponse],
     gatewayGetLatestSnapshot |->
        [input |-> GatewayGetLatestSnapshotRequest,
         output |-> GatewayGetLatestSnapshotResponse]]
=============================================================================
