--------------------------- MODULE MCGatewayEngine ---------------------------
(* Bounded instances of the gateway engine's calls.                        *)
EXTENDS GatewayEngine, TLC

CONSTANTS s1, s2, u1, b1, b2, t1, t2

TargetA == [namespace |-> "ns", id |-> t1, view |-> "default"]
TargetB == [namespace |-> "ns", id |-> t2, view |-> "default"]

(* A target on two streams and one on the second of them. *)
MCBindings ==
    (TargetA :> <<[key |-> b1, stream |-> s1], [key |-> b2, stream |-> s2]>>)
    @@ (TargetB :> <<[key |-> b1, stream |-> s2]>>)

(* Sessions of three kinds.                                                *)
MCClients ==
    {[rpcs |-> {"open", "gatewayAck", "modifySubscription"}, targets |-> <<TargetB, TargetA>>],
     [rpcs |-> {"gatewayCatchUp"}, targets |-> <<TargetA>>],
     [rpcs |-> {"gatewayGetLatestSnapshot"}, targets |-> <<TargetA>>]}
=============================================================================
