-------------------------- MODULE MCGatewayDelivery --------------------------
(* Bounded instances of the delivery loop.                                 *)
EXTENDS GatewayDelivery, TLC

CONSTANTS s1, s2, u1, b1, t1, t2

TargetA == [namespace |-> "ns", id |-> t1, view |-> "default"]
TargetB == [namespace |-> "ns", id |-> t2, view |-> "default"]
MCTargets == {TargetA, TargetB}

(* Every target with a stream of its own.                                  *)
MCBindings ==
    (TargetA :> <<[key |-> b1, stream |-> s1]>>) @@ (TargetB :> <<[key |-> b1, stream |-> s2]>>)

(* A window that is smaller than a batch.                                  *)
Windowed ==
    [targets |-> {TargetA}, batchLimit |-> 2, maxInFlight |-> 1, removable |-> {},
     revocable |-> {}, acking |-> {TargetA}, events |-> 3, heartbeats |-> TRUE]

(* A target that is removed and added again, allowed or not.               *)
Changing ==
    [targets |-> {TargetA}, batchLimit |-> 1, maxInFlight |-> 0, removable |-> {TargetA},
     revocable |-> {TargetA}, acking |-> {TargetA}, events |-> 2, heartbeats |-> TRUE]

(* A target that may be revoked.                                           *)
Revoked ==
    [targets |-> {TargetA}, batchLimit |-> 1, maxInFlight |-> 1, removable |-> {},
     revocable |-> {TargetA}, acking |-> {TargetA}, events |-> 2, heartbeats |-> TRUE]

(* Two targets, of which one is never acked.                               *)
Neglected ==
    [targets |-> MCTargets, batchLimit |-> 1, maxInFlight |-> 1, removable |-> {},
     revocable |-> {}, acking |-> {TargetB}, events |-> 1, heartbeats |-> FALSE]

(* A target that is never acked, on a stream that is kept alive.           *)
Unacked ==
    [targets |-> {TargetA}, batchLimit |-> 1, maxInFlight |-> 1, removable |-> {},
     revocable |-> {}, acking |-> {}, events |-> 1, heartbeats |-> TRUE]

(* A target that is removed and added again, without a window.             *)
Added ==
    [targets |-> {TargetA}, batchLimit |-> 1, maxInFlight |-> 0, removable |-> {TargetA},
     revocable |-> {}, acking |-> {TargetA}, events |-> 1, heartbeats |-> FALSE]

SafeSubscriptions == {Windowed, Changing}
LiveSubscriptions == {Revoked, Neglected, Unacked}
AddedSubscriptions == {Added}
=============================================================================
