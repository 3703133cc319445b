---------------------------- MODULE MCCoreEngine ----------------------------
(* Bounded instances of the engine on the memory store.                    *)
EXTENDS CoreEngine, TLC

CONSTANTS u1, a1, a2

(* Two sessions of the same subscriber. *)
MCSubscriberOf == (a1 :> u1) @@ (a2 :> u1)

(* They are interchangeable. *)
CallerSymmetry == Permutations(Callers)

MCCountLimit == {[ttl |-> 0, max |-> 1]}
=============================================================================
