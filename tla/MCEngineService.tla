--------------------------- MODULE MCEngineService ---------------------------
(* A bounded instance of the refinement for TLC. *)
EXTENDS EngineService, TLC

CONSTANTS u1, a1, a2

MCSubscriberOf == (a1 :> u1) @@ (a2 :> u1)
MCCountLimit == {[ttl |-> 0, max |-> 1]}

(* The sessions are interchangeable. *)
CallerSymmetry == Permutations(Callers)
=============================================================================
