-------------------------------- MODULE Replay --------------------------------
(***************************************************************************)
(* The arithmetic of replay that the storage, the engine and every model   *)
(* of a caller share (pkg/synclog/engine.go).                              *)
(***************************************************************************)
EXTENDS Integers

Larger(a, b) == IF a >= b THEN a ELSE b
Smaller(a, b) == IF a <= b THEN a ELSE b

(* The TOO_LONG boundary shared by the engine and the storage adapters.    *)
ReplayTooOld(cursor, retained) == retained > 0 /\ cursor < retained - 1

(* The optional budget of a catch-up call; 0 means no budget.              *)
ReplayOverBudget(cursor, head, totalLimit) ==
    totalLimit > 0 /\ cursor < head /\ head - cursor > totalLimit
=============================================================================
