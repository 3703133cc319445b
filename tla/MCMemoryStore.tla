---------------------------- MODULE MCMemoryStore ----------------------------
(* Bounded instances of the memory store for TLC.                          *)
EXTENDS MemoryStore, TLC

(* No policy, a count limit, an age limit, and both. *)
MCRetentions == {[ttl |-> 0, max |-> 0], [ttl |-> 0, max |-> 2],
                 [ttl |-> 1, max |-> 0], [ttl |-> 1, max |-> 1]}
=============================================================================
