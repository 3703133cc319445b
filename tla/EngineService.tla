----------------------------- MODULE EngineService -----------------------------
(***************************************************************************)
(* The core engine implements the sync service: its three storage calls    *)
(* per catch-up and two per ack, run between everything else the store     *)
(* does, look to a caller like one answer at one instant and one commit.   *)
(*                                                                         *)
(* A request is asked when the cursor is read and answered when the call   *)
(* returns.  The specification is that of the engine before any stream is  *)
(* deleted and any cursor is reset.                                        *)
(***************************************************************************)
EXTENDS CoreEngine

SteadySpec == EngineInit /\ [][SteadyNext /\ UNCHANGED steady]_vars

(* The request a call stands for.                                          *)
Request(c) ==
    LET r == call[c].result
    IN  IF call[c].phase \in {"head", "read"}
        THEN [phase |-> "asked", stream |-> call[c].stream, limit |-> call[c].limit,
              totalLimit |-> call[c].totalLimit, from |-> r.cursor]
        ELSE IF r.status = "none" THEN [phase |-> "none"]
        ELSE [phase |-> "answered", stream |-> call[c].stream, from |-> r.cursor,
              answer |-> IF r.status = "too_long" THEN [status |-> "too_long"]
                         ELSE [status |-> "ok", head |-> r.head, seqs |-> r.seqs,
                               final |-> r.final]]

Service == INSTANCE SyncService WITH
    head <- [s \in Streams |-> streams[s].head],
    retained <- [s \in Streams |-> streams[s].retained],
    cursor <- [p \in Subscribers \X Streams |-> CursorSeq(p[1], p[2])],
    request <- [c \in Callers |-> Request(c)]

(* Every step of the engine, the store and everyone who uses it is a step  *)
(* of the service, or none that its callers can see.                       *)
ImplementsService == Service!Spec
=============================================================================
