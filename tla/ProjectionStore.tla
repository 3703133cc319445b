--------------------------- MODULE ProjectionStore ---------------------------
(***************************************************************************)
(* What a projection store promises its clients (ts/synclog/src/store.ts): *)
(* one record per subscriber, target and binding, of which events and      *)
(* snapshots only ever advance the applied seq, and which nothing touches  *)
(* but a call for that key or a clear of its target.                       *)
(***************************************************************************)
EXTENDS Naturals

CONSTANTS
    BindingKeys,    \* records of subscriberId, target and bindingKey
    MaxSeq

VARIABLE
    projection      \* per key: the applied seq, the snapshot below it, the events kept

NoRecord == [applied |-> 0, snapshot |-> 0, events |-> {}]

RecordSet == [applied : 0..MaxSeq, snapshot : 0..MaxSeq, events : SUBSET (1..MaxSeq)]

ProjectionInit == projection = [key \in BindingKeys |-> NoRecord]

(* A snapshot behind what is applied is only noted.                        *)
ApplySnapshot(key, seq) ==
    projection' = [projection EXCEPT ![key] =
        IF @.applied > seq THEN [@ EXCEPT !.snapshot = seq]
        ELSE [applied |-> seq, snapshot |-> seq, events |-> {}]]

(* Of a batch, the events that are new; they reach up to the last of them. *)
ApplyEvents(key, seqs) ==
    LET new == {q \in seqs : q > projection[key].applied}
    IN  projection' = [projection EXCEPT ![key] =
            [@ EXCEPT !.events = @ \cup new,
                      !.applied = IF new = {} THEN @
                                  ELSE CHOOSE q \in new : \A r \in new : r <= q]]

ClearTarget(target) ==
    projection' = [key \in BindingKeys |->
                     IF key.target = target THEN NoRecord ELSE projection[key]]

ProjectionNext ==
    \/ \E key \in BindingKeys :
          \/ \E seq \in 1..MaxSeq : ApplySnapshot(key, seq)
          \/ \E a, b \in 1..MaxSeq : ApplyEvents(key, a..b)
    \/ \E target \in {key.target : key \in BindingKeys} : ClearTarget(target)

ProjectionSpec == ProjectionInit /\ [][ProjectionNext]_projection
=============================================================================
