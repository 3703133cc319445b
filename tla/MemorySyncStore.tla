--------------------------- MODULE MemorySyncStore ---------------------------
(***************************************************************************)
(* The projection store in memory (ts/synclog/src/memory-store.ts).  It    *)
(* keeps its records in one map under a key that is written out as a       *)
(* string (ts/synclog/src/target.ts), and finds the records of a target by *)
(* looking for a part of that string.                                      *)
(*                                                                         *)
(* A string is a sequence of tokens.  The three separators are tokens of   *)
(* their own; the parts between them are what the instance gives.          *)
(***************************************************************************)
EXTENDS Naturals, SequencesExt

CONSTANTS
    SubscriberIds, BindingNames,    \* sequences of tokens
    SyncTargets,    \* records of namespace, id and view, sequences of tokens
    DefaultName,    \* defaultBindingKey
    MaxSeq

(* What the instance owes.                                                 *)
NameAssumption == DefaultName \in BindingNames /\ DefaultName # <<>>

VARIABLE records    \* #records: a function from encoded keys

(* A client may leave the binding open: the empty name.                    *)
NormalizeBindingKey(name) == IF name # <<>> THEN name ELSE DefaultName

TargetBindingKeys ==
    [subscriberId : SubscriberIds, target : SyncTargets,
     bindingKey : {NormalizeBindingKey(name) : name \in BindingNames \cup {<<>>}}]

TargetKey(target) == target.namespace \o <<"/">> \o target.id \o <<"/">> \o target.view

TargetBindingKey(key) ==
    key.subscriberId \o <<":">> \o TargetKey(key.target) \o <<"#">> \o key.bindingKey

-----------------------------------------------------------------------------
EmptyRecord == [applied |-> 0, snapshot |-> 0, events |-> <<>>]

(* #record, which also puts an empty record in place.                      *)
RecordAt(encoded) == IF encoded \in DOMAIN records THEN records[encoded] ELSE EmptyRecord

Put(encoded, record) ==
    records' = [k \in DOMAIN records \cup {encoded} |->
                  IF k = encoded THEN record ELSE records[k]]

GetAppliedSeq(key) == Put(TargetBindingKey(key), RecordAt(TargetBindingKey(key)))

ApplySnapshot(key, seq) ==
    LET encoded == TargetBindingKey(key)
        existing == RecordAt(encoded)
    IN  Put(encoded, IF encoded \in DOMAIN records /\ existing.applied > seq
                     THEN [existing EXCEPT !.snapshot = seq]
                     ELSE [applied |-> seq, snapshot |-> seq, events |-> <<>>])

(* One event of a batch: one that is not past the record is skipped.       *)
ApplyEvent(record, seq) ==
    IF seq <= record.applied THEN record
    ELSE [record EXCEPT !.events = Append(@, seq), !.applied = seq]

ApplyEvents(key, seqs) ==
    /\ seqs # <<>>
    /\ Put(TargetBindingKey(key),
           FoldLeft(ApplyEvent, RecordAt(TargetBindingKey(key)), seqs))

(* Mutant: the target is not anchored at its first separator.              *)
MarkerUnanchored(target) == TargetKey(target) \o <<"#">>

Marker(target) == <<":">> \o TargetKey(target) \o <<"#">>

Includes(key, part) ==
    \E i \in 0..(Len(key) - Len(part)) : SubSeq(key, i + 1, i + Len(part)) = part

ClearTarget(target) ==
    records' = [k \in {k \in DOMAIN records : ~Includes(k, Marker(target))} |-> records[k]]

Init == records = << >>

Next ==
    \/ \E key \in TargetBindingKeys :
          \/ GetAppliedSeq(key)
          \/ \E seq \in 1..MaxSeq : ApplySnapshot(key, seq)
          \/ \E a, b \in 1..MaxSeq : ApplyEvents(key, [i \in 1..(b + 1 - a) |-> a + i - 1])
    \/ \E target \in SyncTargets : ClearTarget(target)

Spec == Init /\ [][Next]_records

-----------------------------------------------------------------------------
(* The promise.                                                            *)

GetRecord(key) == RecordAt(TargetBindingKey(key))

(* The records, each by the key it is for.                                 *)
Projection ==
    [key \in TargetBindingKeys |->
        [applied |-> GetRecord(key).applied, snapshot |-> GetRecord(key).snapshot,
         events |-> ToSet(GetRecord(key).events)]]

(* That of no records.                                                     *)
NoProjection ==
    [key \in TargetBindingKeys |-> [applied |-> 0, snapshot |-> 0, events |-> {}]]

(* No event is kept twice, and the events of a record are in order, so a   *)
(* reader can replay them on the snapshot.                                 *)
EventsInOrder ==
    \A encoded \in DOMAIN records :
        LET record == records[encoded]
        IN  /\ \A i, j \in 1..Len(record.events) : i < j => record.events[i] < record.events[j]
            /\ record.events # <<>> => record.applied = Last(record.events)
=============================================================================
