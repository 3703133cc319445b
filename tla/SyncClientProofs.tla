--------------------------- MODULE SyncClientProofs ---------------------------
(***************************************************************************)
(* What the client keeps for any number of targets, catchUp() calls and    *)
(* subscriptions: the server's cursor stays behind the projection, and the *)
(* projection has no gap.                                                  *)
(***************************************************************************)
EXTENDS SyncClient, SequenceTheorems, TLAPS

Phases == {"idle", "catchUp", "snapshot", "restore", "ackSnapshot", "filter", "apply",
           "reread", "ack", "stream", "backoff"}

(* A batch is an interval of seqs that starts at or before the next event  *)
(* the projection needs.                                                   *)
IsNext(applied, seqs) == \E lo, hi \in Nat : lo <= applied + 1 /\ seqs = lo..hi

(* A task that has the locals d handles a batch of its own target, acks    *)
(* what is applied, and has no stream while it is idle or is to reconnect. *)
LocalsSound(d, st) ==
    /\ \E seqs \in SUBSET Nat : /\ IsNext(st[d.target].applied, seqs)
                                /\ d.seqs = {d.target} \X seqs
    /\ d.phase \in {"ack", "ackSnapshot"} => d.seq <= st[d.target].applied
    /\ d.phase = "idle" => d.seqs = {}
    /\ d.phase \in {"idle", "backoff"} => ~d.live

(* Its stream, while it is open, delivers batches of that target.          *)
StreamSound(d, st, responses, delivered) ==
    /\ ~d.live => responses = <<>> /\ delivered = {}
    /\ delivered \subseteq {d.target}
    /\ \A i \in 1..Len(responses) : /\ responses[i].target = d.target
                                    /\ IsNext(st[d.target].applied, responses[i].seqs)

(* A catchUp() has no stream, and every batch it handles is its own.       *)
BatchPhases == {"filter", "apply", "reread", "ack"}

OnceShape(t, d) ==
    t \in OnceTasks => /\ ~d.live /\ ~d.stopped /\ d.phase \notin {"stream", "backoff"}
                       /\ d.phase \in BatchPhases => d.inCatchUp

(* The four parts of the invariant.                                        *)
TasksTyped ==
    /\ task \in [Tasks -> TaskSet]
    /\ \A t \in OnceTasks : OnceShape(t, task[t])
    /\ inbox \in [LiveTasks -> Seq(ResponseSet)]
    /\ onStream \in [LiveTasks -> SUBSET Targets]

TasksOK ==
    /\ TasksTyped
    /\ \A t \in Tasks : LocalsSound(task[t], store)
    /\ \A t \in LiveTasks : StreamSound(task[t], store, inbox[t], onStream[t])

ServerOK ==
    /\ server \in [Targets -> ServerSet]
    /\ lateAcks \subseteq Targets \X Nat
    /\ \A g \in Targets : server[g].cursor <= store[g].applied
    /\ \A a \in lateAcks : a[2] <= store[a[1]].applied

StoreOK == store \in [Targets -> RecordSet] /\ NoSilentGap

FailuresOK == failures \in 0..MaxFailures

Inv == TasksOK /\ ServerOK /\ StoreOK /\ FailuresOK

LEMMA InvImplies == Inv => TypeOK /\ AckBehindApplied /\ NoSilentGap
  BY DEF Inv, TasksOK, TasksTyped, OnceShape, ServerOK, StoreOK, FailuresOK, TypeOK,
         AckBehindApplied, LocalsSound

-----------------------------------------------------------------------------
(* A step of the store never takes an applied seq back.                    *)
Grows == /\ store' \in [Targets -> RecordSet]
         /\ \A g \in Targets : store'[g].applied >= store[g].applied

LEMMA NextStaysNext ==
    ASSUME NEW a \in Nat, NEW b \in Nat, a <= b, NEW seqs, IsNext(a, seqs)
    PROVE  IsNext(b, seqs)
  BY DEF IsNext

LEMMA LocalsStaySound ==
    ASSUME store \in [Targets -> RecordSet], Grows, NEW d \in TaskSet, LocalsSound(d, store)
    PROVE  LocalsSound(d, store')
  <1>1. /\ d.target \in Targets /\ d.seq \in Nat
        /\ store[d.target].applied \in Nat /\ store'[d.target].applied \in Nat
        /\ store[d.target].applied <= store'[d.target].applied
    BY DEF TaskSet, RecordSet, Grows
  <1> QED BY <1>1, NextStaysNext DEF LocalsSound

LEMMA StreamStaysSound ==
    ASSUME store \in [Targets -> RecordSet], Grows, NEW d \in TaskSet, NEW e \in TaskSet,
           NEW responses, NEW delivered, StreamSound(d, store, responses, delivered),
           e.target = d.target, d.live => e.live
    PROVE  StreamSound(e, store', responses, delivered)
  <1>1. /\ d.target \in Targets
        /\ store[d.target].applied \in Nat /\ store'[d.target].applied \in Nat
        /\ store[d.target].applied <= store'[d.target].applied
    BY DEF TaskSet, RecordSet, Grows
  <1> QED BY <1>1, NextStaysNext DEF StreamSound

LEMMA ClosedIsSound == \A d, st : StreamSound(d, st, <<>>, {})
  <1>1. Len(<<>>) = 0
    BY EmptySeq
  <1> QED BY <1>1 DEF StreamSound

(* A step that leaves the tasks and the streams alone.                     *)
LEMMA TasksStay ==
    ASSUME TasksOK, StoreOK, Grows, UNCHANGED <<task, inbox, onStream>>
    PROVE  TasksOK'
  <1>1. store \in [Targets -> RecordSet] /\ task \in [Tasks -> TaskSet]
    BY DEF StoreOK, TasksOK, TasksTyped
  <1>2. \A t \in Tasks : LocalsSound(task[t], store')
    BY <1>1, LocalsStaySound DEF TasksOK
  <1>3. \A t \in LiveTasks : StreamSound(task[t], store', inbox[t], onStream[t])
    BY <1>1, StreamStaysSound DEF TasksOK, Tasks
  <1>4. TasksTyped'
    BY DEF TasksOK, TasksTyped, OnceShape
  <1> QED BY <1>2, <1>3, <1>4 DEF TasksOK

(* A step of one task, and of its stream if it has one.                    *)
LEMMA TaskMoves ==
    ASSUME TasksOK, StoreOK, Grows, NEW t \in Tasks, NEW d \in TaskSet,
           task' = [task EXCEPT ![t] = d], OnceShape(t, d), LocalsSound(d, store'),
           inbox' \in [LiveTasks -> Seq(ResponseSet)], onStream' \in [LiveTasks -> SUBSET Targets],
           \A u \in LiveTasks \ {t} : inbox'[u] = inbox[u] /\ onStream'[u] = onStream[u],
           t \in LiveTasks => StreamSound(d, store', inbox'[t], onStream'[t])
    PROVE  TasksOK'
  <1>1. store \in [Targets -> RecordSet] /\ task \in [Tasks -> TaskSet]
    BY DEF StoreOK, TasksOK, TasksTyped
  <1>2. task' \in [Tasks -> TaskSet] /\ task'[t] = d /\ \A u \in Tasks \ {t} : task'[u] = task[u]
    BY <1>1
  <1>3. \A u \in Tasks : LocalsSound(task'[u], store')
    BY <1>1, <1>2, LocalsStaySound DEF TasksOK
  <1>4. \A u \in LiveTasks : StreamSound(task'[u], store', inbox'[u], onStream'[u])
    <2> SUFFICES ASSUME NEW u \in LiveTasks, u # t
                 PROVE  StreamSound(task'[u], store', inbox'[u], onStream'[u])
      BY <1>2
    <2>1. u \in Tasks /\ task'[u] = task[u] /\ inbox'[u] = inbox[u] /\ onStream'[u] = onStream[u]
      BY <1>2 DEF Tasks
    <2>2. StreamSound(task[u], store, inbox[u], onStream[u])
      BY DEF TasksOK
    <2>3. task[u] \in TaskSet
      BY <1>1, <2>1
    <2> QED BY <1>1, <2>1, <2>2, <2>3, StreamStaysSound
  <1>5. \A u \in OnceTasks : OnceShape(u, task'[u])
    BY <1>2 DEF TasksOK, TasksTyped, Tasks
  <1>6. TasksTyped'
    BY <1>2, <1>5 DEF TasksTyped, OnceShape
  <1> QED BY <1>3, <1>4, <1>6 DEF TasksOK

(* A step of one task that leaves its stream as it is.                     *)
LEMMA TaskKeepsStream ==
    ASSUME TasksOK, StoreOK, Grows, NEW t \in Tasks, NEW d \in TaskSet,
           task' = [task EXCEPT ![t] = d], OnceShape(t, d), LocalsSound(d, store'),
           UNCHANGED <<inbox, onStream>>, d.target = task[t].target, task[t].live => d.live
    PROVE  TasksOK'
  <1>1. /\ store \in [Targets -> RecordSet] /\ task[t] \in TaskSet
        /\ inbox \in [LiveTasks -> Seq(ResponseSet)] /\ onStream \in [LiveTasks -> SUBSET Targets]
    BY DEF StoreOK, TasksOK, TasksTyped
  <1>2. t \in LiveTasks => StreamSound(d, store', inbox[t], onStream[t])
    BY <1>1, StreamStaysSound DEF TasksOK
  <1> QED BY <1>1, <1>2, TaskMoves

(* A step of one task that closes its stream.                              *)
LEMMA TaskClosesStream ==
    ASSUME TasksOK, StoreOK, Grows, NEW t \in Tasks, NEW d \in TaskSet,
           task' = [task EXCEPT ![t] = d], OnceShape(t, d), LocalsSound(d, store'),
           CloseStream(t)
    PROVE  TasksOK'
  <1>1. inbox \in [LiveTasks -> Seq(ResponseSet)] /\ onStream \in [LiveTasks -> SUBSET Targets]
    BY DEF TasksOK, TasksTyped
  <1>2. CASE t \in LiveTasks
    <2>1. inbox' = [inbox EXCEPT ![t] = <<>>] /\ onStream' = [onStream EXCEPT ![t] = {}]
      BY <1>2 DEF CloseStream
    <2>2. <<>> \in Seq(ResponseSet)
      OBVIOUS
    <2>3. inbox' \in [LiveTasks -> Seq(ResponseSet)] /\ onStream' \in [LiveTasks -> SUBSET Targets]
      BY <1>1, <2>1, <2>2
    <2>4. inbox'[t] = <<>> /\ onStream'[t] = {}
      BY <1>1, <1>2, <2>1
    <2>5. \A u \in LiveTasks \ {t} : inbox'[u] = inbox[u] /\ onStream'[u] = onStream[u]
      BY <1>1, <2>1
    <2>6. StreamSound(d, store', inbox'[t], onStream'[t])
      BY <2>4, ClosedIsSound
    <2> QED BY <2>3, <2>5, <2>6, TaskMoves
  <1>3. CASE t \notin LiveTasks
    <2>1. inbox' = inbox /\ onStream' = onStream
      BY <1>3 DEF CloseStream
    <2> QED BY <1>1, <1>3, <2>1, TaskMoves
  <1> QED BY <1>2, <1>3

-----------------------------------------------------------------------------
(* The locals of a task between two batches.                               *)
LEMMA FreshParts ==
    ASSUME NEW t, task[t] \in TaskSet, NEW phase \in Phases
    PROVE  /\ Fresh(t, phase) \in TaskSet
           /\ Fresh(t, phase).phase = phase
           /\ Fresh(t, phase).target = task[t].target
           /\ Fresh(t, phase).live = task[t].live
           /\ Fresh(t, phase).stopped = task[t].stopped
           /\ Fresh(t, phase).seqs = {}
  <1>1. {} \in SUBSET (Targets \X Nat) /\ 0 \in Nat
    OBVIOUS
  <1> QED BY <1>1 DEF Fresh, TaskSet, Phases

(* With no batch in hand and nothing to ack, locals are sound.             *)
LEMMA NoBatchIsSound ==
    ASSUME NEW d \in TaskSet, d.seqs = {}, d.phase \notin {"ack", "ackSnapshot"},
           d.phase \in {"idle", "backoff"} => ~d.live,
           NEW st \in [Targets -> RecordSet]
    PROVE  LocalsSound(d, st)
  <1>1. st[d.target].applied \in Nat
    BY DEF TaskSet, RecordSet
  <1>2. {} = 1..0 /\ {} = {d.target} \X {} /\ {} \in SUBSET Nat
    OBVIOUS
  <1>3. IsNext(st[d.target].applied, {})
    BY <1>1, <1>2 DEF IsNext
  <1> QED BY <1>2, <1>3 DEF LocalsSound

(* The step in which a task goes on to phase and keeps its stream.         *)
LEMMA GoIsSound ==
    ASSUME TasksOK, StoreOK, Grows, NEW t \in Tasks, NEW phase \in Phases,
           phase \notin BatchPhases \cup {"ackSnapshot"}, Go(t, phase), UNCHANGED <<inbox, onStream>>,
           phase \in {"idle", "backoff"} => ~task[t].live,
           t \in OnceTasks => phase \notin {"stream", "backoff"}
    PROVE  TasksOK'
  <1>1. task \in [Tasks -> TaskSet] /\ task[t] \in TaskSet
    BY DEF TasksOK, TasksTyped
  <1> DEFINE d == Fresh(t, phase)
  <1>2. /\ d \in TaskSet /\ d.phase = phase /\ d.target = task[t].target
        /\ d.live = task[t].live /\ d.stopped = task[t].stopped /\ d.seqs = {}
    BY <1>1, FreshParts
  <1>3. task' = [task EXCEPT ![t] = d]
    BY DEF Go
  <1> HIDE DEF d
  <1>4. OnceShape(t, d)
    BY <1>2 DEF TasksOK, TasksTyped, OnceShape
  <1>5. LocalsSound(d, store')
    BY <1>2, NoBatchIsSound DEF Grows, BatchPhases
  <1> QED BY <1>2, <1>3, <1>4, <1>5, TaskKeepsStream

(* The step in which a task ends its stream and goes to phase.             *)
LEMMA LeaveIsSound ==
    ASSUME TasksOK, StoreOK, Grows, NEW t \in Tasks, NEW phase \in {"idle", "backoff"},
           task' = [task EXCEPT ![t] = [Fresh(t, phase) EXCEPT !.live = FALSE]],
           CloseStream(t), t \in OnceTasks => phase = "idle"
    PROVE  TasksOK'
  <1>1. task \in [Tasks -> TaskSet] /\ task[t] \in TaskSet /\ phase \in Phases
    BY DEF TasksOK, TasksTyped, Phases
  <1> DEFINE f == Fresh(t, phase)
             d == [f EXCEPT !.live = FALSE]
  <1>2. /\ f \in TaskSet /\ f.phase = phase /\ f.target = task[t].target
        /\ f.stopped = task[t].stopped /\ f.seqs = {}
    BY <1>1, FreshParts
  <1> HIDE DEF f
  <1>3. /\ d \in TaskSet /\ d.phase = phase /\ d.stopped = task[t].stopped /\ d.seqs = {}
        /\ d.live = FALSE
    BY <1>2 DEF TaskSet
  <1>4. task' = [task EXCEPT ![t] = d]
    BY DEF f
  <1> HIDE DEF d
  <1>5. OnceShape(t, d)
    BY <1>3 DEF TasksOK, TasksTyped, OnceShape, BatchPhases
  <1>6. LocalsSound(d, store')
    BY <1>3, NoBatchIsSound DEF Grows
  <1> QED BY <1>3, <1>4, <1>5, <1>6, TaskClosesStream

LEMMA RaiseIsSound ==
    ASSUME TasksOK, StoreOK, Grows, NEW t \in Tasks, Raise(t)
    PROVE  TasksOK'
  <1> DEFINE phase == IF t \in LiveTasks /\ ~task[t].stopped THEN "backoff" ELSE "idle"
  <1>1. task' = [task EXCEPT ![t] = [Fresh(t, phase) EXCEPT !.live = FALSE]] /\ CloseStream(t)
    BY DEF Raise
  <1>2. t \in OnceTasks => phase = "idle"
    BY ClientAssumption
  <1>3. phase \in {"idle", "backoff"}
    OBVIOUS
  <1> HIDE DEF phase
  <1> QED BY <1>1, <1>2, <1>3, LeaveIsSound
-----------------------------------------------------------------------------
(* What the server answers and stores.                                     *)
LEMMA AnswerParts ==
    ASSUME ServerOK, StoreOK, NEW g \in Targets, NEW totalLimit
    PROVE  /\ Answer(g, totalLimit) \in ResponseSet
           /\ Answer(g, totalLimit).target = g
           /\ IsNext(store[g].applied, Answer(g, totalLimit).seqs)
  <1> DEFINE v == server[g]
             last == Smaller(v.cursor + BatchLimit, v.head)
             tooLong == ReplayTooOld(v.cursor, v.retained)
                        \/ ReplayOverBudget(v.cursor, v.head, totalLimit)
             seqs == IF tooLong THEN {} ELSE (v.cursor + 1)..last
  <1>1. /\ v.cursor \in Nat /\ v.head \in Nat /\ store[g].applied \in Nat
        /\ v.cursor <= store[g].applied
    BY DEF ServerOK, StoreOK, ServerSet, RecordSet
  <1>2. last \in Nat
    <2> HIDE DEF v
    <2> QED BY <1>1, ClientAssumption DEF Smaller
  <1>3. Answer(g, totalLimit) = [target |-> g, tooLong |-> tooLong, seqs |-> seqs,
                                 final |-> ~tooLong /\ last >= v.head]
    BY DEF Answer
  <1>4. tooLong \in BOOLEAN
    BY DEF ReplayTooOld, ReplayOverBudget
  <1> HIDE DEF v, last, tooLong
  <1>5. seqs \in SUBSET Nat /\ IsNext(store[g].applied, seqs)
    <2>1. CASE tooLong
      <3>1. seqs = 1..0 /\ 1 <= store[g].applied + 1
        BY <1>1, <2>1
      <3> HIDE DEF seqs
      <3> QED BY <1>1, <3>1 DEF IsNext
    <2>2. CASE ~tooLong
      <3>1. v.cursor + 1 \in Nat /\ v.cursor + 1 <= store[g].applied + 1
        BY <1>1
      <3>2. seqs = (v.cursor + 1)..last
        BY <2>2
      <3> QED BY <1>2, <3>1, <3>2 DEF IsNext
    <2> QED BY <2>1, <2>2
  <1> HIDE DEF seqs
  <1>6. (~tooLong /\ last >= v.head) \in BOOLEAN
    OBVIOUS
  <1> QED BY <1>3, <1>4, <1>5, <1>6 DEF ResponseSet

LEMMA AckedIsSound ==
    ASSUME ServerOK, StoreOK, NEW g \in Targets, NEW seq \in Nat, seq <= store[g].applied,
           server' = Acked(g, seq), lateAcks' \subseteq lateAcks, store' = store
    PROVE  ServerOK'
  <1> DEFINE cursor == IF seq <= server[g].head THEN Larger(server[g].cursor, seq)
                       ELSE server[g].cursor
             v == [server[g] EXCEPT !.cursor = cursor]
  <1>1. /\ server \in [Targets -> ServerSet] /\ server[g] \in ServerSet
        /\ server[g].cursor \in Nat /\ store[g].applied \in Nat
        /\ server[g].cursor <= store[g].applied
    BY DEF ServerOK, StoreOK, ServerSet, RecordSet
  <1>2. server' = [server EXCEPT ![g] = v]
    BY DEF Acked
  <1>3. cursor \in Nat /\ cursor <= store[g].applied
    BY <1>1 DEF Larger
  <1> HIDE DEF cursor
  <1>4. v \in ServerSet /\ v.cursor = cursor
    BY <1>1, <1>3 DEF ServerSet
  <1> HIDE DEF v
  <1>5. server' \in [Targets -> ServerSet]
    BY <1>1, <1>2, <1>4
  <1>6. \A h \in Targets : server'[h].cursor <= store'[h].applied
    BY <1>1, <1>2, <1>3, <1>4 DEF ServerOK
  <1> QED BY <1>5, <1>6 DEF ServerOK

LEMMA StoreStays ==
    ASSUME StoreOK, store' = store
    PROVE  StoreOK' /\ Grows
  BY DEF StoreOK, NoSilentGap, Grows, RecordSet

LEMMA ServerStays ==
    ASSUME ServerOK, StoreOK, Grows, UNCHANGED <<server, lateAcks>>
    PROVE  ServerOK'
  <1>1. \A g \in Targets : /\ store[g].applied \in Nat /\ store'[g].applied \in Nat
                           /\ store[g].applied <= store'[g].applied
                           /\ server[g].cursor \in Nat
    BY DEF StoreOK, ServerOK, ServerSet, RecordSet, Grows
  <1>2. \A g \in Targets : server[g].cursor <= store'[g].applied
    <2> TAKE g \in Targets
    <2>1. server[g].cursor <= store[g].applied
      BY DEF ServerOK
    <2> QED BY <1>1, <2>1
  <1>3. \A a \in lateAcks : a[2] <= store'[a[1]].applied
    <2> TAKE a \in lateAcks
    <2>1. a[1] \in Targets /\ a[2] \in Nat /\ a[2] <= store[a[1]].applied
      BY DEF ServerOK
    <2> QED BY <1>1, <2>1
  <1> QED BY <1>2, <1>3 DEF ServerOK

-----------------------------------------------------------------------------
(* A task with a batch to handle.                                          *)
LEMMA HandleParts ==
    ASSUME TasksOK, StoreOK, Grows, NEW t \in Tasks, NEW answer \in ResponseSet,
           answer.target = task[t].target, IsNext(store[task[t].target].applied, answer.seqs),
           NEW inCatchUp \in BOOLEAN, t \in OnceTasks => inCatchUp,
           Handle(t, answer, inCatchUp)
    PROVE  \E d \in TaskSet : /\ task' = [task EXCEPT ![t] = d]
                              /\ OnceShape(t, d) /\ LocalsSound(d, store')
                              /\ d.target = task[t].target /\ d.live = task[t].live
  <1> DEFINE phase == IF answer.tooLong THEN "snapshot" ELSE "filter"
             seqs == {answer.target} \X answer.seqs
             d == [task[t] EXCEPT !.phase = phase, !.inCatchUp = inCatchUp, !.seqs = seqs,
                                  !.final = answer.final]
  <1>1. /\ task[t] \in TaskSet /\ store \in [Targets -> RecordSet]
        /\ task[t].target \in Targets /\ phase \in {"snapshot", "filter"}
        /\ answer.final \in BOOLEAN /\ answer.seqs \in SUBSET Nat
    BY DEF TasksOK, TasksTyped, TaskSet, StoreOK, ResponseSet
  <1>2. seqs \in SUBSET (Targets \X Nat)
    BY <1>1
  <1>3. task' = [task EXCEPT ![t] = d]
    BY DEF Handle
  <1> HIDE DEF phase, seqs
  <1>4. /\ d \in TaskSet /\ d.phase = phase /\ d.seqs = seqs /\ d.target = task[t].target
        /\ d.live = task[t].live /\ d.stopped = task[t].stopped /\ d.inCatchUp = inCatchUp
    BY <1>1, <1>2 DEF TaskSet
  <1> HIDE DEF d
  <1>5. OnceShape(t, d)
    BY <1>1, <1>4 DEF TasksOK, TasksTyped, OnceShape
  <1>6. LocalsSound(d, store')
    <2>1. store[d.target].applied \in Nat /\ store'[d.target].applied \in Nat
          /\ store[d.target].applied <= store'[d.target].applied
      BY <1>1, <1>4 DEF Grows, RecordSet
    <2>2. IsNext(store'[d.target].applied, answer.seqs)
      BY <1>4, <2>1, NextStaysNext
    <2> QED BY <1>1, <1>4, <2>2 DEF LocalsSound, seqs
  <1> QED BY <1>3, <1>4, <1>5, <1>6

(* catchUp() returns, to its caller or to the loop of a subscription.      *)
LEMMA ReturnIsSound ==
    ASSUME TasksOK, StoreOK, Grows, NEW t \in Tasks, ReturnFromCatchUp(t)
    PROVE  TasksOK'
  <1>1. /\ task \in [Tasks -> TaskSet] /\ task[t] \in TaskSet /\ store \in [Targets -> RecordSet]
        /\ inbox \in [LiveTasks -> Seq(ResponseSet)] /\ onStream \in [LiveTasks -> SUBSET Targets]
    BY DEF TasksOK, TasksTyped, StoreOK
  <1>2. CASE t \in OnceTasks
    <2>1. Go(t, "idle") /\ UNCHANGED <<inbox, onStream>> /\ ~task[t].live
      BY <1>2 DEF ReturnFromCatchUp, TasksOK, TasksTyped, OnceShape
    <2> QED BY <2>1, GoIsSound DEF Phases, BatchPhases
  <1>3. CASE t \notin OnceTasks
    <2> DEFINE f == Fresh(t, "stream")
               d == [f EXCEPT !.live = TRUE]
               delivered == IF task[t].live THEN onStream[t] ELSE {task[t].target}
    <2>1. t \in LiveTasks
      BY <1>3 DEF Tasks
    <2>2. /\ f \in TaskSet /\ f.phase = "stream" /\ f.target = task[t].target /\ f.seqs = {}
      BY <1>1, FreshParts DEF Phases
    <2>3. task' = [task EXCEPT ![t] = d] /\ inbox' = inbox
      BY <1>3 DEF ReturnFromCatchUp
    <2>4. /\ onStream' \in [LiveTasks -> SUBSET Targets] /\ onStream'[t] = delivered
          /\ \A u \in LiveTasks \ {t} : onStream'[u] = onStream[u]
      <3>1. onStream' = IF task[t].live THEN onStream
                        ELSE [onStream EXCEPT ![t] = {task[t].target}]
        BY <1>3 DEF ReturnFromCatchUp
      <3>2. task[t].target \in Targets
        BY <1>1 DEF TaskSet
      <3> QED BY <1>1, <2>1, <3>1, <3>2
    <2> HIDE DEF f
    <2>5. d \in TaskSet /\ d.phase = "stream" /\ d.target = task[t].target /\ d.seqs = {} /\ d.live
      BY <2>2 DEF TaskSet
    <2> HIDE DEF d
    <2>6. StreamSound(d, store', inbox[t], delivered)
      <3>1. StreamSound(task[t], store, inbox[t], onStream[t])
        BY <2>1 DEF TasksOK
      <3>2. StreamSound(d, store', inbox[t], onStream[t])
        BY <1>1, <2>5, <3>1, StreamStaysSound
      <3>3. delivered \subseteq {d.target}
        BY <2>5, <3>1 DEF StreamSound
      <3> HIDE DEF delivered
      <3> QED BY <2>5, <3>2, <3>3 DEF StreamSound
    <2>7. LocalsSound(d, store') /\ OnceShape(t, d)
      BY <1>3, <2>5, NoBatchIsSound DEF Grows, OnceShape
    <2> HIDE DEF delivered
    <2> QED BY <1>1, <2>3, <2>4, <2>5, <2>6, <2>7, TaskMoves
  <1> QED BY <1>2, <1>3

-----------------------------------------------------------------------------
(* The steps at the server.                                                *)
LEMMA ServerStep == Inv /\ ServerNext => Inv'
  <1> SUFFICES ASSUME Inv, ServerNext PROVE Inv'
    OBVIOUS
  <1> USE DEF Inv
  <1>1. UNCHANGED <<store, failures>>
    BY DEF ServerNext, AppendEvents, MoveBoundary, PutSnapshot, LateAck, StreamSend
  <1>2. StoreOK' /\ Grows /\ FailuresOK'
    BY <1>1, StoreStays DEF FailuresOK
  <1>3. ASSUME UNCHANGED <<task, inbox, onStream>> PROVE TasksOK'
    BY <1>2, <1>3, TasksStay
  <1>4. server \in [Targets -> ServerSet]
    BY DEF ServerOK
  <1>5. ASSUME NEW g \in Targets, NEW v \in ServerSet, v.cursor = server[g].cursor,
               server' = [server EXCEPT ![g] = v], lateAcks' = lateAcks
        PROVE  ServerOK'
    <2>1. server' \in [Targets -> ServerSet]
      BY <1>4, <1>5
    <2>2. \A h \in Targets : server'[h].cursor = server[h].cursor
      BY <1>4, <1>5
    <2> QED BY <1>1, <1>5, <2>1, <2>2 DEF ServerOK
  <1>6. ASSUME NEW g \in Targets, AppendEvents(g) PROVE Inv'
    <2> DEFINE n == IF server[g].retained = 0 THEN 1 ELSE server[g].retained
               v == [server[g] EXCEPT !.head = server[g].head + 1, !.retained = n]
    <2>1. server' = [server EXCEPT ![g] = v]
      BY <1>4, <1>6 DEF AppendEvents, ServerSet
    <2>2. server[g] \in ServerSet /\ server[g].head + 1 \in Nat /\ n \in Nat
      BY <1>4 DEF ServerSet
    <2> HIDE DEF n
    <2>3. v \in ServerSet /\ v.cursor = server[g].cursor
      BY <2>2 DEF ServerSet
    <2>4. UNCHANGED <<lateAcks, task, inbox, onStream>>
      BY <1>6 DEF AppendEvents
    <2> HIDE DEF v
    <2> QED BY <1>2, <1>3, <1>5, <2>1, <2>3, <2>4
  <1>7. ASSUME NEW g \in Targets, NEW retained \in 1..(MaxSeq + 1), MoveBoundary(g, retained)
        PROVE  Inv'
    <2> DEFINE v == [server[g] EXCEPT !.retained = retained]
    <2>1. server' = [server EXCEPT ![g] = v]
      BY <1>7 DEF MoveBoundary
    <2>2. v \in ServerSet /\ v.cursor = server[g].cursor
      BY <1>4, ClientAssumption DEF ServerSet
    <2>3. UNCHANGED <<lateAcks, task, inbox, onStream>>
      BY <1>7 DEF MoveBoundary
    <2> HIDE DEF v
    <2> QED BY <1>2, <1>3, <1>5, <2>1, <2>2, <2>3
  <1>8. ASSUME NEW g \in Targets, NEW seq \in 1..MaxSeq, PutSnapshot(g, seq)
        PROVE  Inv'
    <2> DEFINE v == [server[g] EXCEPT !.snapshot = seq]
    <2>1. server' = [server EXCEPT ![g] = v]
      BY <1>8 DEF PutSnapshot
    <2>2. v \in ServerSet /\ v.cursor = server[g].cursor
      BY <1>4, ClientAssumption DEF ServerSet
    <2>3. UNCHANGED <<lateAcks, task, inbox, onStream>>
      BY <1>8 DEF PutSnapshot
    <2> HIDE DEF v
    <2> QED BY <1>2, <1>3, <1>5, <2>1, <2>2, <2>3
  <1>9. ASSUME NEW g \in Targets, NEW seq \in 0..MaxSeq, LateAck(g, seq) PROVE Inv'
    <2>1. seq \in Nat /\ seq <= store[g].applied
      <3>1. <<g, seq>> \in lateAcks
        BY <1>9 DEF LateAck
      <3>2. <<g, seq>>[2] <= store[<<g, seq>>[1]].applied
        BY <3>1 DEF ServerOK
      <3> QED BY <3>2, ClientAssumption
    <2>2. ServerOK'
      BY <1>1, <1>9, <2>1, AckedIsSound DEF LateAck
    <2> QED BY <1>2, <1>3, <1>9, <2>2 DEF LateAck
  <1>10. ASSUME NEW g \in Targets, NEW t \in LiveTasks, StreamSend(t, g) PROVE Inv'
    <2> DEFINE r == Answer(g, 0)
    <2>1. r \in ResponseSet /\ r.target = g /\ IsNext(store[g].applied, r.seqs)
      BY AnswerParts
    <2>2. /\ task \in [Tasks -> TaskSet] /\ t \in Tasks /\ task[t] \in TaskSet
          /\ inbox \in [LiveTasks -> Seq(ResponseSet)] /\ inbox[t] \in Seq(ResponseSet)
          /\ onStream \in [LiveTasks -> SUBSET Targets]
          /\ StreamSound(task[t], store, inbox[t], onStream[t])
      BY DEF TasksOK, TasksTyped, Tasks
    <2>3. /\ task[t].live /\ g \in onStream[t] /\ inbox' = [inbox EXCEPT ![t] = Append(inbox[t], r)]
          /\ UNCHANGED <<server, lateAcks, task, onStream>>
      BY <1>10 DEF StreamSend
    <2>4. g = task[t].target
      BY <2>2, <2>3 DEF StreamSound
    <2> HIDE DEF r
    <2> DEFINE q == Append(inbox[t], r)
    <2>5. /\ q \in Seq(ResponseSet) /\ Len(q) = Len(inbox[t]) + 1 /\ Len(inbox[t]) \in Nat
          /\ \A i \in 1..Len(inbox[t]) : q[i] = inbox[t][i]
          /\ q[Len(inbox[t]) + 1] = r
      BY <2>1, <2>2, AppendProperties, LenProperties
    <2> HIDE DEF q
    <2>6. \A i \in 1..Len(q) : q[i].target = task[t].target
                               /\ IsNext(store[task[t].target].applied, q[i].seqs)
      <3> TAKE i \in 1..Len(q)
      <3>1. CASE i = Len(inbox[t]) + 1
        BY <2>1, <2>4, <2>5, <3>1
      <3>2. CASE i \in 1..Len(inbox[t])
        BY <2>2, <2>5, <3>2 DEF StreamSound
      <3> QED BY <2>5, <3>1, <3>2
    <2>7. StreamSound(task[t], store', q, onStream[t])
      BY <1>1, <2>2, <2>3, <2>6 DEF StreamSound
    <2>8. LocalsSound(task[t], store') /\ OnceShape(t, task[t])
      <3>1. LocalsSound(task[t], store)
        BY <2>2 DEF TasksOK
      <3>2. t \notin OnceTasks
        BY ClientAssumption
      <3> QED BY <1>1, <3>1, <3>2 DEF OnceShape
    <2>9. /\ inbox' = [inbox EXCEPT ![t] = q] /\ inbox' \in [LiveTasks -> Seq(ResponseSet)]
          /\ inbox'[t] = q /\ \A u \in LiveTasks \ {t} : inbox'[u] = inbox[u]
      BY <2>2, <2>3, <2>5 DEF q
    <2>10. task' = [task EXCEPT ![t] = task[t]]
      BY <2>2, <2>3
    <2>11. TasksOK'
      BY <1>2, <2>2, <2>3, <2>7, <2>8, <2>9, <2>10, TaskMoves
    <2> QED BY <1>2, <2>3, <2>11, ServerStays
  <1> QED BY <1>6, <1>7, <1>8, <1>9, <1>10 DEF ServerNext
-----------------------------------------------------------------------------
(* A task that goes on with the batch it has.                              *)
LEMMA GoesOnIsSound ==
    ASSUME TasksOK, StoreOK, Grows, NEW t \in Tasks, NEW d \in TaskSet,
           task' = [task EXCEPT ![t] = d], UNCHANGED <<inbox, onStream>>,
           d.target = task[t].target, d.live = task[t].live, d.stopped = task[t].stopped,
           d.inCatchUp = task[t].inCatchUp,
           d.phase \in BatchPhases => task[t].phase \in BatchPhases,
           d.seqs = task[t].seqs, d.phase \notin {"idle", "backoff", "stream"},
           d.phase \in {"ack", "ackSnapshot"} => d.seq <= store'[d.target].applied
    PROVE  TasksOK'
  <1>1. task[t] \in TaskSet /\ store \in [Targets -> RecordSet] /\ LocalsSound(task[t], store)
    BY DEF TasksOK, TasksTyped, StoreOK
  <1>2. LocalsSound(task[t], store')
    BY <1>1, LocalsStaySound
  <1>3. LocalsSound(d, store')
    BY <1>2 DEF LocalsSound
  <1>4. OnceShape(t, d)
    BY DEF TasksOK, TasksTyped, OnceShape
  <1> QED BY <1>3, <1>4, TaskKeepsStream

(* What the projection of a target has not applied of a batch.             *)
LEMMA NewEvents ==
    ASSUME NEW g, NEW a \in Nat, NEW lo \in Nat, NEW hi \in Nat, lo <= a + 1
    PROVE  {e \in {g} \X (lo..hi) : e[2] > a} = {g} \X ((a + 1)..hi)
  <1>1. \A q \in Int : q \in lo..hi /\ q > a <=> q \in (a + 1)..hi
    OBVIOUS
  <1>2. \A q \in lo..hi : q \in Int
    OBVIOUS
  <1>3. \A q \in (a + 1)..hi : q \in Int
    OBVIOUS
  <1>4. ASSUME NEW e \in {g} \X (lo..hi), e[2] > a PROVE e \in {g} \X ((a + 1)..hi)
    <2>1. e = <<g, e[2]>> /\ e[2] \in lo..hi
      OBVIOUS
    <2>2. e[2] \in (a + 1)..hi
      BY <1>1, <1>2, <1>4, <2>1
    <2> QED BY <2>1, <2>2
  <1>5. ASSUME NEW e \in {g} \X ((a + 1)..hi) PROVE e \in {g} \X (lo..hi) /\ e[2] > a
    <2>1. e = <<g, e[2]>> /\ e[2] \in (a + 1)..hi
      OBVIOUS
    <2>2. e[2] \in lo..hi /\ e[2] > a
      BY <1>1, <1>3, <2>1
    <2> QED BY <2>1, <2>2
  <1> QED BY <1>4, <1>5

(* The batch of a task, and what is new in it.                             *)
LEMMA BatchOfTask ==
    ASSUME TasksOK, StoreOK, NEW t \in Tasks
    PROVE  LET g == task[t].target
               a == store[g].applied
           IN  /\ g \in Targets /\ a \in Nat
               /\ \E hi \in Nat : {e \in task[t].seqs : e[2] > a} = {g} \X ((a + 1)..hi)
  <1> DEFINE g == task[t].target
             a == store[g].applied
  <1>1. g \in Targets /\ a \in Nat
    BY DEF TasksOK, TasksTyped, TaskSet, StoreOK, RecordSet
  <1>2. PICK lo \in Nat, hi \in Nat : lo <= a + 1 /\ task[t].seqs = {g} \X (lo..hi)
    BY DEF TasksOK, LocalsSound, IsNext
  <1> HIDE DEF g, a
  <1>3. {e \in task[t].seqs : e[2] > a} = {g} \X ((a + 1)..hi)
    BY <1>1, <1>2, NewEvents
  <1> QED BY <1>1, <1>3 DEF g, a

-----------------------------------------------------------------------------
(* A step that leaves the server and the projections alone.                *)
LEMMA OnlyTasks ==
    ASSUME Inv, UNCHANGED <<server, lateAcks, store, failures>>
    PROVE  StoreOK' /\ Grows /\ ServerOK' /\ FailuresOK'
  <1>1. StoreOK' /\ Grows
    BY StoreStays DEF Inv
  <1>2. ServerOK'
    BY <1>1, ServerStays DEF Inv
  <1> QED BY <1>1, <1>2 DEF Inv, FailuresOK

(* The steps of the caller.                                                *)
LEMMA CallerStep == Inv /\ CallerNext => Inv'
  <1> SUFFICES ASSUME Inv, CallerNext PROVE Inv'
    OBVIOUS
  <1>1. UNCHANGED <<server, lateAcks, store, inbox, onStream, failures>>
    BY DEF CallerNext, StartCatchUp, Subscribe, Stop
  <1>2. StoreOK' /\ Grows /\ ServerOK' /\ FailuresOK'
    BY <1>1, OnlyTasks
  <1>3. TasksOK /\ StoreOK /\ TasksTyped
    BY DEF Inv, TasksOK
  <1>4. ASSUME NEW t \in Tasks, NEW g \in Targets, At(t, "idle"),
               task' = [task EXCEPT ![t] = [task[t] EXCEPT !.phase = "catchUp", !.target = g]]
        PROVE  TasksOK'
    <2> DEFINE d == [task[t] EXCEPT !.phase = "catchUp", !.target = g]
    <2>1. task[t] \in TaskSet /\ LocalsSound(task[t], store) /\ task[t].phase = "idle"
      BY <1>3, <1>4 DEF TasksTyped, TasksOK, At
    <2>2. /\ d \in TaskSet /\ d.phase = "catchUp" /\ d.live = task[t].live
          /\ d.stopped = task[t].stopped /\ d.seqs = task[t].seqs
      BY <2>1 DEF TaskSet
    <2>3. task[t].seqs = {} /\ ~task[t].live
      BY <2>1 DEF LocalsSound
    <2> HIDE DEF d
    <2>4. LocalsSound(d, store')
      BY <2>2, <2>3, <1>2, NoBatchIsSound DEF Grows
    <2>5. t \in LiveTasks => StreamSound(d, store', inbox[t], onStream[t])
      <3>1. t \in LiveTasks => inbox[t] = <<>> /\ onStream[t] = {}
        BY <1>3, <2>3 DEF TasksOK, StreamSound
      <3> QED BY <3>1, ClosedIsSound
    <2>6. OnceShape(t, d)
      BY <1>3, <2>2 DEF TasksTyped, OnceShape, BatchPhases
    <2>7. task' = [task EXCEPT ![t] = d]
      BY <1>4 DEF d
    <2> QED BY <1>1, <1>2, <1>3, <2>2, <2>4, <2>5, <2>6, <2>7, TaskMoves DEF TasksTyped
  <1>5. ASSUME NEW t \in Tasks, Stop(t) PROVE TasksOK'
    <2> DEFINE d == [task[t] EXCEPT !.stopped = TRUE]
    <2>1. task[t] \in TaskSet /\ LocalsSound(task[t], store) /\ t \notin OnceTasks
      BY <1>3, <1>5, ClientAssumption DEF TasksTyped, TasksOK, Stop
    <2>2. /\ d \in TaskSet /\ d.phase = task[t].phase /\ d.live = task[t].live
          /\ d.seqs = task[t].seqs /\ d.target = task[t].target /\ d.seq = task[t].seq
      BY <2>1 DEF TaskSet
    <2>3. task' = [task EXCEPT ![t] = d]
      BY <1>5 DEF Stop
    <2> HIDE DEF d
    <2>4. LocalsSound(d, store') /\ OnceShape(t, d)
      BY <1>1, <2>1, <2>2 DEF LocalsSound, OnceShape
    <2> QED BY <1>1, <1>2, <1>3, <2>2, <2>3, <2>4, TaskKeepsStream
  <1>6. TasksOK'
    BY <1>4, <1>5 DEF CallerNext, StartCatchUp, Subscribe
  <1> QED BY <1>2, <1>6 DEF Inv

-----------------------------------------------------------------------------
(* The steps that change the projection.                                   *)
LEMMA ApplySnapshotStep ==
    ASSUME Inv, NEW t \in Tasks, ApplySnapshot(t)
    PROVE  Inv'
  <1> DEFINE g == task[t].target
             seq == task[t].seq
             kept == [store[g] EXCEPT !.snapshot = seq]
             restored == [applied |-> seq, snapshot |-> seq, events |-> {}, restored |-> seq]
             r == IF store[g].applied > seq THEN kept ELSE restored
             d == [task[t] EXCEPT !.phase = "ackSnapshot"]
  <1>1. TasksOK /\ StoreOK /\ ServerOK /\ FailuresOK
    BY DEF Inv
  <1>2. /\ task[t] \in TaskSet /\ g \in Targets /\ seq \in Nat
        /\ store \in [Targets -> RecordSet] /\ store[g] \in RecordSet /\ store[g].applied \in Nat
        /\ task[t].phase = "restore"
    BY <1>1 DEF TasksOK, TasksTyped, TaskSet, StoreOK, RecordSet, ApplySnapshot, At
  <1>3. store' = [store EXCEPT ![g] = r] /\ task' = [task EXCEPT ![t] = d]
    BY DEF ApplySnapshot
  <1>4. UNCHANGED <<server, lateAcks, inbox, onStream, failures>>
    BY DEF ApplySnapshot
  <1>5. kept \in RecordSet /\ kept.applied = store[g].applied /\ kept.restored = store[g].restored
        /\ kept.events = store[g].events
    BY <1>2 DEF RecordSet
  <1>6. restored \in RecordSet
    BY <1>2 DEF RecordSet
  <1>7. /\ d \in TaskSet /\ d.phase = "ackSnapshot" /\ d.target = g /\ d.live = task[t].live
        /\ d.stopped = task[t].stopped /\ d.seqs = task[t].seqs /\ d.seq = seq
        /\ d.inCatchUp = task[t].inCatchUp
    BY <1>2 DEF TaskSet
  <1> HIDE DEF kept, d
  <1>8. /\ r \in RecordSet /\ r.applied >= store[g].applied /\ r.applied >= seq
        /\ \A q \in 1..r.applied : q <= r.restored \/ <<g, q>> \in r.events
    <2>1. CASE store[g].applied > seq
      <3>1. r = kept
        BY <2>1
      <3> QED BY <1>1, <1>2, <1>5, <2>1, <3>1 DEF StoreOK, NoSilentGap
    <2>2. CASE ~(store[g].applied > seq)
      <3>1. r = restored
        BY <2>2
      <3>2. restored.applied = seq /\ restored.restored = seq
        OBVIOUS
      <3> HIDE DEF restored
      <3> QED BY <1>2, <1>6, <2>2, <3>1, <3>2
    <2> QED BY <2>1, <2>2
  <1> HIDE DEF r, g, seq
  <1>9. /\ store'[g] = r /\ \A h \in Targets \ {g} : store'[h] = store[h]
        /\ store' \in [Targets -> RecordSet]
    BY <1>2, <1>3, <1>8
  <1>10. Grows
    <2>1. \A h \in Targets : store[h].applied \in Nat
      BY <1>2 DEF RecordSet
    <2> QED BY <1>8, <1>9, <2>1 DEF Grows
  <1>11. StoreOK'
    BY <1>1, <1>8, <1>9 DEF StoreOK, NoSilentGap
  <1>12. TasksOK'
    BY <1>1, <1>2, <1>3, <1>4, <1>7, <1>8, <1>9, <1>10, GoesOnIsSound DEF g, BatchPhases
  <1>13. ServerOK'
    BY <1>1, <1>4, <1>10, ServerStays
  <1> QED BY <1>1, <1>4, <1>11, <1>12, <1>13 DEF Inv, FailuresOK

(* The seq an update reaches.                                              *)
LEMMA ReachedSeq ==
    ASSUME NEW g, NEW a \in Nat, NEW hi \in Nat
    PROVE  Max({a} \cup {e[2] : e \in {g} \X ((a + 1)..hi)}) = Larger(a, hi)
  <1> DEFINE S == {a} \cup {e[2] : e \in {g} \X ((a + 1)..hi)}
             m == Larger(a, hi)
  <1>1. {e[2] : e \in {g} \X ((a + 1)..hi)} = (a + 1)..hi
    <2>1. \A q \in (a + 1)..hi : <<g, q>> \in {g} \X ((a + 1)..hi) /\ <<g, q>>[2] = q
      OBVIOUS
    <2>2. \A e \in {g} \X ((a + 1)..hi) : e[2] \in (a + 1)..hi
      OBVIOUS
    <2> QED BY <2>1, <2>2
  <1>2. S = {a} \cup ((a + 1)..hi)
    BY <1>1
  <1> HIDE DEF S
  <1>3. m \in S /\ m \in Nat /\ (\A y \in S : m >= y) /\ \A y \in S : y \in Nat
    BY <1>2 DEF Larger
  <1>4. Max(S) \in S /\ \A y \in S : Max(S) >= y
    BY <1>3 DEF Max
  <1>5. Max(S) \in Nat /\ Max(S) >= m /\ m >= Max(S)
    BY <1>3, <1>4
  <1> HIDE DEF m
  <1>6. Max(S) = m
    BY <1>3, <1>5
  <1> QED BY <1>6 DEF S, m

LEMMA ApplyEventsStep ==
    ASSUME Inv, NEW t \in Tasks, ApplyEvents(t)
    PROVE  Inv'
  <1> DEFINE g == task[t].target
             a == store[g].applied
             new == {e \in task[t].seqs : e[2] > a}
             reached == Max({a} \cup {e[2] : e \in new})
             r == [store[g] EXCEPT !.events = store[g].events \cup new, !.applied = reached]
             d == [task[t] EXCEPT !.phase = "reread", !.seqs = {}]
  <1>1. TasksOK /\ StoreOK /\ ServerOK /\ FailuresOK
    BY DEF Inv
  <1>2. /\ task[t] \in TaskSet /\ g \in Targets /\ a \in Nat /\ task[t].live \in BOOLEAN
        /\ store \in [Targets -> RecordSet] /\ store[g] \in RecordSet
    BY <1>1 DEF TasksOK, TasksTyped, TaskSet, StoreOK, RecordSet
  <1>3. PICK hi \in Nat : new = {g} \X ((a + 1)..hi)
    BY <1>1, BatchOfTask
  <1>4. store' = [store EXCEPT ![g] = r] /\ task' = [task EXCEPT ![t] = d]
    BY <1>2 DEF ApplyEvents, RecordSet
  <1>5. UNCHANGED <<server, lateAcks, inbox, onStream, failures>>
    BY DEF ApplyEvents
  <1>6. /\ d \in TaskSet /\ d.phase = "reread" /\ d.target = g /\ d.live = task[t].live
        /\ d.stopped = task[t].stopped /\ d.seqs = {} /\ d.inCatchUp = task[t].inCatchUp
        /\ task[t].phase \in BatchPhases
    BY <1>2 DEF TaskSet, ApplyEvents, At, BatchPhases
  <1> HIDE DEF d, new
  <1>7. reached = Larger(a, hi)
    BY <1>2, <1>3, ReachedSeq
  <1>8. reached \in Nat /\ reached >= a /\ reached >= hi /\ reached \in {a, hi}
    <2> HIDE DEF reached, a
    <2> QED BY <1>2, <1>7 DEF Larger
  <1>9. new \subseteq Targets \X Nat
    <2> HIDE DEF a
    <2>1. (a + 1)..hi \subseteq Nat
      BY <1>2
    <2> QED BY <1>2, <1>3, <2>1
  <1> HIDE DEF reached
  <1>10. /\ r \in RecordSet /\ r.applied = reached /\ r.restored = store[g].restored
         /\ r.events = store[g].events \cup new
    BY <1>2, <1>8, <1>9 DEF RecordSet
  <1> HIDE DEF r
  <1>11. \A q \in 1..r.applied : q <= r.restored \/ <<g, q>> \in r.events
    <2> TAKE q \in 1..r.applied
    <2>1. CASE q <= a
      <3>1. q \in 1..a
        BY <1>2, <1>8, <1>10, <2>1
      <3>2. q <= store[g].restored \/ <<g, q>> \in store[g].events
        BY <1>1, <1>2, <3>1 DEF StoreOK, NoSilentGap
      <3> QED BY <1>10, <3>2
    <2>2. CASE ~(q <= a)
      <3>1. q \in (a + 1)..hi
        <4> HIDE DEF a
        <4> QED BY <1>2, <1>8, <1>10, <2>2
      <3>2. <<g, q>> \in new
        BY <1>3, <3>1
      <3> QED BY <1>10, <3>2
    <2> QED BY <2>1, <2>2
  <1> HIDE DEF g
  <1>12. /\ store'[g] = r /\ \A h \in Targets \ {g} : store'[h] = store[h]
         /\ store' \in [Targets -> RecordSet]
    BY <1>2, <1>4, <1>10
  <1>13. Grows
    <2>1. \A h \in Targets : store[h].applied \in Nat
      BY <1>2 DEF RecordSet
    <2>2. r.applied >= store[g].applied
      BY <1>8, <1>10
    <2> QED BY <1>12, <2>1, <2>2 DEF Grows
  <1>14. StoreOK'
    BY <1>1, <1>11, <1>12 DEF StoreOK, NoSilentGap
  <1>15. LocalsSound(d, store') /\ OnceShape(t, d)
    BY <1>1, <1>6, <1>12, NoBatchIsSound DEF TasksOK, TasksTyped, OnceShape
  <1>16. TasksOK'
    BY <1>1, <1>4, <1>5, <1>6, <1>13, <1>15, TaskKeepsStream DEF g
  <1>17. ServerOK'
    BY <1>1, <1>5, <1>13, ServerStays
  <1> QED BY <1>1, <1>5, <1>14, <1>16, <1>17 DEF Inv, FailuresOK
-----------------------------------------------------------------------------
(* The other steps of a running task.                                      *)
LEMMA CatchUpStep ==
    ASSUME Inv, NEW t \in Tasks, CatchUp(t)
    PROVE  Inv'
  <1> DEFINE answer == Answer(task[t].target, task[t].totalLimit)
  <1>1. TasksOK /\ StoreOK /\ ServerOK
    BY DEF Inv
  <1>2. StoreOK' /\ Grows /\ ServerOK' /\ FailuresOK'
    BY OnlyTasks DEF CatchUp
  <1>3. task[t].target \in Targets
    BY <1>1 DEF TasksOK, TasksTyped, TaskSet
  <1>4. /\ answer \in ResponseSet /\ answer.target = task[t].target
        /\ IsNext(store[task[t].target].applied, answer.seqs)
    BY <1>1, <1>3, AnswerParts
  <1>5. \/ Handle(t, answer, TRUE) /\ UNCHANGED <<inbox, onStream>>
        \/ ReturnFromCatchUp(t)
    BY DEF CatchUp
  <1> HIDE DEF answer
  <1>6. CASE Handle(t, answer, TRUE) /\ UNCHANGED <<inbox, onStream>>
    <2>1. PICK d \in TaskSet : /\ task' = [task EXCEPT ![t] = d]
                               /\ OnceShape(t, d) /\ LocalsSound(d, store')
                               /\ d.target = task[t].target /\ d.live = task[t].live
      BY <1>1, <1>2, <1>4, <1>6, HandleParts
    <2>2. TasksOK'
      BY <1>1, <1>2, <1>6, <2>1, TaskKeepsStream
    <2> QED BY <1>2, <2>2 DEF Inv
  <1>7. CASE ReturnFromCatchUp(t)
    BY <1>1, <1>2, <1>7, ReturnIsSound DEF Inv
  <1> QED BY <1>5, <1>6, <1>7

LEMMA GetLatestSnapshotStep ==
    ASSUME Inv, NEW t \in Tasks, GetLatestSnapshot(t)
    PROVE  Inv'
  <1> DEFINE snapshot == server[task[t].target].snapshot
             d == [task[t] EXCEPT !.phase = "restore", !.seq = snapshot]
  <1>1. TasksOK /\ StoreOK /\ ServerOK
    BY DEF Inv
  <1>2. StoreOK' /\ Grows /\ ServerOK' /\ FailuresOK'
    BY OnlyTasks DEF GetLatestSnapshot
  <1>3. task[t] \in TaskSet /\ snapshot \in Nat
    BY <1>1 DEF TasksOK, TasksTyped, TaskSet, ServerOK, ServerSet
  <1>4. \/ Raise(t)
        \/ task' = [task EXCEPT ![t] = d] /\ UNCHANGED <<inbox, onStream>>
    BY DEF GetLatestSnapshot
  <1> HIDE DEF snapshot
  <1>5. /\ d \in TaskSet /\ d.phase = "restore" /\ d.target = task[t].target
        /\ d.live = task[t].live /\ d.stopped = task[t].stopped /\ d.seqs = task[t].seqs
        /\ d.inCatchUp = task[t].inCatchUp
    BY <1>3 DEF TaskSet
  <1> HIDE DEF d
  <1>6. CASE Raise(t)
    BY <1>1, <1>2, <1>6, RaiseIsSound DEF Inv
  <1>7. CASE task' = [task EXCEPT ![t] = d] /\ UNCHANGED <<inbox, onStream>>
    <2>1. TasksOK'
      BY <1>1, <1>2, <1>5, <1>7, GoesOnIsSound DEF BatchPhases
    <2> QED BY <1>2, <2>1 DEF Inv
  <1> QED BY <1>4, <1>6, <1>7

(* An ack that the server handles.                                         *)
LEMMA AckParts ==
    ASSUME Inv, NEW t \in Tasks, task[t].phase \in {"ack", "ackSnapshot"},
           server' = Acked(task[t].target, task[t].seq), UNCHANGED <<lateAcks, store, failures>>
    PROVE  StoreOK' /\ Grows /\ ServerOK' /\ FailuresOK'
  <1>1. /\ task[t].target \in Targets /\ task[t].seq \in Nat
        /\ task[t].seq <= store[task[t].target].applied
    BY DEF Inv, TasksOK, TasksTyped, TaskSet, LocalsSound
  <1>2. ServerOK'
    BY <1>1, AckedIsSound DEF Inv
  <1> QED BY <1>2, StoreStays DEF Inv, FailuresOK

LEMMA AckSnapshotStep ==
    ASSUME Inv, NEW t \in Tasks, AckSnapshot(t)
    PROVE  Inv'
  <1>1. TasksOK /\ StoreOK
    BY DEF Inv
  <1>2. StoreOK' /\ Grows /\ ServerOK' /\ FailuresOK'
    BY AckParts DEF AckSnapshot, At
  <1>3. Raise(t) \/ (Go(t, "catchUp") /\ UNCHANGED <<inbox, onStream>>)
    BY DEF AckSnapshot
  <1>4. TasksOK'
    BY <1>1, <1>2, <1>3, RaiseIsSound, GoIsSound DEF Phases, BatchPhases
  <1> QED BY <1>2, <1>4 DEF Inv

LEMMA FilterBatchStep ==
    ASSUME Inv, NEW t \in Tasks, FilterBatch(t)
    PROVE  Inv'
  <1> DEFINE g == task[t].target
             a == store[g].applied
             new == {e \in task[t].seqs : e[2] > a}
             phase == IF new = {} THEN "reread" ELSE "apply"
             d == [task[t] EXCEPT !.seqs = new, !.phase = phase]
  <1>1. TasksOK /\ StoreOK
    BY DEF Inv
  <1>2. StoreOK' /\ Grows /\ ServerOK' /\ FailuresOK'
    BY OnlyTasks DEF FilterBatch
  <1>3. /\ task[t] \in TaskSet /\ g \in Targets /\ a \in Nat
        /\ new \in SUBSET (Targets \X Nat) /\ phase \in {"reread", "apply"}
    BY <1>1 DEF TasksOK, TasksTyped, TaskSet, StoreOK, RecordSet
  <1>4. PICK hi \in Nat : new = {g} \X ((a + 1)..hi)
    BY <1>1, BatchOfTask
  <1>5. task' = [task EXCEPT ![t] = d] /\ UNCHANGED <<inbox, onStream>> /\ store' = store
    BY DEF FilterBatch
  <1> HIDE DEF phase, new
  <1>6. /\ d \in TaskSet /\ d.phase = phase /\ d.target = g /\ d.live = task[t].live
        /\ d.stopped = task[t].stopped /\ d.seqs = new /\ d.inCatchUp = task[t].inCatchUp
        /\ task[t].phase \in BatchPhases
    BY <1>3 DEF TaskSet, FilterBatch, At, BatchPhases
  <1> HIDE DEF d
  <1>7. LocalsSound(d, store')
    <2>1. (a + 1)..hi \in SUBSET Nat /\ a + 1 \in Nat
      <3> HIDE DEF a
      <3> QED BY <1>3
    <2>2. IsNext(a, (a + 1)..hi)
      <3> HIDE DEF a
      <3> QED BY <1>3, <2>1 DEF IsNext
    <2> QED BY <1>3, <1>4, <1>5, <1>6, <2>1, <2>2 DEF LocalsSound
  <1>8. OnceShape(t, d)
    BY <1>1, <1>3, <1>6 DEF TasksOK, TasksTyped, OnceShape
  <1>9. TasksOK'
    BY <1>1, <1>2, <1>5, <1>6, <1>7, <1>8, TaskKeepsStream
  <1> QED BY <1>2, <1>9 DEF Inv

LEMMA RereadAppliedStep ==
    ASSUME Inv, NEW t \in Tasks, RereadApplied(t)
    PROVE  Inv'
  <1> DEFINE seq == store[task[t].target].applied
             d == [task[t] EXCEPT !.phase = "ack", !.seq = seq]
  <1>1. TasksOK /\ StoreOK
    BY DEF Inv
  <1>2. StoreOK' /\ Grows /\ ServerOK' /\ FailuresOK'
    BY OnlyTasks DEF RereadApplied
  <1>3. task[t] \in TaskSet /\ seq \in Nat
    BY <1>1 DEF TasksOK, TasksTyped, TaskSet, StoreOK, RecordSet
  <1>4. task' = [task EXCEPT ![t] = d] /\ UNCHANGED <<inbox, onStream>> /\ store' = store
    BY DEF RereadApplied
  <1>5. /\ d \in TaskSet /\ d.phase = "ack" /\ d.target = task[t].target
        /\ d.live = task[t].live /\ d.stopped = task[t].stopped /\ d.seqs = task[t].seqs
        /\ d.seq = seq /\ d.inCatchUp = task[t].inCatchUp /\ task[t].phase \in BatchPhases
    <2> HIDE DEF seq
    <2> QED BY <1>3 DEF TaskSet, RereadApplied, At, BatchPhases
  <1> HIDE DEF d
  <1>6. d.seq <= store'[d.target].applied
    BY <1>3, <1>4, <1>5
  <1>7. TasksOK'
    BY <1>1, <1>2, <1>4, <1>5, <1>6, GoesOnIsSound
  <1> QED BY <1>2, <1>7 DEF Inv

LEMMA AckBatchStep ==
    ASSUME Inv, NEW t \in Tasks, AckBatch(t)
    PROVE  Inv'
  <1>1. TasksOK /\ StoreOK
    BY DEF Inv
  <1>2. StoreOK' /\ Grows /\ ServerOK' /\ FailuresOK'
    BY AckParts DEF AckBatch, At
  <1>3. \/ Raise(t)
        \/ ReturnFromCatchUp(t)
        \/ Go(t, "catchUp") /\ UNCHANGED <<inbox, onStream>>
        \/ ~task[t].inCatchUp /\ Go(t, "stream") /\ UNCHANGED <<inbox, onStream>>
    BY DEF AckBatch
  <1>4. t \in OnceTasks => task[t].inCatchUp
    BY <1>1 DEF AckBatch, At, TasksOK, TasksTyped, OnceShape, BatchPhases
  <1>5. CASE Raise(t) \/ ReturnFromCatchUp(t)
    BY <1>1, <1>2, <1>5, RaiseIsSound, ReturnIsSound DEF Inv
  <1>6. CASE Go(t, "catchUp") /\ UNCHANGED <<inbox, onStream>>
    <2>1. TasksOK'
      BY <1>1, <1>2, <1>6, GoIsSound DEF Phases, BatchPhases
    <2> QED BY <1>2, <2>1 DEF Inv
  <1>7. CASE ~task[t].inCatchUp /\ Go(t, "stream") /\ UNCHANGED <<inbox, onStream>>
    <2>1. TasksOK'
      BY <1>1, <1>2, <1>4, <1>7, GoIsSound DEF Phases, BatchPhases
    <2> QED BY <1>2, <2>1 DEF Inv
  <1> QED BY <1>3, <1>5, <1>6, <1>7

LEMMA TakeResponseStep ==
    ASSUME Inv, NEW t \in Tasks, TakeResponse(t)
    PROVE  Inv'
  <1> DEFINE answer == Head(inbox[t])
             rest == Tail(inbox[t])
  <1>1. TasksOK /\ StoreOK
    BY DEF Inv
  <1>2. StoreOK' /\ Grows /\ ServerOK' /\ FailuresOK'
    BY OnlyTasks DEF TakeResponse
  <1>3. /\ t \in LiveTasks /\ t \notin OnceTasks /\ inbox[t] # <<>> /\ Handle(t, answer, FALSE)
        /\ inbox' = [inbox EXCEPT ![t] = rest] /\ onStream' = onStream
    BY ClientAssumption DEF TakeResponse
  <1>4. /\ inbox \in [LiveTasks -> Seq(ResponseSet)] /\ inbox[t] \in Seq(ResponseSet)
        /\ onStream \in [LiveTasks -> SUBSET Targets] /\ store \in [Targets -> RecordSet]
        /\ task[t] \in TaskSet /\ StreamSound(task[t], store, inbox[t], onStream[t])
    BY <1>1, <1>3 DEF TasksOK, TasksTyped, StoreOK
  <1>5. /\ Len(inbox[t]) \in Nat /\ Len(inbox[t]) > 0
        /\ answer = inbox[t][1] /\ answer \in ResponseSet
        /\ rest \in Seq(ResponseSet) /\ Len(rest) = Len(inbox[t]) - 1
        /\ \A i \in 1..Len(rest) : rest[i] = inbox[t][i + 1]
    BY <1>3, <1>4, HeadTailProperties, LenProperties, EmptySeq
  <1> HIDE DEF answer, rest
  <1>6. answer.target = task[t].target /\ IsNext(store[task[t].target].applied, answer.seqs)
    BY <1>4, <1>5 DEF StreamSound
  <1>7. PICK d \in TaskSet : /\ task' = [task EXCEPT ![t] = d]
                             /\ OnceShape(t, d) /\ LocalsSound(d, store')
                             /\ d.target = task[t].target /\ d.live = task[t].live
    BY <1>1, <1>2, <1>3, <1>5, <1>6, HandleParts
  <1>8. StreamSound(task[t], store, rest, onStream[t])
    <2>1. ASSUME NEW i \in 1..Len(rest)
          PROVE  rest[i].target = task[t].target /\ IsNext(store[task[t].target].applied, rest[i].seqs)
      <3>1. rest[i] = inbox[t][i + 1] /\ i + 1 \in 1..Len(inbox[t])
        BY <1>5
      <3> QED BY <1>4, <3>1 DEF StreamSound
    <2>2. task[t].live
      BY <1>3, <1>4 DEF StreamSound
    <2> QED BY <1>4, <2>1, <2>2 DEF StreamSound
  <1>9. StreamSound(d, store', rest, onStream[t])
    BY <1>2, <1>4, <1>7, <1>8, StreamStaysSound
  <1>10. /\ inbox' \in [LiveTasks -> Seq(ResponseSet)] /\ inbox'[t] = rest
         /\ \A u \in LiveTasks \ {t} : inbox'[u] = inbox[u]
    BY <1>3, <1>4, <1>5
  <1>11. TasksOK'
    BY <1>1, <1>2, <1>3, <1>4, <1>7, <1>9, <1>10, TaskMoves
  <1> QED BY <1>2, <1>11 DEF Inv

LEMMA EndStreamStep ==
    ASSUME Inv, NEW t \in Tasks, EndStream(t), UNCHANGED failures
    PROVE  Inv'
  <1>1. StoreOK' /\ Grows /\ ServerOK' /\ FailuresOK'
    BY OnlyTasks DEF EndStream
  <1>2. TasksOK'
    BY <1>1, LeaveIsSound DEF EndStream, Inv
  <1> QED BY <1>1, <1>2 DEF Inv

LEMMA ReconnectStep ==
    ASSUME Inv, NEW t \in Tasks, Reconnect(t)
    PROVE  Inv'
  <1> DEFINE phase == IF task[t].stopped THEN "idle" ELSE "catchUp"
  <1>1. StoreOK' /\ Grows /\ ServerOK' /\ FailuresOK'
    BY OnlyTasks DEF Reconnect
  <1>2. ~task[t].live
    BY DEF Inv, TasksOK, LocalsSound, Reconnect, At
  <1>3. Go(t, phase) /\ UNCHANGED <<inbox, onStream>> /\ phase \in {"idle", "catchUp"}
    BY DEF Reconnect
  <1> HIDE DEF phase
  <1>4. TasksOK'
    BY <1>1, <1>2, <1>3, GoIsSound DEF Inv, Phases, BatchPhases
  <1> QED BY <1>1, <1>4 DEF Inv

LEMMA ProceedStep ==
    ASSUME Inv, NEW t \in Tasks, Proceed(t)
    PROVE  Inv'
  <1>1. CASE Abort(t)
    BY <1>1, EndStreamStep DEF Abort, EndStream
  <1> QED
    BY <1>1, CatchUpStep, GetLatestSnapshotStep, ApplySnapshotStep, AckSnapshotStep,
       FilterBatchStep, ApplyEventsStep, RereadAppliedStep, AckBatchStep, TakeResponseStep,
       ReconnectStep
    DEF Proceed

-----------------------------------------------------------------------------
(* Failures.                                                               *)
LEMMA FailureStep == Inv /\ FailureNext => Inv'
  <1> SUFFICES ASSUME Inv, FailureNext PROVE Inv'
    OBVIOUS
  <1>1. TasksOK /\ StoreOK /\ ServerOK
    BY DEF Inv
  <1>2. StoreOK' /\ Grows
    BY <1>1, StoreStays
    DEF FailureNext, CallBreaks, AckBreaks, ServerClosesStream, EndStream, Restart
  <1>3. Fail => FailuresOK'
    BY ClientAssumption DEF Inv, FailuresOK, Fail
  <1>4. ASSUME NEW t \in Tasks, CallBreaks(t) PROVE Inv'
    <2>1. TasksOK' /\ ServerOK'
      BY <1>1, <1>2, <1>4, RaiseIsSound, ServerStays DEF CallBreaks
    <2> QED BY <1>2, <1>3, <1>4, <2>1 DEF CallBreaks, Inv
  <1>5. ASSUME NEW t \in Tasks, AckBreaks(t) PROVE Inv'
    <2> DEFINE late == <<task[t].target, task[t].seq>>
    <2>1. TasksOK'
      BY <1>1, <1>2, <1>5, RaiseIsSound DEF AckBreaks
    <2>2. /\ task[t].target \in Targets /\ task[t].seq \in Nat
          /\ task[t].seq <= store[task[t].target].applied
      BY <1>1, <1>5 DEF AckBreaks, TasksOK, TasksTyped, TaskSet, LocalsSound
    <2>3. late \in Targets \X Nat /\ late[2] <= store[late[1]].applied
      BY <2>2
    <2>4. lateAcks' = lateAcks \cup {late} /\ server' = server /\ store' = store
      BY <1>5 DEF AckBreaks
    <2> HIDE DEF late
    <2>5. ServerOK'
      BY <1>1, <2>3, <2>4 DEF ServerOK
    <2> QED BY <1>2, <1>3, <1>5, <2>1, <2>5 DEF AckBreaks, Inv
  <1>6. ASSUME NEW t \in Tasks, ServerClosesStream(t) PROVE Inv'
    BY <1>6, EndStreamStep DEF ServerClosesStream, EndStream
  <1>7. CASE Restart
    <2> DEFINE d(t) == [Fresh(t, "idle") EXCEPT !.live = FALSE, !.stopped = FALSE]
    <2>1. task' = [t \in Tasks |-> d(t)]
      BY <1>7 DEF Restart
    <2>2. ASSUME NEW t \in Tasks
          PROVE  /\ d(t) \in TaskSet /\ d(t).phase = "idle" /\ d(t).seqs = {}
                 /\ d(t).live = FALSE /\ d(t).stopped = FALSE
      <3> DEFINE f == Fresh(t, "idle")
      <3>1. f \in TaskSet /\ f.phase = "idle" /\ f.seqs = {}
        BY <1>1, FreshParts DEF TasksOK, TasksTyped, Phases
      <3> HIDE DEF f
      <3>2. LET e == [f EXCEPT !.live = FALSE, !.stopped = FALSE]
            IN  /\ e \in TaskSet /\ e.phase = "idle" /\ e.seqs = {}
                /\ e.live = FALSE /\ e.stopped = FALSE
        BY <3>1 DEF TaskSet
      <3> QED BY <3>2 DEF f
    <2> HIDE DEF d
    <2>3. \A t \in Tasks : LocalsSound(d(t), store') /\ OnceShape(t, d(t))
      BY <1>2, <2>2, NoBatchIsSound DEF Grows, OnceShape, BatchPhases
    <2>4. inbox' = [t \in LiveTasks |-> <<>>] /\ onStream' = [t \in LiveTasks |-> {}]
      BY <1>7 DEF Restart
    <2>5. \A t \in LiveTasks : StreamSound(task'[t], store', inbox'[t], onStream'[t])
      BY <2>4, ClosedIsSound
    <2>6. TasksTyped'
      <3>1. \A t \in OnceTasks : t \in Tasks
        BY DEF Tasks
      <3>2. task' \in [Tasks -> TaskSet] /\ \A t \in OnceTasks : OnceShape(t, task'[t])
        BY <2>1, <2>2, <2>3, <3>1
      <3>3. <<>> \in Seq(ResponseSet)
        OBVIOUS
      <3>4. inbox' \in [LiveTasks -> Seq(ResponseSet)] /\ onStream' \in [LiveTasks -> SUBSET Targets]
        BY <2>4, <3>3
      <3> QED BY <3>2, <3>4 DEF TasksTyped, OnceShape
    <2>7. TasksOK'
      BY <2>1, <2>3, <2>5, <2>6 DEF TasksOK
    <2>8. ServerOK'
      BY <1>1, <1>2, <1>7, ServerStays DEF Restart
    <2> QED BY <1>2, <1>3, <1>7, <2>7, <2>8 DEF Restart, Inv
  <1> QED BY <1>4, <1>5, <1>6, <1>7 DEF FailureNext

-----------------------------------------------------------------------------
LEMMA InvInit == Init => Inv
  <1> SUFFICES ASSUME Init PROVE Inv
    OBVIOUS
  <1> DEFINE v == [head |-> 0, retained |-> 0, cursor |-> 0, snapshot |-> 0]
  <1>1. v \in ServerSet /\ v.cursor = 0 /\ EmptyRecord \in RecordSet /\ EmptyRecord.applied = 0
    BY DEF ServerSet, RecordSet, EmptyRecord
  <1>2. server = [g \in Targets |-> v] /\ lateAcks = {} /\ store = [g \in Targets |-> EmptyRecord]
    BY DEF Init
  <1> HIDE DEF v
  <1>3. ServerOK
    BY <1>1, <1>2 DEF ServerOK
  <1>4. StoreOK
    BY <1>1, <1>2 DEF StoreOK, NoSilentGap
  <1>5. task \in [Tasks -> [phase : {"idle"}, target : Targets, live : {FALSE}, stopped : {FALSE},
                            inCatchUp : {FALSE}, seqs : {{}}, final : {FALSE}, seq : {0},
                            totalLimit : TotalLimits]]
    BY DEF Init
  <1>6. ASSUME NEW t \in Tasks
        PROVE  /\ task[t] \in TaskSet /\ task[t].phase = "idle" /\ task[t].seqs = {}
               /\ ~task[t].live /\ ~task[t].stopped
    <2>1. task[t] \in [phase : {"idle"}, target : Targets, live : {FALSE}, stopped : {FALSE},
                       inCatchUp : {FALSE}, seqs : {{}}, final : {FALSE}, seq : {0},
                       totalLimit : TotalLimits]
      BY <1>5
    <2>2. /\ task[t].phase = "idle" /\ task[t].target \in Targets /\ task[t].live = FALSE
          /\ task[t].stopped = FALSE /\ task[t].seqs = {} /\ task[t].totalLimit \in Nat
      BY <2>1, ClientAssumption
    <2>3. {} \in SUBSET (Targets \X Nat)
      OBVIOUS
    <2>4. task[t] = [phase |-> "idle", target |-> task[t].target, live |-> FALSE,
                     stopped |-> FALSE, inCatchUp |-> FALSE, seqs |-> {}, final |-> FALSE,
                     seq |-> 0, totalLimit |-> task[t].totalLimit]
      BY <2>1
    <2>5. task[t] \in TaskSet
      <3>1. \A g \in Targets, s \in SUBSET (Targets \X Nat), n \in Nat :
               [phase |-> "idle", target |-> g, live |-> FALSE, stopped |-> FALSE,
                inCatchUp |-> FALSE, seqs |-> s, final |-> FALSE, seq |-> 0,
                totalLimit |-> n] \in TaskSet
        BY DEF TaskSet
      <3> QED BY <2>2, <2>3, <2>4, <3>1
    <2> QED BY <2>2, <2>5
  <1>7. inbox = [t \in LiveTasks |-> <<>>] /\ onStream = [t \in LiveTasks |-> {}]
    BY DEF Init
  <1>8. TasksTyped
    <2>1. \A t \in OnceTasks : t \in Tasks
      BY DEF Tasks
    <2>2. \A t \in OnceTasks : OnceShape(t, task[t])
      BY <1>6, <2>1 DEF OnceShape, BatchPhases
    <2>3. task \in [Tasks -> TaskSet]
      BY <1>5, <1>6
    <2>4. <<>> \in Seq(ResponseSet)
      OBVIOUS
    <2> QED BY <1>7, <2>2, <2>3, <2>4 DEF TasksTyped
  <1>9. \A t \in Tasks : LocalsSound(task[t], store)
    BY <1>4, <1>6, NoBatchIsSound DEF StoreOK
  <1>10. \A t \in LiveTasks : StreamSound(task[t], store, inbox[t], onStream[t])
    BY <1>7, ClosedIsSound
  <1>11. FailuresOK
    BY ClientAssumption DEF Init, FailuresOK
  <1> QED BY <1>3, <1>4, <1>8, <1>9, <1>10, <1>11 DEF Inv, TasksOK

LEMMA InvStep == Inv /\ [Next]_vars => Inv'
  <1> SUFFICES ASSUME Inv, [Next]_vars PROVE Inv'
    OBVIOUS
  <1>1. CASE UNCHANGED vars
    <2>1. UNCHANGED <<server, lateAcks, store, failures>> /\ UNCHANGED <<task, inbox, onStream>>
      BY <1>1 DEF vars
    <2>2. StoreOK' /\ Grows /\ ServerOK' /\ FailuresOK'
      BY <2>1, OnlyTasks
    <2>3. TasksOK'
      BY <2>1, <2>2, TasksStay DEF Inv
    <2> QED BY <2>2, <2>3 DEF Inv
  <1>2. ASSUME NEW t \in Tasks, Proceed(t) PROVE Inv'
    BY <1>2, ProceedStep
  <1> QED BY <1>1, <1>2, ServerStep, CallerStep, FailureStep DEF Next

LEMMA AlwaysInv == Spec => []Inv
  <1> QED BY InvInit, InvStep, PTL DEF Spec

(* Every reachable state of the client and its server is well-typed.       *)
THEOREM TypeCorrect == Spec => []TypeOK
  <1> QED BY AlwaysInv, InvImplies, PTL

(* The promise of #applyBatch, for any number of targets, catchUp() calls  *)
(* and subscriptions: no ack, sent, late or handled, is ahead of what the  *)
(* projection store holds.                                                 *)
THEOREM AcksStayBehind == Spec => []AckBehindApplied
  <1> QED BY AlwaysInv, InvImplies, PTL

(* A projection reflects everything up to its applied seq: whatever is     *)
(* redelivered, filtered against an older applied seq, lost or truncated,  *)
(* a batch that reaches the store starts at or before the next event.      *)
THEOREM ProjectionsHaveNoGap == Spec => []NoSilentGap
  <1> QED BY AlwaysInv, InvImplies, PTL
===============================================================================
