----------------------------- MODULE MCSyncClient -----------------------------
(* Bounded instances of the client for TLC.  The catchUp() call and the    *)
(* subscription are of one binding, and so have the same budget.           *)
EXTENDS SyncClient

MCInit == Init /\ \A t, u \in Tasks : task[t].totalLimit = task[u].totalLimit

MCSpec == MCInit /\ [][Next]_vars /\ Fairness
=============================================================================
