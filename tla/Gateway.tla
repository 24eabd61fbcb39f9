---------------------------- MODULE Gateway ----------------------------
(* The running system: server processes, each with its transfer engine and *)
(* its expiry sweep, and the requests they handle, over one database.      *)
EXTENDS TransferEngine, RequestHandlers

vars == <<entries, balance, pending, status, retryCount, processedAt, overdue,
          settlement, emitted, engine, dueAt, sweep, request>>

Init == StoreInit /\ MemoryInit

Clock == \E p \in Payments : DueDatePasses(p) /\ UNCHANGED memoryVars

Next ==
    \/ \E s \in Servers :
         TransferStep(s) \/ SweepStep(s) \/ WorkerFault(s) \/ Crash(s)
    \/ \E r \in Requests : RequestStep(r) \/ RequestFault(r)
    \/ AdminDashboard
    \/ Clock

Spec == Init /\ [][Next]_vars

-----------------------------------------------------------------------------
(* The worker goroutines are never blocked: their tickers go on firing and *)
(* each statement returns. What clients do, and faults, is left open.      *)
WorkersProgress ==
    \A s \in Servers : WF_vars(TransferStep(s)) /\ WF_vars(SweepStep(s))

FairSpec == Spec /\ WorkersProgress

=============================================================================
