---------------------------- MODULE MonitoringPage ----------------------------
(***************************************************************************)
(* The Monitoring page (frontend/src/pages/MonitoringPage.tsx): a          *)
(* collection is started, and three seconds after the answer the page asks *)
(* again and lets the next one be started.                                 *)
(***************************************************************************)
EXTENDS Session

\* due: the next timer to fire; the one that asks again was set first.
MonitoringInit ==
    [busy |-> FALSE, error |-> FALSE, message |-> None, filter |-> Ids, due |-> "nothing"]

\* No overview, no controls.  running is busy.
MonitoringOffered ==
    LET there == ~views["monitoring"].loading /\ views["monitoring"].data # None
    IN  [run |-> there /\ ~page.busy, filter |-> there]

RunCollection ==
    /\ MonitoringOffered.run
    /\ Input
    /\ Send(AboutNothing("collect", Operators))
    /\ page' = [page EXCEPT !.busy = TRUE]
    /\ UNCHANGED <<route, role, db, shell, views>>

CollectionStarted ==
    \E c \in Answers("collect") :
      /\ Done(c)
      /\ page' = [page EXCEPT !.due = IF c.reply = Failed THEN "idle" ELSE "reload"]
      /\ UNCHANGED <<route, role, db, shell, ledger, views>>

MonitoringTimer ==
    /\ On("monitoring") /\ page.due # "nothing"
    /\ IF page.due = "reload"
       THEN page' = [page EXCEPT !.due = "idle"] /\ Reload({"monitoring"})
       ELSE page' = [page EXCEPT !.due = "nothing", !.busy = FALSE] /\ UNCHANGED views
    /\ UNCHANGED <<route, role, calls, db, shell, ledger>>

FilterMonitoring ==
    /\ MonitoringOffered.filter
    /\ \E f \in {Ids, {i \in RowsOf("monitoring") : ContentOf("monitoring", i) = "online"}}
             \ {page.filter} : Local([page EXCEPT !.filter = f])

MonitoringUser == On("monitoring") /\ (RunCollection \/ FilterMonitoring)

MonitoringResumed == On("monitoring") /\ CollectionStarted
=============================================================================
