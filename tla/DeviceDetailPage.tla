--------------------------- MODULE DeviceDetailPage ---------------------------
(***************************************************************************)
(* The page of one device (DeviceDetailPage of                             *)
(* frontend/src/pages/DevicesPage.tsx).  It stays mounted from one device  *)
(* to the next: the hooks ask again, everything else is kept.              *)
(***************************************************************************)
EXTENDS Session

\* The interfaces stand for the neighbors too: asked for and shown alike.
DetailHooks == {"summary", "interfaces", "health", "device_jobs"}

DetailKey(h, i, r) == IF h = "device_jobs" THEN Key(r, i) ELSE Key("device", i)

\* One device's row alone, or 404; the jobs of a viewer are an empty promise.
DetailAnswer(h, k) ==
    IF h = "device_jobs" THEN (IF k.tag = "viewer" THEN Nothing ELSE db["jobs"])
    ELSE IF db["devices"][k.id] = Gone THEN Failed
    ELSE [Nothing EXCEPT ![k.id] = db["devices"][k.id]]

DetailInit == [busy |-> FALSE, error |-> FALSE, message |-> None, timers |-> 0]

\* The page is its summary: without one there is a skeleton or an error.
DetailScreen ==
    IF views["summary"].data # None THEN "device"
    ELSE IF views["summary"].loading THEN "loading" ELSE "not found"

\* backupNow(): the device of the route, whichever the page still shows.
BackUpThis ==
    /\ DetailScreen = "device" /\ role # "viewer" /\ ~page.busy
    /\ \E i \in Free("jobs") : Act(Create("backupThis", "jobs", i, "running", Operators))

\* The jobs are not asked for now but in a second and a half, once.
BackUpThisDone ==
    \E c \in Answers("backupThis") :
      /\ Done(c)
      /\ page' = IF c.reply = Failed
                 THEN [page EXCEPT !.error = TRUE, !.busy = FALSE]
                 ELSE [page EXCEPT !.timers = @ + 1, !.busy = FALSE]
      /\ UNCHANGED <<route, role, db, shell, ledger, views>>

DetailTimer ==
    /\ On("device") /\ page.timers > 0
    /\ page' = [page EXCEPT !.timers = @ - 1]
    /\ Reload({"device_jobs"})
    /\ UNCHANGED <<route, role, calls, db, shell, ledger>>

DetailUser == On("device") /\ (BackUpThis \/ Dismiss)

DetailResumed == On("device") /\ (BackUpThisDone \/ DetailTimer)
=============================================================================
