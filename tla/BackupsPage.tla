----------------------------- MODULE BackupsPage -----------------------------
(***************************************************************************)
(* The Backups page (frontend/src/pages/BackupsPage.tsx): the jobs, the    *)
(* devices chosen for the next run, and the polling of usePolling while a  *)
(* job that is shown runs.                                                 *)
(***************************************************************************)
EXTENDS Session

BackupsHooks == {"jobs", "backup_devices"}

\* The deps of the jobs hook are [canOperate].
JobsKey(r) == Key(IF r \in Operators THEN "operates" ELSE "views", 0)

\* What the loader of the jobs hook brings: a viewer's is an empty promise.
JobsAnswer(k) == IF k.tag = "views" THEN Nothing ELSE db["jobs"]

BackupsInit ==
    [busy |-> FALSE, error |-> FALSE, message |-> None, selected |-> {}, expanded |-> None,
     filter |-> Ids, at |-> 0, size |-> 1]

\* (mutant) of the jobs that pass the filter
ListedRunning == {i \in RowsOf("jobs") \intersect page.filter : ContentOf("jobs", i) = "running"}

ShownRunning == {i \in RowsOf("jobs") : ContentOf("jobs", i) = "running"}

BackupsFiltered == RowsOf("jobs") \intersect page.filter

\* The body of the page, which a viewer does not get.
BackupsOffered ==
    LET shown == IF role \in Operators THEN Shown(BackupsFiltered, page.at, page.size) ELSE {}
        chips == IF role \in Operators /\ ~views["backup_devices"].loading
                 THEN RowsOf("backup_devices") ELSE {}
    IN  [start |-> role \in Operators /\ ~page.busy,
         filter |-> role \in Operators,
         expand |-> shown,
         turn |-> IF shown = {} THEN {} ELSE BackupsFiltered,
         choose |-> chips,
         clear |-> chips # {} /\ page.selected # {}]

\* start(): the devices chosen now, or all of them, as one new job.
StartBackup ==
    /\ BackupsOffered.start
    /\ \E i \in Free("jobs") : Act(Create("startBackup", "jobs", i, "running", Operators))

\* Whatever is chosen by then is forgotten with the devices that were sent.
BackupStarted ==
    \E c \in Answers("startBackup") :
      /\ Done(c)
      /\ IF c.reply = Failed
         THEN page' = [page EXCEPT !.error = TRUE, !.busy = FALSE] /\ UNCHANGED views
         ELSE page' = [page EXCEPT !.selected = {}, !.busy = FALSE] /\ Reload({"jobs"})
      /\ UNCHANGED <<route, role, db, shell, ledger>>

FilterJobs ==
    /\ BackupsOffered.filter
    /\ \E f \in {Ids, {2}} \ {page.filter} : Local([page EXCEPT !.filter = f, !.at = 0])

BrowseJobs ==
    \/ Turn(BackupsOffered.turn)
    \/ \E i \in BackupsOffered.expand :
         Local([page EXCEPT !.expanded = IF @ = i THEN None ELSE i])

ChooseDevices ==
    \/ \E i \in BackupsOffered.choose : Local([page EXCEPT !.selected = Toggled(@, i)])
    \/ BackupsOffered.clear /\ Local([page EXCEPT !.selected = {}])

\* The interval of usePolling, alive while a shown job is not finished.
Poll ==
    /\ On("backups") /\ ShownRunning # {}
    /\ Reload({"jobs"})
    /\ UNCHANGED <<route, role, page, calls, db, shell, ledger>>

BackupsUser ==
    /\ On("backups")
    /\ StartBackup \/ FilterJobs \/ BrowseJobs \/ ChooseDevices \/ Dismiss

BackupsResumed == On("backups") /\ BackupStarted
=============================================================================
