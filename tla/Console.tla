------------------------------- MODULE Console -------------------------------
(***************************************************************************)
(* The console: one mounted page in the shell, the hooks of the page, the  *)
(* handlers that wait for the server, the server, and other people.        *)
(***************************************************************************)
EXTENDS Shell

\* What somebody else, or a job of the server, does to a row.
OthersDo(kind) ==
    CASE kind = "schedules" -> {"disabled", Gone}
      [] kind = "devices" -> {"offline", Gone}
      [] kind = "jobs" -> {"done"}
      [] kind \in {"findings", "alerts"} -> {"resolved"}
      [] kind = "policies" -> {Gone}
      [] kind = "settings" -> {"stored"}
      [] OTHER -> {}

\* Rows that are written and never changed.
Logged(kind) == IF kind \in {"events", "evaluations"} THEN {"failed"} ELSE {}

Others ==
    /\ ledger.changes > 0
    /\ \E kind \in Kinds, i \in Ids :
         \E content \in (IF db[kind][i] = Gone THEN Logged(kind) ELSE OthersDo(kind)) :
           Change(kind, i, content)

-----------------------------------------------------------------------------
\* A page that the user finds with every answer there, or still loading.
Loaded(h, k) ==
    LET r == NewRequest(k)
        answer == AnswerOf(h, k)
        reply == IF answer = Failed THEN CaughtBy(h, k) ELSE answer
    IN  Delivered(Answered(Fresh(k), r, reply), [r EXCEPT !.reply = reply])

\* The page itself by then: what its effects have set.
Found(to) ==
    CASE to.page = "configurations" /\ to.id # 0 ->
           DefaultPair(InitOf(to), to.id, Rows(VersionsOf(to.id)))
      [] to.page = "topology" ->
           [InitOf(to) EXCEPT !.selected = Reselected(None, Rows("devices"))]
      [] to.page = "compliance" ->
           [InitOf(to) EXCEPT !.asks = Key("count", Cardinality(Rows("policies")))]
      [] OTHER -> InitOf(to)

ConsoleInit ==
    /\ \E name \in DOMAIN Tours : LET tour == Tours[name] IN
         /\ db = tour.data
         /\ role \in tour.roles
         /\ route = tour.start
         /\ ledger = [inputs |-> tour.inputs, faults |-> tour.faults, changes |-> tour.changes,
                      foreign |-> {}, carried |-> {}, tour |-> name]
         /\ page = IF tour.loading THEN InitOf(route) ELSE Found(route)
         /\ views = [h \in Hooks |->
                       IF h \notin HooksOf(route, role) THEN None
                       ELSE IF tour.loading THEN Fresh(DepsOf(h, route, role))
                       ELSE Loaded(h, DepsOf(h, route, role))]
    /\ calls = {}
    /\ shell = ShellInit

\* The user acts on the page, if nothing of the shell lies over it.
PageUser ==
    /\ NoDialog /\ ~shell.search.open
    /\ \/ SchedulesUser \/ BackupsUser \/ DevicesUser \/ DetailUser
       \/ ConfigurationsUser \/ TriageUser \/ PoliciesUser \/ MonitoringUser
       \/ LogsUser \/ TopologyUser \/ DashboardUser \/ ComplianceUser \/ SettingsUser

\* A handler goes on after its await.
Resumed ==
    \/ SchedulesResumed \/ BackupsResumed \/ DevicesResumed \/ DetailResumed
    \/ ConfigurationsResumed \/ TriageResumed \/ PoliciesResumed \/ MonitoringResumed
    \/ ComplianceResumed \/ SettingsResumed \/ ShellResumed \/ OrphanAnswered

Timers == DetailTimer \/ MonitoringTimer \/ ComplianceTimer \/ ToastTimer

Deliver(h) ==
    CASE h = "versions" -> DeliverVersions
      [] h = "topology" -> DeliverTopology
      [] h = "scanned_policies" -> DeliverPolicies
      [] OTHER -> DeliverView(h)

Answering == \E h \in HooksOf(route, role) : Serve(h) \/ Deliver(h)

ConsoleNext ==
    \/ PageUser \/ ShellUser \/ ServeCall \/ Resumed \/ Answering \/ SearchLoads
    \/ Poll \/ Timers \/ Others

-----------------------------------------------------------------------------
\* The server carries out what reaches it, the browser resumes what waits, and
\* timers fire.  Of the polls, infinitely many are answered before the next one
\* is sent: an answer that comes after the next poll is thrown away.
ServeNewestJobs == Serve("jobs") /\ NewestOf(views["jobs"]) # NewestOf(views'["jobs"])

DeliverNewestJobs == Deliver("jobs") /\ views["jobs"].loading /\ ~views'["jobs"].loading

ConsoleFairness ==
    /\ WF_session(ServeCall \/ Resumed \/ Timers) /\ WF_session(Poll)
    /\ WF_session(ServeNewestJobs) /\ SF_session(DeliverNewestJobs)

ConsoleSpec == ConsoleInit /\ [][ConsoleNext]_session /\ ConsoleFairness

-----------------------------------------------------------------------------
\* The acts that set busy, of every page but Devices, where the discovery that
\* follows a save starts whether or not another act runs.
ActOps == {"schedule", "startBackup", "backupThis", "compare", "view", "collect"}

\* However answers, timers and reloads interleave, a page never has two of its
\* acts under way: one click is one job, one deletion, one collection
\* (SchedulesPage.tsx act, BackupsPage.tsx start, MonitoringPage.tsx).
OneActAtATime ==
    Cardinality({c \in calls : c.live /\ c.op \in ActOps}) <= 1

\* The tables each hook is answered from: versions of a device that is gone are 404.
TablesOf(h) ==
    CASE h \in {"schedules", "findings", "alerts", "policies", "settings", "events", "evaluations"} -> {h}
      [] h = "scanned_policies" -> {"policies"}
      [] h = "posture" -> {"findings"}
      [] h = "trend" -> {"evaluations"}
      [] h \in {"jobs", "device_jobs"} -> {"jobs"}
      [] h = "versions" -> {"devices", VersionsOf(route.id)}
      [] OTHER -> {"devices"}

Quiet == calls = {} /\ (On("device") => page.timers = 0) /\ (On("monitoring") => ~page.busy)

\* When nothing is under way, a page shows the server's rows as they are, all
\* its own changes among them, unless somebody else changed the table or the
\* answer to a change was lost (reload() after every act).  The loaders that
\* make an empty answer of a failure are left out, and the settings, which are
\* shown as the answer to their last save and not asked for again.
OwnWritesShown ==
    Quiet => \A h \in {g \in Hooks : views[g] # None} :
        LET v == views[h]
        IN  (/\ ~v.loading /\ ~v.error
             /\ CaughtBy(h, v.key) = Failed /\ h # "settings"
             /\ TablesOf(h) \cap ledger.foreign = {}) => v.data.value = AnswerOf(h, v.key)

\* A message that says something was done is about a request the server has
\* carried out, also when acts and forms overlap (setMessage in the pages).
NoticeMeansDone == page.message # None => page.message \in ledger.carried

\* A configuration, or the difference of two, stays on the screen for no role
\* the server would refuse it to, also when the role is changed under it
\* (ConfigurationHistoryPage.tsx:28-45).
SecretsHidden ==
    On("configurations") /\ role \notin Operators =>
        /\ page.diff = None /\ page.content = None
        /\ views["versions"] = None

\* A page does not stay busy: every act ends, also when its request fails
\* (the finally of act() and start()).
BusyEnds == page.busy ~> ~page.busy

\* The jobs that the Backups page shows as running and that are not any more.
Behind ==
    IF On("backups") /\ role \in Operators
    THEN {i \in RowsOf("jobs") : ContentOf("jobs", i) = "running" /\ db["jobs"][i] = "done"} ELSE {}

\* The Backups page learns of the end of the jobs that it shows as running
\* (BackupsPage.tsx:40, usePolling).
JobsAreFollowed == Behind # {} ~> Behind = {}
=============================================================================
