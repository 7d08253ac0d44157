-------------------------------- MODULE Router --------------------------------
(***************************************************************************)
(* From the location hash to the mounted page (frontend/src/App.tsx and    *)
(* useHashRoute of frontend/src/hooks.ts).  React keeps the state of a     *)
(* component that stays where it is, so going from one device to another   *)
(* or changing the role asks again and resets nothing; any other page      *)
(* starts from its initial state, and what the old one sent is orphaned.   *)
(***************************************************************************)
EXTENDS SchedulesPage, BackupsPage, DevicesPage, DeviceDetailPage,
        ConfigurationHistoryPage, TriagePages, PoliciesPage, MonitoringPage,
        ReadingPages, CompliancePage, SettingsPage

Route(name, id) == [page |-> name, id |-> id]

\* The pages, those whose content is not modelled among them.
Pages == {"dashboard", "alerts", "findings", "devices", "device", "topology", "compliance",
          "monitoring", "policies", "ai", "backups", "schedules", "configurations", "logs",
          "settings", "users", "integrations", "notifications", "audit"}

\* Where the hash can lead: a page, and a row or none.
Routes == [page: Pages, id: {0} \union Ids]

\* The switch of Page(): what is mounted for a route.
Component(to, r) ==
    IF to.page = "configurations"
    THEN <<to.page, ConfigurationsPart(to.id, r)>> ELSE <<to.page>>

HooksOf(to, r) ==
    CASE to.page = "schedules" -> SchedulesHooks
      [] to.page = "backups" -> BackupsHooks
      [] to.page = "devices" -> DevicesHooks
      [] to.page = "device" -> DetailHooks
      [] to.page = "configurations" -> ConfigurationsHooks(ConfigurationsPart(to.id, r))
      [] to.page = "dashboard" -> DashboardHooks
      [] to.page = "logs" -> LogsHooks
      [] to.page = "compliance" -> ComplianceHooks
      [] to.page \in {"findings", "alerts", "policies", "monitoring", "topology", "settings"} -> {to.page}
      [] OTHER -> {}

ASSUME PagesHaveHooks ==
    UNION {SchedulesHooks, BackupsHooks, DevicesHooks, DetailHooks, ConfigurationsHooks("picker"),
           ConfigurationsHooks("versions"), DashboardHooks, LogsHooks, ComplianceHooks,
           {"findings", "alerts", "policies", "monitoring", "topology", "settings"}} \subseteq Hooks

InitOf(to) ==
    CASE to.page = "schedules" -> SchedulesInit
      [] to.page = "backups" -> BackupsInit
      [] to.page = "devices" -> DevicesInit
      [] to.page = "device" -> DetailInit
      [] to.page = "configurations" -> ConfigurationsInit
      [] to.page \in {"findings", "alerts"} -> TriageInit
      [] to.page = "policies" -> PoliciesInit
      [] to.page = "monitoring" -> MonitoringInit
      [] to.page = "dashboard" -> DashboardInit
      [] to.page = "logs" -> LogsInit
      [] to.page = "topology" -> TopologyInit
      [] to.page = "compliance" -> ComplianceInit
      [] to.page = "settings" -> SettingsInit
      [] OTHER -> [busy |-> FALSE, error |-> FALSE, message |-> None]

\* The hooks whose dependencies are fields of their page.
AskingHooks == {"events", "topology", "trend", "evaluations"}

\* Whatever a hook can depend on is one of the keys.
ASSUME DependenciesAreKeys ==
    /\ \A i \in {0} \union Ids :
         \A tag \in Roles \union {"always", "device", "operates", "views", "all", "failed", "days", "unset"} :
           Key(tag, i) \in Keys
    /\ \A rows \in SUBSET Ids : Key("count", Cardinality(rows)) \in Keys

\* The dependencies of every hook.
DepsOf(h, to, r) ==
    CASE h = "jobs" -> JobsKey(r)
      [] h \in DetailHooks -> DetailKey(h, to.id, r)
      [] h \in {"version_device", "versions"} -> Key("device", to.id)
      [] h \in AskingHooks -> IF On(to.page) THEN page.asks ELSE InitOf(to).asks
      [] OTHER -> Always

\* What the server answers to it, and what a loader makes of a failure.
AnswerOf(h, k) ==
    CASE h = "jobs" -> JobsAnswer(k)
      [] h \in DetailHooks -> DetailAnswer(h, k)
      [] h \in {"version_device", "versions"} -> VersionsAnswer(h, k.id)
      [] h = "events" -> EventsAnswer(k)
      [] h = "topology" -> TopologyAnswer(k)
      [] h = "trend" -> TrendAnswer(k)
      [] h \in {"scheduler", "evaluations"} -> Nothing
      [] h \in {"schedules", "findings", "alerts", "policies", "settings"} -> db[h]
      [] h = "scanned_policies" -> db["policies"]
      [] h = "posture" -> db["findings"]
      [] OTHER -> db["devices"]

CaughtBy(h, k) ==
    IF h \in {"health", "scheduler", "dashboard"} \/ k.tag \in {"views", "viewer"} THEN Nothing ELSE Failed

\* The server answers a request of hook h, or fails it.  Where the loader
\* itself catches, the page gets a value instead of the failure.
Serve(h) ==
    /\ views[h] # None
    /\ \E r \in views[h].requests :
         /\ r.reply = None
         /\ \/ /\ LET answer == AnswerOf(h, r.key)
                  IN  views' = [views EXCEPT ![h] =
                        Answered(@, r, IF answer = Failed THEN CaughtBy(h, r.key) ELSE answer)]
               /\ UNCHANGED ledger
            \/ /\ Faulty
               /\ views' = [views EXCEPT ![h] = Answered(@, r, CaughtBy(h, r.key))]
               /\ ledger' = [ledger EXCEPT !.faults = @ - 1]
    /\ UNCHANGED <<route, role, page, calls, db, shell>>

-----------------------------------------------------------------------------
\* (mutant) a dependency forgotten: a component that stays does not ask again
NeverAsksAgain(to, r, out) ==
    LET same == Component(to, r) = Component(route, role)
    IN  /\ route' = to /\ role' = r
        /\ page' = IF same THEN page ELSE InitOf(to)
        /\ calls' = IF same THEN out ELSE {[c EXCEPT !.live = c.op \in ShellOps] : c \in out}
        /\ views' = [h \in Hooks |->
                       IF h \notin HooksOf(to, r) THEN None
                       ELSE IF ~same THEN Fresh(DepsOf(h, to, r)) ELSE views[h]]

\* A render with a new route or role, of an application with these calls out.
Render(to, r, out) ==
    LET same == Component(to, r) = Component(route, role)
        of(h) == DepsOf(h, to, r)
    IN  /\ route' = to /\ role' = r
        /\ page' = IF same THEN page ELSE InitOf(to)
        /\ calls' = IF same THEN out ELSE {[c EXCEPT !.live = c.op \in ShellOps] : c \in out}
        /\ views' = [h \in Hooks |->
                       IF h \notin HooksOf(to, r) THEN None
                       ELSE IF ~same THEN Fresh(of(h))
                       ELSE IF views[h].key # of(h) THEN Asked(views[h], of(h)) ELSE views[h]]

\* An answer for a page that is gone: nothing there is left to be told.
OrphanAnswered ==
    /\ \E c \in calls : /\ ~c.live /\ c.reply # None
                        /\ c.op = "saveThenDiscover" => c.reply = Failed
                        /\ Done(c)
    /\ UNCHANGED <<route, role, page, db, shell, ledger, views>>
=============================================================================
