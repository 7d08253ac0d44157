------------------------------- MODULE MCConsole -------------------------------
(***************************************************************************)
(* The console on a small server: two rows at most in every table, and a   *)
(* user who starts on one page, visits a few others, and does two or three *)
(* things, while one request may fail and one row be changed by others.    *)
(***************************************************************************)
EXTENDS ConsoleInvariant

MCIds == {1, 2}

MCKinds == {"schedules", "devices", "jobs", "findings", "alerts", "policies",
            "versions of 1", "versions of 2", "events", "evaluations", "settings"}

MCHooks == UNION {SchedulesHooks, BackupsHooks, DevicesHooks, DetailHooks,
                  {"picker_devices", "version_device", "versions"},
                  {"findings", "alerts", "policies", "monitoring", "topology", "settings"},
                  LogsHooks, DashboardHooks, ComplianceHooks}

MCKeys == {Key(tag, i) : tag \in {"always", "device", "operates", "views", "all", "failed", "days",
                                "unset", "count"} \union Roles, i \in {0, 1, 2}}

MCValues == [Ids -> Contents]

\* One row in every table, and room for another.
OneRow ==
    [k \in Kinds |-> [i \in Ids |->
       IF i = 2 THEN Gone
       ELSE CASE k \in {"schedules", "policies"} -> "enabled"
              [] k = "devices" -> "online"
              [] k = "jobs" -> "running"
              [] k = "findings" -> "open"
              [] k = "alerts" -> "new"
              [] OTHER -> "stored"]]

\* Two rows in every table.
TwoRows ==
    [k \in Kinds |-> [i \in Ids |->
       CASE k = "policies" -> "enabled"
         [] k = "schedules" -> IF i = 1 THEN "enabled" ELSE "disabled"
         [] k = "devices" -> IF i = 1 THEN "online" ELSE "offline"
         [] k = "jobs" -> IF i = 1 THEN "running" ELSE "done"
         [] k = "findings" -> IF i = 1 THEN "open" ELSE "acknowledged"
         [] k = "alerts" -> IF i = 1 THEN "new" ELSE "acknowledged"
         [] OTHER -> "stored"]]

\* A user of one page, and what else may happen.
Tour(start, roles, inputs, data) ==
    [start |-> start, visits |-> {start}, roles |-> roles, inputs |-> inputs, faults |-> 0,
     changes |-> 0, loading |-> FALSE, touches |-> {}, data |-> data]

\* A page that is still loading.
Opened(tour) == [tour EXCEPT !.loading = TRUE]

At(name) == Route(name, 0)
Versions(i) == Route("configurations", i)
Device(i) == Route("device", i)

MCTours ==
    [schedules |-> Tour(At("schedules"), {"admin"}, 3, OneRow),
     failing |-> [Tour(At("schedules"), {"admin"}, 2, OneRow) EXCEPT !.faults = 1],
     shared |-> [Tour(At("schedules"), {"admin"}, 2, TwoRows) EXCEPT !.changes = 1],
     backups |-> [Tour(At("backups"), {"operator"}, 2, OneRow) EXCEPT !.changes = 1],
     polled |-> [Tour(At("backups"), {"operator"}, 2, OneRow) EXCEPT !.faults = 1],
     demoted |-> [Tour(At("backups"), {"operator"}, 3, TwoRows) EXCEPT !.touches = {"identity"}],
     devices |-> [Tour(At("devices"), {"admin"}, 3, OneRow) EXCEPT !.visits = {At("devices"), At("users")}],
     overtaken |-> [Tour(At("devices"), {"admin"}, 2, TwoRows) EXCEPT !.faults = 1, !.changes = 1],
     device |-> [Tour(Device(1), {"operator"}, 2, [OneRow EXCEPT !["devices"] = TwoRows["devices"]])
                     EXCEPT !.visits = {Device(1), Device(2)}],
     removed |-> [Tour(Device(1), {"operator"}, 1, OneRow)
                     EXCEPT !.visits = {Device(1), Device(2)}, !.faults = 1],
     versions |-> [Tour(Versions(1), {"operator"}, 3, TwoRows)
                     EXCEPT !.touches = {"identity"}, !.visits = {Versions(1), Versions(2)}],
     withdrawn |-> [Tour(Versions(1), {"operator"}, 2, OneRow) EXCEPT !.changes = 1],
     compared |-> [Tour(At("configurations"), {"operator"}, 4, TwoRows)
                     EXCEPT !.visits = {Versions(1)}, !.faults = 1],
     findings |-> [Tour(At("findings"), {"admin"}, 2, TwoRows) EXCEPT !.changes = 1],
     alerts |-> [Tour(At("alerts"), {"operator"}, 3, OneRow) EXCEPT !.faults = 1],
     policies |-> [Tour(At("policies"), {"admin"}, 3, OneRow) EXCEPT !.faults = 1, !.changes = 1],
     monitoring |-> [Tour(At("monitoring"), {"operator"}, 4, TwoRows) EXCEPT !.faults = 1],
     logs |-> [Tour(At("logs"), {"viewer"}, 3, TwoRows) EXCEPT !.faults = 1],
     logged |-> [Tour(At("logs"), {"viewer"}, 2, OneRow) EXCEPT !.changes = 1],
     topology |-> [Tour(At("topology"), {"viewer"}, 3, TwoRows) EXCEPT !.faults = 1],
     opened |-> [Opened(Tour(At("topology"), {"viewer"}, 1, TwoRows)) EXCEPT !.faults = 1, !.changes = 1],
     dashboard |-> [Tour(At("dashboard"), {"viewer"}, 2, TwoRows) EXCEPT !.faults = 1, !.changes = 1],
     compliance |-> Tour(At("compliance"), {"operator"}, 3, OneRow),
     scanned |-> [Opened(Tour(At("compliance"), {"operator"}, 0, OneRow)) EXCEPT !.changes = 1],
     counted |-> [Tour(At("compliance"), {"operator"}, 1, TwoRows) EXCEPT !.changes = 1],
     settings |-> [Tour(At("settings"), {"admin"}, 3, OneRow) EXCEPT !.faults = 1, !.changes = 1],
     adding |-> [Tour(At("users"), {"admin"}, 4, OneRow)
                     EXCEPT !.touches = {"form"}, !.faults = 1],
     quick |-> [Tour(At("users"), {"operator", "viewer"}, 2, OneRow)
                     EXCEPT !.touches = {"quick"}, !.faults = 1],
     searching |-> [Tour(At("users"), {"operator"}, 4, OneRow)
                     EXCEPT !.touches = {"search"}, !.faults = 1]]

===============================================================================
