---------------------------- MODULE ConsoleInvariant ----------------------------
(***************************************************************************)
(* What holds of the console at every moment, part by part: why the        *)
(* properties of Console are true.  It is inductive: every handler, timer, *)
(* render, answer and change by other people keeps it by itself.           *)
(***************************************************************************)
EXTENDS Console

\* The shapes of the server's tables, the ledger and the shell.
LedgerOK(l) == {"inputs", "faults", "changes", "foreign", "carried", "tour"} \subseteq DOMAIN l

ShellOK(s) ==
  /\ {"identity", "form", "toast", "clears", "audits", "search"} \subseteq DOMAIN s
  /\ s.search \in [open: BOOLEAN, devices: (SUBSET Ids) \union {None}, asked: BOOLEAN,
                   reply: (SUBSET Ids) \union {None}]

WorldOK ==
  /\ db \in [Kinds -> [Ids -> Contents]]
  /\ role \in Roles /\ route \in Routes
  /\ LedgerOK(ledger) /\ ledger.tour \in DOMAIN Tours
  /\ ShellOK(shell)

\* The questions the fields of a page can make together.
AskingPages == {"logs", "topology", "dashboard", "compliance"}

Questions(at) ==
  CASE at = "logs" -> {Key(tag, i) : tag \in {"all", "failed"}, i \in {0, 1}}
    [] at = "topology" -> {Key("all", i) : i \in {0} \union Ids}
    [] at = "dashboard" -> {Key("days", i) : i \in Ids}
    [] OTHER -> {Key("unset", 0)} \union {Key("count", Cardinality(rows)) : rows \in SUBSET Ids}

ScheduleFormOK(f) ==
  {"row", "valid", "busy", "error", "enabled"} \subseteq DOMAIN f /\ f.enabled \in Contents

\* The fields of a page that its acts, its hooks and its messages depend on.
PageOK(p, at) ==
  /\ {"busy", "error", "message"} \subseteq DOMAIN p
  /\ at = "schedules" => "form" \in DOMAIN p /\ (p.form # None => ScheduleFormOK(p.form))
  /\ at = "settings" => "form" \in DOMAIN p /\ p.form \in Contents \union {None}
  /\ at = "device" => "timers" \in DOMAIN p /\ p.timers \in Nat
  /\ at = "configurations" => {"diff", "content"} \subseteq DOMAIN p
  /\ at = "monitoring" => "due" \in DOMAIN p /\ (p.due # "nothing" => p.busy)
  /\ at \in AskingPages => "asks" \in DOMAIN p /\ p.asks \in Questions(at)

\* Exactly the hooks of what is mounted are there, each well-formed, and each
\* asks what the route, the role and the fields of the page pose now.
ViewsOK ==
  /\ HooksInv
  /\ \A h \in Hooks : views[h] # None <=> h \in HooksOf(route, role)
  /\ \A h \in Hooks : views[h] # None => views[h].key = DepsOf(h, route, role)

\* The page that sends a live call, and the table the call is about.
Belongs(c, at) ==
  \/ c.op \in ShellOps
  \/ at = "schedules" /\ c.op \in {"schedule", "saveSchedule"} /\ c.kind = "schedules"
  \/ at = "backups" /\ c.op = "startBackup" /\ c.kind = "jobs"
  \/ /\ at = "devices" /\ c.kind = "devices"
     /\ c.op \in {"deleteDevice", "discoverDevice", "saveDevice", "saveThenDiscover"}
  \/ at = "devices" /\ c.op = "backupDevices" /\ c.kind = "jobs"
  \/ at = "device" /\ c.op = "backupThis" /\ c.kind = "jobs"
  \/ at = "configurations" /\ c.op \in {"compare", "view"} /\ c.to = None
  \/ at \in {"findings", "alerts"} /\ c.op = "triage" /\ c.kind = at
  \/ /\ at = "policies" /\ c.kind = "policies"
     /\ c.op \in {"createPolicy", "deletePolicy"} \/ (c.op = "evaluatePolicy" /\ c.to = None)
  \/ at = "monitoring" /\ c.op = "collect" /\ c.to = None
  \/ at = "compliance" /\ c.op = "scan" /\ c.to = None
  \/ at = "settings" /\ c.op = "saveSettings" /\ c.kind = "settings"

CallOK(c) ==
  /\ {"op", "kind", "row", "to", "creates", "allowed", "reply", "live", "id"} \subseteq DOMAIN c
  /\ c.to \in Contents \union {None} /\ c.live \in BOOLEAN
  /\ c.reply \in {None, Failed, "done"}

\* A version is read for a page that shows versions.
Placed(c) ==
  c.live => /\ Belongs(c, route.page)
            /\ c.op \in {"compare", "view"} => ConfigurationsPart(route.id, role) = "versions"

CallsOK ==
  \A c \in calls : CallOK(c) /\ Placed(c) /\ (c.reply = "done" => c.id \in ledger.carried)

\* There is one act at most, the page is busy with it, and no timer that would
\* end the busy time of another one is set.
ActsOf(out) == {c \in out : c.live /\ c.op \in ActOps}

ActsOK ==
  /\ \A c, d \in ActsOf(calls) : c = d
  /\ ActsOf(calls) # {} => page.busy /\ (On("monitoring") => page.due = "nothing")

SecretsOK ==
  On("configurations") /\ ConfigurationsPart(route.id, role) # "versions" =>
    page.diff = None /\ page.content = None

\* A hook whose rows nobody else changed, whose loader does not hide a failure,
\* and for which no change of the page's own still waits to be shown: what it
\* shows, and the answer of its newest request, is what the server would say.
Trusted(h) ==
  CaughtBy(h, views[h].key) = Failed /\ h # "settings" /\ TablesOf(h) \cap ledger.foreign = {}

Awaited(h) ==
  \/ \E c \in calls : /\ c.live /\ c.op \notin ShellOps
                      /\ c.reply = "done" /\ c.to # None /\ c.kind \in TablesOf(h)
  \/ h = "device_jobs" /\ On("device") /\ page.timers > 0

Accurate(v, answer) ==
  /\ ~v.loading /\ ~v.error => v.data.value = answer
  /\ \A r \in NewestOf(v) : r.reply \notin {None, Failed} => r.reply = answer

OwnOK ==
  \A h \in Hooks : views[h] # None /\ Trusted(h) /\ ~Awaited(h) =>
    Accurate(views[h], AnswerOf(h, views[h].key))

\* However handlers, answers, timers, renders and other people interleave, the
\* hooks of what is mounted are there and ask what it poses, every call that a
\* page waits for is that page's own, one act at most runs, and what is shown is
\* the truth or is about to be (App.tsx, hooks.ts, and all pages).
ConsoleInv ==
  /\ WorldOK /\ PageOK(page, route.page) /\ ViewsOK /\ CallsOK
  /\ ActsOK /\ SecretsOK /\ NoticeMeansDone /\ OwnOK
=============================================================================
