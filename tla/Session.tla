------------------------------- MODULE Session -------------------------------
(***************************************************************************)
(* What every page of the console shares: the route, the role the requests *)
(* carry, the hooks of the mounted page, the handlers that wait for the    *)
(* server, and the server's rows as far as the pages tell them apart.      *)
(*                                                                         *)
(* A handler that awaits a request is a call: sent, served (carried out or *)
(* refused, and the reply may be lost on its way back), then resumed by an *)
(* action of its page.  A call outlives its page: live says whether the    *)
(* component that sent it is still mounted.                                *)
(***************************************************************************)
EXTENDS AsyncHooks, Table

CONSTANTS Ids,         \* the identities of rows, numbers in the order of the tables
          Kinds,       \* the tables of the server
          Roles,       \* the values of X-Role
          MaxInputs    \* bound: what the user does

ASSUME IdsAreNumbers == 1 \in Ids /\ Ids \subseteq Nat \ {0}

VARIABLES route,    \* the page and parameter of the location hash
          role,     \* X-Role
          page,     \* what the mounted page keeps with useState
          calls,    \* the handlers that wait for the server
          db,       \* the server: the content of every row of every table
          shell,    \* what the application around the pages keeps
          ledger    \* what is left of the bounds, what others changed, what was carried out

Gone == "gone"                      \* the content of a row that does not exist
\* What the pages tell apart of a row: that it exists, its state, its edits.
Contents == {Gone, "enabled", "disabled", "running", "done", "online", "offline", "unknown",
             "edited", "open", "new", "acknowledged", "resolved", "suppressed", "stored", "failed"}

\* Every answer is a table, or some of its rows.
ASSUME AnswersAreRows == Values = [Ids -> Contents]

ASSUME TablesExist ==
    {"schedules", "devices", "jobs", "findings", "alerts", "policies", "versions of 1",
     "versions of 2", "events", "evaluations", "settings"} \subseteq Kinds

\* The reply of a request that was carried out is neither none nor a failure.
ASSUME DoneIsAReply == "done" \notin {None, Failed}

Admins == {"admin"}
Operators == {"admin", "operator"}
ShellOps == {"addDevice", "quickBackup"}

\* The dependencies of a hook, in one shape.
Key(tag, id) == [tag |-> tag, id |-> id]
Always == Key("always", 0)

session == <<route, role, page, calls, db, shell, ledger, views>>

Rows(kind) == {i \in Ids : db[kind][i] # Gone}

Nothing == [i \in Ids |-> Gone]     \* an empty list, or null

\* The rows a hook shows: data ?? [].
RowsOf(h) == IF views[h].data = None THEN {}
             ELSE {i \in Ids : views[h].data.value[i] # Gone}

ContentOf(h, i) == views[h].data.value[i]

-----------------------------------------------------------------------------
\* The user does something; calls are numbered by it.
Input ==
    /\ ledger.inputs > 0
    /\ ledger' = [ledger EXCEPT !.inputs = @ - 1]

Faulty == ledger.faults > 0

\* A call of operation op, by the roles that may, after which row i of a table
\* holds content; creates says whether the row must be new or must exist.
Call(op, kind, i, content, creates, roles) ==
    [op |-> op, kind |-> kind, row |-> i, to |-> content, creates |-> creates,
     allowed |-> role \in roles, reply |-> None, live |-> TRUE, id |-> ledger.inputs]

Update(op, kind, i, content, roles) == Call(op, kind, i, content, FALSE, roles)

AboutNothing(op, roles) == Call(op, "devices", None, None, FALSE, roles)

\* The identities the server can still give to a new row.
Free(kind) == (Ids \ Rows(kind)) \ {c.row : c \in {d \in calls : d.creates /\ d.kind = kind}}

Create(op, kind, i, content, roles) == Call(op, kind, i, content, TRUE, roles)

Send(c) == calls' = calls \union {c}

\* A call about no row at all is refused by the role alone.
Accepts(c) == c.allowed /\ (IF c.row = None THEN TRUE ELSE c.creates <=> db[c.kind][c.row] = Gone)

\* A call that reads, or starts work whose rows come later, changes nothing.
Written(c) == IF c.to = None THEN db ELSE [db EXCEPT ![c.kind][c.row] = c.to]

Replied(c, reply) == calls' = (calls \ {c}) \union {[c EXCEPT !.reply = reply]}

\* A table is foreign once somebody else changed it, or the page cannot know:
\* the shell's own calls are nothing to the page they were sent from.
Foreign(c, lost) ==
    IF (lost \/ ~c.live \/ c.op \in ShellOps) /\ Written(c) # db
    THEN ledger.foreign \union {c.kind} ELSE ledger.foreign

Carried(c, lost) ==
    /\ Accepts(c)
    /\ db' = Written(c)
    /\ ledger' = [ledger EXCEPT !.faults = IF lost THEN @ - 1 ELSE @,
                               !.carried = @ \union {c.id},
                               !.foreign = Foreign(c, lost)]

Carry(c) == Carried(c, FALSE) /\ Replied(c, "done")

Lose(c) == Faulty /\ Carried(c, TRUE) /\ Replied(c, Failed)

Refuse(c) ==
    /\ Replied(c, Failed)
    /\ \/ ~Accepts(c) /\ UNCHANGED ledger
       \/ Accepts(c) /\ Faulty /\ ledger' = [ledger EXCEPT !.faults = @ - 1]
    /\ UNCHANGED db

ServeCall ==
    /\ \E c \in calls : c.reply = None /\ (Carry(c) \/ Lose(c) \/ Refuse(c))
    /\ UNCHANGED <<route, role, page, shell, views>>

-----------------------------------------------------------------------------
\* Somebody else, or a job of the server, changes a row.
Change(kind, i, content) ==
    /\ db[kind][i] # content
    /\ db' = [db EXCEPT ![kind][i] = content]
    /\ ledger' = [ledger EXCEPT !.changes = @ - 1, !.foreign = @ \union {kind}]
    /\ UNCHANGED <<route, role, page, calls, shell, views>>

-----------------------------------------------------------------------------
\* A set of hooks asks again, and the rest stay.
Reload(hooks) ==
    views' = [h \in Hooks |-> IF h \in hooks THEN Reloaded(views[h]) ELSE views[h]]

\* A hook's dependencies change.
AskAgain(h, k) == views' = [views EXCEPT ![h] = Asked(@, k)]

DeliverHook(h) ==
    /\ views[h] # None
    /\ \E r \in views[h].requests :
         r.reply # None /\ views' = [views EXCEPT ![h] = Delivered(@, r)]

\* ... and the page takes notice of it by its next render alone.
DeliverView(h) ==
    DeliverHook(h) /\ UNCHANGED <<route, role, page, calls, db, shell, ledger>>

-----------------------------------------------------------------------------
On(name) == route.page = name

\* The calls of the mounted page that wait to be resumed, and those that run.
Answers(op) == {c \in calls : c.op = op /\ c.live /\ c.reply # None}

Running(op) == {c \in calls : c.op = op /\ c.live}

Done(c) == calls' = calls \ {c}

\* (mutant) not disabled while it runs
NeverBusy(c) ==
    /\ Input /\ Send(c)
    /\ page' = [page EXCEPT !.error = FALSE, !.message = None]
    /\ UNCHANGED <<route, role, db, shell, views>>

\* act() of the pages: busy, the old error and message taken away, the request.
Act(c) ==
    /\ Input /\ Send(c)
    /\ page' = [page EXCEPT !.busy = TRUE, !.error = FALSE, !.message = None]
    /\ UNCHANGED <<route, role, db, shell, views>>

\* (mutants) nothing asked for again; the message set in any case; busy reset
\* after a success alone
NothingReloaded(c, hooks) ==
    /\ Done(c)
    /\ page' = IF c.reply = Failed THEN [page EXCEPT !.error = TRUE, !.busy = FALSE]
               ELSE [page EXCEPT !.message = c.id, !.busy = FALSE]
    /\ UNCHANGED <<route, role, db, shell, ledger, views>>

AlwaysNotices(c, hooks) ==
    /\ Done(c)
    /\ page' = [page EXCEPT !.message = c.id, !.error = (c.reply = Failed), !.busy = FALSE]
    /\ Reload(hooks)
    /\ UNCHANGED <<route, role, db, shell, ledger>>

StaysBusy(c, hooks) ==
    /\ Done(c)
    /\ IF c.reply = Failed
       THEN page' = [page EXCEPT !.error = TRUE] /\ UNCHANGED views
       ELSE page' = [page EXCEPT !.message = c.id, !.busy = FALSE] /\ Reload(hooks)
    /\ UNCHANGED <<route, role, db, shell, ledger>>

\* ... and what it does once the request is through.
ActDone(c, hooks) ==
    /\ Done(c)
    /\ IF c.reply = Failed
       THEN page' = [page EXCEPT !.error = TRUE, !.busy = FALSE] /\ UNCHANGED views
       ELSE page' = [page EXCEPT !.message = c.id, !.busy = FALSE] /\ Reload(hooks)
    /\ UNCHANGED <<route, role, db, shell, ledger>>

\* The user changes something on the page that no one else sees.
Local(p) ==
    /\ Input /\ page' = p
    /\ UNCHANGED <<route, role, calls, db, shell, views>>

\* The cross of the error banner.
Dismiss == page.error /\ Local([page EXCEPT !.error = FALSE])

\* The Pager under the rows of a table: another page, or another size and its
\* first page.
Turn(rows) ==
    /\ rows # {}
    /\ \/ \E p \in PagerTo(rows, page.at, page.size) \ {page.at} : Local([page EXCEPT !.at = p])
       \/ \E n \in {1, 2} \ {page.size} : Local([page EXCEPT !.size = n, !.at = 0])

Toggled(set, i) == IF i \in set THEN set \ {i} ELSE set \union {i}
=============================================================================
