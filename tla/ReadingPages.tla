---------------------------- MODULE ReadingPages ----------------------------
(***************************************************************************)
(* The pages that only ask (frontend/src/pages/LogsPage.tsx,               *)
(* TopologyPage.tsx, DashboardPage.tsx): a hook's dependencies are fields  *)
(* of the page, so every change of one overtakes the request before it.    *)
(* Of all the fields, asks is the question they make together.             *)
(***************************************************************************)
EXTENDS Session

\* A field that hook h depends on is set, and whatever else p sets with it.
Pose(h, k, p) ==
    /\ k # page.asks
    /\ Input
    /\ page' = [p EXCEPT !.asks = k]
    /\ AskAgain(h, k)
    /\ UNCHANGED <<route, role, calls, db, shell>>

AskTheSame(h) ==
    /\ Input /\ Reload({h})
    /\ UNCHANGED <<route, role, page, calls, db, shell>>

-----------------------------------------------------------------------------
\* The audit log.  The status is one filter, all others are one too: 0 is
\* none, and i one that only event i passes.
LogsHooks == {"log_options", "events"}

LogsInit ==
    [asks |-> Key("all", 0), expanded |-> None, at |-> 0, size |-> 1,
     busy |-> FALSE, error |-> FALSE, message |-> None]

EventsAnswer(k) ==
    [i \in Ids |-> IF k.id \in {0, i} /\ (k.tag = "failed" => db["events"][i] = "failed")
                   THEN db["events"][i] ELSE Gone]

LogsOffered == [expand |-> Shown(RowsOf("events"), page.at, page.size), turn |-> RowsOf("events")]

\* Every filter leads back to the first page.
Narrow(k) == Pose("events", k, [page EXCEPT !.at = 0])

FilterLogs == \E i \in {0, 1} : Narrow(Key(page.asks.tag, i))

\* The tile of the failures is a switch.
SwitchFailures == Narrow(Key(IF page.asks.tag = "failed" THEN "all" ELSE "failed", page.asks.id))

ResetLogs == Narrow(Key("all", 0))

BrowseLogs ==
    \/ Turn(LogsOffered.turn)
    \/ \E i \in LogsOffered.expand :
         Local([page EXCEPT !.expanded = IF @ = i THEN None ELSE i])

LogsUser ==
    /\ On("logs")
    /\ FilterLogs \/ SwitchFailures \/ ResetLogs \/ BrowseLogs \/ AskTheSame("events")

-----------------------------------------------------------------------------
\* The topology: the graph of the filters, and one node of it.
TopologyInit ==
    [asks |-> Key("all", 0), selected |-> None,
     busy |-> FALSE, error |-> FALSE, message |-> None]

TopologyAnswer(k) == [i \in Ids |-> IF k.id \in {0, i} THEN db["devices"][i] ELSE Gone]

\* What is on the screen; the filters are there with the graph only.
TopologyScreen ==
    LET v == views["topology"]
    IN  IF v.loading /\ v.data = None THEN "loading"
        ELSE IF v.error THEN "error" ELSE IF v.data = None THEN "nothing" ELSE "graph"

FilterTopology ==
    /\ TopologyScreen = "graph"
    /\ \E i \in {0} \union Ids : Pose("topology", Key("all", i), page)

SelectNode ==
    /\ TopologyScreen = "graph"
    /\ \E i \in RowsOf("topology") \ {page.selected} : Local([page EXCEPT !.selected = i])

RetryTopology == TopologyScreen = "error" /\ AskTheSame("topology")

\* The effect on the graph: a selection that is not in it becomes its first node.
Reselected(selected, rows) ==
    IF selected \in rows THEN selected
    ELSE IF rows = {} THEN None ELSE CHOOSE i \in rows : Rank(rows, i) = 0

DeliverTopology ==
    /\ DeliverHook("topology")
    /\ LET data == views'["topology"].data
           rows == IF data = None THEN {} ELSE {i \in Ids : data.value[i] # Gone}
       IN  page' = [page EXCEPT !.selected = Reselected(@, rows)]
    /\ UNCHANGED <<route, role, calls, db, shell, ledger>>

TopologyUser == On("topology") /\ (FilterTopology \/ SelectNode \/ RetryTopology)

-----------------------------------------------------------------------------
\* The dashboard: four answers in one, each an empty one if it fails, and the
\* trend over a range of days; evaluation i is in the i-th range and all longer.
DashboardHooks == {"dashboard", "trend"}

DashboardInit ==
    [asks |-> Key("days", 1), busy |-> FALSE, error |-> FALSE, message |-> None]

TrendAnswer(k) == [i \in Ids |-> IF i <= k.id THEN db["evaluations"][i] ELSE Gone]

ChooseRange == \E n \in Ids : Pose("trend", Key("days", n), page)

DashboardUser == On("dashboard") /\ ChooseRange
=============================================================================
