----------------------------- MODULE TriagePages -----------------------------
(***************************************************************************)
(* The Findings and the Alerts page (frontend/src/pages/FindingsPage.tsx,  *)
(* AlertsPage.tsx).  Their buttons follow the status that is shown, are    *)
(* not held back by the role or by a request under way, and a request that *)
(* fails is not caught.                                                    *)
(***************************************************************************)
EXTENDS Session

TriageInit == [busy |-> FALSE, error |-> FALSE, message |-> None, filter |-> Ids]

\* The rows of a hook with one of some statuses; while it loads there is no table.
Listed(h, statuses) ==
    IF views[h].loading THEN {}
    ELSE {i \in RowsOf(h) \intersect page.filter : ContentOf(h, i) \in statuses}

FindingsOffered ==
    [acknowledged |-> Listed("findings", {"open"}),
     resolved |-> Listed("findings", {"open", "acknowledged"}),
     suppressed |-> Listed("findings", {"open", "acknowledged"}),
     filter |-> ~views["findings"].loading]

AlertsOffered ==
    [acknowledged |-> Listed("alerts", {"new"}),
     resolved |-> Listed("alerts", {"new", "acknowledged"}),
     suppressed |-> {},
     filter |-> ~views["alerts"].loading]

Triage(kind, i, status, roles) ==
    /\ Input
    /\ Send(Update("triage", kind, i, status, roles))
    /\ UNCHANGED <<route, role, page, db, shell, views>>

TriageFindings ==
    \/ \E i \in FindingsOffered.acknowledged : Triage("findings", i, "acknowledged", Operators)
    \/ \E i \in FindingsOffered.resolved : Triage("findings", i, "resolved", Operators)
    \/ \E i \in FindingsOffered.suppressed : Triage("findings", i, "suppressed", Admins)

TriageAlerts ==
    \/ \E i \in AlertsOffered.acknowledged : Triage("alerts", i, "acknowledged", Operators)
    \/ \E i \in AlertsOffered.resolved : Triage("alerts", i, "resolved", Operators)

\* After the await: reload(), or a rejection nobody handles.
Triaged ==
    \E c \in Answers("triage") :
      /\ Done(c)
      /\ IF c.reply = Failed THEN UNCHANGED views ELSE Reload({c.kind})
      /\ UNCHANGED <<route, role, page, db, shell, ledger>>

FilterTriage(offered) ==
    offered.filter /\ \E f \in {Ids, {1}} \ {page.filter} : Local([page EXCEPT !.filter = f])

TriageUser ==
    \/ On("findings") /\ (TriageFindings \/ FilterTriage(FindingsOffered))
    \/ On("alerts") /\ (TriageAlerts \/ FilterTriage(AlertsOffered))

TriageResumed == route.page \in {"findings", "alerts"} /\ Triaged
=============================================================================
