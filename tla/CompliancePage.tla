---------------------------- MODULE CompliancePage ----------------------------
(***************************************************************************)
(* The Compliance page (frontend/src/pages/CompliancePage.tsx): the        *)
(* policies, a hook that depends on how many they are, and the scan that   *)
(* evaluates all of them and asks for everything again.  That hook looks   *)
(* for evaluations in the audit log, under a category no audit row has.    *)
(***************************************************************************)
EXTENDS Session

ComplianceHooks == {"scanned_policies", "evaluations", "posture"}

\* asks: policies.data?.length; scans: those under way; busy: scanning;
\* notice: scanMessage; timers: those that will take a notice away.
ComplianceInit ==
    [asks |-> Key("unset", 0), scans |-> {}, notice |-> "nothing", selected |-> None, timers |-> 0,
     busy |-> FALSE, error |-> FALSE, message |-> None]

\* policies.data changes its length: the evaluations are asked for again.
DeliverPolicies ==
    /\ views["scanned_policies"] # None
    /\ \E r \in views["scanned_policies"].requests :
         LET w == Delivered(views["scanned_policies"], r)
             asks == IF w.data = None THEN page.asks
                     ELSE Key("count", Cardinality({i \in Ids : w.data.value[i] # Gone}))
         IN  /\ r.reply # None
             /\ page' = [page EXCEPT !.asks = asks]
             /\ views' = [views EXCEPT !["scanned_policies"] = w,
                            !["evaluations"] = IF asks = page.asks THEN @ ELSE Asked(@, asks)]
    /\ UNCHANGED <<route, role, calls, db, shell, ledger>>

ComplianceOffered ==
    LET rows == RowsOf("scanned_policies")
    IN  [scan |-> ~page.busy /\ rows # {}, details |-> rows, close |-> page.selected # None]

\* runScan(): one request for every policy.
Scan(p) ==
    /\ Input
    /\ calls' = calls \union {Update("scan", "policies", i, None, Operators) :
                                 i \in RowsOf("scanned_policies")}
    /\ page' = [p EXCEPT !.busy = TRUE, !.notice = "running", !.scans = @ \union {ledger.inputs}]
    /\ UNCHANGED <<route, role, db, shell, views>>

\* Run Full Scan waits for the scan before it; Re-evaluate in the details does not.
RunScan == ComplianceOffered.scan /\ page.selected = None /\ Scan(page)

ReEvaluate == ComplianceOffered.close /\ Scan([page EXCEPT !.selected = None])

\* Promise.all: every request of one scan is answered, with whatever reply.
Scanned ==
    /\ \E id \in page.scans :
         LET scan == {c \in Running("scan") : c.id = id}
         IN  /\ \A c \in scan : c.reply # None
             /\ calls' = calls \ scan
             /\ page' = [page EXCEPT !.busy = FALSE, !.notice = "completed",
                                    !.scans = @ \ {id}, !.timers = @ + 1]
    /\ Reload(ComplianceHooks)
    /\ UNCHANGED <<route, role, db, shell, ledger>>

ComplianceTimer ==
    /\ On("compliance") /\ page.timers > 0
    /\ page' = [page EXCEPT !.timers = @ - 1, !.notice = "nothing"]
    /\ UNCHANGED <<route, role, calls, db, shell, ledger, views>>

\* The details of a policy, over the page.
UseDetails ==
    \/ /\ page.selected = None
       /\ \E i \in ComplianceOffered.details : Local([page EXCEPT !.selected = i])
    \/ ComplianceOffered.close /\ Local([page EXCEPT !.selected = None])

ComplianceUser == On("compliance") /\ (RunScan \/ ReEvaluate \/ UseDetails)

ComplianceResumed == On("compliance") /\ Scanned
=============================================================================
