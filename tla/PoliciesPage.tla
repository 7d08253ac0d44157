----------------------------- MODULE PoliciesPage -----------------------------
(***************************************************************************)
(* The Policies page (frontend/src/pages/PoliciesPage.tsx): the table, the *)
(* details of one policy and the form of a new one.  Nothing is held back  *)
(* by the role or while a request is under way; a failure is an alert().   *)
(***************************************************************************)
EXTENDS Session

PoliciesInit ==
    [busy |-> FALSE, error |-> FALSE, message |-> None, adding |-> FALSE, json |-> TRUE,
     selected |-> None]

\* What can be clicked: the page, or one of the two dialogs over it.
PoliciesOffered ==
    LET table == ~views["policies"].loading /\ ~page.adding /\ page.selected = None
    IN  [add |-> table,
         view |-> IF table THEN RowsOf("policies") ELSE {},
         evaluate |-> page.selected # None, delete |-> page.selected # None,
         save |-> page.adding,
         close |-> page.adding \/ page.selected # None]

\* The rule typed is JSON, as the one the form starts with, or is not.
UsePolicyDialogs ==
    \/ PoliciesOffered.add /\ Local([page EXCEPT !.adding = TRUE, !.json = TRUE])
    \/ \E i \in PoliciesOffered.view : Local([page EXCEPT !.selected = i])
    \/ PoliciesOffered.save /\ Local([page EXCEPT !.json = ~@])
    \/ PoliciesOffered.close /\ Local([page EXCEPT !.adding = FALSE, !.selected = None])

Ask(c) == Input /\ Send(c) /\ UNCHANGED <<route, role, page, db, shell, views>>

\* handleCreatePolicy(): a rule that is not JSON is an alert and nothing else.
CreatePolicy ==
    /\ PoliciesOffered.save /\ page.json
    /\ \E i \in Free("policies") : Ask(Create("createPolicy", "policies", i, "enabled", Admins))

\* handleEvaluate() and handleDelete(), of the policy whose details are open.
EvaluatePolicy ==
    /\ PoliciesOffered.evaluate
    /\ Ask(Update("evaluatePolicy", "policies", page.selected, None, Operators))

DeletePolicy ==
    /\ PoliciesOffered.delete
    /\ Ask(Update("deletePolicy", "policies", page.selected, Gone, Admins))

\* Whichever form is open by then, or whichever policy, is closed.
PolicyAnswered ==
    \E op \in {"createPolicy", "evaluatePolicy", "deletePolicy"} :
    \E c \in Answers(op) :
      /\ Done(c)
      /\ IF c.reply = Failed \/ op = "evaluatePolicy" THEN UNCHANGED <<page, views>>
         ELSE /\ page' = IF op = "createPolicy" THEN [page EXCEPT !.adding = FALSE]
                         ELSE [page EXCEPT !.selected = None]
              /\ Reload({"policies"})
      /\ UNCHANGED <<route, role, db, shell, ledger>>

PoliciesUser ==
    /\ On("policies")
    /\ UsePolicyDialogs \/ CreatePolicy \/ EvaluatePolicy \/ DeletePolicy

PoliciesResumed == On("policies") /\ PolicyAnswered
=============================================================================
