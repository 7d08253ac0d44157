--------------------------- MODULE PolicyEvaluation ---------------------------
(***************************************************************************)
(* PolicyService (policy/service.py) over Findings: policies, their        *)
(* evaluation against devices, and what a failed evaluation leads to.      *)
(*                                                                         *)
(* evaluate_policy runs in a background thread of the request that asked   *)
(* for it, so several run at once, also of one policy.  It reads the       *)
(* policy and the devices once; then, device by device, it evaluates,      *)
(* commits a row, and records a finding if the result is FAIL.             *)
(*                                                                         *)
(* Data abstracted: an evaluation fails or not ("pass" and "unknown" lead  *)
(* to nothing more), whatever the last one said, since the stored data it  *)
(* is computed from may have changed; a policy is its name, which is the   *)
(* title of its findings; its scope filters pick any devices.              *)
(***************************************************************************)
EXTENDS Findings

CONSTANT MaxEvaluations  \* bound on the evaluations ever committed (none is begun after)

ASSUME MaxAssumption == MaxEvaluations \in Nat

VARIABLES
  policies,     \* rows of the policies table
  evaluations,  \* rows of policy_evaluations
  clock,        \* next evaluation id
  task          \* what each thread holds in evaluate_policy()'s locals

policyVars == <<policies, evaluations, clock, task>>
vars == <<findingVars, policyVars>>

NoTitle == "none"
Policy == [state : {"live"}, name : Titles] \cup [state : {"new", "deleted"}, name : {NoTitle}]
Results == {"fail", "not fail"}
Evaluation == [id : Nat, policy : Policies, device : Devices, result : Results]

NoTask == [pc |-> "none"]
Task == [pc : {"loop"}, policy : Policies, name : Titles, todo : SUBSET Devices]

TypeOK ==
  /\ FindingsTypeOK
  /\ policies \in [Policies -> Policy]
  /\ evaluations \subseteq Evaluation
  /\ clock \in Nat \ {0}
  /\ task \in [Threads -> {NoTask} \cup Task]

Init ==
  /\ FindingsInit
  /\ policies = [p \in Policies |-> [state |-> "new", name |-> NoTitle]]
  /\ evaluations = {}
  /\ clock = 1
  /\ task = [t \in Threads |-> NoTask]

Live(p) == policies[p].state = "live"
NameTaken(name) == \E p \in Policies : Live(p) /\ policies[p].name = name

-----------------------------------------------------------------------------
(* Policies.                                                               *)

CreatePolicy(p, name) ==
  /\ policies[p].state = "new"
  /\ ~NameTaken(name)
  /\ policies' = [policies EXCEPT ![p] = [state |-> "live", name |-> name]]
  /\ UNCHANGED <<findingVars, evaluations, clock, task>>

UpdatePolicy(p, name) ==
  /\ Live(p)
  /\ ~NameTaken(name)
  /\ policies' = [policies EXCEPT ![p].name = name]
  /\ UNCHANGED <<findingVars, evaluations, clock, task>>

\* The evaluations go with the policy; its findings stay, without it.
DeletePolicy(p) ==
  /\ Live(p)
  /\ policies' = [policies EXCEPT ![p] = [state |-> "deleted", name |-> NoTitle]]
  /\ evaluations' = {e \in evaluations : e.policy # p}
  /\ findings' = {IF f.policy = p THEN [f EXCEPT !.policy = NoPolicy] ELSE f : f \in findings}
  /\ UNCHANGED <<alertVars, record, clock, task>>

-----------------------------------------------------------------------------
(* One evaluation.                                                         *)

BeginEvaluation(t, p, chosen) ==
  /\ task[t] = NoTask
  /\ Live(p)
  /\ clock <= MaxEvaluations
  /\ task' = [task EXCEPT ![t] = [pc |-> "loop", policy |-> p, name |-> policies[p].name, todo |-> chosen]]
  /\ UNCHANGED <<findingVars, policies, evaluations, clock>>

\* _evaluate_one up to the commit of the row, or, if it failed, into record_finding
EvaluateOne(t, d, result) ==
  /\ task[t] # NoTask
  /\ record[t] = NotRecording
  /\ d \in task[t].todo
  /\ clock <= MaxEvaluations
  /\ ForeignKeys => Live(task[t].policy)
  /\ evaluations' = evaluations \cup
       {[id |-> clock, policy |-> task[t].policy, device |-> d, result |-> result]}
  /\ clock' = clock + 1
  /\ task' = [task EXCEPT ![t].todo = @ \ {d}]
  /\ IF result = "fail" THEN BeginRecord(t, d, task[t].policy, task[t].name, clock) ELSE UNCHANGED record
  /\ UNCHANGED <<alertVars, findings, policies>>

RecordOne(t) ==
  /\ task[t] # NoTask
  /\ record[t] # NotRecording
  /\ RecordStep(t, Live(task[t].policy))
  /\ UNCHANGED policyVars

\* Every device is done; or the row of an evaluation was refused, and the
\* exception leaves the loop.
EndEvaluation(t) ==
  /\ task[t] # NoTask
  /\ record[t] = NotRecording
  /\ task[t].todo = {} \/ Faults \/ (ForeignKeys /\ ~Live(task[t].policy))
  /\ task' = [task EXCEPT ![t] = NoTask]
  /\ UNCHANGED <<findingVars, policies, evaluations, clock>>

\* The process stops: its threads are gone, the rows stay.
Restart ==
  /\ Faults
  /\ emit' = [t \in Threads |-> NotEmitting]
  /\ record' = [t \in Threads |-> NotRecording]
  /\ task' = [t \in Threads |-> NoTask]
  /\ UNCHANGED <<alerts, findings, policies, evaluations, clock>>

Operate ==
  \/ \E f \in findings, status \in Active \cup Closed : SetFindingStatus(f, status) /\ UNCHANGED policyVars
  \/ \E a \in alerts, status \in AlertStatus :
       SetAlertStatus(a, status) /\ UNCHANGED <<findings, record, policyVars>>

Administer(p) ==
  \/ \E name \in Titles : CreatePolicy(p, name) \/ UpdatePolicy(p, name)
  \/ DeletePolicy(p)

Evaluate(t) ==
  \/ \E p \in Policies, chosen \in SUBSET Devices : BeginEvaluation(t, p, chosen)
  \/ \E d \in Devices, result \in Results : EvaluateOne(t, d, result)
  \/ RecordOne(t)
  \/ EndEvaluation(t)

Next ==
  \/ \E p \in Policies : Administer(p)
  \/ \E t \in Threads : Evaluate(t)
  \/ Operate
  \/ Restart

Spec == Init /\ [][Next]_vars

-----------------------------------------------------------------------------
(* Properties.                                                             *)

\* occurrence_count is the number of evaluations in evidence_refs, lost updates,
\* operators and deletions notwithstanding; and an evaluation named there, if it is
\* still in the table, failed, for the device and the policy of the finding.
Supports(e, d, p) == e.result = "fail" /\ e.device = d /\ p \in {e.policy, NoPolicy}
OccurrencesHaveEvidence ==
  \A f \in findings :
    /\ f.count = Cardinality(f.refs)
    /\ \A e \in evaluations : e.id \in f.refs => Supports(e, f.device, f.policy)

-----------------------------------------------------------------------------
(* The inductive invariant: an occurrence that is still to be recorded is  *)
(* known to no finding, and to no other call.                              *)

Drawn == 1..(clock - 1)
ToRecord(t) == record[t].pc \in {"lookup", "bump", "insert"}

IdsDrawn ==
  /\ \A e \in evaluations : e.id \in Drawn
  /\ \A f \in findings : f.id \in f.refs /\ f.refs \subseteq Drawn
  /\ \A t \in Threads : ToRecord(t) => record[t].ref \in Drawn /\ record[t].refs \subseteq Drawn

IdsUnique ==
  /\ \A e, x \in evaluations : e.id = x.id => e = x
  /\ \A f, g \in findings : f.id = g.id => f = g

RefsOwned ==
  \A t \in Threads : ToRecord(t) =>
    /\ \A f \in findings : record[t].ref \notin f.refs
    /\ \A u \in Threads : ToRecord(u) =>
         record[t].ref \notin record[u].refs /\ (u # t => record[t].ref # record[u].ref)

\* What a call read is a finding as it was, and what it adds is a failure of the
\* same device and policy.
ReadWell ==
  \A t \in Threads :
    /\ ToRecord(t) =>
         \A e \in evaluations : e.id \in record[t].refs \cup {record[t].ref} =>
           Supports(e, record[t].device, record[t].policy)
    /\ record[t].pc = "bump" =>
         /\ record[t].count = Cardinality(record[t].refs)
         /\ record[t].id \in record[t].refs
         /\ \A f \in findings : f.id = record[t].id =>
              f.device = record[t].device /\ f.policy \in {record[t].policy, NoPolicy}

FindingsInv ==
  /\ TypeOK
  /\ IdsDrawn
  /\ IdsUnique
  /\ RefsOwned
  /\ ReadWell
  /\ OccurrencesHaveEvidence
=============================================================================
