-------------------------- MODULE MCPolicyEvaluation --------------------------
(***************************************************************************)
(* Instances of PolicyEvaluation for TLC, with history variables that set  *)
(* the occurrences whose recording met another one, or a fault, apart from *)
(* those that were recorded undisturbed.                                   *)
(***************************************************************************)
EXTENDS PolicyEvaluation, TLC

CONSTANTS
  MaxOperations,  \* bound on what operators do to findings and alerts
  MaxFailed       \* bound on the occurrences lost to faults

\* A process has so many threads.
ASSUME ThreadsAssumption == IsFiniteSet(Threads)

VARIABLES
  raced,    \* evaluations whose finding or alert was written while another call was about to write it
  failed,   \* evaluations whose finding or alert was given up
  reopened, \* findings an operator made active again
  operated  \* how many times an operator changed a finding or an alert

historyVars == <<raced, failed, reopened, operated>>

MCInit == Init /\ raced = {} /\ failed = {} /\ reopened = {} /\ operated = 0

\* the threads that would write the row t writes
RecordRivals(t) ==
  {u \in Threads :
     /\ record[u].pc = record[t].pc
     /\ record[t].pc = "bump" => record[u].id = record[t].id
     /\ record[t].pc = "insert" => /\ record[u].device = record[t].device
                                   /\ record[u].policy = record[t].policy
                                   /\ record[u].title = record[t].title}
EmitRivals(t) ==
  {u \in Threads : emit[u].pc = "insert" /\ emit[u].device = emit[t].device /\ emit[u].title = emit[t].title}

Several(threads) == IF Cardinality(threads) > 1 THEN threads ELSE {}
Written(t) == record[t].pc \in {"bump", "insert"} /\ record'[t].pc # record[t].pc /\ findings' # findings
Emitted(t) == emit[t].pc = "insert" /\ alerts' # alerts

\* an occurrence that left a call, or an alert that left emit_alert, without a trace
Dropped(t) ==
  /\ record[t] # NotRecording
  /\ \/ ToRecord(t) /\ record'[t] = NotRecording /\ findings' = findings
     \/ emit[t].pc = "insert" /\ emit'[t] = NotEmitting /\ alerts' = alerts
     \/ emit[t].pc = "lookup" /\ emit'[t] = NotEmitting /\ \A a \in alerts : ~HoldsBack(t, a)

Operated == operated < MaxOperations /\ operated' = operated + 1

Remember ==
  /\ raced' = raced
       \cup {record[u].ref : u \in UNION {Several(RecordRivals(t)) : t \in {x \in Threads : Written(x)}}}
       \cup {emit[u].id : u \in UNION {Several(EmitRivals(t)) : t \in {x \in Threads : Emitted(x)}}}
  /\ failed' = failed \cup {record[t].ref : t \in {x \in Threads : Dropped(x)}}
  /\ Cardinality(failed') <= MaxFailed
  /\ reopened' = reopened \cup
       {f.id : f \in {g \in findings : g.status \in Closed /\ \E h \in findings' : h.id = g.id /\ h.status \in Active}}

MCNext ==
  \/ \E p \in Policies :
       \/ \E name \in Titles : CreatePolicy(p, name) /\ Remember /\ UNCHANGED operated
       \/ \E name \in Titles : UpdatePolicy(p, name) /\ Remember /\ UNCHANGED operated
       \/ DeletePolicy(p) /\ Remember /\ UNCHANGED operated
  \/ \E t \in Threads :
       \/ \E p \in Policies, chosen \in SUBSET Devices : BeginEvaluation(t, p, chosen) /\ Remember /\ UNCHANGED operated
       \/ \E d \in Devices, result \in Results : EvaluateOne(t, d, result) /\ Remember /\ UNCHANGED operated
       \/ RecordOne(t) /\ Remember /\ UNCHANGED operated
       \/ EndEvaluation(t) /\ Remember /\ UNCHANGED operated
  \/ \E f \in findings, status \in Closed \cup Active :
       status # f.status /\ SetFindingStatus(f, status) /\ UNCHANGED policyVars /\ Remember /\ Operated
  \/ \E a \in alerts, status \in AlertStatus :
       /\ status # a.status /\ SetAlertStatus(a, status)
       /\ UNCHANGED <<findings, record, policyVars>> /\ Remember /\ Operated
  \/ Restart /\ Remember /\ UNCHANGED operated

MCSpec == MCInit /\ [][MCNext]_<<vars, historyVars>>

-----------------------------------------------------------------------------
(* Properties.                                                             *)

\* "On FAIL, create/update a Finding": no failed evaluation goes unnoticed. It is
\* in the evidence of a finding or on its way there, unless it met another
\* occurrence of the same finding, or a fault.
FailuresAreFound ==
  \A e \in evaluations : e.result = "fail" =>
    \/ \E f \in findings : e.id \in f.refs
    \/ \E t \in Threads : record[t] # NotRecording /\ record[t].ref = e.id
    \/ e.id \in raced \cup failed

\* Evidence, once given, is kept: only an occurrence that met another one drops out.
EvidenceKept ==
  [][\A f \in findings : \E g \in findings' : g.id = f.id /\ f.refs \ g.refs \subseteq raced']_vars

\* "do NOT insert a new row": a device has one active finding per policy and title,
\* unless two were inserted at once, or an operator made a closed one active again.
OneActiveFinding ==
  \A f, g \in findings :
    /\ f.status \in Active /\ g.status \in Active
    /\ f.device = g.device /\ f.policy = g.policy /\ f.title = g.title
    /\ f.policy # NoPolicy
    => f = g \/ {f.id, g.id} \cap (raced \cup reopened) # {}

\* "Emit an alert for the new finding": every finding has an alert of its device and
\* title, or one on its way, unless a fault prevented it.
FindingsAreAlerted ==
  \A f \in findings :
    \/ \E a \in alerts : a.device = f.device /\ a.title = f.title
    \/ \E t \in Threads : emit[t] # NotEmitting /\ emit[t].id = f.id
    \/ f.id \in failed

\* "identical (device_id, category, title) with status="new" is not duplicated",
\* unless two were inserted at once.
OneNewAlert ==
  \A a, b \in alerts :
    /\ a.status = "new" /\ b.status = "new" /\ a.device = b.device /\ a.title = b.title
    => a = b \/ {a.id, b.id} \cap raced # {}

Symmetry == Permutations(Threads) \cup Permutations(Policies) \cup Permutations(Titles)
=============================================================================
