------------------------------- MODULE Findings -------------------------------
(***************************************************************************)
(* FindingsService (findings/service.py) over Alerts: record_finding with  *)
(* its deduplication, and the transitions an operator makes.               *)
(*                                                                         *)
(* record_finding looks for an active finding of the same device, policy   *)
(* and title.  It adds the occurrence to the one it read, or inserts a new *)
(* one and emits an alert for it.  What it writes back to an old finding   *)
(* (count and evidence) was computed from what it read.                    *)
(*                                                                         *)
(* Data abstracted: a finding's id is that of the evaluation it was made   *)
(* for; evidence_refs is a set, since an evaluation is recorded once.      *)
(* Severity, category, texts and times (resolved_at too) play no part.     *)
(***************************************************************************)
EXTENDS Alerts

CONSTANTS
  Policies,    \* policy ids
  NoPolicy,    \* policy_id is null
  ForeignKeys  \* TRUE: PostgreSQL; FALSE: SQLite, which checks none

ASSUME FindingsAssumption ==
  /\ NoPolicy \notin Policies
  /\ ForeignKeys \in BOOLEAN

VARIABLES
  findings,  \* rows of the findings table
  record     \* what each thread holds in record_finding()'s locals

findingVars == <<alertVars, findings, record>>

Active == {"open", "acknowledged"}
Closed == {"resolved", "suppressed"}

Finding == [id : Nat, device : Devices, policy : Policies \cup {NoPolicy}, title : Titles,
            status : Active \cup Closed, count : Nat, refs : SUBSET Nat]

NotRecording == [pc |-> "none"]
Recording == [pc : {"lookup", "bump", "insert", "alert"}, device : Devices, policy : Policies,
              title : Titles,
              ref : Nat,          \* evidence_refs: the one evaluation
              id : Nat,           \* existing.id
              count : Nat,        \* existing.occurrence_count
              refs : SUBSET Nat]  \* existing.evidence_refs

FindingsTypeOK ==
  /\ AlertsTypeOK
  /\ findings \subseteq Finding
  /\ record \in [Threads -> {NotRecording} \cup Recording]

FindingsInit ==
  /\ AlertsInit
  /\ findings = {}
  /\ record = [t \in Threads |-> NotRecording]

-----------------------------------------------------------------------------

Occurrence(d, p, title, ref) ==
  [pc |-> "lookup", device |-> d, policy |-> p, title |-> title, ref |-> ref,
   id |-> 0, count |-> 0, refs |-> {}]
BeginRecord(t, d, p, title, ref) ==
  record' = [record EXCEPT ![t] = Occurrence(d, p, title, ref)]
EndRecord(t) == record' = [record EXCEPT ![t] = NotRecording]

\* (mutant) only open findings count as present
SameOpen(t, f) ==
  /\ f.device = record[t].device /\ f.policy = record[t].policy /\ f.title = record[t].title
  /\ f.status = "open"

SameFinding(t, f) ==
  /\ f.device = record[t].device /\ f.policy = record[t].policy /\ f.title = record[t].title
  /\ f.status \in Active

\* limit(1): any one of those that fit
LookupFinding(t) ==
  /\ record[t].pc = "lookup"
  /\ \/ \E f \in findings :
          /\ SameFinding(t, f)
          /\ record' = [record EXCEPT ![t].pc = "bump", ![t].id = f.id,
                                      ![t].count = f.count, ![t].refs = f.refs]
     \/ /\ \A f \in findings : ~SameFinding(t, f)
        /\ record' = [record EXCEPT ![t].pc = "insert"]
  /\ UNCHANGED <<alertVars, findings>>

\* (mutants) the evidence of this occurrence alone; no evidence of it; the count
\* incremented in the database while the evidence is still what was read
LatestOnly(t, f) == [f EXCEPT !.count = record[t].count + 1, !.refs = {record[t].ref}]
CountsOnly(t, f) == [f EXCEPT !.count = record[t].count + 1]
CountsInPlace(t, f) == [f EXCEPT !.count = @ + 1, !.refs = record[t].refs \cup {record[t].ref}]

\* The UPDATE writes the columns that were assigned, and no other.
Bumped(t, f) ==
  [f EXCEPT !.count = record[t].count + 1, !.refs = record[t].refs \cup {record[t].ref}]

BumpFinding(t) ==
  /\ record[t].pc = "bump"
  /\ findings' = {IF f.id = record[t].id THEN Bumped(t, f) ELSE f : f \in findings}
  /\ EndRecord(t)
  /\ UNCHANGED alertVars

NewFinding(t) ==
  [id |-> record[t].ref, device |-> record[t].device, policy |-> record[t].policy,
   title |-> record[t].title, status |-> "open",
   count |-> 1, refs |-> {record[t].ref}]

InsertFinding(t, policyExists) ==
  /\ record[t].pc = "insert"
  /\ ForeignKeys => policyExists
  /\ findings' = findings \cup {NewFinding(t)}
  /\ BeginEmit(t, record[t].ref, record[t].device, record[t].title)
  /\ record' = [record EXCEPT ![t].pc = "alert"]
  /\ UNCHANGED alerts

Alerting(t) ==
  /\ record[t].pc = "alert"
  /\ EmitStep(t)
  /\ IF emit'[t] = NotEmitting THEN EndRecord(t) ELSE UNCHANGED record
  /\ UNCHANGED findings

\* The database refuses: who called record_finding logs the exception and goes on.
RecordFails(t, policyExists) ==
  /\ record[t].pc \in {"lookup", "bump", "insert"}
  /\ Faults \/ (record[t].pc = "insert" /\ ForeignKeys /\ ~policyExists)
  /\ EndRecord(t)
  /\ UNCHANGED <<alertVars, findings>>

RecordStep(t, policyExists) ==
  \/ LookupFinding(t) \/ BumpFinding(t) \/ InsertFinding(t, policyExists)
  \/ Alerting(t) \/ RecordFails(t, policyExists)

\* acknowledge, resolve and suppress take a finding from any status to theirs.
SetFindingStatus(f, status) ==
  /\ f \in findings
  /\ status \in {"acknowledged", "resolved", "suppressed"}
  /\ findings' = (findings \ {f}) \cup {[f EXCEPT !.status = status]}
  /\ UNCHANGED <<alertVars, record>>
=============================================================================
