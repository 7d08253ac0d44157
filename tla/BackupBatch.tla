----------------------------- MODULE BackupBatch -----------------------------
(***************************************************************************)
(* What a backup job promises to its caller, with no database, thread or   *)
(* device in sight: a job is accepted for a scope, starts on a part of it, *)
(* records one outcome for each device it started on, and completes when   *)
(* it has recorded all of them, with a status that sums them up.  A job    *)
(* may be given up at any time, but never completes early, and a completed *)
(* job is final.  Jobs do not touch one another.                           *)
(***************************************************************************)
EXTENDS FiniteSets

CONSTANTS Jobs, Devices

VARIABLE batch  \* what is known of each job

Outcomes == {"SUCCESS", "FAILED"}
Nothing == [status |-> "absent", scope |-> {}, selected |-> {}, outcomes |-> {}]

Succeeded(outcomes) == {o \in outcomes : o.status = "SUCCESS"}
StatusOf(outcomes) ==
  IF Succeeded(outcomes) = outcomes THEN "SUCCESS"
  ELSE IF Succeeded(outcomes) = {} THEN "FAILED" ELSE "PARTIAL"

Recorded(j) == {o.device : o \in batch[j].outcomes}

Init == batch = [j \in Jobs |-> Nothing]

Accept(j, scope) ==
  /\ batch[j].status = "absent"
  /\ batch' = [batch EXCEPT ![j].status = "PENDING", ![j].scope = scope]

Start(j, selected) ==
  /\ batch[j].status = "PENDING"
  /\ selected \subseteq batch[j].scope
  /\ batch' = [batch EXCEPT ![j].status = "RUNNING", ![j].selected = selected]

RecordOutcome(j, d, status) ==
  /\ batch[j].status = "RUNNING"
  /\ d \in batch[j].selected \ Recorded(j)
  /\ batch' = [batch EXCEPT ![j].outcomes = @ \cup {[device |-> d, status |-> status]}]

Complete(j) ==
  /\ batch[j].status = "RUNNING"
  /\ Recorded(j) = batch[j].selected
  /\ batch' = [batch EXCEPT ![j].status = StatusOf(batch[j].outcomes)]

Next ==
  \E j \in Jobs :
    \/ \E scope \in SUBSET Devices : Accept(j, scope) \/ Start(j, scope)
    \/ \E d \in Devices, status \in Outcomes : RecordOutcome(j, d, status)
    \/ Complete(j)

Spec == Init /\ [][Next]_batch
=============================================================================
